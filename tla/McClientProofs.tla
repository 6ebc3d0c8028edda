--------------------------- MODULE McClientProofs ---------------------------
(***************************************************************************)
(* Proofs about McClient, for every set of programs, a server that may     *)
(* refuse any request or die at any time, and every order of their steps.  *)
(***************************************************************************)
EXTENDS McClient, SequenceLemmas

\* Updating a dictionary.
LEMMA Updated ==
    ASSUME NEW d, NEW e
    PROVE  /\ DOMAIN Update(d, e) = DOMAIN d \cup DOMAIN e
           /\ Update(d, e) = [k \in DOMAIN Update(d, e) |-> Update(d, e)[k]]
           /\ \A k \in DOMAIN e : Update(d, e)[k] = e[k]
           /\ \A k \in DOMAIN d \ DOMAIN e : Update(d, e)[k] = d[k]
  BY DEF Update

\* What is known of a call, before and after sasl_auth_cram_md5 goes on.
LEMMA CallFields ==
    ASSUME NEW c \in CallsMade
    PROVE  /\ DOMAIN c = {"req", "want", "keep"}
           /\ c.req \in Request
           /\ c.keep \in BOOLEAN
           /\ c.keep => c.req.cmd \notin {"getMulti", "stats"}
  <1>1. CASE c \in Calls
    BY <1>1, ProgramsAssumption
  <1>2. CASE \E d \in Calls : c = [d EXCEPT !.req.cmd = "sasl_step"]
    <2>1. PICK d \in Calls : c = [d EXCEPT !.req.cmd = "sasl_step"]
      BY <1>2
    <2>2. /\ DOMAIN d = {"req", "want", "keep"}
          /\ d.req \in Request
          /\ d.keep \in BOOLEAN
      BY ProgramsAssumption
    <2>3. /\ DOMAIN c = DOMAIN d
          /\ c.req = [d.req EXCEPT !.cmd = "sasl_step"]
          /\ c.keep = d.keep
      BY <2>1, <2>2
    <2>4. c.req \in Request /\ c.req.cmd = "sasl_step"
      BY <2>2, <2>3 DEF Request, Commands
    <2> QED
      BY <2>2, <2>3, <2>4
  <1> QED
    BY <1>1, <1>2 DEF CallsMade

\* A call of sasl_auth_cram_md5 that has got its challenge is a call.
LEMMA GoesOn ==
    ASSUME NEW c \in CallsMade, c.req.cmd = "cram"
    PROVE  LET d == [c EXCEPT !.req.cmd = "sasl_step"] IN
           /\ d \in CallsMade
           /\ d.req = [c.req EXCEPT !.cmd = "sasl_step"]
           /\ d.req.cmd = "sasl_step"
  <1> DEFINE d == [c EXCEPT !.req.cmd = "sasl_step"]
  <1>1. DOMAIN c = {"req", "want", "keep"} /\ c.req \in Request
    BY CallFields
  <1>2. d.req = [c.req EXCEPT !.cmd = "sasl_step"]
    BY <1>1
  <1>3. d.req.cmd = "sasl_step"
    BY <1>1, <1>2 DEF Request
  <1>4. c \in Calls
    <2>1. CASE \E b \in Calls : c = [b EXCEPT !.req.cmd = "sasl_step"]
      <3>1. PICK b \in Calls : c = [b EXCEPT !.req.cmd = "sasl_step"]
        BY <2>1
      <3>2. DOMAIN b = {"req", "want", "keep"} /\ b.req \in Request
        BY ProgramsAssumption
      <3>3. c.req = [b.req EXCEPT !.cmd = "sasl_step"]
        BY <3>1, <3>2
      <3>4. c.req.cmd = "sasl_step"
        BY <3>2, <3>3 DEF Request
      <3> QED
        BY <3>4
    <2> QED
      BY <2>1 DEF CallsMade
  <1> QED
    BY <1>2, <1>3, <1>4 DEF CallsMade

\* The items and the replies of the server.
Items   == [val : Value, flags : Nat, cas : Nat]
Replies == [st : Status, val : Value, flags : Nat, cas : Int]

\* Some arithmetic that SMT has to do without the records.
LEMMA Decreased == ASSUME NEW n \in Int PROVE Max({0, n}) \in Int
  <1>1. \E m \in {0, n} : \A k \in {0, n} : m >= k
    OBVIOUS
  <1> QED
    BY <1>1 DEF Max

\* The server's answer to a request, and its items afterwards: the five ways
\* in which Effect ends.
LEMMA EffectCases ==
    ASSUME TypeOK, NEW q \in Message
    PROVE  \/ \E st \in Status : Effect(q) = [reply |-> Reply(st, Empty, 0, 0), store |-> store]
           \/ /\ q.cmd \notin {"getq", "noop"}
              /\ \E v \in Value, f \in Nat :
                    Effect(q) = [reply |-> Reply("ok", v, 0, casId + 1),
                                 store |-> Update(store, [k \in {q.key} |-> Item(v, f)])]
           \/ /\ q.cmd # "noop"
              /\ q.key \in DOMAIN store
              /\ Effect(q) = [reply |-> Reply("ok", store[q.key].val, store[q.key].flags, store[q.key].cas),
                              store |-> store]
           \/ /\ q.cmd \notin {"getq", "noop"}
              /\ Effect(q) = [reply |-> Reply("ok", Empty, 0, 0),
                              store |-> [k \in DOMAIN store \ {q.key} |-> store[k]]]
           \/ /\ q.cmd \notin {"getq", "noop"}
              /\ Effect(q) = [reply |-> Reply("ok", Empty, 0, 0), store |-> <<>>]
  <1> DEFINE has   == q.key \in DOMAIN store
             old   == store[q.key]
             wrong == q.cas # 0 /\ has /\ old.cas # q.cas
             fail(st)  == [reply |-> Reply(st, Empty, 0, 0), store |-> store]
             put(v, f) == [reply |-> Reply("ok", v, 0, casId + 1),
                           store |-> Update(store, [k \in {q.key} |-> Item(v, f)])]
  <1>0. /\ q.val \in Value /\ q.flags \in Nat /\ q.init \in Nat
        /\ Number(q.init) \in Value
        /\ has => old.val \in Value /\ old.flags \in Nat
    BY DEF TypeOK, Message, Items, Value, Number
  <1>1. CASE wrong
    BY <1>1 DEF Effect, Status
  <1>2. CASE ~wrong /\ q.cmd = "set"
    BY <1>0, <1>2 DEF Effect, Status
  <1>3. CASE ~wrong /\ q.cmd = "add"
    BY <1>0, <1>3 DEF Effect, Status
  <1>4. CASE ~wrong /\ q.cmd = "replace"
    BY <1>0, <1>4 DEF Effect, Status
  <1>5. CASE ~wrong /\ q.cmd = "append"
    <2>1. has => Text(old.val.words \o q.val.words) \in Value
      BY <1>0 DEF Text, Value
    <2> QED
      BY <1>0, <1>5, <2>1 DEF Effect, Status
  <1>6. CASE ~wrong /\ q.cmd = "prepend"
    <2>1. has => Text(q.val.words \o old.val.words) \in Value
      BY <1>0 DEF Text, Value
    <2> QED
      BY <1>0, <1>6, <2>1 DEF Effect, Status
  <1>7. CASE ~wrong /\ q.cmd \in {"incr", "decr"}
    <2> DEFINE changed == IF q.cmd = "incr" THEN old.val.num + q.val.num ELSE Max({0, old.val.num - q.val.num})
    <2>1. has => old.val.num \in Int /\ q.val.num \in Int
      BY <1>0 DEF Value
    <2>2. has => changed \in Int
      BY <2>1, Decreased
    <2>3. has => Number(changed) \in Value
      BY <2>2 DEF Number, Value
    <2>4. Effect(q) = IF has THEN put(Number(changed), old.flags)
                      ELSE IF q.create THEN put(Number(q.init), 0) ELSE fail("not_found")
      BY <1>7 DEF Effect
    <2> HIDE DEF changed
    <2> QED
      BY <1>0, <1>7, <2>3, <2>4 DEF Status
  <1>8. CASE ~wrong /\ q.cmd \in {"get", "getq"}
    BY <1>0, <1>8 DEF Effect, Status
  <1>9. CASE ~wrong /\ q.cmd = "delete"
    <2>1. Effect(q) = IF has THEN [reply |-> Reply("ok", Empty, 0, 0),
                                   store |-> [k \in DOMAIN store \ {q.key} |-> store[k]]]
                             ELSE fail("not_found")
      BY <1>9 DEF Effect
    <2> QED
      BY <1>9, <2>1 DEF Status
  <1>10. CASE ~wrong /\ q.cmd = "flush"
    BY <1>10 DEF Effect, Status
  <1>11. CASE ~wrong /\ q.cmd = "cram"
    BY <1>11 DEF Effect, Status
  <1>12. CASE ~wrong /\ q.cmd \notin {"set", "add", "replace", "append", "prepend", "incr", "decr",
                                     "get", "getq", "delete", "flush", "cram"}
    BY <1>12 DEF Effect, Status
  <1> QED
    BY <1>1, <1>2, <1>3, <1>4, <1>5, <1>6, <1>7, <1>8, <1>9, <1>10, <1>11, <1>12

\* Effect has a reply and items again.
LEMMA EffectType ==
    ASSUME TypeOK, NEW q \in Message
    PROVE  /\ Effect(q).reply \in Replies
           /\ DOMAIN Effect(q).store \subseteq Keys
           /\ Effect(q).store \in [DOMAIN Effect(q).store -> Items]
  <1>1. /\ DOMAIN store \subseteq Keys
        /\ store \in [DOMAIN store -> Items]
        /\ casId \in Nat /\ q.key \in Keys /\ Empty \in Value
    BY DEF TypeOK, Message, Items, Value, Empty, Text
  <1>2. \A st \in Status : Reply(st, Empty, 0, 0) \in Replies
    BY <1>1 DEF Reply, Replies
  <1>3. CASE \E st \in Status : Effect(q) = [reply |-> Reply(st, Empty, 0, 0), store |-> store]
    BY <1>1, <1>2, <1>3
  <1>4. CASE \E v \in Value, f \in Nat :
               Effect(q) = [reply |-> Reply("ok", v, 0, casId + 1),
                            store |-> Update(store, [k \in {q.key} |-> Item(v, f)])]
    <2>1. PICK v \in Value, f \in Nat :
               Effect(q) = [reply |-> Reply("ok", v, 0, casId + 1),
                            store |-> Update(store, [k \in {q.key} |-> Item(v, f)])]
      BY <1>4
    <2>2. Reply("ok", v, 0, casId + 1) \in Replies
      BY <1>1 DEF Reply, Replies, Status
    <2>3. Item(v, f) \in Items
      BY <1>1 DEF Item, Items
    <2> QED
      BY <1>1, <2>1, <2>2, <2>3 DEF Update
  <1>5. CASE /\ q.key \in DOMAIN store
             /\ Effect(q) = [reply |-> Reply("ok", store[q.key].val, store[q.key].flags, store[q.key].cas),
                             store |-> store]
    BY <1>1, <1>5 DEF Reply, Replies, Items, Status
  <1>6. CASE Effect(q) = [reply |-> Reply("ok", Empty, 0, 0),
                          store |-> [k \in DOMAIN store \ {q.key} |-> store[k]]]
    BY <1>1, <1>2, <1>6 DEF Status
  <1>7. CASE Effect(q) = [reply |-> Reply("ok", Empty, 0, 0), store |-> <<>>]
    BY <1>1, <1>2, <1>7 DEF Status
  <1> QED
    BY <1>3, <1>4, <1>5, <1>6, <1>7, EffectCases

\* Quiet gets and the noop leave the items as they are, and a quiet get
\* answers with the item, fails, or has no item.
LEMMA QuietEffect ==
    ASSUME TypeOK, NEW q \in Message, q.cmd \in {"getq", "noop"}
    PROVE  LET rep == Effect(q).reply IN
           /\ Effect(q).store = store
           /\ q.cmd = "getq" /\ rep.st = "ok" =>
                q.key \in DOMAIN store /\ <<rep.flags, rep.val>> = Entry(q.key)
           /\ q.cmd = "getq" /\ rep.st = "not_found" => q.key \notin DOMAIN store
  BY DEF Effect, Reply, Entry

\* The response to a request, the last one if it is a request for statistics.
Answer(q, rep) == Packet(q, rep, 0, BodyLen(q.cmd))

\* Every field of a response, whatever the lengths.
LEMMA PacketFields ==
    ASSUME NEW q \in Message, NEW rep \in Replies, NEW klen \in 0 .. 1, NEW body \in 0 .. 1
    PROVE  LET r == Packet(q, rep, klen, body) IN
           /\ r \in Response
           /\ r.opaque = q.opaque /\ r.id = q.id /\ r.klen = klen
           /\ r.st = rep.st /\ r.val = rep.val /\ r.flags = rep.flags
  <1> DEFINE r == Packet(q, rep, klen, body)
  <1>1. /\ DOMAIN rep = {"st", "val", "flags", "cas"}
        /\ rep.st \in Status /\ rep.val \in Value /\ rep.flags \in Nat /\ rep.cas \in Int
        /\ q.opaque \in Opaque /\ q.id \in Nat
    BY DEF Replies, Message
  <1>2. r = [opaque |-> q.opaque, id |-> q.id, klen |-> klen, body |-> body,
             st |-> rep.st, val |-> rep.val, flags |-> rep.flags, cas |-> rep.cas]
    BY <1>1 DEF Packet, Update
  <1> HIDE DEF r
  <1>3. r \in Response
    BY <1>1, <1>2 DEF Response
  <1> QED
    BY <1>2, <1>3 DEF r

LEMMA AnswerFields ==
    ASSUME NEW q \in Message, NEW rep \in Replies
    PROVE  LET r == Answer(q, rep)
               s == Packet(q, rep, 1, 1) IN
           /\ r \in Response
           /\ r.opaque = q.opaque /\ r.id = q.id /\ r.klen = 0
           /\ r.st = rep.st /\ r.val = rep.val /\ r.flags = rep.flags
           /\ s \in Response
           /\ s.opaque = q.opaque /\ s.id = q.id /\ s.klen = 1
  <1>1. BodyLen(q.cmd) \in 0 .. 1
    BY DEF BodyLen
  <1>2. 0 \in 0 .. 1 /\ 1 \in 0 .. 1
    OBVIOUS
  <1> QED
    BY <1>1, <1>2, PacketFields DEF Answer

LEMMA ResponsesCases ==
    ASSUME NEW q \in Message, NEW rep \in Replies
    PROVE  \/ q.cmd = "getq" /\ rep.st = "not_found" /\ Responses(q, rep) = <<>>
           \/ /\ q.cmd = "stats"
              /\ Responses(q, rep) = <<Packet(q, rep, 1, 1), Answer(q, rep)>>
           \/ /\ ~(q.cmd = "getq" /\ rep.st = "not_found")
              /\ Responses(q, rep) = <<Answer(q, rep)>>
  BY DEF Responses, Answer, BodyLen, Bodied

\* The current call.
LEMMA CurrentCall ==
    ASSUME TypeOK, program # <<>>
    PROVE  /\ call \in CallsMade
           /\ call = program[1]
           /\ 1 \in DOMAIN program
           /\ Tail(program) \in Seq(CallsMade)
           /\ call.req \in Request
           /\ call.req.keys \in Seq(Keys)
           /\ Len(call.req.keys) \in Nat
           /\ DOMAIN call.req.keys = 1 .. Len(call.req.keys)
  <1>1. program \in Seq(CallsMade)
    BY DEF TypeOK
  <1>2. /\ call \in CallsMade /\ call = program[1] /\ 1 \in DOMAIN program
        /\ Tail(program) \in Seq(CallsMade)
    BY <1>1 DEF call
  <1>3. call.req \in Request
    BY <1>2, CallFields
  <1>4. call.req.keys \in Seq(Keys)
    BY <1>3 DEF Request
  <1> QED
    BY <1>2, <1>3, <1>4

\* What the call sends is a request.
LEMMA SendType ==
    ASSUME TypeOK, program # <<>>, NEW cmd \in Commands, NEW key \in Keys, NEW o \in Opaque,
           NEW id \in Nat
    PROVE  LET m == sendCmd(cmd, key, o, id) IN
           m \in Message /\ m.cmd = cmd /\ m.key = key /\ m.opaque = o /\ m.id = id
  <1>1. call.req \in Request
    BY CurrentCall
  <1>2. /\ call.req.val \in Value /\ call.req.flags \in Nat /\ call.req.init \in Nat
        /\ call.req.create \in BOOLEAN /\ call.req.cas \in {"none", "saved", "other"}
    BY <1>1 DEF Request
  <1>3. CasValue(call.req.cas) \in Int
    BY <1>2 DEF CasValue, TypeOK
  <1> QED
    BY <1>2, <1>3 DEF sendCmd, Message

\* The requests of getMulti: the quiet gets in the order of the keys, and
\* the noop.
LEMMA MultiSends ==
    ASSUME TypeOK, program # <<>>
    PROVE  LET keys == call.req.keys
               reqs == MultiRequests(keys) IN
           /\ reqs \in Seq(Message)
           /\ Len(reqs) = Len(keys) + 1
           /\ \A i \in DOMAIN keys :
                 reqs[i] = sendCmd("getq", keys[i], <<"number", i - 1>>, nextId + i)
           /\ reqs[Len(keys) + 1] = sendCmd("noop", "", Terminal(keys), nextId + Len(keys) + 1)
  <1> DEFINE keys  == call.req.keys
             gets  == [i \in DOMAIN keys |-> sendCmd("getq", keys[i], <<"number", i - 1>>, nextId + i)]
             close == sendCmd("noop", "", Terminal(keys), nextId + Len(keys) + 1)
  <1>1. keys \in Seq(Keys) /\ Len(keys) \in Nat /\ DOMAIN keys = 1 .. Len(keys)
    BY CurrentCall
  <1>2. nextId \in Nat
    BY DEF TypeOK
  <1>3. \A i \in DOMAIN keys : sendCmd("getq", keys[i], <<"number", i - 1>>, nextId + i) \in Message
    <2> SUFFICES ASSUME NEW i \in DOMAIN keys
                 PROVE  sendCmd("getq", keys[i], <<"number", i - 1>>, nextId + i) \in Message
      OBVIOUS
    <2> HIDE DEF keys
    <2>1. keys[i] \in Keys /\ <<"number", i - 1>> \in Opaque /\ nextId + i \in Nat
      BY <1>1, <1>2 DEF Opaque
    <2> QED
      BY <2>1, SendType DEF Commands
  <1>4. close \in Message
    <2> HIDE DEF keys
    <2> DEFINE n  == Len(keys)
               o  == Terminal(keys)
               id == nextId + n + 1
    <2>1. n \in Nat
      BY <1>1
    <2>2. o = <<"number", n + 10>>
      BY DEF Terminal
    <2> HIDE DEF n, o
    <2>3. o \in Opaque
      BY <2>1, <2>2 DEF Opaque
    <2>4. id \in Nat
      BY <2>1, <1>2
    <2> HIDE DEF id
    <2>5. "" \in Keys /\ "noop" \in Commands
      BY KeysAssumption DEF Commands
    <2>6. sendCmd("noop", "", o, id) \in Message
      BY <2>3, <2>4, <2>5, SendType, Zenon
    <2> QED
      BY <2>6 DEF close, o, id, n
  <1>5. MultiRequests(keys) = gets \o <<close>>
    BY DEF MultiRequests
  <1> HIDE DEF close, keys
  <1>6. /\ gets \in Seq(Message) /\ Len(gets) = Len(keys)
        /\ \A i \in DOMAIN keys : gets[i] = sendCmd("getq", keys[i], <<"number", i - 1>>, nextId + i)
    BY <1>1, <1>3
  <1> HIDE DEF gets
  <1>7. <<close>> \in Seq(Message) /\ Len(<<close>>) = 1 /\ <<close>>[1] = close
    BY <1>4
  <1>8. /\ gets \o <<close>> \in Seq(Message)
        /\ Len(gets \o <<close>>) = Len(gets) + 1
        /\ \A i \in 1 .. Len(gets) + 1 :
              (gets \o <<close>>)[i] = IF i <= Len(gets) THEN gets[i] ELSE <<close>>[i - Len(gets)]
    BY <1>6, <1>7
  <1>9. (gets \o <<close>>)[Len(keys) + 1] = close
    BY <1>1, <1>6, <1>7, <1>8
  <1>10. \A i \in DOMAIN keys : (gets \o <<close>>)[i] = gets[i]
    BY <1>1, <1>6, <1>8
  <1> QED
    BY <1>5, <1>6, <1>8, <1>9, <1>10 DEF keys, close

\* The ways in which a call goes on with response r: an exception, the
\* response of a call of one request, the challenge of sasl_auth_cram_md5,
\* an error in a call of several responses, an entry of its dict, and its end.
Fails == /\ \E x \in {"AssertionError", "UnboundLocalError", "KeyError", "struct.error", "socket.error"} :
               Raise(x)
         /\ UNCHANGED requests

SingleDone(r) ==
    /\ call.req.cmd \notin {"getMulti", "stats"}
    /\ r.opaque = opaque
    /\ Finish(Update(r, [own |-> r.id = nextId]))
    /\ UNCHANGED <<dirty, requests>>

Challenged ==
    /\ call.req.cmd = "cram"
    /\ program' = [program EXCEPT ![1].req.cmd = "sasl_step"]
    /\ requests' = IF ~alive THEN requests
                   ELSE Append(requests, sendCmd("sasl_step", "CRAM-MD5", Random(nextId + 1), nextId + 1))
    /\ nextId' = nextId + 1
    /\ opaque' = Random(nextId + 1)
    /\ UNCHANGED <<reliable, pc, rv, last, savedCas, dirty>>

GivenUp(r) ==
    /\ call.req.cmd \in {"getMulti", "stats"}
    /\ r.st # "ok"
    /\ Finish(r)
    /\ dirty' = TRUE
    /\ UNCHANGED requests

DictDone(r) ==
    /\ call.req.cmd \in {"getMulti", "stats"}
    /\ r.st = "ok"
    /\ Ends(r)
    /\ Finish([st |-> "ok", val |-> rv])
    /\ UNCHANGED <<dirty, requests>>

MultiMore(r) ==
    /\ call.req.cmd = "getMulti"
    /\ r.st = "ok"
    /\ r.opaque # opaque
    /\ LET hits == {i \in DOMAIN call.req.keys : r.opaque = <<"number", i - 1>>} IN
          rv' = Update(rv, [k \in {call.req.keys[i] : i \in hits} |-> <<r.flags, r.val>>])
    /\ UNCHANGED <<program, reliable, pc, nextId, opaque, last, savedCas, dirty, requests>>

StatsMore(r) ==
    /\ call.req.cmd = "stats"
    /\ r.st = "ok"
    /\ rv' = Update(rv, [k \in {"stat"} |-> <<r.flags, r.val>>])
    /\ UNCHANGED <<program, reliable, pc, nextId, opaque, last, savedCas, dirty, requests>>

LEMMA ReceiveCases ==
    ASSUME Receive
    PROVE  LET r == Head(responses) IN
           /\ pc = "await"
           /\ responses # <<>>
           /\ responses' = Tail(responses)
           /\ UNCHANGED service
           /\ \/ Fails
              \/ SingleDone(r)
              \/ Challenged
              \/ GivenUp(r)
              \/ DictDone(r)
              \/ MultiMore(r)
              \/ StatsMore(r)
  <1> DEFINE r == Head(responses)
  <1>1. pc = "await" /\ responses # <<>> /\ responses' = Tail(responses) /\ UNCHANGED service
    BY DEF Receive
  <1>2. CASE ~OpaqueOk(r) /\ Raise("AssertionError") /\ UNCHANGED requests
    BY <1>1, <1>2 DEF Fails
  <1>3. CASE OpaqueOk(r) /\ HandleSingle(r)
    <2>1. SingleDone(r)
      BY <1>3, Zenon DEF HandleSingle, SingleDone, OpaqueOk
    <2> QED
      BY <1>1, <2>1
  <1>4. CASE OpaqueOk(r) /\ HandleCram(r)
    <2>1. CASE /\ r.st \notin {"ok", "auth_continue"}
               /\ Finish(Update(r, [own |-> r.id = nextId]))
               /\ UNCHANGED <<dirty, requests>>
      <3>1. call.req.cmd = "cram" /\ r.opaque = opaque
        BY <1>4 DEF HandleCram, OpaqueOk
      <3>2. call.req.cmd \notin {"getMulti", "stats"}
        BY <3>1
      <3>3. SingleDone(r)
        BY <2>1, <3>1, <3>2, Zenon DEF SingleDone
      <3> QED
        BY <1>1, <3>3
    <2>2. CASE r.st = "ok" /\ Raise("UnboundLocalError") /\ UNCHANGED requests
      BY <1>1, <2>2 DEF Fails
    <2>3. CASE r.st = "auth_continue" /\ Challenged
      BY <1>1, <2>3
    <2>4. CASE (Raise("struct.error") \/ Raise("socket.error")) /\ UNCHANGED requests
      BY <1>1, <2>4 DEF Fails
    <2> QED
      BY <1>4, <2>1, <2>2, <2>3, <2>4, Zenon DEF HandleCram, Challenged
  <1>5. CASE OpaqueOk(r) /\ HandleMulti(r)
    <2> DEFINE hits == {i \in DOMAIN call.req.keys : r.opaque = <<"number", i - 1>>}
    <2>1. call.req.cmd = "getMulti" /\ UNCHANGED requests
      BY <1>5 DEF HandleMulti
    <2>2. CASE r.st # "ok" /\ Finish(r) /\ GiveUp
      <3>1. GivenUp(r)
        BY <2>1, <2>2 DEF GivenUp, GiveUp
      <3> QED
        BY <1>1, <3>1
    <2>3. CASE r.st = "ok" /\ r.opaque = opaque /\ Finish([st |-> "ok", val |-> rv]) /\ UNCHANGED dirty
      <3>1. Ends(r)
        BY <2>1, <2>3 DEF Ends, Closes
      <3>2. DictDone(r)
        BY <2>1, <2>3, <3>1 DEF DictDone
      <3> QED
        BY <1>1, <3>2
    <2>4. CASE /\ r.st = "ok"
               /\ r.opaque # opaque
               /\ rv' = Update(rv, [k \in {call.req.keys[i] : i \in hits} |-> <<r.flags, r.val>>])
               /\ UNCHANGED <<program, reliable, pc, nextId, opaque, last, savedCas, dirty>>
      <3>1. MultiMore(r)
        BY <2>1, <2>4 DEF MultiMore
      <3> QED
        BY <1>1, <3>1
    <2>5. CASE Raise("KeyError") \/ Raise("struct.error")
      BY <1>1, <2>1, <2>5 DEF Fails
    <2> QED
      BY <1>5, <2>2, <2>3, <2>4, <2>5, Zenon DEF HandleMulti
  <1>6. CASE OpaqueOk(r) /\ HandleStats(r)
    <2>1. call.req.cmd = "stats" /\ UNCHANGED requests
      BY <1>6 DEF HandleStats
    <2>2. CASE r.st # "ok" /\ Finish(r) /\ GiveUp
      <3>1. GivenUp(r)
        BY <2>1, <2>2 DEF GivenUp, GiveUp
      <3> QED
        BY <1>1, <3>1
    <2>3. CASE r.st = "ok" /\ r.klen = 0 /\ Finish([st |-> "ok", val |-> rv]) /\ UNCHANGED dirty
      <3>1. Ends(r)
        BY <2>1, <2>3 DEF Ends, Closes
      <3>2. DictDone(r)
        BY <2>1, <2>3, <3>1 DEF DictDone
      <3> QED
        BY <1>1, <3>2
    <2>4. CASE /\ r.st = "ok"
               /\ rv' = Update(rv, [k \in {"stat"} |-> <<r.flags, r.val>>])
               /\ UNCHANGED <<program, reliable, pc, nextId, opaque, last, savedCas, dirty>>
      <3>1. StatsMore(r)
        BY <2>1, <2>4 DEF StatsMore
      <3> QED
        BY <1>1, <3>1
    <2> QED
      BY <1>6, <2>2, <2>3, <2>4, Zenon DEF HandleStats
  <1> QED
    BY <1>2, <1>3, <1>4, <1>5, <1>6, Zenon DEF Receive

\* The server answers request q, as it does or with an error.
Answers ==
    /\ requests # <<>>
    /\ requests' = Tail(requests)
    /\ \E rep \in Replies : responses' = responses \o Responses(Head(requests), rep)

\* The queues of the connection, and how the head of one moves on.
LEMMA Queues ==
    ASSUME TypeOK
    PROVE  /\ requests \in Seq(Message)
           /\ responses \in Seq(Response)
           /\ requests # <<>> =>
                /\ Head(requests) \in Message
                /\ Head(requests) = requests[1]
                /\ Head(requests) \in ToSet(requests)
                /\ 1 \in DOMAIN requests
           /\ responses # <<>> =>
                /\ Head(responses) \in Response
                /\ Head(responses) = responses[1]
                /\ Head(responses) \in ToSet(responses)
                /\ 1 \in DOMAIN responses
  BY DEF TypeOK, ToSet

LEMMA AnswersType ==
    ASSUME TypeOK, Answers
    PROVE  requests' \in Seq(Message) /\ responses' \in Seq(Response)
  <1> DEFINE q == Head(requests)
  <1>1. q \in Message /\ requests \in Seq(Message) /\ requests # <<>>
    BY Queues DEF Answers
  <1>2. requests' \in Seq(Message)
    BY <1>1 DEF Answers
  <1>3. PICK rep \in Replies : responses' = responses \o Responses(q, rep)
    BY DEF Answers
  <1> HIDE DEF q
  <1>4. Responses(q, rep) \in Seq(Response)
    <2> DEFINE r == Answer(q, rep)
               s == Packet(q, rep, 1, 1)
    <2>1. r \in Response /\ s \in Response
      BY <1>1, AnswerFields
    <2>2. Responses(q, rep) \in {<<>>, <<s, r>>, <<r>>}
      BY <1>1, ResponsesCases
    <2> HIDE DEF r, s
    <2>3. <<>> \in Seq(Response) /\ <<s, r>> \in Seq(Response) /\ <<r>> \in Seq(Response)
      BY <2>1
    <2> QED
      BY <2>2, <2>3, Zenon
  <1>5. responses \in Seq(Response)
    BY DEF TypeOK
  <1> QED
    BY <1>2, <1>3, <1>4, <1>5

\* Both steps of the server answer the first request.
LEMMA ServeAnswers ==
    ASSUME TypeOK, Serve \/ ServeFails
    PROVE  Answers /\ UNCHANGED client /\ alive' = alive
  <1>1. CASE Serve
    <2> DEFINE q == Head(requests)
    <2>1. requests # <<>> /\ q \in Message
      BY <1>1, Queues DEF Serve
    <2>2. Effect(q).reply \in Replies
      BY <2>1, EffectType
    <2>3. responses' = responses \o Responses(q, Effect(q).reply)
      BY <1>1, Zenon DEF Serve
    <2>4. requests' = Tail(requests) /\ UNCHANGED <<client, alive>>
      BY <1>1, Zenon DEF Serve
    <2> HIDE DEF q
    <2> QED
      BY <2>1, <2>2, <2>3, <2>4 DEF Answers, q
  <1>2. CASE ServeFails
    <2>1. PICK st \in {"busy", "ok"} :
             responses' = responses \o Responses(Head(requests), Reply(st, Empty, 0, 0))
      BY <1>2 DEF ServeFails
    <2>2. Reply(st, Empty, 0, 0) \in Replies
      BY DEF Reply, Replies, Status, Empty, Text, Value
    <2>3. requests # <<>> /\ requests' = Tail(requests) /\ UNCHANGED client /\ alive' = alive
      BY <1>2 DEF ServeFails, service
    <2> QED
      BY <2>1, <2>2, <2>3, Zenon DEF Answers
  <1> QED
    BY <1>1, <1>2

\* The result of a call of one request: its response, with a note whether it
\* belongs to the request.
LEMMA OwnResult ==
    ASSUME NEW r, DOMAIN r = {"opaque", "id", "klen", "body", "st", "val", "flags", "cas"}, NEW b
    PROVE  LET res == Update(r, [own |-> b]) IN
           /\ DOMAIN res = DOMAIN r \cup {"own"}
           /\ res.own = b
           /\ res.cas = r.cas
           /\ res.st = r.st
  <1>1. DOMAIN [own |-> b] = {"own"} /\ [own |-> b].own = b
    OBVIOUS
  <1> DEFINE e == [own |-> b]
  <1> HIDE DEF e
  <1>2. DOMAIN e = {"own"} /\ e.own = b
    BY <1>1 DEF e
  <1>3. Update(r, e).own = b /\ Update(r, e).cas = r.cas /\ Update(r, e).st = r.st
    BY <1>2 DEF Update
  <1>4. DOMAIN Update(r, e) = DOMAIN r \cup {"own"}
    BY <1>2 DEF Update
  <1> QED
    BY <1>3, <1>4 DEF e

\* A call that returns: the program goes on with the next one.
LEMMA FinishType ==
    ASSUME TypeOK, program # <<>>, NEW r, Finish(r), call.keep => r.cas \in Int
    PROVE  /\ program' \in Seq(CallsMade)
           /\ pc' \in {"idle", "failed"}
           /\ savedCas' \in Int
           /\ UNCHANGED <<reliable, nextId, opaque, rv>>
  <1>1. Tail(program) \in Seq(CallsMade)
    BY CurrentCall
  <1>2. savedCas \in Int
    BY DEF TypeOK
  <1> QED
    BY <1>1, <1>2 DEF Finish

\* What the call has sent when it begins.
LEMMA BeginSends ==
    ASSUME TypeOK, Begin
    PROVE  \E reqs \in Seq(Message) :
             /\ reqs # <<>>
             /\ requests' = IF alive THEN requests \o reqs ELSE requests
             /\ nextId' = nextId + Len(reqs)
             /\ opaque' = reqs[Len(reqs)].opaque
             /\ call.req.cmd = "getMulti" => reqs = MultiRequests(call.req.keys)
             /\ call.req.cmd # "getMulti" =>
                  reqs = <<sendCmd(call.req.cmd, call.req.key, Random(nextId + 1), nextId + 1)>>
  <1> DEFINE one  == sendCmd(call.req.cmd, call.req.key, Random(nextId + 1), nextId + 1)
             reqs == IF call.req.cmd = "getMulti" THEN MultiRequests(call.req.keys) ELSE <<one>>
  <1>1. program # <<>> /\ call.req.cmd # "sleep"
    BY DEF Begin
  <1>2. /\ requests' = IF alive THEN requests \o reqs ELSE requests
        /\ nextId' = nextId + Len(reqs)
        /\ opaque' = reqs[Len(reqs)].opaque
    BY DEF Begin
  <1>3. reqs \in Seq(Message) /\ reqs # <<>>
    <2>1. CASE call.req.cmd = "getMulti"
      <3> DEFINE all == MultiRequests(call.req.keys)
                 n   == Len(call.req.keys)
      <3>1. all \in Seq(Message) /\ Len(all) = n + 1 /\ n \in Nat
        BY <1>1, MultiSends, CurrentCall
      <3> HIDE DEF all, n
      <3>2. all # <<>>
        BY <3>1
      <3> QED
        BY <2>1, <3>1, <3>2 DEF all
    <2>2. CASE call.req.cmd # "getMulti"
      <3>1. call.req.cmd \in Commands /\ call.req.key \in Keys
        BY <1>1, CurrentCall DEF Request
      <3>2. nextId \in Nat
        BY DEF TypeOK
      <3>3. Random(nextId + 1) \in Opaque /\ nextId + 1 \in Nat
        BY <3>2 DEF Random, Opaque
      <3>4. one \in Message
        BY <1>1, <3>1, <3>3, SendType
      <3> QED
        BY <2>2, <3>4
    <2> QED
      BY <2>1, <2>2
  <1> HIDE DEF reqs
  <1> QED
    BY <1>2, <1>3 DEF reqs

\* The same, as the fields of what is sent.
LEMMA MultiFields ==
    ASSUME TypeOK, program # <<>>, NEW reqs, reqs = MultiRequests(call.req.keys)
    PROVE  LET keys == call.req.keys IN
           /\ DOMAIN reqs = 1 .. Len(reqs)
           /\ reqs[Len(reqs)].opaque = Terminal(keys)
           /\ reqs[Len(reqs)].cmd = "noop"
           /\ Terminal(keys) \in {"number"} \X Nat
           /\ \A j \in DOMAIN keys : Terminal(keys) # <<"number", j - 1>>
           /\ \A i \in DOMAIN reqs : i # Len(reqs) =>
                 /\ i \in DOMAIN keys
                 /\ i - 1 \in Nat
                 /\ reqs[i].opaque = <<"number", i - 1>>
                 /\ reqs[i].cmd = "getq"
                 /\ reqs[i].key = keys[i]
           /\ \A j \in DOMAIN keys : j \in DOMAIN reqs /\ j # Len(reqs)
  <1> DEFINE keys == call.req.keys
             n    == Len(keys)
             quiet(i) == sendCmd("getq", keys[i], <<"number", i - 1>>, nextId + i)
             close  == sendCmd("noop", "", Terminal(keys), nextId + n + 1)
  <1>1. /\ reqs \in Seq(Message)
        /\ Len(reqs) = n + 1
        /\ \A i \in DOMAIN keys : reqs[i] = quiet(i)
        /\ reqs[n + 1] = close
    BY MultiSends, Zenon
  <1>2. n \in Nat /\ DOMAIN keys = 1 .. n
    BY CurrentCall
  <1>3. Terminal(keys) = <<"number", n + 10>>
    BY DEF Terminal
  <1>4. close.opaque = Terminal(keys) /\ close.cmd = "noop"
    BY DEF sendCmd
  <1>5. \A i : quiet(i).opaque = <<"number", i - 1>> /\ quiet(i).cmd = "getq" /\ quiet(i).key = keys[i]
    BY DEF sendCmd
  <1> HIDE DEF n, keys, quiet, close
  <1>6. DOMAIN reqs = 1 .. n + 1
    <2>1. DOMAIN reqs = 1 .. Len(reqs)
      BY <1>1
    <2> QED
      BY <1>1, <2>1
  <1>7. \A i \in DOMAIN reqs : i # n + 1 => i \in DOMAIN keys
    BY <1>2, <1>6
  <1>8. \A j \in DOMAIN keys : j \in DOMAIN reqs /\ j # n + 1 /\ j - 1 \in Nat /\ j - 1 # n + 10
    BY <1>2, <1>6
  <1>9. Terminal(keys) \in {"number"} \X Nat /\ \A j \in DOMAIN keys : Terminal(keys) # <<"number", j - 1>>
    BY <1>2, <1>3, <1>8
  <1>10. reqs[n + 1].opaque = Terminal(keys) /\ reqs[n + 1].cmd = "noop"
    BY <1>1, <1>4
  <1>11. \A i \in DOMAIN reqs : i # n + 1 =>
           /\ i \in DOMAIN keys /\ i - 1 \in Nat
           /\ reqs[i].opaque = <<"number", i - 1>> /\ reqs[i].cmd = "getq" /\ reqs[i].key = keys[i]
    BY <1>1, <1>5, <1>7, <1>8
  <1> DEFINE m == Len(reqs)
  <1>12. m = n + 1
    BY <1>1
  <1> HIDE DEF m
  <1>13. DOMAIN reqs = 1 .. m
    BY <1>6, <1>12
  <1>14. /\ reqs[m].opaque = Terminal(keys) /\ reqs[m].cmd = "noop"
         /\ \A i \in DOMAIN reqs : i # m =>
           /\ i \in DOMAIN keys /\ i - 1 \in Nat
           /\ reqs[i].opaque = <<"number", i - 1>> /\ reqs[i].cmd = "getq" /\ reqs[i].key = keys[i]
         /\ \A j \in DOMAIN keys : j \in DOMAIN reqs /\ j # m
    BY <1>8, <1>10, <1>11, <1>12
  <1> QED
    BY <1>9, <1>13, <1>14 DEF keys, m

\* The initial state.
LEMMA InitType == Init => TypeOK
  <1> SUFFICES ASSUME Init
               PROVE  TypeOK
    OBVIOUS
  <1>1. PICK p \in Programs : program = p.calls /\ reliable = p.reliable
    BY DEF Init
  <1>2. program \in Seq(Calls) /\ reliable \in BOOLEAN
    BY <1>1, ProgramsAssumption
  <1>3. program \in Seq(CallsMade)
    BY <1>2 DEF CallsMade
  <1>4. Random(0) \in Opaque
    BY DEF Random, Opaque
  <1>5. <<>> \in [DOMAIN <<>> -> Nat \X Value] /\ DOMAIN <<>> \subseteq Keys
        /\ <<>> \in [DOMAIN <<>> -> [val : Value, flags : Nat, cas : Nat]]
    OBVIOUS
  <1>6. {reliable, dirty, bomb, alive} \subseteq BOOLEAN
    BY <1>2 DEF Init
  <1>7. requests \in Seq(Message) /\ responses \in Seq(Response)
    BY DEF Init
  <1> QED
    BY <1>3, <1>4, <1>5, <1>6, <1>7 DEF Init, TypeOK

\* Every step keeps the types.
LEMMA NextType == TypeOK /\ Tagged /\ [Next]_vars => TypeOK'
  <1> SUFFICES ASSUME TypeOK, Tagged, [Next]_vars
               PROVE  TypeOK'
    OBVIOUS
  <1>1. CASE Begin
    <2>1. PICK reqs \in Seq(Message) :
             /\ reqs # <<>>
             /\ requests' = IF alive THEN requests \o reqs ELSE requests
             /\ nextId' = nextId + Len(reqs)
             /\ opaque' = reqs[Len(reqs)].opaque
      BY <1>1, BeginSends
    <2>2. reqs[Len(reqs)] \in Message /\ Len(reqs) \in Nat
      BY <2>1
    <2>3. opaque' \in Opaque
      BY <2>1, <2>2 DEF Message
    <2>4. requests' \in Seq(Message) /\ nextId' \in Nat
      BY <2>1, <2>2 DEF TypeOK
    <2>5. rv' \in [DOMAIN rv' -> Nat \X Value]
      BY <1>1 DEF Begin
    <2> QED
      BY <1>1, <2>3, <2>4, <2>5 DEF Begin, TypeOK, service
  <1>2. CASE BeginFails \/ SendFails
    BY <1>2 DEF BeginFails, SendFails, TypeOK, service
  <1>3. CASE Sleep
    <2>1. program' \in Seq(CallsMade)
      BY <1>3, CurrentCall DEF Sleep
    <2>2. /\ DOMAIN store' \subseteq Keys
          /\ store' \in [DOMAIN store' -> [val : Value, flags : Nat, cas : Nat]]
      BY <1>3 DEF Sleep, TypeOK
    <2> QED
      BY <1>3, <2>1, <2>2 DEF Sleep, TypeOK
  <1>4. CASE Receive
    <2> DEFINE r == Head(responses)
    <2>1. /\ pc = "await" /\ responses # <<>> /\ responses' = Tail(responses) /\ UNCHANGED service
          /\ Fails \/ SingleDone(r) \/ Challenged \/ GivenUp(r) \/ DictDone(r) \/ MultiMore(r)
             \/ StatsMore(r)
      BY <1>4, ReceiveCases
    <2>2. /\ r \in Response
          /\ DOMAIN r = {"opaque", "id", "klen", "body", "st", "val", "flags", "cas"}
          /\ r.cas \in Int /\ <<r.flags, r.val>> \in Nat \X Value
      BY <2>1, Queues DEF Response
    <2>3. responses' \in Seq(Response)
      BY <2>1, Queues
    <2>4. program # <<>>
      BY <2>1 DEF Tagged
    <2> HIDE DEF r
    <2>5. CASE Fails
      BY <2>1, <2>3, <2>5 DEF Fails, Raise, TypeOK, service
    <2>6. CASE SingleDone(r)
      <3> DEFINE res == Update(r, [own |-> r.id = nextId])
      <3>1. res.cas = r.cas
        BY <2>2, OwnResult
      <3> HIDE DEF res
      <3>2. Finish(res)
        BY <2>6 DEF SingleDone, res
      <3>3. /\ program' \in Seq(CallsMade) /\ pc' \in {"idle", "failed"} /\ savedCas' \in Int
            /\ UNCHANGED <<reliable, nextId, opaque, rv>>
        BY <2>2, <2>4, <3>1, <3>2, FinishType
      <3> QED
        BY <2>1, <2>3, <2>6, <3>3 DEF SingleDone, TypeOK, service
    <2>7. CASE Challenged
      <3>1. /\ program' = [program EXCEPT ![1] = [call EXCEPT !.req.cmd = "sasl_step"]]
        BY <2>4, <2>7, CurrentCall DEF Challenged
      <3>2. [call EXCEPT !.req.cmd = "sasl_step"] \in CallsMade
        BY <2>4, <2>7, GoesOn, CurrentCall DEF Challenged
      <3> DEFINE next == [call EXCEPT !.req.cmd = "sasl_step"]
      <3> HIDE DEF next
      <3>3. program' \in Seq(CallsMade)
        <4>1. program' = [program EXCEPT ![1] = next] /\ next \in CallsMade
          BY <3>1, <3>2 DEF next
        <4>2. program \in Seq(CallsMade) /\ 1 \in DOMAIN program
          BY <2>4, CurrentCall DEF TypeOK
        <4> QED
          BY <4>1, <4>2
      <3>4. nextId + 1 \in Nat /\ Random(nextId + 1) \in Opaque
        BY DEF TypeOK, Random, Opaque
      <3>5. sendCmd("sasl_step", "CRAM-MD5", Random(nextId + 1), nextId + 1) \in Message
        <4>1. "sasl_step" \in Commands /\ "CRAM-MD5" \in Keys
          BY KeysAssumption DEF Commands
        <4> QED
          BY <2>4, <3>4, <4>1, SendType, Zenon
      <3>6. requests' \in Seq(Message)
        BY <2>7, <3>5 DEF Challenged, TypeOK
      <3> QED
        BY <2>1, <2>3, <2>7, <3>3, <3>4, <3>6 DEF Challenged, TypeOK, service
    <2>8. CASE GivenUp(r)
      <3>1. /\ program' \in Seq(CallsMade) /\ pc' \in {"idle", "failed"} /\ savedCas' \in Int
            /\ UNCHANGED <<reliable, nextId, opaque, rv>>
        BY <2>2, <2>4, <2>8, FinishType DEF GivenUp
      <3> QED
        BY <2>1, <2>3, <2>8, <3>1 DEF GivenUp, TypeOK, service
    <2>9. CASE DictDone(r)
      <3>1. ~call.keep
        BY <2>4, <2>9, CurrentCall, CallFields DEF DictDone
      <3>2. /\ program' \in Seq(CallsMade) /\ pc' \in {"idle", "failed"} /\ savedCas' \in Int
            /\ UNCHANGED <<reliable, nextId, opaque, rv>>
        BY <2>4, <2>9, <3>1, FinishType DEF DictDone
      <3> QED
        BY <2>1, <2>3, <2>9, <3>2 DEF DictDone, TypeOK, service
    <2>10. CASE \E K : rv' = Update(rv, [k \in K |-> <<r.flags, r.val>>])
      <3>1. rv' \in [DOMAIN rv' -> Nat \X Value]
        BY <2>2, <2>10 DEF Update, TypeOK
      <3>2. CASE MultiMore(r)
        BY <2>1, <2>3, <3>1, <3>2 DEF MultiMore, TypeOK, service
      <3>3. CASE StatsMore(r)
        BY <2>1, <2>3, <3>1, <3>3 DEF StatsMore, TypeOK, service
      <3> QED
        BY <2>1, <2>5, <2>6, <2>7, <2>8, <2>9, <3>2, <3>3
    <2>11. MultiMore(r) \/ StatsMore(r) => \E K : rv' = Update(rv, [k \in K |-> <<r.flags, r.val>>])
      BY DEF MultiMore, StatsMore
    <2> QED
      BY <2>1, <2>5, <2>6, <2>7, <2>8, <2>9, <2>10, <2>11
  <1>5. CASE Eof
    BY <1>5 DEF Eof, Raise, TypeOK, service
  <1>6. CASE Serve
    <2>1. requests' \in Seq(Message) /\ responses' \in Seq(Response) /\ UNCHANGED client /\ alive' = alive
      BY <1>6, ServeAnswers, AnswersType
    <2>2. requests # <<>> /\ Head(requests) \in Message
      BY <1>6, Queues DEF Serve
    <2>3. /\ DOMAIN store' \subseteq Keys
          /\ store' \in [DOMAIN store' -> [val : Value, flags : Nat, cas : Nat]]
      BY <1>6, <2>2, EffectType DEF Serve, Items
    <2>4. casId' \in Nat /\ bomb' \in BOOLEAN
      BY <1>6 DEF Serve, TypeOK
    <2> QED
      BY <2>1, <2>3, <2>4 DEF TypeOK, client
  <1>7. CASE ServeFails
    <2>1. requests' \in Seq(Message) /\ responses' \in Seq(Response) /\ UNCHANGED client
      BY <1>7, ServeAnswers, AnswersType
    <2> QED
      BY <1>7, <2>1 DEF ServeFails, TypeOK, client, service
  <1>8. CASE Die
    <2>1. {reliable', dirty', bomb', alive'} \subseteq BOOLEAN
      BY <1>8 DEF Die, TypeOK, client
    <2>2. requests' \in Seq(Message)
      BY <1>8 DEF Die
    <2> QED
      BY <1>8, <2>1, <2>2 DEF Die, TypeOK, client
  <1>9. CASE UNCHANGED vars
    BY <1>9 DEF vars, client, service, TypeOK
  <1> QED
    BY <1>1, <1>2, <1>3, <1>4, <1>5, <1>6, <1>7, <1>8, <1>9 DEF Next, ClientStep

\* What is on its way after an answer has the opaque and the number of a
\* request or response that was on its way before.
LEMMA AnswersKeep ==
    ASSUME TypeOK, Answers
    PROVE  /\ ToSet(requests') \subseteq ToSet(requests)
           /\ \A m \in ToSet(responses') :
                 \/ m \in ToSet(responses)
                 \/ /\ m.opaque = Head(requests).opaque
                    /\ m.id = Head(requests).id
  <1> DEFINE q == Head(requests)
  <1>1. /\ q \in Message /\ requests \in Seq(Message) /\ requests # <<>>
        /\ responses \in Seq(Response)
    BY Queues DEF Answers
  <1>2. ToSet(requests') \subseteq ToSet(requests)
    BY <1>1, TailToSet DEF Answers
  <1>3. PICK rep \in Replies : responses' = responses \o Responses(q, rep)
    BY DEF Answers
  <1> HIDE DEF q
  <1> DEFINE r == Answer(q, rep)
             s == Packet(q, rep, 1, 1)
             new == Responses(q, rep)
  <1>4. /\ r \in Response /\ s \in Response
        /\ r.opaque = q.opaque /\ r.id = q.id /\ s.opaque = q.opaque /\ s.id = q.id
    BY <1>1, AnswerFields
  <1>5. new \in {<<>>, <<s, r>>, <<r>>}
    BY <1>1, ResponsesCases
  <1> HIDE DEF r, s, new
  <1>6. new \in Seq(Response) /\ ToSet(new) \subseteq {s, r}
    <2>1. /\ <<>> \in Seq(Response) /\ ToSet(<<>>) \subseteq {s, r}
          /\ <<s, r>> \in Seq(Response) /\ ToSet(<<s, r>>) \subseteq {s, r}
          /\ <<r>> \in Seq(Response) /\ ToSet(<<r>>) \subseteq {s, r}
      BY <1>4 DEF ToSet
    <2> QED
      BY <1>5, <2>1, Zenon
  <1>7. ToSet(responses') = ToSet(responses) \cup ToSet(new)
    BY <1>1, <1>3, <1>6, ConcatToSet DEF new
  <1> QED
    BY <1>2, <1>4, <1>6, <1>7 DEF q

\* The tag of a message.
Tag(m) == m.opaque = Random(m.id) \/ m.opaque \in {"number"} \X Nat

\* Every step keeps the messages tagged, and the opaque that the current call
\* waits for its own.
LEMMA TaggedStep == TypeOK /\ Tagged /\ [Next]_vars => Tagged'
  <1> SUFFICES ASSUME TypeOK, Tagged, [Next]_vars
               PROVE  Tagged'
    OBVIOUS
  <1> DEFINE sent == ToSet(requests) \cup ToSet(responses)
             Awaits == pc = "await" =>
                         /\ program # <<>> /\ call.req.cmd # "sleep"
                         /\ opaque = IF call.req.cmd = "getMulti" THEN Terminal(call.req.keys)
                                     ELSE Random(nextId)
  <1>0. /\ Tagged <=> (\A m \in sent : Tag(m)) /\ Awaits
        /\ Tagged' <=> (\A m \in sent' : Tag(m)) /\ Awaits'
    BY DEF Tagged, Tag
  <1>a. (\A m \in sent : Tag(m)) /\ Awaits
    BY <1>0
  <1>1. CASE Begin
    <2> DEFINE keys == call.req.keys
               one  == sendCmd(call.req.cmd, call.req.key, Random(nextId + 1), nextId + 1)
    <2>1. PICK reqs \in Seq(Message) :
             /\ reqs # <<>>
             /\ requests' = IF alive THEN requests \o reqs ELSE requests
             /\ nextId' = nextId + Len(reqs)
             /\ opaque' = reqs[Len(reqs)].opaque
             /\ call.req.cmd = "getMulti" => reqs = MultiRequests(keys)
             /\ call.req.cmd # "getMulti" => reqs = <<one>>
      BY <1>1, BeginSends
    <2>2. /\ program # <<>> /\ call.req.cmd # "sleep" /\ program' = program /\ responses' = responses
          /\ nextId \in Nat
      BY <1>1 DEF Begin, TypeOK
    <2>3. (\A i \in DOMAIN reqs : Tag(reqs[i])) /\ Awaits'
      <3>1. CASE call.req.cmd = "getMulti"
        <4> DEFINE n == Len(reqs)
        <4>1. /\ reqs[n].opaque = Terminal(keys) /\ Terminal(keys) \in {"number"} \X Nat
              /\ \A i \in DOMAIN reqs : i # n =>
                    i - 1 \in Nat /\ reqs[i].opaque = <<"number", i - 1>>
          BY <2>1, <2>2, <3>1, MultiFields
        <4>2. opaque' = reqs[n].opaque
          BY <2>1
        <4> HIDE DEF n, keys
        <4>3. \A i \in DOMAIN reqs : Tag(reqs[i])
          BY <4>1 DEF Tag
        <4> QED
          BY <2>2, <3>1, <4>1, <4>2, <4>3 DEF call, keys
      <3>2. CASE call.req.cmd # "getMulti"
        <4>1. one.opaque = Random(nextId + 1) /\ one.id = nextId + 1
          BY DEF sendCmd
        <4> HIDE DEF one
        <4>2. reqs = <<one>> /\ Len(reqs) = 1 /\ DOMAIN reqs = {1} /\ reqs[1] = one
          BY <2>1, <3>2
        <4>3. nextId' = nextId + 1 /\ opaque' = Random(nextId + 1)
          BY <2>1, <4>1, <4>2
        <4>4. \A i \in DOMAIN reqs : Tag(reqs[i])
          BY <4>1, <4>2 DEF Tag
        <4> QED
          BY <2>2, <3>2, <4>3, <4>4 DEF call
      <3> QED
        BY <3>1, <3>2
    <2>4. ToSet(requests') \subseteq ToSet(requests) \cup ToSet(reqs)
      BY <2>1, ConcatToSet DEF TypeOK
    <2>5. \A m \in sent' : Tag(m)
      BY <1>a, <2>2, <2>3, <2>4 DEF ToSet
    <2> QED
      BY <1>0, <2>3, <2>5
  <1>2. CASE Serve \/ ServeFails
    <2>1. Answers /\ UNCHANGED client
      BY <1>2, ServeAnswers
    <2>2. requests # <<>> /\ Tag(Head(requests))
      BY <1>a, <2>1, Queues DEF Answers
    <2>3. \A m \in sent' : Tag(m)
      BY <1>a, <2>1, <2>2, AnswersKeep DEF Tag
    <2> QED
      BY <1>0, <1>a, <2>1, <2>3 DEF client, call
  <1>3. CASE Receive
    <2> DEFINE r == Head(responses)
    <2>1. /\ pc = "await" /\ responses # <<>> /\ responses' = Tail(responses)
          /\ Fails \/ SingleDone(r) \/ Challenged \/ GivenUp(r) \/ DictDone(r) \/ MultiMore(r)
             \/ StatsMore(r)
      BY <1>3, ReceiveCases
    <2>2. ToSet(responses') \subseteq ToSet(responses)
      BY <2>1, TailToSet DEF TypeOK
    <2> HIDE DEF r
    <2>3. CASE Fails
      <3>1. pc' # "await" /\ requests' = requests
        BY <2>3 DEF Fails, Raise
      <3> QED
        BY <1>0, <1>a, <2>2, <3>1
    <2>4. CASE SingleDone(r) \/ GivenUp(r) \/ DictDone(r)
      <3>1. pc' # "await" /\ requests' = requests
        BY <2>4 DEF SingleDone, GivenUp, DictDone, Finish
      <3> QED
        BY <1>0, <1>a, <2>2, <3>1
    <2>5. CASE MultiMore(r) \/ StatsMore(r)
      <3>1. /\ requests' = requests /\ program' = program /\ opaque' = opaque /\ nextId' = nextId
            /\ pc' = pc
        BY <2>5 DEF MultiMore, StatsMore
      <3> QED
        BY <1>0, <1>a, <2>2, <3>1 DEF call
    <2>6. CASE Challenged
      <3> DEFINE next == [call EXCEPT !.req.cmd = "sasl_step"]
                 one  == sendCmd("sasl_step", "CRAM-MD5", Random(nextId + 1), nextId + 1)
      <3>1. program # <<>>
        BY <1>a, <2>1
      <3>2. program' = [program EXCEPT ![1] = next]
        BY <2>6, <3>1, CurrentCall DEF Challenged
      <3>3. next \in CallsMade /\ next.req.cmd = "sasl_step"
        BY <2>6, <3>1, GoesOn, CurrentCall DEF Challenged
      <3> HIDE DEF next
      <3>4. program' # <<>> /\ call' = next
        <4>1. program \in Seq(CallsMade) /\ 1 \in DOMAIN program
          BY <3>1, CurrentCall DEF TypeOK
        <4>2. program' \in Seq(CallsMade) /\ program'[1] = next /\ 1 \in DOMAIN program'
          BY <3>2, <3>3, <4>1
        <4>3. program' # <<>>
          BY <4>2
        <4> QED
          BY <4>2, <4>3 DEF call
      <3>5. Awaits'
        BY <2>6, <3>3, <3>4 DEF Challenged
      <3>6. one \in Message /\ Tag(one)
        <4>1. nextId + 1 \in Nat /\ Random(nextId + 1) \in Opaque
          BY DEF TypeOK, Random, Opaque
        <4>2. "sasl_step" \in Commands /\ "CRAM-MD5" \in Keys
          BY KeysAssumption DEF Commands
        <4>3. one \in Message
          BY <3>1, <4>1, <4>2, SendType, Zenon
        <4>4. one.opaque = Random(nextId + 1) /\ one.id = nextId + 1
          BY DEF sendCmd
        <4> QED
          BY <4>3, <4>4 DEF Tag
      <3> HIDE DEF one
      <3>7. ToSet(requests') \subseteq ToSet(requests) \cup {one}
        BY <2>6, <3>6, AppendToSet DEF Challenged, TypeOK, one
      <3>8. \A m \in sent' : Tag(m)
        BY <1>a, <2>2, <3>6, <3>7
      <3> QED
        BY <1>0, <3>5, <3>8
    <2> QED
      BY <2>1, <2>3, <2>4, <2>5, <2>6
  <1>4. CASE BeginFails \/ SendFails \/ Sleep \/ Eof
    <2>1. pc' # "await" /\ requests' = requests /\ responses' = responses
      BY <1>4 DEF BeginFails, SendFails, Sleep, Eof, Raise
    <2> QED
      BY <1>0, <1>a, <2>1
  <1>5. CASE Die
    <2>1. requests' = <<>> /\ responses' = responses /\ UNCHANGED client
      BY <1>5 DEF Die
    <2>2. ToSet(requests') = {}
      BY <2>1 DEF ToSet
    <2> QED
      BY <1>0, <1>a, <2>1, <2>2 DEF client, call
  <1>6. CASE UNCHANGED vars
    BY <1>0, <1>a, <1>6 DEF vars, client, call
  <1> QED
    BY <1>1, <1>2, <1>3, <1>4, <1>5, <1>6 DEF Next, ClientStep

\* Only the last element of s is in E.
OnlyLast(s, E) == \A i \in DOMAIN s : s[i] \in E => i = Len(s)

\* A sequence in which only the last element is in E loses its head, or gets
\* another such sequence behind it.
LEMMA OnlyLastTail ==
    ASSUME NEW S, NEW s \in Seq(S), s # <<>>, NEW E, OnlyLast(s, E)
    PROVE  /\ OnlyLast(Tail(s), E)
           /\ Head(s) \in E => Tail(s) = <<>>
  <1> DEFINE t == Tail(s)
             n == Len(s)
  <1>1. /\ n \in Nat /\ n # 0 /\ DOMAIN s = 1 .. n /\ Head(s) = s[1]
        /\ t \in Seq(S) /\ Len(t) = n - 1 /\ DOMAIN t = 1 .. n - 1
        /\ \A k \in DOMAIN t : k + 1 \in DOMAIN s /\ t[k] = s[k + 1]
    BY PopTop
  <1>2. \A i \in DOMAIN s : s[i] \in E => i = n
    BY DEF OnlyLast
  <1> HIDE DEF t, n
  <1>3. \A k \in DOMAIN t : t[k] \in E => k = Len(t)
    BY <1>1, <1>2
  <1>4. Head(s) \in E => Len(t) = 0
    BY <1>1, <1>2
  <1>5. Head(s) \in E => t = <<>>
    BY <1>1, <1>4
  <1> QED
    BY <1>3, <1>5 DEF OnlyLast, t

LEMMA OnlyLastConcat ==
    ASSUME NEW S, NEW s \in Seq(S), NEW t \in Seq(S), NEW E, ToSet(s) \cap E = {}, OnlyLast(t, E)
    PROVE  OnlyLast(s \o t, E)
  <1> DEFINE new == s \o t
             n == Len(s)
             m == Len(t)
  <1>1. /\ n \in Nat /\ m \in Nat /\ DOMAIN s = 1 .. n /\ DOMAIN t = 1 .. m
        /\ Len(new) = n + m /\ DOMAIN new = 1 .. n + m
        /\ \A i \in 1 .. n + m : new[i] = IF i <= n THEN s[i] ELSE t[i - n]
    OBVIOUS
  <1>2. \A i \in DOMAIN t : t[i] \in E => i = m
    BY DEF OnlyLast
  <1>3. \A i \in DOMAIN s : s[i] \notin E
    BY DEF ToSet
  <1> HIDE DEF new, n, m
  <1>4. \A i \in DOMAIN new : new[i] \in E => i = n + m
    <2> SUFFICES ASSUME NEW i \in DOMAIN new, new[i] \in E
                 PROVE  i = n + m
      OBVIOUS
    <2>1. i \in 1 .. n + m
      BY <1>1
    <2>2. ~(i <= n)
      BY <1>1, <1>3, <2>1
    <2>3. i - n \in DOMAIN t /\ t[i - n] \in E
      BY <1>1, <2>1, <2>2
    <2>4. i - n = m
      BY <1>2, <2>3
    <2> QED
      BY <1>1, <2>1, <2>4
  <1> QED
    BY <1>1, <1>4 DEF OnlyLast, new

\* The requests and responses that end a call of method c with opaque o, and
\* EndsLast in these terms.
Closing(c, o) == {q \in Message : c = "getMulti" => q.opaque = o}
Ending(c, o)  == {r \in Response : /\ c = "getMulti" => r.opaque = o
                                   /\ c = "stats" => r.klen = 0}

LastEnds(c, o, reqs, resps) ==
    /\ OnlyLast(reqs, Closing(c, o))
    /\ \A q \in ToSet(reqs) : q.cmd = "stats" => c = "stats"
    /\ OnlyLast(resps, Ending(c, o))
    /\ ToSet(resps) \cap Ending(c, o) # {} => reqs = <<>>

EndsLastOf(c, o, reqs, resps) ==
    /\ \A i \in DOMAIN reqs :
          /\ (c = "getMulti" => reqs[i].opaque = o) => i = Len(reqs)
          /\ reqs[i].cmd = "stats" => c = "stats"
    /\ \A i \in DOMAIN resps :
          (c = "getMulti" => resps[i].opaque = o) /\ (c = "stats" => resps[i].klen = 0)
          => i = Len(resps) /\ reqs = <<>>

LEMMA LastEndsMeans ==
    ASSUME NEW c, NEW o, NEW reqs \in Seq(Message), NEW resps \in Seq(Response)
    PROVE  LastEnds(c, o, reqs, resps) <=> EndsLastOf(c, o, reqs, resps)
  <1>1. \A i \in DOMAIN reqs : reqs[i] \in Closing(c, o) <=> (c = "getMulti" => reqs[i].opaque = o)
    BY DEF Closing
  <1>2. \A i \in DOMAIN resps :
           resps[i] \in Ending(c, o) <=>
             (c = "getMulti" => resps[i].opaque = o) /\ (c = "stats" => resps[i].klen = 0)
    BY DEF Ending
  <1>3. ToSet(resps) \cap Ending(c, o) # {} <=> \E i \in DOMAIN resps : resps[i] \in Ending(c, o)
    BY DEF ToSet
  <1>4. OnlyLast(reqs, Closing(c, o)) <=>
          \A i \in DOMAIN reqs : (c = "getMulti" => reqs[i].opaque = o) => i = Len(reqs)
    BY <1>1 DEF OnlyLast
  <1>5. (\A q \in ToSet(reqs) : q.cmd = "stats" => c = "stats") <=>
          \A i \in DOMAIN reqs : reqs[i].cmd = "stats" => c = "stats"
    BY DEF ToSet
  <1>6. OnlyLast(resps, Ending(c, o)) <=> \A i \in DOMAIN resps : resps[i] \in Ending(c, o) => i = Len(resps)
    BY DEF OnlyLast
  <1> QED
    BY <1>2, <1>3, <1>4, <1>5, <1>6 DEF LastEnds, EndsLastOf

LEMMA EndsLastMeans ==
    /\ TypeOK => (EndsLast <=> LastEnds(call.req.cmd, opaque, requests, responses))
    /\ TypeOK' => (EndsLast' <=> LastEnds(call'.req.cmd, opaque', requests', responses'))
  <1>1. /\ EndsLast <=> EndsLastOf(call.req.cmd, opaque, requests, responses)
        /\ EndsLast' <=> EndsLastOf(call'.req.cmd, opaque', requests', responses')
    BY DEF EndsLast, EndsLastOf, Closes, Ends
  <1>2. /\ TypeOK => requests \in Seq(Message) /\ responses \in Seq(Response)
        /\ TypeOK' => requests' \in Seq(Message) /\ responses' \in Seq(Response)
    BY DEF TypeOK
  <1> QED
    BY <1>1, <1>2, LastEndsMeans

\* An answer keeps what ends the call at the end: it moves from the requests
\* to the responses.
LEMMA AnswerEndsLast ==
    ASSUME TypeOK, Answers, NEW c, NEW o, LastEnds(c, o, requests, responses)
    PROVE  LastEnds(c, o, requests', responses')
  <1> DEFINE q == Head(requests)
             C == Closing(c, o)
             E == Ending(c, o)
  <1>1. /\ q \in Message /\ requests \in Seq(Message) /\ requests # <<>>
        /\ responses \in Seq(Response) /\ q \in ToSet(requests)
    BY Queues DEF Answers
  <1>2. /\ OnlyLast(requests, C) /\ OnlyLast(responses, E)
        /\ \A m \in ToSet(requests) : m.cmd = "stats" => c = "stats"
        /\ ToSet(responses) \cap E = {}
    BY <1>1 DEF LastEnds
  <1> HIDE DEF C, E
  <1>3. /\ OnlyLast(requests', C) /\ (q \in C => requests' = <<>>)
        /\ ToSet(requests') \subseteq ToSet(requests)
    BY <1>1, <1>2, OnlyLastTail, TailToSet DEF Answers
  <1>4. PICK rep \in Replies : responses' = responses \o Responses(q, rep)
    BY DEF Answers
  <1> HIDE DEF q
  <1> DEFINE r == Answer(q, rep)
             s == Packet(q, rep, 1, 1)
             new == Responses(q, rep)
  <1>5. /\ r \in Response /\ s \in Response
        /\ r.opaque = q.opaque /\ r.klen = 0 /\ s.opaque = q.opaque /\ s.klen = 1
    BY <1>1, AnswerFields
  <1>6. new \in {<<>>, <<r>>} \/ (q.cmd = "stats" /\ new = <<s, r>>)
    BY <1>1, ResponsesCases
  <1> HIDE DEF r, s, new
  <1>7. r \in E => q \in C
    BY <1>1, <1>5 DEF C, E, Closing, Ending
  <1>8. q.cmd = "stats" => s \notin E /\ q \in C
    BY <1>1, <1>2, <1>5 DEF C, E, Closing, Ending
  <1>9. new \in Seq(Response) /\ OnlyLast(new, E) /\ (ToSet(new) \cap E # {} => q \in C)
    <2>1. <<>> \in Seq(Response) /\ OnlyLast(<<>>, E) /\ ToSet(<<>>) = {}
      BY DEF OnlyLast, ToSet
    <2>2. <<r>> \in Seq(Response) /\ OnlyLast(<<r>>, E) /\ ToSet(<<r>>) = {r}
      BY <1>5 DEF OnlyLast, ToSet
    <2>3. CASE new = <<>>
      BY <2>1, <2>3
    <2>4. CASE new = <<r>>
      BY <1>7, <2>2, <2>4
    <2>5. CASE q.cmd = "stats" /\ new = <<s, r>>
      <3>1. <<s, r>> \in Seq(Response) /\ Len(<<s, r>>) = 2 /\ DOMAIN <<s, r>> = {1, 2}
            /\ <<s, r>>[1] = s
        BY <1>5
      <3>2. OnlyLast(<<s, r>>, E)
        BY <1>8, <2>5, <3>1 DEF OnlyLast
      <3> QED
        BY <1>8, <2>5, <3>1, <3>2
    <2> QED
      BY <1>6, <2>3, <2>4, <2>5
  <1>10. OnlyLast(responses', E) /\ ToSet(responses') = ToSet(responses) \cup ToSet(new)
    BY <1>1, <1>2, <1>4, <1>9, OnlyLastConcat, ConcatToSet DEF new
  <1>11. ToSet(responses') \cap E # {} => requests' = <<>>
    BY <1>2, <1>3, <1>9, <1>10
  <1> QED
    BY <1>2, <1>3, <1>10, <1>11 DEF LastEnds, C, E

\* A call that begins on an empty connection: the last request ends it.
LEMMA BeginEndsLast ==
    ASSUME TypeOK, Begin, requests = <<>>, responses = <<>>
    PROVE  LastEnds(call.req.cmd, opaque', requests', responses')
  <1> DEFINE keys == call.req.keys
             c    == call.req.cmd
             one  == sendCmd(c, call.req.key, Random(nextId + 1), nextId + 1)
  <1>1. PICK reqs \in Seq(Message) :
           /\ reqs # <<>>
           /\ requests' = IF alive THEN requests \o reqs ELSE requests
           /\ opaque' = reqs[Len(reqs)].opaque
           /\ c = "getMulti" => reqs = MultiRequests(keys)
           /\ c # "getMulti" => reqs = <<one>>
    BY BeginSends
  <1>2. program # <<>> /\ responses' = responses
    BY DEF Begin
  <1>3. requests' \in {<<>>, reqs}
    BY <1>1
  <1>4. OnlyLast(reqs, Closing(c, opaque')) /\ \A q \in ToSet(reqs) : q.cmd = "stats" => c = "stats"
    <2>1. CASE c = "getMulti"
      <3> DEFINE n == Len(reqs)
      <3>1. /\ opaque' = Terminal(keys)
            /\ \A i \in DOMAIN reqs : i # n => reqs[i].opaque = <<"number", i - 1>> /\ i \in DOMAIN keys
            /\ \A j \in DOMAIN keys : Terminal(keys) # <<"number", j - 1>>
            /\ \A i \in DOMAIN reqs : reqs[i].cmd \in {"getq", "noop"}
        BY <1>1, <1>2, <2>1, MultiFields
      <3> HIDE DEF n, keys
      <3>2. \A i \in DOMAIN reqs : reqs[i] \in Closing(c, opaque') => i = n
        BY <2>1, <3>1 DEF Closing
      <3>3. \A i \in DOMAIN reqs : reqs[i].cmd # "stats"
        BY <3>1
      <3> QED
        BY <3>2, <3>3 DEF OnlyLast, ToSet, n
    <2>2. CASE c # "getMulti"
      <3>1. one.cmd = c
        BY DEF sendCmd
      <3> HIDE DEF one
      <3>2. reqs = <<one>> /\ DOMAIN reqs = {1} /\ Len(reqs) = 1 /\ reqs[1] = one
        BY <1>1, <2>2
      <3> QED
        BY <3>1, <3>2 DEF OnlyLast, ToSet
    <2> QED
      BY <2>1, <2>2
  <1> HIDE DEF c
  <1>5. OnlyLast(<<>>, Closing(c, opaque')) /\ OnlyLast(<<>>, Ending(c, opaque')) /\ ToSet(<<>>) = {}
    BY DEF OnlyLast, ToSet
  <1>6. LastEnds(c, opaque', requests', <<>>)
    BY <1>3, <1>4, <1>5 DEF LastEnds
  <1> QED
    BY <1>2, <1>6 DEF c

\* Between calls the connection is empty, and within a call nothing follows
\* what ends it.
Sync == InSync /\ (pc = "await" /\ ~dirty => EndsLast)

LEMMA SyncStep == TypeOK /\ TypeOK' /\ Tagged /\ Sync /\ [Next]_vars => Sync'
  <1> SUFFICES ASSUME TypeOK, TypeOK', Tagged, Sync, [Next]_vars
               PROVE  Sync'
    OBVIOUS
  <1> DEFINE c == call.req.cmd
  <1>0. /\ pc = "idle" /\ ~dirty => requests = <<>> /\ responses = <<>>
        /\ pc = "await" /\ ~dirty => LastEnds(c, opaque, requests, responses)
    BY EndsLastMeans DEF Sync, InSync
  <1>a. ASSUME pc' = "idle" /\ ~dirty' => requests' = <<>> /\ responses' = <<>>,
               pc' = "await" /\ ~dirty' => LastEnds(c', opaque', requests', responses')
        PROVE  Sync'
    BY <1>a, EndsLastMeans DEF Sync, InSync
  <1>1. CASE Begin
    <2>1. pc = "idle" /\ pc' = "await" /\ program' = program /\ dirty' = dirty
      BY <1>1 DEF Begin
    <2>2. c' = c
      BY <2>1 DEF call
    <2> HIDE DEF c
    <2>3. ~dirty => LastEnds(c, opaque', requests', responses')
      BY <1>0, <1>1, <2>1, BeginEndsLast DEF c
    <2> QED
      BY <1>a, <2>1, <2>2, <2>3
  <1>2. CASE Serve \/ ServeFails
    <2>1. Answers /\ UNCHANGED client
      BY <1>2, ServeAnswers
    <2>2. pc' = pc /\ dirty' = dirty /\ program' = program /\ opaque' = opaque
      BY <2>1 DEF client
    <2>3. c' = c
      BY <2>2 DEF call
    <2>4. requests # <<>>
      BY <2>1 DEF Answers
    <2> HIDE DEF c
    <2>5. pc = "await" /\ ~dirty => LastEnds(c, opaque, requests', responses')
      BY <1>0, <2>1, AnswerEndsLast
    <2> QED
      BY <1>0, <1>a, <2>2, <2>3, <2>4, <2>5
  <1>3. CASE Receive
    <2> DEFINE r == Head(responses)
    <2>1. /\ pc = "await" /\ responses # <<>> /\ responses' = Tail(responses)
          /\ Fails \/ SingleDone(r) \/ Challenged \/ GivenUp(r) \/ DictDone(r) \/ MultiMore(r)
             \/ StatsMore(r)
      BY <1>3, ReceiveCases
    <2>2. r \in Response /\ r \in ToSet(responses) /\ responses \in Seq(Response)
      BY <2>1, Queues
    <2> HIDE DEF r
    <2>3. ASSUME ~dirty
          PROVE  /\ OnlyLast(responses', Ending(c, opaque))
                 /\ ToSet(responses') \subseteq ToSet(responses)
                 /\ r \in Ending(c, opaque) => responses' = <<>> /\ requests = <<>>
                 /\ LastEnds(c, opaque, requests, responses)
      <3> HIDE DEF c
      <3>1. LastEnds(c, opaque, requests, responses)
        BY <1>0, <2>1, <2>3
      <3>2. OnlyLast(responses, Ending(c, opaque))
            /\ (ToSet(responses) \cap Ending(c, opaque) # {} => requests = <<>>)
        BY <3>1 DEF LastEnds
      <3>3. OnlyLast(responses', Ending(c, opaque)) /\ (r \in Ending(c, opaque) => responses' = <<>>)
        BY <2>1, <2>2, <3>2, OnlyLastTail DEF r
      <3>4. ToSet(responses') \subseteq ToSet(responses)
        BY <2>1, <2>2, TailToSet
      <3> QED
        BY <2>2, <3>1, <3>2, <3>3, <3>4
    <2>4. CASE Fails
      <3>1. pc' \notin {"idle", "await"}
        BY <2>4 DEF Fails, Raise
      <3> QED
        BY <1>a, <3>1
    <2>5. CASE GivenUp(r)
      <3>1. dirty' = TRUE
        BY <2>5 DEF GivenUp
      <3> QED
        BY <1>a, <3>1
    <2>6. CASE SingleDone(r) \/ DictDone(r)
      <3>1. pc' # "await" /\ dirty' = dirty /\ requests' = requests
        BY <2>6 DEF SingleDone, DictDone, Finish
      <3>2. r \in Ending(c, opaque)
        BY <2>2, <2>6 DEF SingleDone, DictDone, Ends, Closes, Ending
      <3> QED
        BY <1>a, <2>3, <3>1, <3>2
    <2>7. CASE MultiMore(r) \/ StatsMore(r)
      <3>1. /\ requests' = requests /\ program' = program /\ opaque' = opaque /\ dirty' = dirty
            /\ pc' = pc
        BY <2>7 DEF MultiMore, StatsMore
      <3>2. c' = c
        BY <3>1 DEF call
      <3> HIDE DEF c
      <3>3. ~dirty => LastEnds(c, opaque, requests, responses')
        BY <2>3 DEF LastEnds
      <3> QED
        BY <1>a, <2>1, <3>1, <3>2, <3>3
    <2>8. CASE Challenged
      <3> DEFINE one == sendCmd("sasl_step", "CRAM-MD5", Random(nextId + 1), nextId + 1)
      <3>1. c = "cram" /\ pc' = pc /\ dirty' = dirty
        BY <2>8 DEF Challenged
      <3>2. r \in Ending(c, opaque)
        BY <2>2, <3>1 DEF Ending
      <3>3. c' = "sasl_step"
        <4> DEFINE next == [call EXCEPT !.req.cmd = "sasl_step"]
        <4>1. program # <<>>
          BY <2>1 DEF Tagged
        <4>2. program' = [program EXCEPT ![1] = next]
          BY <2>8, <4>1, CurrentCall DEF Challenged
        <4>3. next \in CallsMade /\ next.req.cmd = "sasl_step"
          BY <2>8, <4>1, GoesOn, CurrentCall DEF Challenged
        <4> HIDE DEF next
        <4>4. program \in Seq(CallsMade) /\ 1 \in DOMAIN program
          BY <4>1, CurrentCall DEF TypeOK
        <4>5. program' \in Seq(CallsMade) /\ program'[1] = next /\ 1 \in DOMAIN program'
          BY <4>2, <4>3, <4>4
        <4> QED
          BY <4>3, <4>5 DEF call
      <3>4. one.cmd = "sasl_step"
        BY DEF sendCmd
      <3> HIDE DEF one, c
      <3>5. ASSUME ~dirty
            PROVE  LastEnds("sasl_step", opaque', requests', responses')
        <4>1. responses' = <<>> /\ requests = <<>>
          BY <2>3, <3>2, <3>5 DEF c
        <4>2. requests' \in {<<>>, <<one>>}
          BY <2>8, <4>1 DEF Challenged, one
        <4>3. \A E : OnlyLast(<<>>, E) /\ OnlyLast(<<one>>, E)
          BY DEF OnlyLast
        <4>4. ToSet(<<>>) = {} /\ ToSet(<<one>>) = {one}
          BY DEF ToSet
        <4> QED
          BY <3>4, <4>1, <4>2, <4>3, <4>4 DEF LastEnds
      <3> QED
        BY <1>a, <2>1, <3>1, <3>3, <3>5
    <2> QED
      BY <2>1, <2>4, <2>5, <2>6, <2>7, <2>8
  <1>4. CASE BeginFails \/ SendFails \/ Eof
    <2>1. pc' \notin {"idle", "await"}
      BY <1>4 DEF BeginFails, SendFails, Eof, Raise
    <2> QED
      BY <1>a, <2>1
  <1>5. CASE Sleep
    <2>1. pc = "idle" /\ pc' = pc /\ dirty' = dirty /\ requests' = requests /\ responses' = responses
      BY <1>5 DEF Sleep
    <2> QED
      BY <1>0, <1>a, <2>1
  <1>6. CASE Die
    <2>1. /\ requests' = <<>> /\ responses' = responses /\ pc' = pc /\ dirty' = dirty
          /\ program' = program /\ opaque' = opaque
      BY <1>6 DEF Die, client
    <2>2. c' = c
      BY <2>1 DEF call
    <2> HIDE DEF c
    <2>3. \A E : OnlyLast(<<>>, E)
      BY DEF OnlyLast
    <2>4. ToSet(<<>>) = {}
      BY DEF ToSet
    <2>5. LastEnds(c, opaque, requests, responses) => LastEnds(c, opaque, <<>>, responses)
      BY <2>3, <2>4 DEF LastEnds
    <2> QED
      BY <1>0, <1>a, <2>1, <2>2, <2>5
  <1>7. CASE UNCHANGED vars
    <2>1. /\ requests' = requests /\ responses' = responses /\ pc' = pc /\ dirty' = dirty
          /\ program' = program /\ opaque' = opaque
      BY <1>7 DEF vars, client
    <2>2. c' = c
      BY <2>1 DEF call
    <2> HIDE DEF c
    <2> QED
      BY <1>0, <1>a, <2>1, <2>2
  <1> QED
    BY <1>1, <1>2, <1>3, <1>4, <1>5, <1>6, <1>7 DEF Next, ClientStep

\* The result of a call has its command and its keys beside the fields of r.
LEMMA Result ==
    ASSUME NEW r, Finish(r), "cmd" \notin DOMAIN r, "keys" \notin DOMAIN r
    PROVE  /\ DOMAIN last' = DOMAIN r \cup {"cmd", "keys"}
           /\ last'.cmd = call.req.cmd
           /\ last'.keys = call.req.keys
           /\ \A f \in DOMAIN r : last'[f] = r[f]
  <1> DEFINE d == [cmd |-> call.req.cmd, keys |-> call.req.keys]
  <1>1. /\ DOMAIN d = {"cmd", "keys"}
        /\ d.cmd = call.req.cmd /\ d.keys = call.req.keys
    OBVIOUS
  <1>2. last' = Update(d, r)
    BY DEF Finish
  <1> HIDE DEF d
  <1>3. /\ DOMAIN last' = DOMAIN d \cup DOMAIN r
        /\ \A f \in DOMAIN r : last'[f] = r[f]
        /\ \A f \in DOMAIN d \ DOMAIN r : last'[f] = d[f]
    BY <1>2 DEF Update
  <1> QED
    BY <1>1, <1>3

\* The results of the calls: a response, with or without the note, or a dict.
LEMMA ResponseResult ==
    ASSUME NEW r \in Response
    PROVE  /\ DOMAIN r = {"opaque", "id", "klen", "body", "st", "val", "flags", "cas"}
           /\ "cmd" \notin DOMAIN r /\ "keys" \notin DOMAIN r /\ "own" \notin DOMAIN r
  BY DEF Response

\* The result of every step: what was, nothing, or the result of a call.
LEMMA OwnStep == TypeOK /\ Tagged /\ OwnResponse /\ [Next]_vars => OwnResponse'
  <1> SUFFICES ASSUME TypeOK, Tagged, OwnResponse, [Next]_vars
               PROVE  OwnResponse'
    OBVIOUS
  <1>1. CASE last' = last
    BY <1>1 DEF OwnResponse
  <1>2. CASE Sleep
    <2>1. last' = [cmd |-> "none"]
      BY <1>2 DEF Sleep
    <2>2. DOMAIN last' = {"cmd"}
      BY <2>1
    <2> QED
      BY <2>2 DEF OwnResponse
  <1>3. CASE Receive
    <2> DEFINE r == Head(responses)
    <2>1. /\ pc = "await" /\ responses # <<>>
          /\ Fails \/ SingleDone(r) \/ Challenged \/ GivenUp(r) \/ DictDone(r) \/ MultiMore(r)
             \/ StatsMore(r)
      BY <1>3, ReceiveCases
    <2>2. r \in Response /\ r \in ToSet(responses)
      BY <2>1, Queues
    <2> HIDE DEF r
    <2>3. CASE Fails \/ Challenged \/ MultiMore(r) \/ StatsMore(r)
      <3>1. last' = last
        BY <2>3 DEF Fails, Raise, Challenged, MultiMore, StatsMore
      <3> QED
        BY <1>1, <3>1
    <2>4. CASE SingleDone(r)
      <3> DEFINE res == Update(r, [own |-> r.id = nextId])
      <3>1. DOMAIN res = DOMAIN r \cup {"own"} /\ res.own = (r.id = nextId)
        BY <2>2, OwnResult, ResponseResult
      <3>2. Finish(res)
        BY <2>4 DEF SingleDone
      <3> HIDE DEF res
      <3>3. last'.own = (r.id = nextId)
        BY <2>2, <3>1, <3>2, Result, ResponseResult
      <3>4. r.opaque = Random(nextId)
        BY <2>1, <2>4 DEF SingleDone, Tagged
      <3>5. r.opaque = Random(r.id) \/ r.opaque \in {"number"} \X Nat
        BY <2>2 DEF Tagged
      <3>6. r.id = nextId
        BY <3>4, <3>5 DEF Random
      <3> QED
        BY <3>3, <3>6 DEF OwnResponse
    <2>5. CASE GivenUp(r)
      <3>1. DOMAIN last' = DOMAIN r \cup {"cmd", "keys"}
        BY <2>2, <2>5, Result, ResponseResult DEF GivenUp
      <3> QED
        BY <2>2, <3>1, ResponseResult DEF OwnResponse
    <2>6. CASE DictDone(r)
      <3> DEFINE res == [st |-> "ok", val |-> rv]
      <3>1. DOMAIN res = {"st", "val"}
        OBVIOUS
      <3>2. Finish(res)
        BY <2>6 DEF DictDone
      <3> HIDE DEF res
      <3>3. DOMAIN last' = {"st", "val", "cmd", "keys"}
        BY <3>1, <3>2, Result
      <3> QED
        BY <3>3 DEF OwnResponse
    <2> QED
      BY <2>1, <2>3, <2>4, <2>5, <2>6
  <1>4. CASE Begin \/ BeginFails \/ SendFails \/ Eof \/ Die \/ UNCHANGED vars
    <2>1. last' = last
      BY <1>4 DEF Begin, BeginFails, SendFails, Eof, Raise, Die, vars, client
    <2> QED
      BY <1>1, <2>1
  <1>5. CASE Serve \/ ServeFails
    <2>1. last' = last
      BY <1>5, ServeAnswers DEF client
    <2> QED
      BY <1>1, <2>1
  <1> QED
    BY <1>2, <1>3, <1>4, <1>5 DEF Next, ClientStep

\* MultiParts for keys and opaque o, with the requests R and the responses P
\* on their way, what has been collected in d, and the items of the server.
Asks(keys, o, R) ==
    \A q \in R : \/ q.cmd = "noop" /\ q.opaque = o
                 \/ q.cmd = "getq" /\ \E j \in DOMAIN keys : q.opaque = <<"number", j - 1>> /\ q.key = keys[j]

Tells(keys, o, P, items) ==
    \A r \in P : r.st = "ok" /\ r.opaque # o =>
        \E j \in DOMAIN keys : /\ r.opaque = <<"number", j - 1>>
                               /\ keys[j] \in DOMAIN items
                               /\ <<r.flags, r.val>> = <<items[keys[j]].flags, items[keys[j]].val>>

Collected(keys, d, items) ==
    \A k \in DOMAIN d : /\ k \in ToSet(keys) \cap DOMAIN items
                        /\ d[k] = <<items[k].flags, items[k].val>>

OnItsWay(keys, sent, d, items) ==
    \A j \in DOMAIN keys : keys[j] \in DOMAIN items \ DOMAIN d =>
        \E m \in sent : m.opaque = <<"number", j - 1>>

WillEnd(o, R, P) == (\E m \in R \cup P : m.opaque = o) /\ (\A r \in P : r.st = "ok")

Parts(keys, o, R, P, d, items) ==
    /\ Asks(keys, o, R)
    /\ Tells(keys, o, P, items)
    /\ Collected(keys, d, items)
    /\ WillEnd(o, R, P) => OnItsWay(keys, R \cup P, d, items)

LEMMA PartsMeans ==
    /\ MultiParts <=> Parts(call.req.keys, opaque, ToSet(requests), ToSet(responses), rv, store)
    /\ MultiParts' <=> Parts(call'.req.keys, opaque', ToSet(requests'), ToSet(responses'), rv', store')
  BY DEF MultiParts, Parts, Asks, Tells, Collected, OnItsWay, WillEnd, Entry

\* The server answers a request of getMulti: it leaves the items as they are.
LEMMA QuietAnswer ==
    ASSUME TypeOK, Serve \/ ServeFails, Head(requests).cmd \in {"getq", "noop"}
    PROVE  LET q == Head(requests) IN
           /\ store' = store
           /\ requests' = Tail(requests)
           /\ \E rep \in Replies :
                /\ responses' = responses \o Responses(q, rep)
                /\ q.cmd = "getq" /\ rep.st = "ok" =>
                     q.key \in DOMAIN store /\ <<rep.flags, rep.val>> = Entry(q.key)
                /\ q.cmd = "getq" /\ rep.st = "not_found" => q.key \notin DOMAIN store
  <1> DEFINE q == Head(requests)
  <1>1. CASE Serve
    <2> DEFINE rep == Effect(q).reply
    <2>1. requests # <<>> /\ q \in Message
      BY <1>1, Queues DEF Serve
    <2>2. rep \in Replies
      BY <2>1, EffectType
    <2>3. /\ Effect(q).store = store
          /\ q.cmd = "getq" /\ rep.st = "ok" =>
               q.key \in DOMAIN store /\ <<rep.flags, rep.val>> = Entry(q.key)
          /\ q.cmd = "getq" /\ rep.st = "not_found" => q.key \notin DOMAIN store
      BY <2>1, QuietEffect
    <2>4. /\ responses' = responses \o Responses(q, rep)
          /\ store' = Effect(q).store
          /\ requests' = Tail(requests)
      BY <1>1, Zenon DEF Serve
    <2> HIDE DEF q, rep
    <2> QED
      BY <2>2, <2>3, <2>4 DEF q
  <1>2. CASE ServeFails
    <2> DEFINE rep == Reply("busy", Empty, 0, 0)
    <2>1. responses' = responses \o Responses(q, rep) /\ requests' = Tail(requests) /\ store' = store
      BY <1>2 DEF ServeFails, service
    <2>2. rep \in Replies /\ rep.st = "busy"
      BY DEF Reply, Replies, Status, Empty, Text, Value
    <2> HIDE DEF q, rep
    <2> QED
      BY <2>1, <2>2 DEF q
  <1> QED
    BY <1>1, <1>2

\* Two numbers of getMulti that are the same opaque are the same number.
LEMMA SameNumber ==
    ASSUME NEW i \in Nat, NEW j \in Nat, <<"number", i - 1>> = <<"number", j - 1>>
    PROVE  i = j
  OBVIOUS

\* What the server answers is a part of the same answer.
LEMMA AnswerParts ==
    ASSUME TypeOK, Serve \/ ServeFails, NEW keys \in Seq(Keys), NEW o,
           Parts(keys, o, ToSet(requests), ToSet(responses), rv, store)
    PROVE  Parts(keys, o, ToSet(requests'), ToSet(responses'), rv, store')
  <1> DEFINE q == Head(requests)
             R == ToSet(requests)
             P == ToSet(responses)
  <1>1. /\ q \in Message /\ requests \in Seq(Message) /\ requests # <<>> /\ q \in R
        /\ responses \in Seq(Response)
    BY Queues, ServeAnswers DEF Answers
  <1>2. /\ Asks(keys, o, R) /\ Tells(keys, o, P, store) /\ Collected(keys, rv, store)
        /\ WillEnd(o, R, P) => OnItsWay(keys, R \cup P, rv, store)
    BY DEF Parts
  <1>3. \/ q.cmd = "noop" /\ q.opaque = o
        \/ q.cmd = "getq" /\ \E j \in DOMAIN keys : q.opaque = <<"number", j - 1>> /\ q.key = keys[j]
    BY <1>1, <1>2 DEF Asks
  <1>4. /\ store' = store
        /\ requests' = Tail(requests)
        /\ \E rep \in Replies :
             /\ responses' = responses \o Responses(q, rep)
             /\ q.cmd = "getq" /\ rep.st = "ok" =>
                  q.key \in DOMAIN store /\ <<rep.flags, rep.val>> = Entry(q.key)
             /\ q.cmd = "getq" /\ rep.st = "not_found" => q.key \notin DOMAIN store
    BY <1>3, QuietAnswer
  <1>5. PICK rep \in Replies :
             /\ responses' = responses \o Responses(q, rep)
             /\ q.cmd = "getq" /\ rep.st = "ok" =>
                  q.key \in DOMAIN store /\ <<rep.flags, rep.val>> = Entry(q.key)
             /\ q.cmd = "getq" /\ rep.st = "not_found" => q.key \notin DOMAIN store
    BY <1>4
  <1>6. R = {q} \cup ToSet(requests')
    BY <1>1, <1>4, TailToSet
  <1> HIDE DEF q, P, R
  <1> DEFINE r == Answer(q, rep)
             new == Responses(q, rep)
             Q == ToSet(requests')
  <1>7. /\ r \in Response /\ r.opaque = q.opaque /\ r.st = rep.st /\ r.val = rep.val /\ r.flags = rep.flags
    BY <1>1, AnswerFields
  <1>8. (q.cmd = "getq" /\ rep.st = "not_found" /\ new = <<>>) \/ new = <<r>>
    BY <1>1, <1>3, ResponsesCases
  <1> HIDE DEF r, new
  <1>9. PICK N \in {{}, {r}} : /\ ToSet(responses') = P \cup N
                               /\ N = {} => q.cmd = "getq" /\ rep.st = "not_found"
    <2>1. <<>> \in Seq(Response) /\ ToSet(<<>>) = {} /\ <<r>> \in Seq(Response) /\ ToSet(<<r>>) = {r}
      BY <1>7 DEF ToSet
    <2>2. new \in Seq(Response) /\ (ToSet(new) = {r} \/ (ToSet(new) = {} /\ q.cmd = "getq" /\ rep.st = "not_found"))
      BY <1>8, <2>1
    <2>3. ToSet(responses') = P \cup ToSet(new)
      BY <1>1, <1>5, <2>2, ConcatToSet DEF new, P
    <2> QED
      BY <2>2, <2>3
  <1> HIDE DEF Q
  <1>10. Asks(keys, o, Q)
    BY <1>2, <1>6 DEF Asks, Q
  <1>11. Tells(keys, o, P \cup N, store)
    <2>1. ASSUME r.st = "ok", r.opaque # o
          PROVE  \E j \in DOMAIN keys :
                    /\ r.opaque = <<"number", j - 1>>
                    /\ keys[j] \in DOMAIN store
                    /\ <<r.flags, r.val>> = <<store[keys[j]].flags, store[keys[j]].val>>
      <3>1. q.cmd = "getq" /\ \E j \in DOMAIN keys : q.opaque = <<"number", j - 1>> /\ q.key = keys[j]
        BY <1>3, <1>7, <2>1
      <3>2. q.key \in DOMAIN store /\ <<r.flags, r.val>> = <<store[q.key].flags, store[q.key].val>>
        BY <1>5, <1>7, <2>1, <3>1 DEF Entry
      <3> QED
        BY <1>7, <3>1, <3>2
    <2> QED
      BY <1>2, <1>9, <2>1 DEF Tells
  <1>12. ASSUME WillEnd(o, Q, P \cup N)
         PROVE  OnItsWay(keys, Q \cup (P \cup N), rv, store)
    <2>1. \A m \in P \cup N : m \in P \/ m = r
      BY <1>9
    <2>2. \E m \in R \cup P : m.opaque = o
      BY <1>6, <1>7, <1>12, <2>1 DEF WillEnd, Q
    <2>3. WillEnd(o, R, P)
      BY <1>12, <2>2 DEF WillEnd
    <2>4. OnItsWay(keys, R \cup P, rv, store)
      BY <1>2, <2>3
    <2> SUFFICES ASSUME NEW j \in DOMAIN keys, keys[j] \in DOMAIN store \ DOMAIN rv
                 PROVE  \E m \in Q \cup (P \cup N) : m.opaque = <<"number", j - 1>>
      BY DEF OnItsWay
    <2>5. PICK m \in R \cup P : m.opaque = <<"number", j - 1>>
      BY <2>4 DEF OnItsWay
    <2>6. CASE m # q
      BY <1>6, <2>5, <2>6 DEF Q
    <2>7. CASE m = q /\ N = {r}
      BY <1>7, <2>5, <2>7
    <2>8. CASE m = q /\ N = {}
      <3>1. q.cmd = "getq" /\ q.key \notin DOMAIN store
        BY <1>5, <1>9, <2>8
      <3>2. PICK i \in DOMAIN keys : q.opaque = <<"number", i - 1>> /\ q.key = keys[i]
        BY <1>3, <3>1
      <3>3. i = j
        BY <2>5, <2>8, <3>2, SameNumber
      <3> QED
        BY <3>1, <3>2, <3>3
    <2> QED
      BY <1>9, <2>6, <2>7, <2>8
  <1>13. Parts(keys, o, Q, P \cup N, rv, store)
    BY <1>2, <1>10, <1>11, <1>12 DEF Parts
  <1> QED
    BY <1>4, <1>9, <1>13 DEF Q

\* The dict after response r of a request for one of the keys.
WithResponse(keys, d, r) ==
    Update(d, [k \in {keys[i] : i \in {j \in DOMAIN keys : r.opaque = <<"number", j - 1>>}}
                 |-> <<r.flags, r.val>>])

\* What getMulti takes from the connection it has in its dict.
LEMMA CollectParts ==
    ASSUME NEW keys \in Seq(Keys), NEW o, NEW R, NEW P, NEW Q, NEW d, NEW items, NEW e, NEW r,
           Parts(keys, o, R, P, d, items),
           P = {r} \cup Q, r.st = "ok", r.opaque # o, e = WithResponse(keys, d, r)
    PROVE  Parts(keys, o, R, Q, e, items)
  <1>1. /\ Asks(keys, o, R) /\ Tells(keys, o, P, items) /\ Collected(keys, d, items)
        /\ WillEnd(o, R, P) => OnItsWay(keys, R \cup P, d, items)
    BY DEF Parts
  <1>2. PICK j \in DOMAIN keys :
           /\ r.opaque = <<"number", j - 1>>
           /\ keys[j] \in DOMAIN items
           /\ <<r.flags, r.val>> = <<items[keys[j]].flags, items[keys[j]].val>>
    BY <1>1 DEF Tells
  <1>3. DOMAIN keys \subseteq Nat /\ keys[j] \in ToSet(keys)
    BY DEF ToSet
  <1>4. {i \in DOMAIN keys : r.opaque = <<"number", i - 1>>} = {j}
    BY <1>2, <1>3, SameNumber
  <1>5. {keys[i] : i \in {i \in DOMAIN keys : r.opaque = <<"number", i - 1>>}} = {keys[j]}
    BY <1>4
  <1>6. e = Update(d, [k \in {keys[j]} |-> <<r.flags, r.val>>])
    BY <1>5 DEF WithResponse
  <1>7. /\ DOMAIN e = DOMAIN d \cup {keys[j]}
        /\ e[keys[j]] = <<r.flags, r.val>>
        /\ \A k \in DOMAIN d : k # keys[j] => e[k] = d[k]
    BY <1>6 DEF Update
  <1>8. Collected(keys, e, items)
    BY <1>1, <1>2, <1>3, <1>7 DEF Collected
  <1>9. Tells(keys, o, Q, items)
    BY <1>1 DEF Tells
  <1>10. ASSUME WillEnd(o, R, Q)
         PROVE  OnItsWay(keys, R \cup Q, e, items)
    <2>1. WillEnd(o, R, P)
      BY <1>10 DEF WillEnd
    <2>2. OnItsWay(keys, R \cup P, d, items)
      BY <1>1, <2>1
    <2> SUFFICES ASSUME NEW i \in DOMAIN keys, keys[i] \in DOMAIN items \ DOMAIN e
                 PROVE  \E m \in R \cup Q : m.opaque = <<"number", i - 1>>
      BY DEF OnItsWay
    <2>3. PICK m \in R \cup P : m.opaque = <<"number", i - 1>>
      BY <1>7, <2>2 DEF OnItsWay
    <2>4. m # r
      <3>1. i # j
        BY <1>7
      <3> QED
        BY <1>2, <1>3, <2>3, <3>1, SameNumber
    <2> QED
      BY <2>3, <2>4
  <1> QED
    BY <1>1, <1>8, <1>9, <1>10 DEF Parts

\* getMulti begins on an empty connection: everything is asked for, or
\* nothing, if the server has died.
LEMMA BeginParts ==
    ASSUME TypeOK, Begin, requests = <<>>, responses = <<>>, call.req.cmd = "getMulti"
    PROVE  Parts(call.req.keys, opaque', ToSet(requests'), ToSet(responses'), rv', store')
  <1> DEFINE keys == call.req.keys
  <1>1. PICK reqs \in Seq(Message) :
           /\ reqs # <<>>
           /\ requests' = IF alive THEN requests \o reqs ELSE requests
           /\ opaque' = reqs[Len(reqs)].opaque
           /\ reqs = MultiRequests(keys)
    BY BeginSends
  <1>2. program # <<>> /\ responses' = responses /\ rv' = <<>> /\ store' = store
    BY DEF Begin, service
  <1> DEFINE n == Len(reqs)
  <1>3. /\ opaque' = Terminal(keys)
        /\ reqs[n].cmd = "noop" /\ reqs[n].opaque = Terminal(keys)
        /\ \A i \in DOMAIN reqs : i # n =>
              i \in DOMAIN keys /\ reqs[i].opaque = <<"number", i - 1>> /\ reqs[i].cmd = "getq"
              /\ reqs[i].key = keys[i]
        /\ \A j \in DOMAIN keys : j \in DOMAIN reqs /\ j # n
    BY <1>1, <1>2, MultiFields
  <1>4. requests' = reqs \/ requests' = <<>>
    BY <1>1
  <1> HIDE DEF keys, n
  <1>5. ToSet(<<>>) = {} /\ ToSet(responses') = {} /\ DOMAIN rv' = {}
    BY <1>2 DEF ToSet
  <1>6. Asks(keys, opaque', ToSet(reqs)) /\ Asks(keys, opaque', {})
    BY <1>3 DEF Asks, ToSet
  <1>7. Tells(keys, opaque', {}, store) /\ Collected(keys, rv', store)
    BY <1>5 DEF Tells, Collected
  <1>8. OnItsWay(keys, ToSet(reqs) \cup {}, rv', store)
    BY <1>3 DEF OnItsWay, ToSet
  <1>9. ~WillEnd(opaque', {}, {})
    BY DEF WillEnd
  <1>10. Parts(keys, opaque', ToSet(reqs), {}, rv', store) /\ Parts(keys, opaque', {}, {}, rv', store)
    BY <1>6, <1>7, <1>8, <1>9 DEF Parts
  <1> QED
    BY <1>2, <1>4, <1>5, <1>10 DEF keys

\* The parts of getMulti's answer belong together as long as nothing was
\* given up.
Multi == pc = "await" /\ ~dirty /\ call.req.cmd = "getMulti" => MultiParts

LEMMA MultiStep == TypeOK /\ TypeOK' /\ Tagged /\ Sync /\ Multi /\ [Next]_vars => Multi'
  <1> SUFFICES ASSUME TypeOK, TypeOK', Tagged, Sync, Multi, [Next]_vars
               PROVE  Multi'
    OBVIOUS
  <1> DEFINE keys == call.req.keys
             now  == Parts(keys, opaque, ToSet(requests), ToSet(responses), rv, store)
             next == Parts(keys, opaque', ToSet(requests'), ToSet(responses'), rv', store')
  <1>0. pc = "await" /\ ~dirty /\ call.req.cmd = "getMulti" => now
    BY PartsMeans DEF Multi
  <1>a. ASSUME program' = program, pc' = "await" /\ ~dirty' /\ call.req.cmd = "getMulti" => next
        PROVE  Multi'
    <2>1. call' = call
      BY <1>a DEF call
    <2> QED
      BY <1>a, <2>1, PartsMeans DEF Multi
  <1>b. ASSUME pc' # "await" \/ dirty'
        PROVE  Multi'
    BY <1>b DEF Multi
  <1>c. pc = "await" => program # <<>>
    BY DEF Tagged
  <1>1. CASE Begin
    <2>1. pc = "idle" /\ program' = program /\ dirty' = dirty
      BY <1>1 DEF Begin
    <2>2. ~dirty => requests = <<>> /\ responses = <<>>
      BY <2>1 DEF Sync, InSync
    <2>3. ~dirty /\ call.req.cmd = "getMulti" => next
      BY <1>1, <2>2, BeginParts
    <2> QED
      BY <1>a, <2>1, <2>3
  <1>2. CASE Serve \/ ServeFails
    <2>1. /\ program' = program /\ pc' = pc /\ dirty' = dirty /\ opaque' = opaque /\ rv' = rv
      BY <1>2, ServeAnswers DEF client
    <2>2. pc = "await" => keys \in Seq(Keys)
      BY <1>c, CurrentCall
    <2> HIDE DEF keys
    <2>3. pc = "await" /\ now => next
      BY <1>2, <2>1, <2>2, AnswerParts
    <2> QED
      BY <1>0, <1>a, <2>1, <2>3 DEF keys
  <1>3. CASE Receive
    <2> DEFINE r == Head(responses)
    <2>1. /\ pc = "await" /\ responses # <<>> /\ responses' = Tail(responses) /\ UNCHANGED service
          /\ Fails \/ SingleDone(r) \/ Challenged \/ GivenUp(r) \/ DictDone(r) \/ MultiMore(r)
             \/ StatsMore(r)
      BY <1>3, ReceiveCases
    <2>2. ToSet(responses) = {r} \cup ToSet(responses')
      BY <2>1, Queues, TailToSet
    <2> HIDE DEF r
    <2>3. CASE Fails \/ SingleDone(r) \/ GivenUp(r) \/ DictDone(r)
      <3>1. pc' # "await"
        BY <2>3 DEF Fails, Raise, SingleDone, GivenUp, DictDone, Finish
      <3> QED
        BY <1>b, <3>1
    <2>4. CASE MultiMore(r)
      <3>1. /\ program' = program /\ pc' = pc /\ dirty' = dirty /\ opaque' = opaque
            /\ requests' = requests /\ call.req.cmd = "getMulti" /\ store' = store
            /\ r.st = "ok" /\ r.opaque # opaque
            /\ rv' = WithResponse(keys, rv, r)
        BY <2>1, <2>4 DEF MultiMore, service, WithResponse
      <3>2. keys \in Seq(Keys)
        BY <1>c, <2>1, CurrentCall
      <3> HIDE DEF keys
      <3>3. now => next
        BY <2>2, <3>1, <3>2, CollectParts
      <3> QED
        BY <1>0, <1>a, <2>1, <3>1, <3>3 DEF keys
    <2>5. CASE StatsMore(r)
      <3>1. program' = program /\ call.req.cmd # "getMulti"
        BY <2>5 DEF StatsMore
      <3> QED
        BY <1>a, <3>1
    <2>6. CASE Challenged
      <3> DEFINE go == [call EXCEPT !.req.cmd = "sasl_step"]
      <3>1. program # <<>>
        BY <1>c, <2>1
      <3>2. program' = [program EXCEPT ![1] = go]
        BY <2>6, <3>1, CurrentCall DEF Challenged
      <3>3. go \in CallsMade /\ go.req.cmd = "sasl_step"
        BY <2>6, <3>1, GoesOn, CurrentCall DEF Challenged
      <3> HIDE DEF go
      <3>4. program \in Seq(CallsMade) /\ 1 \in DOMAIN program
        BY <3>1, CurrentCall DEF TypeOK
      <3>5. program' \in Seq(CallsMade) /\ program'[1] = go /\ 1 \in DOMAIN program'
        BY <3>2, <3>3, <3>4
      <3>6. call'.req.cmd # "getMulti"
        BY <3>3, <3>5 DEF call
      <3> QED
        BY <3>6 DEF Multi
    <2> QED
      BY <2>1, <2>3, <2>4, <2>5, <2>6
  <1>4. CASE BeginFails \/ SendFails \/ Eof \/ Sleep
    <2>1. pc' # "await"
      BY <1>4 DEF BeginFails, SendFails, Eof, Raise, Sleep
    <2> QED
      BY <1>b, <2>1
  <1>5. CASE Die
    <2>1. /\ program' = program /\ pc' = pc /\ dirty' = dirty /\ opaque' = opaque /\ rv' = rv
          /\ requests' = <<>> /\ responses' = responses /\ store' = store
      BY <1>5 DEF Die, client
    <2>2. CASE pc = "await" /\ ~dirty /\ call.req.cmd = "getMulti"
      <3> DEFINE P == ToSet(responses)
                 R == ToSet(requests)
      <3>1. LastEnds(call.req.cmd, opaque, requests, responses)
        BY <2>2, EndsLastMeans DEF Sync
      <3>2. \A r \in P : r \in Response
        BY DEF TypeOK, ToSet
      <3>3. (\E r \in P : r.opaque = opaque) => requests = <<>>
        BY <2>2, <3>1, <3>2 DEF LastEnds, Ending
      <3>4. ToSet(<<>>) = {}
        BY DEF ToSet
      <3>5. now
        BY <1>0, <2>2
      <3> HIDE DEF P, keys
      <3>6. Parts(keys, opaque, R, P, rv, store)
        BY <3>5 DEF P
      <3>7. (\E r \in P : r.opaque = opaque) => R = {}
        BY <3>3, <3>4
      <3> HIDE DEF R
      <3>8. Asks(keys, opaque, {}) /\ Tells(keys, opaque, P, store) /\ Collected(keys, rv, store)
        BY <3>6 DEF Parts, Asks
      <3>9. WillEnd(opaque, {}, P) => OnItsWay(keys, {} \cup P, rv, store)
        BY <3>6, <3>7 DEF Parts, WillEnd
      <3>10. Parts(keys, opaque, {}, P, rv, store)
        BY <3>8, <3>9 DEF Parts
      <3>11. next
        BY <2>1, <3>4, <3>10 DEF P
      <3> QED
        BY <1>a, <2>1, <3>11 DEF keys
    <2> QED
      BY <1>a, <2>1, <2>2
  <1>6. CASE UNCHANGED vars
    <2>1. /\ program' = program /\ pc' = pc /\ dirty' = dirty /\ opaque' = opaque /\ rv' = rv
          /\ requests' = requests /\ responses' = responses /\ store' = store
      BY <1>6 DEF vars, client, service
    <2> QED
      BY <1>0, <1>a, <2>1
  <1> QED
    BY <1>1, <1>2, <1>3, <1>4, <1>5, <1>6 DEF Next, ClientStep

\* The last response of getMulti finds the connection empty behind it, and
\* what it has collected is what is stored under its keys.
LEMMA CollectedAll ==
    ASSUME TypeOK, Tagged, Sync, Multi, pc = "await", ~dirty, call.req.cmd = "getMulti",
           responses # <<>>, DictDone(Head(responses))
    PROVE  rv = [k \in ToSet(call.req.keys) \cap DOMAIN store |-> <<store[k].flags, store[k].val>>]
  <1> DEFINE r    == Head(responses)
             keys == call.req.keys
             P    == ToSet(responses)
             R    == ToSet(requests)
  <1>1. /\ r \in Response /\ r = responses[1] /\ r \in P /\ 1 \in DOMAIN responses
        /\ responses \in Seq(Response)
    BY Queues
  <1>2. r.st = "ok" /\ r.opaque = opaque
    BY DEF DictDone, Ends, Closes
  <1>3. LastEnds("getMulti", opaque, requests, responses)
    BY EndsLastMeans DEF Sync
  <1>4. r \in Ending("getMulti", opaque)
    BY <1>1, <1>2 DEF Ending
  <1>5. requests = <<>> /\ Len(responses) = 1
    BY <1>1, <1>3, <1>4 DEF LastEnds, OnlyLast
  <1>6. P = {r} /\ R = {}
    <2>1. DOMAIN responses = {1}
      BY <1>1, <1>5
    <2> QED
      BY <1>1, <1>5, <2>1 DEF ToSet
  <1>7. Parts(keys, opaque, R, P, rv, store)
    BY PartsMeans DEF Multi
  <1>8. program # <<>> /\ opaque = Terminal(keys)
    BY DEF Tagged
  <1>9. \A j \in DOMAIN keys : opaque # <<"number", j - 1>>
    BY <1>8, MultiFields
  <1> HIDE DEF r, P, R, keys
  <1>10. WillEnd(opaque, R, P)
    BY <1>2, <1>6 DEF WillEnd
  <1>11. \A j \in DOMAIN keys : keys[j] \in DOMAIN store => keys[j] \in DOMAIN rv
    BY <1>2, <1>6, <1>7, <1>9, <1>10 DEF Parts, OnItsWay
  <1>12. /\ DOMAIN rv = ToSet(keys) \cap DOMAIN store
         /\ \A k \in DOMAIN rv : rv[k] = <<store[k].flags, store[k].val>>
    BY <1>7, <1>11 DEF Parts, Collected, ToSet
  <1>13. rv = [k \in DOMAIN rv |-> rv[k]]
    BY DEF TypeOK
  <1> QED
    BY <1>12, <1>13 DEF keys

LEMMA ExactStep == TypeOK /\ Tagged /\ Sync /\ Multi /\ MultiExact /\ [Next]_vars => MultiExact'
  <1> SUFFICES ASSUME TypeOK, Tagged, Sync, Multi, MultiExact, [Next]_vars
               PROVE  MultiExact'
    OBVIOUS
  <1>a. ASSUME pc' # "idle" \/ dirty' \/ last'.cmd # "getMulti"
        PROVE  MultiExact'
    BY <1>a DEF MultiExact
  <1>b. ASSUME last' = last, pc' = pc, dirty' = dirty, store' = store
        PROVE  MultiExact'
    BY <1>b DEF MultiExact
  <1>1. CASE Begin \/ BeginFails \/ SendFails \/ Eof
    <2>1. pc' # "idle"
      BY <1>1 DEF Begin, BeginFails, SendFails, Eof, Raise
    <2> QED
      BY <1>a, <2>1
  <1>2. CASE Sleep
    <2>1. last' = [cmd |-> "none"]
      BY <1>2 DEF Sleep
    <2> QED
      BY <1>a, <2>1
  <1>3. CASE Serve \/ ServeFails
    <2>1. requests # <<>> /\ UNCHANGED client
      BY <1>3, ServeAnswers DEF Answers
    <2>2. pc' = pc /\ dirty' = dirty
      BY <2>1 DEF client
    <2>3. pc # "idle" \/ dirty
      BY <2>1 DEF Sync, InSync
    <2> QED
      BY <1>a, <2>2, <2>3
  <1>4. CASE Die \/ UNCHANGED vars
    BY <1>b, <1>4 DEF Die, vars, client, service
  <1>5. CASE Receive
    <2> DEFINE r == Head(responses)
    <2>1. /\ pc = "await" /\ responses # <<>> /\ UNCHANGED service
          /\ Fails \/ SingleDone(r) \/ Challenged \/ GivenUp(r) \/ DictDone(r) \/ MultiMore(r)
             \/ StatsMore(r)
      BY <1>5, ReceiveCases
    <2>2. r \in Response
      BY <2>1, Queues
    <2>3. CASE Fails \/ Challenged \/ MultiMore(r) \/ StatsMore(r)
      <3>1. pc' # "idle"
        BY <2>1, <2>3 DEF Fails, Raise, Challenged, MultiMore, StatsMore
      <3> QED
        BY <1>a, <3>1
    <2>4. CASE SingleDone(r)
      <3> DEFINE res == Update(r, [own |-> r.id = nextId])
      <3>1. DOMAIN res = DOMAIN r \cup {"own"}
        BY <2>2, OwnResult, ResponseResult
      <3>2. Finish(res) /\ call.req.cmd # "getMulti"
        BY <2>4 DEF SingleDone
      <3> HIDE DEF res, r
      <3>3. last'.cmd = call.req.cmd
        BY <2>2, <3>1, <3>2, Result, ResponseResult
      <3> QED
        BY <1>a, <3>2, <3>3
    <2>5. CASE GivenUp(r)
      BY <1>a, <2>5 DEF GivenUp
    <2>6. CASE DictDone(r)
      <3> DEFINE res == [st |-> "ok", val |-> rv]
      <3>1. DOMAIN res = {"st", "val"} /\ res.val = rv
        OBVIOUS
      <3>2. Finish(res) /\ dirty' = dirty
        BY <2>6 DEF DictDone
      <3> HIDE DEF res, r
      <3>3. last'.cmd = call.req.cmd /\ last'.keys = call.req.keys /\ last'.val = rv
        BY <3>1, <3>2, Result
      <3>4. CASE call.req.cmd = "getMulti" /\ ~dirty
        <4>1. rv = [k \in ToSet(call.req.keys) \cap DOMAIN store |-> <<store[k].flags, store[k].val>>]
          BY <2>1, <2>6, <3>4, CollectedAll DEF r
        <4>2. store' = store
          BY <2>1 DEF service
        <4> QED
          BY <3>3, <4>1, <4>2 DEF MultiExact
      <3> QED
        BY <1>a, <3>2, <3>3, <3>4
    <2> QED
      BY <2>1, <2>3, <2>4, <2>5, <2>6
  <1> QED
    BY <1>1, <1>2, <1>3, <1>4, <1>5 DEF Next, ClientStep

----------------------------------------------------------------------------
(* The theorems.                                                           *)

\* None of the last four parts holds on its own: a call takes a response for
\* its own by the opaque (Tagged), and it takes the dict for complete because
\* nothing can follow the terminal (Sync) and nothing is missing before it
\* (Multi).
IInv == TypeOK /\ Tagged /\ Sync /\ Multi /\ OwnResponse /\ MultiExact

LEMMA Inductive == (Init => IInv) /\ (IInv /\ [Next]_vars => IInv')
  <1>1. Init => IInv
    <2> SUFFICES ASSUME Init
                 PROVE  IInv
      OBVIOUS
    <2>1. TypeOK
      BY InitType
    <2>2. /\ pc = "idle" /\ requests = <<>> /\ responses = <<>> /\ last = [cmd |-> "none"]
      BY DEF Init
    <2>3. ToSet(<<>>) = {}
      BY DEF ToSet
    <2>4. Tagged
      BY <2>2, <2>3 DEF Tagged
    <2>5. Sync /\ Multi
      BY <2>2 DEF Sync, Multi, InSync
    <2>6. DOMAIN last = {"cmd"} /\ last.cmd # "getMulti"
      BY <2>2
    <2>7. OwnResponse /\ MultiExact
      BY <2>6 DEF OwnResponse, MultiExact
    <2> QED
      BY <2>1, <2>4, <2>5, <2>7 DEF IInv
  <1>2. IInv /\ [Next]_vars => IInv'
    BY NextType, TaggedStep, SyncStep, MultiStep, OwnStep, ExactStep DEF IInv
  <1> QED
    BY <1>1, <1>2

\* What the methods send, what the server answers and what they collect is of
\* its type in every program; the number in an opaque is never negative, not
\* even that of getMulti's terminal for no keys at all.
THEOREM TypeCorrect == Spec => []TypeOK
  <1>1. IInv => TypeOK
    BY DEF IInv
  <1> QED
    BY <1>1, Inductive, PTL DEF Spec

\* Every response is tagged with the opaque of its request; until a call is
\* given up, nothing follows what ends the current call, and what getMulti
\* has asked for, been told and collected are the parts of one answer.
THEOREM ConnectionInvariant == Spec => []ConnInv
  <1>1. IInv => ConnInv
    BY DEF IInv, Sync, Multi, ConnInv
  <1> QED
    BY <1>1, Inductive, PTL DEF Spec

\* A call that compares the opaque returns the response to its own request,
\* whatever _handleSingleResponse finds before it on the connection.
THEOREM OwnResponseOnly == Spec => []OwnResponse
  <1>1. IInv => OwnResponse
    BY DEF IInv
  <1> QED
    BY <1>1, Inductive, PTL DEF Spec

\* Until getMulti or stats is given up with an error, every call leaves the
\* connection as it should find it: with nothing on its way.
THEOREM ConnectionInSync == Spec => []InSync
  <1>1. IInv => InSync
    BY DEF IInv, Sync
  <1> QED
    BY <1>1, Inductive, PTL DEF Spec

\* getMulti returns the items that are stored under its keys, no other one and
\* none too few, however many keys there are and however the server's answers
\* are spread over them, on a connection on which no call was given up.
THEOREM MultiIsExact == Spec => []MultiExact
  <1>1. IInv => MultiExact
    BY DEF IInv
  <1> QED
    BY <1>1, Inductive, PTL DEF Spec
=============================================================================
