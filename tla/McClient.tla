------------------------------ MODULE McClient ------------------------------
(***************************************************************************)
(* mc_bin_client.py, the memcached client with which the races of          *)
(* memcached are provoked, over a connection that delivers requests and    *)
(* responses in order.  A program makes one call after another; when a     *)
(* call raises MemcachedError the program may go on, with the connection   *)
(* as the call has left it.  The server is external: it may fail a request *)
(* or die, if it is not reliable.                                          *)
(***************************************************************************)
EXTENDS Integers, Sequences, SequencesExt, FiniteSetsExt

CONSTANTS
    Keys,      \* the keys, and what else is sent in their place
    Programs   \* a set of records: the calls, and whether all is reliable

ASSUME KeysAssumption == {"", "CRAM-MD5"} \subseteq Keys

\* The commands of memcacheConstants.py that the methods send; "cram" and
\* "getMulti" start the methods that send several.
Commands ==
    {"get", "set", "add", "replace", "delete", "incr", "decr", "flush", "getq", "noop",
     "version", "stats", "append", "prepend", "sasl_list", "sasl_auth", "sasl_step",
     "set_vbucket", "delete_vbucket", "cram", "getMulti"}

Value == [words : Seq(STRING), num : Int]

\* A call of a method with its arguments.
Request ==
    [cmd : Commands \cup {"sleep"}, key : Keys, keys : Seq(Keys), val : Value, flags : Nat,
     cas : {"none", "saved", "other"}, init : Nat, create : BOOLEAN]

Calls == UNION {ToSet(p.calls) : p \in Programs}

\* The methods that collect a dict return no cas to keep.
ASSUME ProgramsAssumption ==
    /\ \A p \in Programs : p.reliable \in BOOLEAN /\ p.calls \in Seq(Calls)
    /\ \A c \in Calls :
          /\ DOMAIN c = {"req", "want", "keep"}
          /\ c.req \in Request
          /\ c.keep \in BOOLEAN
          /\ c.keep => c.req.cmd \notin {"getMulti", "stats"}

VARIABLES
    program,   \* the calls still to be made, the current one first
    reliable,  \* nothing fails by chance, and the server does not die
    pc,        \* "idle", "await" or how the program has stopped
    nextId,    \* number of requests sent
    opaque,    \* the opaque that the current call waits for
    rv,        \* the dict that a call collects
    last,      \* result of the last call
    savedCas,  \* a cas the program has kept
    dirty,     \* a call was given up with responses on their way
    requests,  \* on their way to the server
    responses, \* on their way to the client
    store,     \* the server's items
    casId,     \* the server's cas counter
    bomb,      \* a flush is due
    alive      \* the server

client  == <<program, reliable, pc, nextId, opaque, rv, last, savedCas, dirty>>
service == <<store, casId, bomb, alive>>
vars    == <<client, requests, responses, service>>

----------------------------------------------------------------------------
\* Dictionary d updated with the entries of e.
Update(d, e) == [k \in DOMAIN d \cup DOMAIN e |-> IF k \in DOMAIN e THEN e[k] ELSE d[k]]

(* The client's methods, as requests.                                      *)

\* A value is a text, a list of words, or the number that it spells.
Text(ws)  == [words |-> ws, num |-> 0]
Number(n) == [words |-> <<>>, num |-> n]
Empty     == Text(<<>>)

doCmd(cmd, key, val) ==
    [cmd |-> cmd, key |-> key, keys |-> <<>>, val |-> val, flags |-> 0, cas |-> "none",
     init |-> 0, create |-> TRUE]

mutate(cmd, key, flags, cas, val) == [doCmd(cmd, key, val) EXCEPT !.flags = flags, !.cas = cas]
cat(cmd, key, cas, val)           == [doCmd(cmd, key, val) EXCEPT !.cas = cas]
append(key, val, cas)             == cat("append", key, cas, val)
prepend(key, val, cas)            == cat("prepend", key, cas, val)
incrdecr(cmd, key, amt, init, create) ==
    [doCmd(cmd, key, Number(amt)) EXCEPT !.init = init, !.create = create]
incr(key, amt, init)     == incrdecr("incr", key, amt, init, TRUE)
decr(key, amt, init)     == incrdecr("decr", key, amt, init, TRUE)
set(key, flags, val)     == mutate("set", key, flags, "none", val)
add(key, flags, val)     == mutate("add", key, flags, "none", val)
replace(key, flags, val) == mutate("replace", key, flags, "none", val)
get(key)                 == doCmd("get", key, Empty)
version                  == doCmd("version", "", Empty)
sasl_mechanisms          == doCmd("sasl_list", "", Empty)
sasl_auth_plain          == doCmd("sasl_auth", "PLAIN", Text(<<"user", "password">>))
sasl_auth_cram_md5       == doCmd("cram", "CRAM-MD5", Empty)
set_vbucket_state(b, s)  == doCmd("set_vbucket", b, s)
delete_vbucket(b)        == doCmd("delete_vbucket", b, Empty)
getMulti(keys)           == [doCmd("getMulti", "", Empty) EXCEPT !.keys = keys]
stats                    == doCmd("stats", "", Empty)
noop                     == doCmd("noop", "", Empty)
delete(key, cas)         == [doCmd("delete", key, Empty) EXCEPT !.cas = cas]
flush(timebomb)          == doCmd("flush", "", Number(timebomb))

\* Variant: the comparison value is not passed on.
CasIgnored(key, flags, old, val) == mutate("set", key, flags, "none", val)

cas(key, flags, old, val) == mutate("set", key, flags, old, val)

\* What the program does itself.
sleep == doCmd("sleep", "", Empty)

\* The cas that a call refers to: one the program has kept, or another one.
CasValue(c) ==
    CASE c = "none" -> 0 [] c = "saved" -> savedCas [] c = "other" -> savedCas + 1

----------------------------------------------------------------------------
(* The server (external).                                                  *)

Item(v, f) == [val |-> v, flags |-> f, cas |-> casId + 1]
Reply(st, v, f, c) == [st |-> st, val |-> v, flags |-> f, cas |-> c]

\* What request q does: the answer and the items afterwards.
Effect(q) ==
    LET has    == q.key \in DOMAIN store
        old    == store[q.key]
        wrong  == q.cas # 0 /\ has /\ old.cas # q.cas
        fail(st)  == [reply |-> Reply(st, Empty, 0, 0), store |-> store]
        put(v, f) == [reply |-> Reply("ok", v, 0, casId + 1), store |-> Update(store, [k \in {q.key} |-> Item(v, f)])]
        done      == [reply |-> Reply("ok", Empty, 0, 0), store |-> store]
        changed   == IF q.cmd = "incr" THEN old.val.num + q.val.num ELSE Max({0, old.val.num - q.val.num})
    IN  CASE wrong -> fail("exists")
        [] ~wrong /\ q.cmd = "set"     -> IF q.cas # 0 /\ ~has THEN fail("not_found") ELSE put(q.val, q.flags)
        [] ~wrong /\ q.cmd = "add"     -> IF has THEN fail("exists") ELSE put(q.val, q.flags)
        [] ~wrong /\ q.cmd = "replace" -> IF has THEN put(q.val, q.flags) ELSE fail("not_found")
        [] ~wrong /\ q.cmd = "append"  -> IF has THEN put(Text(old.val.words \o q.val.words), old.flags) ELSE fail("not_stored")
        [] ~wrong /\ q.cmd = "prepend" -> IF has THEN put(Text(q.val.words \o old.val.words), old.flags) ELSE fail("not_stored")
        [] ~wrong /\ q.cmd \in {"incr", "decr"} ->
             IF has THEN put(Number(changed), old.flags)
             ELSE IF q.create THEN put(Number(q.init), 0) ELSE fail("not_found")
        [] ~wrong /\ q.cmd \in {"get", "getq"} ->
             IF has THEN [reply |-> Reply("ok", old.val, old.flags, old.cas), store |-> store]
                    ELSE fail("not_found")
        [] ~wrong /\ q.cmd = "delete" ->
             IF has THEN [done EXCEPT !.store = [k \in DOMAIN store \ {q.key} |-> store[k]]]
                    ELSE fail("not_found")
        [] ~wrong /\ q.cmd = "flush" -> IF q.val.num = 0 THEN [done EXCEPT !.store = <<>>] ELSE done
        [] ~wrong /\ q.cmd = "cram" -> fail("auth_continue")
        [] OTHER -> done

\* Whether a command is answered with a text or a number.
Bodied == {"get", "getq", "incr", "decr", "version", "sasl_list", "sasl_auth", "sasl_step"}
BodyLen(cmd) == IF cmd \in Bodied THEN 1 ELSE 0

\* A response to q: the length of its key and of all that follows the header.
Packet(q, reply, klen, body) ==
    Update(reply, [opaque |-> q.opaque, id |-> q.id, klen |-> klen, body |-> body])

\* The responses to q; statistics are several, the last without a key.
Responses(q, reply) ==
    CASE q.cmd = "getq" /\ reply.st = "not_found" -> <<>>
      [] q.cmd = "stats" /\ reply.st = "ok" -> <<Packet(q, reply, 1, 1), Packet(q, reply, 0, 0)>>
      [] OTHER -> <<Packet(q, reply, 0, BodyLen(q.cmd))>>

Serve ==
    LET q == Head(requests)
        e == Effect(q)
    IN  /\ alive
        /\ requests # <<>>
        /\ requests' = Tail(requests)
        /\ responses' = responses \o Responses(q, e.reply)
        /\ store' = e.store
        /\ casId' = casId + 1
        /\ bomb' = (bomb \/ (q.cmd = "flush" /\ q.val.num # 0))
        /\ UNCHANGED <<client, alive>>

\* The server refuses a request, or authenticates at once.
ServeFails ==
    /\ alive
    /\ ~reliable
    /\ requests # <<>>
    /\ requests' = Tail(requests)
    /\ \E st \in {"busy"} \cup (IF Head(requests).cmd = "cram" THEN {"ok"} ELSE {}) :
          responses' = responses \o Responses(Head(requests), Reply(st, Empty, 0, 0))
    /\ UNCHANGED <<client, service>>

Die ==
    /\ alive
    /\ ~reliable
    /\ alive' = FALSE
    /\ requests' = <<>>
    /\ UNCHANGED <<client, responses, store, casId, bomb>>

----------------------------------------------------------------------------
(* The client.                                                             *)

call == Head(program)

\* A request as _sendCmd packs it.
sendCmd(cmd, key, o, id) ==
    [cmd |-> cmd, key |-> key, opaque |-> o, id |-> id, val |-> call.req.val,
     flags |-> call.req.flags, cas |-> CasValue(call.req.cas), init |-> call.req.init,
     create |-> call.req.create]

\* A random opaque; a random number that is in use already is left out.
Random(id) == <<"random", id>>

\* Variant: the terminal is the index of the last key.
TerminalLast(keys) == <<"number", Len(keys) - 1>>

Terminal(keys) == <<"number", Len(keys) + 10>>

\* Variant: nothing is sent after the keys.
MultiRequestsOpen(keys) ==
    [i \in DOMAIN keys |-> sendCmd("getq", keys[i], <<"number", i - 1>>, nextId + i)]

\* All keys in quiet, then a noop that is always answered.
MultiRequests(keys) ==
    [i \in DOMAIN keys |-> sendCmd("getq", keys[i], <<"number", i - 1>>, nextId + i)]
    \o <<sendCmd("noop", "", Terminal(keys), nextId + Len(keys) + 1)>>

\* The call sends its requests.
Begin ==
    LET q    == call.req
        reqs == IF q.cmd = "getMulti" THEN MultiRequests(q.keys)
                ELSE <<sendCmd(q.cmd, q.key, Random(nextId + 1), nextId + 1)>>
    IN  /\ pc = "idle"
        /\ program # <<>>
        /\ q.cmd # "sleep"
        /\ requests' = IF alive THEN requests \o reqs ELSE requests
        /\ nextId' = nextId + Len(reqs)
        /\ opaque' = reqs[Len(reqs)].opaque
        /\ rv' = <<>>
        /\ pc' = "await"
        /\ UNCHANGED <<program, reliable, last, savedCas, dirty, responses, service>>

\* randint() includes 2**32, which cannot be packed; getMulti has no random
\* opaque.
BeginFails ==
    /\ pc = "idle"
    /\ program # <<>>
    /\ call.req.cmd \notin {"sleep", "getMulti"}
    /\ ~reliable
    /\ pc' = "struct.error"
    /\ UNCHANGED <<program, reliable, nextId, opaque, rv, last, savedCas, dirty,
                   requests, responses, service>>

\* A server that has died or was never there: connect_ex tells nobody, and
\* send() may notice it.
SendFails ==
    /\ pc = "idle"
    /\ program # <<>>
    /\ call.req.cmd # "sleep"
    /\ ~alive
    /\ pc' = "socket.error"
    /\ UNCHANGED <<program, reliable, nextId, opaque, rv, last, savedCas, dirty,
                   requests, responses, service>>

Sleep ==
    /\ pc = "idle"
    /\ program # <<>>
    /\ call.req.cmd = "sleep"
    /\ program' = Tail(program)
    /\ store' = IF bomb THEN <<>> ELSE store
    /\ bomb' = FALSE
    /\ last' = [cmd |-> "none"]
    /\ UNCHANGED <<reliable, pc, nextId, opaque, rv, savedCas, dirty, requests, responses,
                   casId, alive>>

\* Result r satisfies what the program asserts of it.
Satisfies(r, want) ==
    /\ DOMAIN want \subseteq DOMAIN r
    /\ \A f \in DOMAIN want : IF f = "cas" THEN r.cas = savedCas ELSE r[f] = want[f]

\* The call returns r, or raises MemcachedError with the status of r.
Finish(r) ==
    /\ pc' = IF Satisfies(r, call.want) THEN "idle" ELSE "failed"
    /\ program' = Tail(program)
    /\ last' = Update([cmd |-> call.req.cmd, keys |-> call.req.keys], r)
    /\ savedCas' = IF call.keep THEN r.cas ELSE savedCas
    /\ UNCHANGED <<reliable, nextId, opaque, rv>>

\* A call whose opaque is not checked is given up: what follows stays.
GiveUp == dirty' = (dirty \/ call.req.cmd \in {"getMulti", "stats"})

\* An exception that the program does not handle.
Raise(exception) ==
    /\ pc' = exception
    /\ UNCHANGED <<program, reliable, nextId, opaque, rv, last, savedCas, dirty>>

\* Variant: the opaque of a response is not compared.
OpaqueAny(r) == TRUE

\* The assertion of _handleKeyedResponse; myopaque is None in two calls.
OpaqueOk(r) == call.req.cmd \in {"getMulti", "stats"} \/ r.opaque = opaque

\* The next response, for a call of one request.
HandleSingle(r) ==
    /\ call.req.cmd \notin {"getMulti", "stats", "cram"}
    /\ Finish(Update(r, [own |-> r.id = nextId]))
    /\ UNCHANGED <<dirty, requests>>

\* sasl_auth_cram_md5 goes on if the server asks it to, unless the second
\* request cannot be packed or sent; it has no challenge if the server is
\* content already.
HandleCram(r) ==
    /\ call.req.cmd = "cram"
    /\ \/ /\ r.st = "auth_continue"
          /\ program' = [program EXCEPT ![1].req.cmd = "sasl_step"]
          /\ requests' = IF ~alive THEN requests
                         ELSE Append(requests, sendCmd("sasl_step", "CRAM-MD5", Random(nextId + 1), nextId + 1))
          /\ nextId' = nextId + 1
          /\ opaque' = Random(nextId + 1)
          /\ UNCHANGED <<reliable, pc, rv, last, savedCas, dirty>>
       \/ /\ r.st = "auth_continue"
          /\ \/ ~reliable /\ Raise("struct.error")
             \/ ~alive /\ Raise("socket.error")
          /\ UNCHANGED requests
       \/ /\ r.st = "ok"
          /\ Raise("UnboundLocalError")
          /\ UNCHANGED requests
       \/ /\ r.st \notin {"ok", "auth_continue"}
          /\ Finish(Update(r, [own |-> r.id = nextId]))
          /\ UNCHANGED <<dirty, requests>>

\* getMulti collects values until the terminal's response; the value is
\* unpacked before its key is looked up.
HandleMulti(r) ==
    LET keys == call.req.keys
        hits == {i \in DOMAIN keys : r.opaque = <<"number", i - 1>>}
    IN  /\ call.req.cmd = "getMulti"
        /\ UNCHANGED requests
        /\ \/ r.st # "ok" /\ Finish(r) /\ GiveUp
           \/ r.st = "ok" /\ r.opaque = opaque /\ Finish([st |-> "ok", val |-> rv]) /\ UNCHANGED dirty
           \/ /\ r.st = "ok"
              /\ r.opaque # opaque
              /\ r.body # 0 /\ hits # {}
              /\ rv' = Update(rv, [k \in {keys[i] : i \in hits} |-> <<r.flags, r.val>>])
              /\ UNCHANGED <<program, reliable, pc, nextId, opaque, last, savedCas, dirty>>
           \/ r.st = "ok" /\ r.opaque # opaque /\ r.body # 0 /\ hits = {} /\ Raise("KeyError")
           \/ r.st = "ok" /\ r.opaque # opaque /\ r.body = 0 /\ Raise("struct.error")

\* stats collects entries until one without a key.
HandleStats(r) ==
    /\ call.req.cmd = "stats"
    /\ UNCHANGED requests
    /\ \/ r.st # "ok" /\ Finish(r) /\ GiveUp
       \/ r.st = "ok" /\ r.klen = 0 /\ Finish([st |-> "ok", val |-> rv]) /\ UNCHANGED dirty
       \/ /\ r.st = "ok"
          /\ r.klen # 0
          /\ rv' = Update(rv, [k \in {"stat"} |-> <<r.flags, r.val>>])
          /\ UNCHANGED <<program, reliable, pc, nextId, opaque, last, savedCas, dirty>>

Receive ==
    LET r == Head(responses) IN
    /\ pc = "await"
    /\ responses # <<>>
    /\ responses' = Tail(responses)
    /\ \/ ~OpaqueOk(r) /\ Raise("AssertionError") /\ UNCHANGED requests
       \/ OpaqueOk(r) /\ (HandleSingle(r) \/ HandleCram(r) \/ HandleMulti(r) \/ HandleStats(r))
    /\ UNCHANGED service

\* The server has closed the connection; a reset loses what is on its way.
Eof ==
    /\ pc = "await"
    /\ ~alive
    /\ \/ responses = <<>> /\ Raise("EOFError")
       \/ Raise("socket.error")
    /\ UNCHANGED <<requests, responses, service>>

Init ==
    /\ \E p \in Programs : program = p.calls /\ reliable = p.reliable
    /\ pc = "idle"
    /\ nextId = 0
    /\ opaque = Random(0)
    /\ rv = <<>>
    /\ last = [cmd |-> "none"]
    /\ savedCas = 0
    /\ dirty = FALSE
    /\ requests = <<>>
    /\ responses = <<>>
    /\ store = <<>>
    /\ casId = 0
    /\ bomb = FALSE
    /\ alive = TRUE

ClientStep == Begin \/ BeginFails \/ SendFails \/ Sleep \/ Receive \/ Eof

Next == ClientStep \/ Serve \/ ServeFails \/ Die

Spec == Init /\ [][Next]_vars /\ WF_vars(ClientStep) /\ WF_vars(Serve \/ ServeFails \/ Die)

----------------------------------------------------------------------------
(* Properties.                                                             *)

\* What there is to call: the calls of the programs, and the second half of
\* sasl_auth_cram_md5.
CallsMade == Calls \cup {[c EXCEPT !.req.cmd = "sasl_step"] : c \in Calls}

Opaque == {"random", "number"} \X Nat

Message ==
    [cmd : Commands, key : Keys, opaque : Opaque, id : Nat, val : Value, flags : Nat,
     cas : Int, init : Nat, create : BOOLEAN]

Status == {"ok", "exists", "not_found", "not_stored", "auth_continue", "busy"}

Response ==
    [opaque : Opaque, id : Nat, klen : 0 .. 1, body : 0 .. 1, st : Status, val : Value,
     flags : Nat, cas : Int]

\* The types of both sides' data and of what is on its way between them; an
\* opaque has a number that is not negative.
TypeOK ==
    /\ program \in Seq(CallsMade)
    /\ {reliable, dirty, bomb, alive} \subseteq BOOLEAN
    /\ pc \in {"idle", "await", "failed", "struct.error", "AssertionError", "UnboundLocalError",
              "KeyError", "EOFError", "socket.error"}
    /\ {nextId, casId} \subseteq Nat
    /\ opaque \in Opaque
    /\ rv \in [DOMAIN rv -> Nat \X Value]
    /\ savedCas \in Int
    /\ requests \in Seq(Message)
    /\ responses \in Seq(Response)
    /\ DOMAIN store \subseteq Keys
    /\ store \in [DOMAIN store -> [val : Value, flags : Nat, cas : Nat]]

\* A message has the random opaque of its request or a number of getMulti,
\* and the current call waits for the opaque it has sent last.
Tagged ==
    /\ \A m \in ToSet(requests) \cup ToSet(responses) :
          m.opaque = Random(m.id) \/ m.opaque \in {"number"} \X Nat
    /\ pc = "await" =>
          /\ program # <<>> /\ call.req.cmd # "sleep"
          /\ opaque = IF call.req.cmd = "getMulti" THEN Terminal(call.req.keys) ELSE Random(nextId)

\* The last request, and the last response, of the current call.
Closes(q) == call.req.cmd = "getMulti" => q.opaque = opaque
Ends(r)   == Closes(r) /\ (call.req.cmd = "stats" => r.klen = 0)

\* Nothing follows on the connection what ends the current call.
EndsLast ==
    /\ \A i \in DOMAIN requests :
          /\ Closes(requests[i]) => i = Len(requests)
          /\ requests[i].cmd = "stats" => call.req.cmd = "stats"
    /\ \A i \in DOMAIN responses : Ends(responses[i]) => i = Len(responses) /\ requests = <<>>

\* What getMulti has of the item with key k, when it has it.
Entry(k) == <<store[k].flags, store[k].val>>

\* getMulti's requests, its responses and the dict are parts of one answer:
\* a key that is stored is asked for, answered or collected, as long as the
\* terminal is on its way and nothing has failed.
MultiParts ==
    LET keys == call.req.keys IN
    /\ \A q \in ToSet(requests) :
          \/ q.cmd = "noop" /\ q.opaque = opaque
          \/ q.cmd = "getq" /\ \E j \in DOMAIN keys : q.opaque = <<"number", j - 1>> /\ q.key = keys[j]
    /\ \A r \in ToSet(responses) : r.st = "ok" /\ r.opaque # opaque =>
          \E j \in DOMAIN keys : /\ r.opaque = <<"number", j - 1>>
                                /\ keys[j] \in DOMAIN store
                                /\ <<r.flags, r.val>> = Entry(keys[j])
    /\ \A k \in DOMAIN rv : k \in ToSet(keys) \cap DOMAIN store /\ rv[k] = Entry(k)
    /\ LET sent == ToSet(requests) \cup ToSet(responses) IN
          (\E m \in sent : m.opaque = opaque) /\ (\A r \in ToSet(responses) : r.st = "ok") =>
              \A j \in DOMAIN keys : keys[j] \in DOMAIN store \ DOMAIN rv =>
                  \E m \in sent : m.opaque = <<"number", j - 1>>

\* What a call finds on the connection is its own, unless an earlier call
\* was given up with responses on their way.
ConnInv ==
    /\ TypeOK
    /\ Tagged
    /\ pc = "await" /\ ~dirty => EndsLast /\ (call.req.cmd = "getMulti" => MultiParts)

\* The assertions of a test hold against a reliable server.
TestsPass == reliable => pc \in {"idle", "await"}

\* A call that checks the opaque returns the response to its own request,
\* even if earlier calls have left responses on the connection.
OwnResponse == "own" \in DOMAIN last => last.own

\* getMulti returns the items of its keys and only them, unless an earlier
\* call was given up with responses on their way.
MultiExact ==
    last.cmd = "getMulti" /\ last.st = "ok" /\ ~dirty /\ pc = "idle" =>
        LET keys == ToSet(last.keys) \cap DOMAIN store
        IN  last.val = [k \in keys |-> <<store[k].flags, store[k].val>>]

\* Without such a call, nothing is left on the connection between calls.
InSync == pc = "idle" /\ ~dirty => requests = <<>> /\ responses = <<>>

\* Every call returns or raises an exception: no call waits for ever, not
\* for keys that do not exist and not for a server that has died.
CallsReturn == pc = "await" ~> pc # "await"
=============================================================================
