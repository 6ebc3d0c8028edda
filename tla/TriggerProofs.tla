--------------------------- MODULE TriggerProofs ---------------------------
(***************************************************************************)
(* Proofs about Trigger, for every set of threads and addresses, every     *)
(* report and every timeout.                                               *)
(***************************************************************************)
EXTENDS Trigger, SequenceLemmas

\* Two arrays of records hold each thread at most once.
Once(arr) == \A i, j \in DOMAIN arr : arr[i].id = arr[j].id => i = j

Ids(arr) == {arr[i].id : i \in DOMAIN arr}

\* Deleting the record of a thread removes exactly this thread from an array
\* with one record per thread, and keeps it such an array.
LEMMA RemoveRecord ==
    ASSUME NEW arr \in Seq(Entry), NEW i \in DOMAIN arr, Once(arr)
    PROVE  LET new == RemoveAt(arr, i) IN
           /\ new \in Seq(Entry)
           /\ Once(new)
           /\ Ids(new) = Ids(arr) \ {arr[i].id}
           /\ \A j \in DOMAIN new : \E k \in DOMAIN arr : k # i /\ new[j] = arr[k]
  <1> DEFINE new == RemoveAt(arr, i)
  <1>1. /\ new \in Seq(Entry)
        /\ Len(new) = Len(arr) - 1
        /\ \A j \in 1 .. Len(arr) - 1 : new[j] = IF j < i THEN arr[j] ELSE arr[j + 1]
    BY RemoveAtElements
  <1> HIDE DEF new
  <1>2. DOMAIN new = 1 .. Len(arr) - 1 /\ DOMAIN arr = 1 .. Len(arr) /\ Len(arr) \in Nat
    BY <1>1
  <1> DEFINE src(j) == IF j < i THEN j ELSE j + 1
  <1>3. \A j \in DOMAIN new : src(j) \in DOMAIN arr /\ src(j) # i /\ new[j] = arr[src(j)]
    BY <1>1, <1>2
  <1>4. \A j, k \in DOMAIN new : src(j) = src(k) => j = k
    BY <1>2
  <1>5. \A k \in DOMAIN arr : k # i => \E j \in DOMAIN new : src(j) = k
    <2> SUFFICES ASSUME NEW k \in DOMAIN arr, k # i
                 PROVE  \E j \in DOMAIN new : src(j) = k
      OBVIOUS
    <2>1. CASE k < i
      <3>1. k \in DOMAIN new /\ src(k) = k
        BY <1>2, <2>1
      <3> QED
        BY <3>1
    <2>2. CASE ~(k < i)
      <3>1. k - 1 \in DOMAIN new /\ src(k - 1) = k
        BY <1>2, <2>2
      <3> QED
        BY <3>1
    <2> QED
      BY <2>1, <2>2
  <1> HIDE DEF src
  <1>6. Once(new)
    BY <1>3, <1>4 DEF Once
  <1>7. Ids(new) \subseteq Ids(arr) \ {arr[i].id}
    BY <1>3 DEF Once, Ids
  <1>8. Ids(arr) \ {arr[i].id} \subseteq Ids(new)
    BY <1>3, <1>5 DEF Ids
  <1> QED
    BY <1>1, <1>3, <1>6, <1>7, <1>8 DEF new

\* Recording a thread that has no record yet.
LEMMA AppendRecord ==
    ASSUME NEW arr \in Seq(Entry), NEW e \in Entry, Once(arr), e.id \notin Ids(arr)
    PROVE  LET new == Append(arr, e) IN
           /\ new \in Seq(Entry)
           /\ Once(new)
           /\ Ids(new) = Ids(arr) \cup {e.id}
           /\ \A j \in DOMAIN new : new[j] = e \/ \E k \in DOMAIN arr : new[j] = arr[k]
  <1> DEFINE new == Append(arr, e)
  <1>1. /\ new \in Seq(Entry)
        /\ DOMAIN new = 1 .. Len(arr) + 1
        /\ DOMAIN arr = 1 .. Len(arr)
        /\ Len(arr) \in Nat
        /\ \A j \in DOMAIN arr : new[j] = arr[j]
        /\ new[Len(arr) + 1] = e
    OBVIOUS
  <1> HIDE DEF new
  <1>2. \A j \in DOMAIN new : j \in DOMAIN arr \/ j = Len(arr) + 1
    BY <1>1
  <1>3. Once(new)
    BY <1>1, <1>2 DEF Once, Ids
  <1>4. Ids(new) = Ids(arr) \cup {e.id}
    <2>1. Ids(new) \subseteq Ids(arr) \cup {e.id}
      BY <1>1, <1>2 DEF Ids
    <2>2. Ids(arr) \subseteq Ids(new)
      BY <1>1 DEF Ids
    <2>3. e.id \in Ids(new)
      BY <1>1 DEF Ids
    <2> QED
      BY <2>1, <2>2, <2>3
  <1> QED
    BY <1>1, <1>2, <1>3, <1>4 DEF new

----------------------------------------------------------------------------
(* Type correctness.                                                       *)

\* get_addr returns addresses, and a thread on one of the two lines has a
\* proper label.
LEMMA VisitTypes ==
    ASSUME TypeOK, NEW t \in todo, NEW addrs \in get_addr(t)
    PROVE  /\ addrs \in SUBSET Addrs
           /\ Label(t) \in {"W", "R", "?"}
  <1>1. at[t].addrs \in SUBSET Addrs
    BY DEF TypeOK, Access, NoStop
  <1>2. addrs \in SUBSET Addrs
    BY <1>1 DEF get_addr
  <1>3. Label(t) \in {"W", "R", "?"}
    BY DEF Label
  <1> QED
    BY <1>2, <1>3

\* The fields of the records of an array.
LEMMA RecordTypes ==
    ASSUME NEW arr \in Seq(Entry), NEW i \in DOMAIN arr
    PROVE  /\ arr[i] \in Entry
           /\ arr[i].id \in Threads
           /\ arr[i].type \in {"W", "R"}
           /\ arr[i].addrs \in SUBSET Addrs
           /\ arr[i].addrs # {}
  <1>1. arr[i] \in Entry
    OBVIOUS
  <1> QED
    BY <1>1 DEF Entry

LEMMA TypeStep ==
    TypeOK /\ [Next]_vars => TypeOK'
  <1> SUFFICES ASSUME TypeOK, [Next]_vars
               PROVE  TypeOK'
    OBVIOUS
  <1> USE TimeAssumption, TargetAssumption
  <1>0. MaxElapsed \in Nat /\ Final = {"match", "error", "kill", "term", "hang"}
    BY DEF MaxElapsed, Final, Ended
  <1>1. CASE Import
    <2>1. CASE SetTrigger
      <3>1. bps' \in SUBSET Sides
        BY <2>1 DEF SetTrigger, Sides
      <3> QED
        BY <1>0, <2>1, <3>1 DEF TypeOK, SetTrigger, target
    <2>2. CASE BadReport
      BY <1>0, <2>2 DEF TypeOK, BadReport, target
    <2> QED
      BY <1>1, <2>1, <2>2 DEF Import
  <1>2. CASE Environment
    <2>0. UNCHANGED script
      BY <1>2 DEF Environment
    <2>1. ASSUME NEW t \in Threads, Launch(t) \/ Spawn(t) \/ ThreadExit(t)
          PROVE  TypeOK'
      BY <2>0, <2>1 DEF TypeOK, Launch, Spawn, ThreadExit, script
    <2>2. CASE ProcExit
      BY <2>0, <2>2 DEF TypeOK, ProcExit, script
    <2>3. ASSUME NEW S \in SUBSET (live \ susp), NEW C \in SUBSET S,
                 NEW acc \in [S -> Access], Hit(bps, S, C, acc)
          PROVE  TypeOK'
      <3>1. at' \in [Threads -> Access \cup {NoStop}]
        BY <2>3 DEF TypeOK, Hit
      <3>2. pending' \in SUBSET Callback
        BY <2>3 DEF TypeOK, Hit, Callback, Access
      <3>3. hits' \in 0 .. MaxHits
        BY <2>3 DEF TypeOK, Hit
      <3> QED
        BY <2>0, <2>3, <3>1, <3>2, <3>3 DEF TypeOK, Hit, script
    <2> QED
      BY <1>2, <2>1, <2>2, <2>3 DEF Environment, TargetNext
  <1>3. CASE Tick
    BY <1>0, <1>3 DEF TypeOK, Tick, target
  <1>4. CASE Callbacks
    <2>1. ASSUME NEW c \in pending, CallbackBegin(c)
          PROVE  TypeOK'
      <3>1. OBJ_ARR' \in Seq(Entry)
        BY <2>1, RemoveAtElements DEF TypeOK, CallbackBegin
      <3>2. todo' \in SUBSET Threads
        BY <2>1 DEF TypeOK, CallbackBegin, Untracked
      <3> QED
        BY <2>1, <3>1, <3>2 DEF TypeOK, CallbackBegin
    <2>2. ASSUME NEW c \in pending, CallbackHang(c)
          PROVE  TypeOK'
      BY <1>0, <2>2 DEF TypeOK, CallbackHang
    <2>3. ASSUME NEW t \in todo, VisitError(t)
          PROVE  TypeOK'
      BY <1>0, <2>3 DEF TypeOK, VisitError
    <2>4. ASSUME NEW t \in todo, NEW addrs \in SUBSET Addrs, VisitMatch(t, addrs)
          PROVE  TypeOK'
      <3>1. \A i \in DOMAIN OBJ_ARR : OBJ_ARR[i].id \in Threads
        BY RecordTypes DEF TypeOK
      <3>2. \A e : match(e) \subseteq {OBJ_ARR[i] : i \in DOMAIN OBJ_ARR}
        BY DEF match, ToSet
      <3>3. pair' \in SUBSET Threads
        BY <2>4, <3>1, <3>2 DEF TypeOK, VisitMatch
      <3> QED
        BY <1>0, <2>4, <3>3 DEF TypeOK, VisitMatch, resume_threads
    <2>5. ASSUME NEW t \in todo, NEW addrs \in SUBSET Addrs, VisitRecord(t, addrs)
          PROVE  TypeOK'
      <3> DEFINE e == [id |-> t, type |-> Label(t), addrs |-> addrs]
                 arr == Append(OBJ_ARR, e)
      <3>1. addrs \in get_addr(t) /\ addrs # {} /\ Label(t) # "?"
        BY <2>5 DEF VisitRecord, FoundAddrs
      <3>2. t \in Threads /\ addrs \in SUBSET Addrs /\ Label(t) \in {"W", "R"}
        BY <3>1, VisitTypes DEF TypeOK
      <3>3. e \in Entry
        BY <3>1, <3>2 DEF Entry
      <3>4. arr \in Seq(Entry)
        BY <3>3 DEF TypeOK
      <3>5. \/ OBJ_ARR' = arr
            \/ \E i \in DOMAIN arr : OBJ_ARR' = RemoveAt(arr, i)
        BY <2>5 DEF VisitRecord
      <3>6. susp' \in SUBSET Threads
        BY <2>5 DEF VisitRecord, TypeOK
      <3> HIDE DEF arr
      <3>7. OBJ_ARR' \in Seq(Entry)
        BY <3>4, <3>5, RemoveAtElements
      <3> QED
        BY <1>0, <2>5, <3>6, <3>7 DEF TypeOK, VisitRecord
    <2>6. CASE CallbackEnd
      BY <2>6 DEF TypeOK, CallbackEnd, Resumed
    <2> QED
      BY <1>4, <2>1, <2>2, <2>3, <2>4, <2>5, <2>6 DEF Callbacks
  <1>5. CASE Timer
    <2>1. ASSUME NEW i \in DOMAIN OBJ_ARR, TimerRelease(i)
          PROVE  TypeOK'
      <3>1. OBJ_ARR' \in Seq(Entry)
        BY <2>1, RemoveAtElements DEF TypeOK, TimerRelease
      <3> QED
        BY <1>0, <2>1, <3>1 DEF TypeOK, TimerRelease, Resumed
    <2>2. CASE TimerHang
      BY <1>0, <2>2 DEF TypeOK, TimerHang, target
    <2>3. CASE TimerIdle
      BY <1>0, <2>3 DEF TypeOK, TimerIdle, Resumed
    <2>4. CASE TimerTerm
      BY <1>0, <2>4 DEF TypeOK, TimerTerm, target
    <2>5. CASE TimerRearm
      BY <2>5 DEF TypeOK, TimerRearm, vars
    <2> QED
      BY <1>5, <2>1, <2>2, <2>3, <2>4, <2>5 DEF Timer
  <1>6. CASE Over \/ UNCHANGED vars
    BY <1>6 DEF TypeOK, Over, vars
  <1> QED
    BY <1>1, <1>2, <1>3, <1>4, <1>5, <1>6 DEF Next

\* The globals of the script and the state of the target keep their types,
\* whatever the callbacks, the timer and the target do.
THEOREM TypeCorrect == Spec => []TypeOK
  <1>1. Init => TypeOK
    <2> SUFFICES ASSUME Init PROVE TypeOK
      OBVIOUS
    <2>1. MaxElapsed \in Nat /\ MaxHits \in Nat
      BY TimeAssumption, TargetAssumption DEF MaxElapsed
    <2>2. elapsed \in 0 .. MaxElapsed /\ hits \in 0 .. MaxHits
      BY <2>1 DEF Init, TargetInit
    <2>3. at \in [Threads -> Access \cup {NoStop}] /\ OBJ_ARR \in Seq(Entry)
      BY DEF Init, TargetInit
    <2> QED
      BY <2>2, <2>3 DEF Init, TargetInit, TypeOK
  <1> QED
    BY <1>1, TypeStep, PTL DEF Spec

----------------------------------------------------------------------------
(* The inductive invariant.                                                *)

\* The invariant of a session that has not ended.
LiveInv ==
    /\ HeldInv
    /\ CallbackInv
    /\ RecordInv
    /\ susp \subseteq Tracked \cup todo

\* A session that ends without a change to OBJ_ARR keeps TrackingInv.
LEMMA EndKeepsInv ==
    ASSUME TrackingInv, OBJ_ARR' = OBJ_ARR, status' \notin {"load", "active"}
    PROVE  TrackingInv'
  BY DEF TrackingInv, TrackedOnce, NoConflict, Conflict

\* The steps of the target and of time.
LEMMA EnvironmentKeepsInv ==
    ASSUME TypeOK, TrackingInv, Environment
    PROVE  TrackingInv'
  <1>0. status = "active" /\ LiveInv
    BY DEF TrackingInv, LiveInv, Environment
  <1>1. UNCHANGED <<OBJ_ARR, status, todo, lock>>
    BY DEF Environment, script
  <1>2. TrackedOnce' /\ NoConflict' /\ Tracked' = Tracked
    BY <1>1 DEF TrackingInv, TrackedOnce, NoConflict, Conflict, Tracked
  <1>3. \A i \in DOMAIN OBJ_ARR : OBJ_ARR[i].id \in Threads /\ OBJ_ARR[i].id \in Tracked
    BY RecordTypes DEF TypeOK, Tracked
  <1> SUFFICES HeldInv' /\ CallbackInv' /\ RecordInv' /\ (susp \subseteq Tracked \cup todo)'
    BY <1>2 DEF TrackingInv
  <1>4. ASSUME NEW t \in Threads, Launch(t) \/ Spawn(t) \/ ThreadExit(t)
        PROVE  HeldInv' /\ CallbackInv' /\ RecordInv' /\ (susp \subseteq Tracked \cup todo)'
    <2>1. UNCHANGED <<at, susp>> /\ proc \in {"none", "running"} /\ proc' = "running"
      BY <1>4 DEF Launch, Spawn, ThreadExit
    <2>2. \A u \in Threads : Stopped(u) => u \in susp /\ u \in live
      BY <1>0, <2>1 DEF LiveInv, HeldInv
    <2>3. \A u \in Threads : Stopped(u) => u \in live'
      BY <1>0, <1>4, <2>2 DEF Launch, Spawn, ThreadExit, LiveInv, HeldInv
    <2>4. HeldInv'
      BY <1>0, <2>1, <2>2, <2>3 DEF LiveInv, HeldInv, Stopped
    <2>5. CallbackInv'
      BY <1>0, <1>1, <1>2, <2>1 DEF LiveInv, CallbackInv, Stopped
    <2>6. RecordInv'
      BY <1>0, <1>1, <1>2, <2>1 DEF LiveInv, RecordInv
    <2> QED
      BY <1>0, <1>1, <1>2, <2>1, <2>4, <2>5, <2>6 DEF LiveInv
  <1>5. CASE ProcExit
    <2>1. susp' = {} /\ proc' = "exited" /\ lock # "callback"
      BY <1>0, <1>5 DEF ProcExit, LiveInv, CallbackInv
    <2>2. \A u \in Threads : at'[u] = NoStop
      BY <1>5 DEF ProcExit
    <2>3. HeldInv'
      BY <2>1, <2>2 DEF HeldInv, Stopped
    <2>4. CallbackInv'
      BY <1>0, <1>1, <2>1 DEF LiveInv, CallbackInv
    <2> QED
      BY <2>1, <2>3, <2>4 DEF RecordInv
  <1>6. ASSUME NEW S \in SUBSET (live \ susp), NEW C \in SUBSET S,
               NEW acc \in [S -> Access], Hit(bps, S, C, acc)
        PROVE  HeldInv' /\ CallbackInv' /\ RecordInv' /\ (susp \subseteq Tracked \cup todo)'
    <2>1. UNCHANGED <<susp, live>> /\ proc = "running" /\ proc' = "stopped"
      BY <1>6 DEF Hit
    <2>2. lock # "callback" /\ todo = {}
      BY <1>0, <2>1 DEF LiveInv, CallbackInv
    <2>3. \A u \in Threads : u \notin S => at'[u] = at[u]
      BY <1>6 DEF Hit
    <2>4. S \subseteq live /\ S \cap susp = {} /\ susp \subseteq Threads
      BY DEF TypeOK
    <2>5. HeldInv'
      BY <1>0, <2>1, <2>3, <2>4 DEF LiveInv, HeldInv, Stopped
    <2>6. CallbackInv'
      BY <1>1, <2>2 DEF CallbackInv
    <2>7. RecordInv'
      BY <1>0, <1>1, <1>2, <1>3, <2>1, <2>3, <2>4 DEF LiveInv, RecordInv
    <2> QED
      BY <1>0, <1>1, <1>2, <2>1, <2>5, <2>6, <2>7 DEF LiveInv
  <1> QED
    BY <1>4, <1>5, <1>6 DEF Environment, TargetNext

\* A label, when the labels are faithful, names the right source line and
\* the right breakpoint, so that get_addr finds addresses of the access.
LEMMA LabelIsBreakpoint ==
    ASSUME TypeOK, NEW t \in Threads, Stopped(t), LabelsFaithful, Label(t) # "?",
           NEW addrs \in get_addr(t)
    PROVE  /\ addrs \subseteq at[t].addrs
           /\ SameSource \/ (Label(t) = "W" <=> at[t].bp = "write")
  <1>1. at[t].bp \in Sides
    BY DEF TypeOK, Stopped, Access
  <1>2. CASE SameSource
    <2>1. LabelSource(t) = Source[at[t].bp]
      BY <1>1, <1>2 DEF SameSource, LabelSource, Sides
    <2> QED
      BY <1>2, <2>1 DEF get_addr
  <1>3. CASE ~SameSource
    <2>1. StopLine["read"] # Line["write"] /\ StopLine["write"] # Line["read"]
      BY <1>3 DEF LabelsFaithful
    <2>2. CASE at[t].bp = "write"
      <3>1. Label(t) = "W"
        BY <2>1, <2>2 DEF Label
      <3>2. LabelSource(t) = Source["write"]
        BY <3>1 DEF LabelSource
      <3> QED
        BY <2>2, <3>1, <3>2 DEF get_addr
    <2>3. CASE at[t].bp = "read"
      <3>1. Label(t) = "R"
        BY <2>1, <2>3 DEF Label
      <3>2. LabelSource(t) = Source["read"]
        BY <3>1 DEF LabelSource
      <3> QED
        BY <2>3, <3>1, <3>2 DEF get_addr
    <2> QED
      BY <1>1, <2>2, <2>3 DEF Sides
  <1> QED
    BY <1>2, <1>3

\* Deleting a record keeps the invariants of OBJ_ARR.
LEMMA RemoveKeepsArray ==
    ASSUME NEW arr \in Seq(Entry), NEW i \in DOMAIN arr, Once(arr),
           OBJ_ARR' = RemoveAt(arr, i),
           \A j, k \in DOMAIN arr : ~Conflict(arr[j], arr[k])
    PROVE  /\ TrackedOnce'
           /\ NoConflict'
           /\ Tracked' = Ids(arr) \ {arr[i].id}
           /\ \A j \in DOMAIN OBJ_ARR' : \E k \in DOMAIN arr : k # i /\ OBJ_ARR'[j] = arr[k]
  <1> DEFINE new == RemoveAt(arr, i)
  <1>1. /\ Once(new)
        /\ Ids(new) = Ids(arr) \ {arr[i].id}
        /\ \A j \in DOMAIN new : \E k \in DOMAIN arr : k # i /\ new[j] = arr[k]
    BY RemoveRecord
  <1> HIDE DEF new
  <1>2. OBJ_ARR' = new
    BY DEF new
  <1>3. TrackedOnce'
    BY <1>1, <1>2 DEF TrackedOnce, Once
  <1>4. Tracked' = Ids(arr) \ {arr[i].id}
    BY <1>1, <1>2 DEF Tracked, Ids
  <1>5. \A j, k \in DOMAIN new : ~Conflict(new[j], new[k])
    BY <1>1
  <1>6. NoConflict'
    BY <1>2, <1>5 DEF NoConflict, Conflict, SameSource
  <1> QED
    BY <1>1, <1>2, <1>3, <1>4, <1>6

\* The first part of a callback: a thread write_callback is told about again
\* is forgotten, and is visited again because it is still stopped.
LEMMA CallbackBeginKeepsInv ==
    ASSUME TypeOK, TrackingInv, NEW c \in pending, CallbackBegin(c)
    PROVE  TrackingInv'
  <1>0. status = "active" /\ LiveInv /\ proc # "exited"
    BY DEF TrackingInv, LiveInv, CallbackBegin
  <1>1. /\ UNCHANGED <<status, live, at, susp>>
        /\ proc' = "stopped" /\ lock' = "callback"
        /\ todo' = Untracked(OBJ_ARR')
    BY DEF CallbackBegin
  <1>2. /\ TrackedOnce' /\ NoConflict'
        /\ Tracked' \subseteq Tracked
        /\ \A j \in DOMAIN OBJ_ARR' : \E k \in DOMAIN OBJ_ARR : OBJ_ARR'[j] = OBJ_ARR[k]
    <2>1. CASE UNCHANGED OBJ_ARR
      BY <2>1 DEF TrackingInv, TrackedOnce, NoConflict, Conflict, Tracked
    <2>2. ASSUME NEW i \in DOMAIN OBJ_ARR, OBJ_ARR' = RemoveAt(OBJ_ARR, i)
          PROVE  /\ TrackedOnce' /\ NoConflict'
                 /\ Tracked' \subseteq Tracked
                 /\ \A j \in DOMAIN OBJ_ARR' : \E k \in DOMAIN OBJ_ARR : OBJ_ARR'[j] = OBJ_ARR[k]
      BY <2>2, RemoveKeepsArray DEF TypeOK, TrackingInv, TrackedOnce, NoConflict, Once, Ids, Tracked
    <2> QED
      BY <2>1, <2>2 DEF CallbackBegin
  <1>3. todo' = {t \in live : Stopped(t) /\ t \notin Tracked'}
    BY <1>1 DEF Untracked, Stopped, Tracked
  <1>4. /\ \A t \in susp : Stopped(t)
        /\ \A t \in Threads : Stopped(t) => t \in live
        /\ Tracked \subseteq susp
        /\ susp \subseteq Threads
    BY <1>0 DEF LiveInv, HeldInv, RecordInv, TypeOK
  <1>5. HeldInv'
    BY <1>1, <1>4 DEF HeldInv, Stopped
  <1>6. CallbackInv'
    <2>1. \A t \in todo' : Stopped(t)' /\ t \notin Tracked'
      BY <1>1, <1>3 DEF Stopped
    <2>2. \A t \in Threads \ (susp' \cup todo') : ~ Stopped(t)'
      BY <1>1, <1>2, <1>3, <1>4 DEF Stopped
    <2> QED
      BY <1>1, <2>1, <2>2 DEF CallbackInv
  <1>7. RecordInv'
    BY <1>0, <1>1, <1>2 DEF LiveInv, RecordInv
  <1>8. susp' \subseteq Tracked' \cup todo'
    BY <1>1, <1>3, <1>4
  <1> QED
    BY <1>2, <1>5, <1>6, <1>7, <1>8 DEF TrackingInv

\* A visited thread that matches nothing is recorded; if that suspends the
\* last thread, a tracked thread is released.
LEMMA VisitRecordKeepsInv ==
    ASSUME TypeOK, TrackingInv, NEW t \in todo, NEW addrs \in SUBSET Addrs,
           VisitRecord(t, addrs)
    PROVE  TrackingInv'
  <1> DEFINE e == [id |-> t, type |-> Label(t), addrs |-> addrs]
             arr == Append(OBJ_ARR, e)
             all == susp \cup {t}
  <1>0. status = "active" /\ lock = "callback" /\ LiveInv /\ proc = "stopped"
    BY DEF TrackingInv, LiveInv, CallbackInv, VisitRecord, Visit
  <1>1. /\ UNCHANGED <<status, lock, proc, live, at>>
        /\ todo' = todo \ {t}
        /\ addrs \in get_addr(t) /\ addrs # {} /\ Label(t) # "?"
        /\ match(e) = {}
    BY DEF VisitRecord, FoundAddrs
  <1>2. t \in Threads /\ Stopped(t) /\ t \notin Tracked /\ susp \subseteq Threads
    BY <1>0 DEF LiveInv, CallbackInv, TypeOK
  <1>3. e \in Entry
    BY <1>1, <1>2, VisitTypes DEF Entry
  <1>4. /\ arr \in Seq(Entry)
        /\ Once(arr)
        /\ Ids(arr) = Tracked \cup {t}
        /\ \A j \in DOMAIN arr : arr[j] = e \/ \E k \in DOMAIN OBJ_ARR : arr[j] = OBJ_ARR[k]
    <2>1. Once(OBJ_ARR) /\ Tracked = Ids(OBJ_ARR) /\ e.id = t
      BY DEF TrackingInv, TrackedOnce, Once, Tracked, Ids
    <2> HIDE DEF e
    <2> QED
      BY <1>2, <1>3, <2>1, AppendRecord DEF TypeOK
  <1>5. \A j, k \in DOMAIN arr : ~Conflict(arr[j], arr[k])
    <2>1. \A k \in DOMAIN OBJ_ARR : ~Conflict(e, OBJ_ARR[k])
      BY <1>1 DEF match, ToSet
    <2>2. \A k \in DOMAIN OBJ_ARR : ~Conflict(OBJ_ARR[k], e)
      BY <2>1 DEF Conflict
    <2>3. ~Conflict(e, e)
      BY DEF Conflict
    <2> HIDE DEF arr, e
    <2> QED
      BY <1>4, <2>1, <2>2, <2>3 DEF TrackingInv, NoConflict
  <1>6. LabelsFaithful =>
          \A j \in DOMAIN arr :
              /\ arr[j].addrs \subseteq at[arr[j].id].addrs
              /\ SameSource \/ (arr[j].type = "W" <=> at[arr[j].id].bp = "write")
    <2> SUFFICES ASSUME LabelsFaithful, NEW j \in DOMAIN arr
                 PROVE  /\ arr[j].addrs \subseteq at[arr[j].id].addrs
                        /\ SameSource \/ (arr[j].type = "W" <=> at[arr[j].id].bp = "write")
      OBVIOUS
    <2>1. CASE arr[j] = e
      <3>1. /\ addrs \subseteq at[t].addrs
            /\ SameSource \/ (Label(t) = "W" <=> at[t].bp = "write")
        BY <1>1, <1>2, LabelIsBreakpoint
      <3>2. e.id = t /\ e.type = Label(t) /\ e.addrs = addrs
        OBVIOUS
      <3> HIDE DEF e, arr
      <3> QED
        BY <2>1, <3>1, <3>2
    <2>2. ASSUME NEW k \in DOMAIN OBJ_ARR, arr[j] = OBJ_ARR[k]
          PROVE  /\ arr[j].addrs \subseteq at[arr[j].id].addrs
                 /\ SameSource \/ (arr[j].type = "W" <=> at[arr[j].id].bp = "write")
      <3> HIDE DEF arr
      <3> QED
        BY <1>0, <2>2 DEF LiveInv, RecordInv
    <2> HIDE DEF e, arr
    <2> QED
      BY <1>4, <2>1, <2>2
  <1>7. /\ \A u \in all : Stopped(u)
        /\ \A u \in Threads : Stopped(u) => u \in live
        /\ Tracked \subseteq susp
        /\ susp \subseteq Tracked \cup todo
        /\ \A u \in todo : Stopped(u) /\ u \notin Tracked
        /\ \A u, v \in Threads \ (susp \cup todo) : Stopped(u) /\ Stopped(v) => u = v
    BY <1>0, <1>2 DEF LiveInv, HeldInv, CallbackInv, RecordInv
  <1>8. \A u : Stopped(u)' = Stopped(u)
    BY <1>1 DEF Stopped
  <1> HIDE DEF e, arr
  <1>9. CASE OBJ_ARR' = arr /\ susp' = all
    <2>1. TrackedOnce' /\ NoConflict' /\ Tracked' = Tracked \cup {t}
      <3>1. TrackedOnce'
        BY <1>4, <1>9 DEF TrackedOnce, Once
      <3>2. NoConflict'
        BY <1>5, <1>9 DEF NoConflict, Conflict, SameSource
      <3>3. Tracked' = Ids(arr)
        BY <1>9 DEF Ids, Tracked
      <3> QED
        BY <1>4, <3>1, <3>2, <3>3
    <2>2. HeldInv'
      BY <1>0, <1>1, <1>7, <1>8, <1>9 DEF HeldInv
    <2>3. CallbackInv'
      <3>1. \A u, v \in Threads \ (susp' \cup todo') : Stopped(u)' /\ Stopped(v)' => u = v
        BY <1>1, <1>7, <1>8, <1>9
      <3>2. \A u \in todo' : Stopped(u)' /\ u \notin Tracked'
        BY <1>1, <1>7, <1>8, <2>1
      <3> QED
        BY <1>0, <1>1, <3>1, <3>2 DEF CallbackInv
    <2>4. RecordInv'
      BY <1>1, <1>6, <1>7, <1>9, <2>1 DEF RecordInv
    <2>5. susp' \subseteq Tracked' \cup todo'
      BY <1>1, <1>7, <1>9, <2>1
    <2> QED
      BY <2>1, <2>2, <2>3, <2>4, <2>5 DEF TrackingInv
  <1>10. ASSUME live \subseteq all, NEW i \in DOMAIN arr,
                OBJ_ARR' = RemoveAt(arr, i), susp' = all \ {arr[i].id}
         PROVE  TrackingInv'
    <2>1. /\ TrackedOnce' /\ NoConflict' /\ Tracked' = (Tracked \cup {t}) \ {arr[i].id}
          /\ \A j \in DOMAIN OBJ_ARR' : \E k \in DOMAIN arr : OBJ_ARR'[j] = arr[k]
      BY <1>4, <1>5, <1>10, RemoveKeepsArray
    <2>2. HeldInv'
      BY <1>0, <1>1, <1>7, <1>8, <1>10 DEF HeldInv
    <2>3. CallbackInv'
      <3>1. \A u \in Threads : Stopped(u) => u \in susp \cup {t}
        BY <1>7, <1>10
      <3>2. \A u \in Threads \ (susp' \cup todo') : Stopped(u)' => u = arr[i].id
        BY <1>1, <1>8, <1>10, <3>1
      <3>3. \A u \in todo' : Stopped(u)' /\ u \notin Tracked'
        BY <1>1, <1>7, <1>8, <2>1
      <3> QED
        BY <1>0, <1>1, <3>2, <3>3 DEF CallbackInv
    <2>4. RecordInv'
      BY <1>1, <1>6, <1>7, <1>10, <2>1 DEF RecordInv
    <2>5. susp' \subseteq Tracked' \cup todo'
      BY <1>1, <1>7, <1>10, <2>1
    <2> QED
      BY <2>1, <2>2, <2>3, <2>4, <2>5 DEF TrackingInv
  <1> QED
    BY <1>9, <1>10 DEF VisitRecord, all_bp_hit, e, arr

\* The end of a callback.
LEMMA CallbackEndKeepsInv ==
    ASSUME TypeOK, TrackingInv, CallbackEnd
    PROVE  TrackingInv'
  <1>0. status = "active" /\ lock = "callback" /\ LiveInv /\ proc = "stopped" /\ todo = {}
    BY DEF TrackingInv, LiveInv, CallbackInv, CallbackEnd
  <1>1. /\ UNCHANGED <<status, OBJ_ARR, todo, live, susp>>
        /\ lock' = "free" /\ proc' = "running" /\ at' = Resumed(susp)
    BY DEF CallbackEnd
  <1>2. /\ TrackedOnce' /\ NoConflict' /\ Tracked' = Tracked
        /\ \A i \in DOMAIN OBJ_ARR : OBJ_ARR[i].id \in Tracked
    BY <1>1 DEF TrackingInv, TrackedOnce, NoConflict, Conflict, Tracked
  <1>3. /\ susp \subseteq Threads
        /\ \A u \in Threads : at'[u] = IF u \in susp THEN at[u] ELSE NoStop
    BY <1>1 DEF TypeOK, Resumed
  <1>4. HeldInv'
    BY <1>0, <1>1, <1>3 DEF LiveInv, HeldInv, Stopped
  <1>5. CallbackInv'
    BY <1>0, <1>1 DEF CallbackInv
  <1>6. RecordInv'
    BY <1>0, <1>1, <1>2, <1>3 DEF LiveInv, RecordInv
  <1> QED
    BY <1>0, <1>1, <1>2, <1>4, <1>5, <1>6 DEF TrackingInv, LiveInv

\* The runs of the timer.
LEMMA TimerKeepsInv ==
    ASSUME TypeOK, TrackingInv, Timer
    PROVE  TrackingInv'
  <1>0. status = "active" /\ lock = "free" /\ LiveInv /\ todo = {}
    BY DEF TrackingInv, LiveInv, CallbackInv, Timer, TimerRelease, TimerHang, TimerIdle,
           TimerTerm, TimerRearm, TimerRuns
  <1>1. ASSUME NEW i \in DOMAIN OBJ_ARR, TimerRelease(i)
        PROVE  TrackingInv'
    <2>1. /\ UNCHANGED <<status, lock, todo, live>>
          /\ OBJ_ARR' = RemoveAt(OBJ_ARR, i)
          /\ susp' = susp \ {OBJ_ARR[i].id}
          /\ proc # "exited" /\ proc' = "running"
          /\ at' = Resumed(susp')
      BY <1>1 DEF TimerRelease
    <2>2. /\ TrackedOnce' /\ NoConflict' /\ Tracked' = Tracked \ {OBJ_ARR[i].id}
          /\ \A j \in DOMAIN OBJ_ARR' : \E k \in DOMAIN OBJ_ARR : OBJ_ARR'[j] = OBJ_ARR[k]
      <3>1. /\ Once(OBJ_ARR)
            /\ \A j, k \in DOMAIN OBJ_ARR : ~Conflict(OBJ_ARR[j], OBJ_ARR[k])
            /\ Tracked = Ids(OBJ_ARR)
            /\ OBJ_ARR \in Seq(Entry)
        BY DEF TypeOK, TrackingInv, TrackedOnce, NoConflict, Once, Ids, Tracked
      <3> QED
        BY <2>1, <3>1, RemoveKeepsArray
    <2>3. /\ susp' \subseteq Threads
          /\ \A u \in Threads : at'[u] = IF u \in susp' THEN at[u] ELSE NoStop
      BY <2>1 DEF TypeOK, Resumed
    <2>4. HeldInv'
      BY <1>0, <2>1, <2>3 DEF LiveInv, HeldInv, Stopped
    <2>5. CallbackInv'
      BY <1>0, <2>1 DEF CallbackInv
    <2>6. Tracked' \subseteq susp' /\ \A j \in DOMAIN OBJ_ARR' : OBJ_ARR'[j].id \in Tracked'
      BY <1>0, <2>1, <2>2 DEF LiveInv, RecordInv, Tracked
    <2>7. RecordInv'
      <3>1. \A j \in DOMAIN OBJ_ARR' : at'[OBJ_ARR'[j].id] = at[OBJ_ARR'[j].id]
        BY <2>3, <2>6
      <3>2. LabelsFaithful =>
              \A k \in DOMAIN OBJ_ARR :
                  /\ OBJ_ARR[k].addrs \subseteq at[OBJ_ARR[k].id].addrs
                  /\ SameSource \/ (OBJ_ARR[k].type = "W" <=> at[OBJ_ARR[k].id].bp = "write")
        BY <1>0, <2>1 DEF LiveInv, RecordInv
      <3>3. LabelsFaithful =>
              \A j \in DOMAIN OBJ_ARR' :
                  /\ OBJ_ARR'[j].addrs \subseteq at[OBJ_ARR'[j].id].addrs
                  /\ SameSource \/ (OBJ_ARR'[j].type = "W" <=> at[OBJ_ARR'[j].id].bp = "write")
        BY <2>2, <3>2
      <3> QED
        BY <2>6, <3>1, <3>3 DEF RecordInv
    <2> QED
      BY <1>0, <2>1, <2>2, <2>4, <2>5, <2>7 DEF TrackingInv, LiveInv
  <1>2. CASE TimerHang \/ TimerTerm
    BY <1>2, EndKeepsInv DEF TimerHang, TimerTerm
  <1>3. CASE TimerIdle
    <2>1. /\ UNCHANGED <<OBJ_ARR, lock, todo, live, susp>>
          /\ proc' = IF proc = "stopped" THEN "running" ELSE proc
          /\ at' = Resumed(susp)
          /\ status' = "kill" \/ status' = status
      BY <1>3 DEF TimerIdle
    <2>2. CASE status' = "kill"
      BY <2>1, <2>2, EndKeepsInv
    <2>3. CASE status' = status
      <3>1. /\ TrackedOnce' /\ NoConflict' /\ Tracked' = Tracked
            /\ \A i \in DOMAIN OBJ_ARR : OBJ_ARR[i].id \in Tracked
        BY <2>1 DEF TrackingInv, TrackedOnce, NoConflict, Conflict, Tracked
      <3>2. /\ susp \subseteq Threads
            /\ \A u \in Threads : at'[u] = IF u \in susp THEN at[u] ELSE NoStop
        BY <2>1 DEF TypeOK, Resumed
      <3>3. HeldInv'
        BY <1>0, <2>1, <3>2 DEF LiveInv, HeldInv, Stopped
      <3>4. CallbackInv'
        BY <1>0, <2>1 DEF CallbackInv
      <3>5. RecordInv'
        BY <1>0, <2>1, <3>1, <3>2 DEF LiveInv, RecordInv
      <3> QED
        BY <1>0, <2>1, <3>1, <3>3, <3>4, <3>5 DEF TrackingInv, LiveInv
    <2> QED
      BY <2>1, <2>2, <2>3
  <1>4. CASE TimerRearm
    BY <1>4 DEF TimerRearm, vars, TrackingInv, TrackedOnce, NoConflict, Conflict, HeldInv,
                CallbackInv, RecordInv, Stopped, Tracked
  <1> QED
    BY <1>1, <1>2, <1>3, <1>4 DEF Timer

\* TrackingInv is inductive.
LEMMA InvStep ==
    TypeOK /\ TrackingInv /\ [Next]_vars => TrackingInv'
  <1> SUFFICES ASSUME TypeOK, TrackingInv, [Next]_vars
               PROVE  TrackingInv'
    OBVIOUS
  <1>1. CASE Import
    <2>1. CASE SetTrigger
      BY <2>1 DEF SetTrigger, target, TrackingInv, TrackedOnce, NoConflict, Conflict, HeldInv,
                  CallbackInv, RecordInv, Stopped, Tracked
    <2>2. CASE BadReport
      BY <2>2, EndKeepsInv DEF BadReport
    <2> QED
      BY <1>1, <2>1, <2>2 DEF Import
  <1>2. CASE Environment
    BY <1>2, EnvironmentKeepsInv
  <1>3. CASE Tick
    BY <1>3 DEF Tick, target, TrackingInv, TrackedOnce, NoConflict, Conflict, HeldInv,
                CallbackInv, RecordInv, Stopped, Tracked
  <1>4. CASE Callbacks
    <2>1. ASSUME NEW c \in pending, CallbackBegin(c)
          PROVE  TrackingInv'
      BY <2>1, CallbackBeginKeepsInv
    <2>2. ASSUME NEW c \in pending, CallbackHang(c)
          PROVE  TrackingInv'
      BY <2>2, EndKeepsInv DEF CallbackHang
    <2>3. ASSUME NEW t \in todo, VisitError(t)
          PROVE  TrackingInv'
      BY <2>3, EndKeepsInv DEF VisitError
    <2>4. ASSUME NEW t \in todo, NEW addrs \in SUBSET Addrs, VisitMatch(t, addrs)
          PROVE  TrackingInv'
      BY <2>4, EndKeepsInv DEF VisitMatch
    <2>5. ASSUME NEW t \in todo, NEW addrs \in SUBSET Addrs, VisitRecord(t, addrs)
          PROVE  TrackingInv'
      BY <2>5, VisitRecordKeepsInv
    <2>6. CASE CallbackEnd
      BY <2>6, CallbackEndKeepsInv
    <2> QED
      BY <1>4, <2>1, <2>2, <2>3, <2>4, <2>5, <2>6 DEF Callbacks
  <1>5. CASE Timer
    BY <1>5, TimerKeepsInv
  <1>6. CASE Over \/ UNCHANGED vars
    BY <1>6 DEF Over, vars, TrackingInv, TrackedOnce, NoConflict, Conflict, HeldInv,
                CallbackInv, RecordInv, Stopped, Tracked
  <1> QED
    BY <1>1, <1>2, <1>3, <1>4, <1>5, <1>6 DEF Next

\* What the callbacks and the timer believe stays in agreement with LLDB.
LEMMA TrackingInvariant == Spec => []TrackingInv
  <1>1. Init => TrackingInv
    BY DEF Init, TargetInit, TrackingInv, TrackedOnce, NoConflict, HeldInv, CallbackInv, RecordInv,
           Stopped, Tracked
  <1> QED
    BY <1>1, TypeCorrect, InvStep, PTL DEF Spec

\* The variables keep their types, and the tracking array, the suspended
\* threads and the stops of the target agree in every reachable state.
THEOREM TriggerInvariant == Spec => []TriggerInv
  <1>1. TypeOK /\ TrackingInv => TriggerInv
    BY DEF TriggerInv
  <1> QED
    BY <1>1, TypeCorrect, TrackingInvariant, PTL

\* A thread has one record at most, so that deleting one forgets the thread.
THEOREM RecordedOnce == Spec => []TrackedOnce
  <1>1. TrackingInv => TrackedOnce
    BY DEF TrackingInv
  <1> QED
    BY <1>1, TrackingInvariant, PTL

\* Every record in OBJ_ARR is about a thread that is suspended before a
\* breakpoint: release_bp resumes a thread that is really held.
THEOREM RecordedIsPaused == Spec => []TrackedPaused
  <1>1. TypeOK /\ TrackingInv => TrackedPaused
    <2> SUFFICES ASSUME TypeOK, TrackingInv, status = "active", proc # "exited",
                        NEW i \in DOMAIN OBJ_ARR
                 PROVE  OBJ_ARR[i].id \in susp \cap live /\ at[OBJ_ARR[i].id] # NoStop
      BY DEF TrackedPaused
    <2>1. OBJ_ARR[i].id \in susp
      BY DEF TrackingInv, RecordInv, Tracked
    <2> QED
      BY <2>1 DEF TypeOK, TrackingInv, HeldInv, Stopped
  <1> QED
    BY <1>1, TypeCorrect, TrackingInvariant, PTL

\* Every suspended thread has a record, or the callback under way is about
\* to visit it: release_bp can get every thread going again.
THEOREM SuspendedIsTracked == Spec => []SuspendedTracked
  <1>1. TrackingInv => SuspendedTracked
    BY DEF TrackingInv, SuspendedTracked
  <1> QED
    BY <1>1, TrackingInvariant, PTL

\* When the two lines can be told apart by their numbers, no two threads are
\* held on a race that was not reported.
THEOREM NoRaceUnnoticed == LabelsFaithful => (Spec => []NoUnnoticedRace)
  <1> SUFFICES ASSUME LabelsFaithful PROVE Spec => []NoUnnoticedRace
    OBVIOUS
  <1>1. TypeOK /\ TrackingInv => NoUnnoticedRace
    <2> SUFFICES ASSUME TypeOK, TrackingInv, status = "active", proc # "exited",
                        NEW i \in DOMAIN OBJ_ARR, NEW j \in DOMAIN OBJ_ARR, i # j,
                        SameSource \/ at[OBJ_ARR[i].id].bp # at[OBJ_ARR[j].id].bp
                 PROVE  OBJ_ARR[i].addrs \cap OBJ_ARR[j].addrs = {}
      BY DEF NoUnnoticedRace
    <2>1. OBJ_ARR[i].id # OBJ_ARR[j].id
      BY DEF TrackingInv, TrackedOnce
    <2>2. \A k \in DOMAIN OBJ_ARR :
             /\ OBJ_ARR[k].type \in {"W", "R"}
             /\ at[OBJ_ARR[k].id].bp \in Sides
             /\ SameSource \/ (OBJ_ARR[k].type = "W" <=> at[OBJ_ARR[k].id].bp = "write")
      <3>1. \A k \in DOMAIN OBJ_ARR : OBJ_ARR[k].id \in susp
        BY DEF TrackingInv, RecordInv, Tracked
      <3>2. \A t \in susp : at[t].bp \in Sides
        BY DEF TypeOK, TrackingInv, HeldInv, Stopped, Access
      <3> QED
        BY <3>1, <3>2, RecordTypes DEF TypeOK, TrackingInv, RecordInv
    <2>3. SameSource \/ OBJ_ARR[i].type # OBJ_ARR[j].type
      BY <2>2 DEF Sides
    <2> QED
      BY <2>1, <2>3 DEF TrackingInv, NoConflict, Conflict
  <1> QED
    BY <1>1, TypeCorrect, TrackingInvariant, PTL

\* A reported match is a race: when the labels are faithful, HALT is printed
\* with exactly the threads of the match suspended, in a stopped process,
\* and before accesses that race.
THEOREM MatchIsRace == LabelsFaithful => (Spec => []MatchInTheMoment)
  <1> SUFFICES ASSUME LabelsFaithful PROVE Spec => []MatchInTheMoment
    OBVIOUS
  <1>1. Init => MatchInTheMoment
    BY DEF Init, MatchInTheMoment
  <1>2. TypeOK /\ TrackingInv /\ MatchInTheMoment /\ [Next]_vars => MatchInTheMoment'
    <2> SUFFICES ASSUME TypeOK, TrackingInv, MatchInTheMoment, [Next]_vars, status' = "match"
                 PROVE  MatchInTheMoment'
      BY DEF MatchInTheMoment
    <2>1. CASE UNCHANGED vars
      BY <2>1 DEF MatchInTheMoment, Races, vars
    <2>2. ASSUME NEW t \in todo, NEW addrs \in SUBSET Addrs, VisitMatch(t, addrs)
          PROVE  MatchInTheMoment'
      <3> DEFINE e == [id |-> t, type |-> Label(t), addrs |-> addrs]
                 found == match(e)
                 ids == {f.id : f \in found}
      <3>1. /\ status = "active" /\ lock = "callback"
            /\ addrs \in get_addr(t) /\ Label(t) # "?"
            /\ found # {}
            /\ pair' = {t} \cup ids
            /\ susp' = (susp \cup {t}) \cap ({t} \cup ids)
            /\ UNCHANGED <<proc, at>>
        BY <2>2 DEF VisitMatch, Visit, FoundAddrs, resume_threads
      <3>2. proc = "stopped" /\ t \in Threads /\ Stopped(t)
        BY <3>1 DEF TypeOK, TrackingInv, CallbackInv
      <3>3. e.id = t /\ e.type = Label(t) /\ e.addrs = addrs
        OBVIOUS
      <3>4. /\ addrs \subseteq at[t].addrs
            /\ SameSource \/ (Label(t) = "W" <=> at[t].bp = "write")
        BY <3>1, <3>2, LabelIsBreakpoint
      <3> HIDE DEF e
      <3>5. ASSUME NEW f \in found
            PROVE  f.id \in susp /\ f.id # t /\ Races(t, f.id)
        <4>1. PICK i \in DOMAIN OBJ_ARR : f = OBJ_ARR[i]
          BY DEF match, ToSet
        <4>2. Conflict(e, f)
          BY DEF match
        <4>3. f.id \in susp
          BY <3>1, <3>2, <4>1 DEF TrackingInv, RecordInv, Tracked
        <4>4. /\ f.addrs \subseteq at[f.id].addrs
              /\ SameSource \/ (f.type = "W" <=> at[f.id].bp = "write")
          BY <3>1, <3>2, <4>1 DEF TrackingInv, RecordInv
        <4>5. f.type \in {"W", "R"} /\ Label(t) \in {"W", "R"}
          BY <3>1, <4>1, RecordTypes, VisitTypes DEF TypeOK
        <4>6. Stopped(f.id) /\ f.id \in Threads
          BY <3>1, <4>3 DEF TypeOK, TrackingInv, HeldInv
        <4>7. f.id # t /\ (SameSource \/ Label(t) # f.type) /\ addrs \cap f.addrs # {}
          BY <3>3, <4>2 DEF Conflict
        <4>8. SameSource \/ at[t].bp # at[f.id].bp
          BY <3>4, <4>4, <4>5, <4>7
        <4> QED
          BY <3>2, <3>4, <4>3, <4>4, <4>6, <4>7, <4>8 DEF Races, Stopped
      <3>6. susp' = pair'
        BY <3>1, <3>5
      <3>7. pair' # {t}
        BY <3>1, <3>5
      <3>8. \A u \in pair' \ {t} : Races(t, u)'
        BY <3>1, <3>5 DEF Races, SameSource
      <3> QED
        BY <3>1, <3>2, <3>6, <3>7, <3>8 DEF MatchInTheMoment
    <2>3. CASE Over
      BY <2>1, <2>3 DEF Over
    <2> QED
      BY <2>1, <2>2, <2>3
      DEF Next, Import, SetTrigger, BadReport, Environment, script, Tick, Callbacks, CallbackBegin, CallbackHang, VisitError,
          VisitRecord, Visit, CallbackEnd, Timer, TimerRelease, TimerHang, TimerIdle, TimerTerm,
          TimerRearm, TimerRuns
  <1> QED
    BY <1>1, <1>2, TypeCorrect, TrackingInvariant, PTL DEF Spec

\* A callback lets at most one stopped thread go, the released one.
THEOREM OneAccessReleased == Spec => OneAccessAtATime
  <1>1. TypeOK /\ TrackingInv /\ [Next]_vars =>
          (lock = "callback" /\ status' = "active" =>
             \A t, u \in Threads :
                 /\ at[t] # NoStop /\ at'[t] = NoStop
                 /\ at[u] # NoStop /\ at'[u] = NoStop
                 => t = u)
    <2> SUFFICES ASSUME TypeOK, TrackingInv, [Next]_vars, lock = "callback", status' = "active",
                        NEW t \in Threads, NEW u \in Threads,
                        at[t] # NoStop, at'[t] = NoStop, at[u] # NoStop, at'[u] = NoStop
                 PROVE  t = u
      OBVIOUS
    <2>1. CASE CallbackEnd
      <3>1. /\ todo = {}
            /\ \A v, w \in Threads \ (susp \cup todo) : Stopped(v) /\ Stopped(w) => v = w
        BY <2>1 DEF CallbackEnd, TrackingInv, CallbackInv
      <3>2. t \notin susp /\ u \notin susp
        BY <2>1 DEF CallbackEnd, Resumed
      <3> QED
        BY <3>1, <3>2 DEF Stopped
    <2>2. CASE UNCHANGED at
      BY <2>2
    <2>3. CASE Environment
      <3>1. CASE proc = "running"
        BY <2>3, <3>1 DEF TrackingInv, CallbackInv, Environment
      <3> QED
        BY <2>2, <2>3, <3>1 DEF Environment, TargetNext, Launch, Spawn, ThreadExit, ProcExit, Hit
    <2> QED
      BY <2>1, <2>2, <2>3
      DEF Next, Import, SetTrigger, BadReport, Tick, target, Over, vars,
          Callbacks, CallbackBegin, CallbackHang, VisitError, VisitMatch, VisitRecord,
          Timer, TimerRelease, TimerHang, TimerIdle, TimerTerm, TimerRearm, TimerRuns
  <1> QED
    BY <1>1, TypeCorrect, TrackingInvariant, PTL DEF Spec, OneAccessAtATime

=============================================================================
