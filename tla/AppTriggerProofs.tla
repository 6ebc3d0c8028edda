-------------------------- MODULE AppTriggerProofs --------------------------
(***************************************************************************)
(* Proofs about AppTrigger, for every set of threads and addresses and for *)
(* the switches of every copy of the script.                               *)
(***************************************************************************)
EXTENDS AppTrigger, SequenceLemmas

\* The threads that have a record.
Recorded(arr) == {e.id : e \in ToSet(arr)}

\* The fields of the records of an array.
LEMMA RecordTypes ==
    ASSUME NEW arr \in Seq(Entry), NEW e \in ToSet(arr)
    PROVE  /\ e.id \in Threads
           /\ e.type \in {"W", "R"}
           /\ e.addrs \in SUBSET Addrs
  <1>1. e \in Entry
    BY DEF ToSet
  <1> QED
    BY <1>1 DEF Entry

\* Deleting a record makes at most its own thread unrecorded, and leaves
\* records of the array.
LEMMA RemoveRecorded ==
    ASSUME NEW arr \in Seq(Entry), NEW i \in DOMAIN arr
    PROVE  /\ RemoveAt(arr, i) \in Seq(Entry)
           /\ Recorded(arr) \ {arr[i].id} \subseteq Recorded(RemoveAt(arr, i))
           /\ ToSet(RemoveAt(arr, i)) \subseteq ToSet(arr)
  <1> DEFINE new == RemoveAt(arr, i)
  <1>1. /\ \A j \in DOMAIN new : \E k \in DOMAIN arr : k # i /\ new[j] = arr[k]
        /\ \A k \in DOMAIN arr : k # i => \E j \in DOMAIN new : new[j] = arr[k]
    BY RemoveAtKeeps
  <1>2. new \in Seq(Entry)
    BY RemoveAtElements
  <1> HIDE DEF new
  <1>3. ToSet(new) \subseteq ToSet(arr)
    BY <1>1 DEF ToSet
  <1>4. ToSet(arr) \ {arr[i]} \subseteq ToSet(new)
    BY <1>1 DEF ToSet
  <1>5. Recorded(arr) \ {arr[i].id} \subseteq Recorded(new)
    BY <1>4 DEF Recorded
  <1> QED
    BY <1>2, <1>3, <1>5 DEF new

\* No two records of the array make a match.
NoPair(arr) == \A e, f \in ToSet(arr) : ~Conflict(e, f)

\* The comparison of the records by index and by value is the same.
LEMMA PairwiseSet == NoUnnoticedRace <=> NoPair(OBJ_ARR)
  BY DEF NoUnnoticedRace, NoPair, ToSet

\* release_bp keeps what it does not resume recorded.
LEMMA ReleaseKeeps ==
    ASSUME NEW arr \in Seq(Entry), NEW i \in DOMAIN arr, release_bp(arr, i), susp \subseteq live
    PROVE  /\ OBJ_ARR' \in Seq(Entry)
           /\ susp' \subseteq susp
           /\ ToSet(OBJ_ARR') \subseteq ToSet(arr)
           /\ susp' \cap Recorded(arr) \subseteq Recorded(OBJ_ARR')
  <1>1. CASE arr[i].id \in live
    BY <1>1, RemoveRecorded DEF release_bp
  <1>2. CASE arr[i].id \notin live
    BY <1>2 DEF release_bp
  <1> QED
    BY <1>1, <1>2

----------------------------------------------------------------------------
(* The inductive invariant.                                                *)

\* The initial state.
LEMMA InitInv == Init => AppInv
  <1> SUFFICES ASSUME Init PROVE AppInv
    OBVIOUS
  <1>1. TypeOK
    <2>1. OBJ_ARR \in Seq(Entry) /\ elapsed \in Never .. Term
      BY DEF Init, Never, Term
    <2>2. {RUNNING, STATUS_FOUND, timerOn} \subseteq BOOLEAN /\ susp \subseteq live
      BY DEF Init, TargetInit
    <2> QED
      BY <2>1, <2>2 DEF Init, TypeOK
  <1>2. TargetOK /\ NotLaunched /\ SuspendedFor
    BY DEF Init, TargetInit, TargetOK, NotLaunched, SuspendedFor
  <1>3. NoUnnoticedRace
    BY DEF Init, NoUnnoticedRace
  <1> QED
    BY <1>1, <1>2, <1>3 DEF AppInv

\* The steps of the target: it runs on while a callback has process_lock.
LEMMA EnvironmentKeepsInv ==
    ASSUME AppInv, Environment
    PROVE  AppInv'
  <1>1. UNCHANGED <<mode, status, RUNNING, OBJ_ARR, elapsed, lock, STATUS_FOUND, timerOn, pair>>
    BY DEF Environment, script
  <1>2. NoUnnoticedRace'
    BY <1>1 DEF AppInv, NoUnnoticedRace, Conflict
  <1> SUFFICES (susp \subseteq live)' /\ TargetOK' /\ NotLaunched' /\ susp' \subseteq susp
    BY <1>1, <1>2 DEF AppInv, TypeOK, SuspendedFor
  <1> USE DEF AppInv, TypeOK, TargetOK, NotLaunched
  <1>3. ASSUME NEW t \in Threads, Launch(t) \/ Spawn(t) \/ ThreadExit(t)
        PROVE  (susp \subseteq live)' /\ TargetOK' /\ NotLaunched' /\ susp' \subseteq susp
    BY <1>3 DEF Launch, Spawn, ThreadExit
  <1>4. CASE ProcExit
    BY <1>4 DEF ProcExit
  <1>5. ASSUME NEW S \in SUBSET (live \ susp), NEW C \in SUBSET S,
               NEW acc \in [S -> Access], Hit(Sides, S, C, acc)
        PROVE  (susp \subseteq live)' /\ TargetOK' /\ NotLaunched' /\ susp' \subseteq susp
    <2>1. at' \in [Threads -> Access \cup {NoStop}]
      BY <1>5 DEF Hit
    <2>2. pending' \subseteq Callback
      BY <1>5 DEF Hit, Callback, Access
    <2> QED
      BY <1>5, <2>1, <2>2 DEF Hit
  <1> QED
    BY <1>3, <1>4, <1>5 DEF Environment, TargetNext

\* The first part of a callback.
LEMMA BeginKeepsInv ==
    ASSUME AppInv, NEW c \in pending, CallbackBegin(c)
    PROVE  AppInv'
  <1> USE DEF AppInv
  <1>1. c \in Callback /\ c # NoCallback
    BY DEF TargetOK, Callback, NoCallback, Sides
  <1>2. TypeOK'
    BY <1>1 DEF CallbackBegin, TypeOK
  <1>3. TargetOK' /\ NotLaunched'
    BY DEF CallbackBegin, TargetOK, NotLaunched
  <1>4. SuspendedFor'
    BY <1>1 DEF CallbackBegin, SuspendedFor
  <1>5. NoUnnoticedRace'
    BY DEF CallbackBegin, NoUnnoticedRace, Conflict
  <1> QED
    BY <1>2, <1>3, <1>4, <1>5

\* A callback that finds no variable ends the session.
LEMMA NoVariablesKeepsInv ==
    ASSUME AppInv, NoVariables, UNCHANGED mode
    PROVE  AppInv'
  <1> USE DEF AppInv
  <1>1. TypeOK'
    BY DEF NoVariables, TypeOK, target, Ended
  <1>2. TargetOK' /\ NotLaunched' /\ SuspendedFor'
    BY DEF NoVariables, target, TargetOK, NotLaunched, SuspendedFor
  <1>3. NoUnnoticedRace'
    BY DEF NoVariables, NoUnnoticedRace, Conflict
  <1> QED
    BY <1>1, <1>2, <1>3

\* What the callback that has the lock records.
LEMMA RecordOfLock ==
    ASSUME AppInv, lock # NoCallback, NEW type \in {"W", "R"},
           NEW addrs \in get_addr(lock) \ {{}}
    PROVE  [id |-> lock.id, type |-> type, addrs |-> addrs] \in Entry
  <1>1. lock.id \in Threads
    BY DEF AppInv, TypeOK, Callback
  <1>2. at[lock.id].addrs \in SUBSET Addrs
    BY <1>1 DEF AppInv, TargetOK, Access, NoStop
  <1>3. addrs \in SUBSET Addrs /\ addrs # {}
    BY <1>2 DEF get_addr
  <1> QED
    BY <1>1, <1>3 DEF Entry

\* A match: both threads are reported.
LEMMA HaltKeepsInv ==
    ASSUME AppInv, lock # NoCallback, NEW e \in Entry, e.id = lock.id, NEW found \in BOOLEAN,
           status = "active", Halt(e, found), UNCHANGED mode
    PROVE  AppInv'
  <1> USE DEF AppInv
  <1>1. {f.id : f \in match(e)} \subseteq Threads
    BY RecordTypes DEF match, TypeOK
  <1>2. e.id \in Threads
    BY DEF Entry
  <1>3. TypeOK'
    BY <1>1, <1>2 DEF Halt, TypeOK, target, Ended
  <1>4. TargetOK' /\ NotLaunched'
    BY DEF Halt, target, TargetOK, NotLaunched
  <1>5. SuspendedFor'
    BY DEF Halt, target, SuspendedFor
  <1>6. NoUnnoticedRace'
    BY DEF Halt, NoUnnoticedRace, Conflict
  <1> QED
    BY <1>3, <1>4, <1>5, <1>6

\* Threads keep a proper stop, or none, when the process continues.
LEMMA ContinueTypes ==
    ASSUME TargetOK, Continue
    PROVE  /\ at' \in [Threads -> Access \cup {NoStop}]
           /\ proc' \in {"running", "exited"}
  BY DEF TargetOK, Continue, Resumed

\* No match: the new record does not match any other, and a thread that is
\* released to make progress loses its record.
LEMMA TrackKeepsInv ==
    ASSUME AppInv, lock # NoCallback, NEW e \in Entry, e.id = lock.id, Track(e), UNCHANGED mode
    PROVE  AppInv'
  <1> DEFINE arr == Append(OBJ_ARR, e)
  <1>1. arr \in Seq(Entry) /\ ToSet(arr) = ToSet(OBJ_ARR) \cup {e}
    BY AppendToSet DEF AppInv, TypeOK
  <1>2. NoPair(arr)
    <2>1. NoPair(OBJ_ARR)
      BY PairwiseSet DEF AppInv
    <2>2. \A f \in ToSet(OBJ_ARR) : ~Conflict(e, f) /\ ~Conflict(f, e)
      BY DEF Track, match, Conflict
    <2>3. ~Conflict(e, e)
      BY DEF Conflict
    <2> QED
      BY <1>1, <2>1, <2>2, <2>3 DEF NoPair
  <1>3. susp \subseteq Recorded(arr) \cup pair
    BY <1>1 DEF AppInv, SuspendedFor, Recorded
  <1>4. susp \subseteq live
    BY DEF AppInv, TypeOK
  <1>5. \/ OBJ_ARR' = arr /\ susp' = susp
        \/ \E i \in DOMAIN arr : release_bp(arr, i)
    BY DEF Track
  <1> HIDE DEF arr
  <1>6. /\ OBJ_ARR' \in Seq(Entry)
        /\ susp' \subseteq susp
        /\ ToSet(OBJ_ARR') \subseteq ToSet(arr)
        /\ susp' \cap Recorded(arr) \subseteq Recorded(OBJ_ARR')
    BY <1>1, <1>4, <1>5, ReleaseKeeps
  <1>7. Continue /\ lock' = NoCallback /\ elapsed' = Never /\ RUNNING' = TRUE
        /\ UNCHANGED <<status, STATUS_FOUND, timerOn, pair, live, pending>>
    BY DEF Track
  <1>8. TypeOK'
    BY <1>4, <1>6, <1>7 DEF AppInv, TypeOK, Never, Term
  <1>9. TargetOK' /\ NotLaunched'
    BY <1>7, ContinueTypes DEF AppInv, TargetOK, NotLaunched
  <1>10. SuspendedFor'
    BY <1>3, <1>6, <1>7 DEF SuspendedFor, Recorded
  <1>11. NoUnnoticedRace'
    <2>1. \A f, g \in ToSet(OBJ_ARR') : ~Conflict(f, g)
      BY <1>2, <1>6 DEF NoPair
    <2> QED
      BY <2>1 DEF NoUnnoticedRace, Conflict, ToSet
  <1> QED
    BY <1>8, <1>9, <1>10, <1>11 DEF AppInv

\* The timer: it continues the process whether it releases a thread or not.
LEMMA TimerKeepsInv ==
    ASSUME AppInv, Timer
    PROVE  AppInv'
  <1>0. TimerRuns => UNCHANGED <<mode, RUNNING, lock, STATUS_FOUND, pair, live, pending>>
                     /\ status = "active" /\ timerOn' \in BOOLEAN
    BY DEF TimerRuns, AppInv, TypeOK
  <1>1. ASSUME NEW i \in DOMAIN OBJ_ARR, TimerRelease(i)
        PROVE  AppInv'
    <2>1. /\ TimerRuns /\ RUNNING /\ Continue /\ status' = status
          /\ elapsed' \in {Never, elapsed} /\ release_bp(OBJ_ARR, i)
      BY <1>1 DEF TimerRelease
    <2>2. /\ OBJ_ARR' \in Seq(Entry)
          /\ susp' \subseteq susp
          /\ ToSet(OBJ_ARR') \subseteq ToSet(OBJ_ARR)
          /\ susp' \cap Recorded(OBJ_ARR) \subseteq Recorded(OBJ_ARR')
      BY <2>1, ReleaseKeeps DEF AppInv, TypeOK
    <2>3. TypeOK'
      BY <1>0, <2>1, <2>2 DEF AppInv, TypeOK, Never, Term
    <2>4. TargetOK' /\ NotLaunched'
      BY <1>0, <2>1, ContinueTypes DEF AppInv, TargetOK, NotLaunched
    <2>5. SuspendedFor'
      BY <1>0, <2>1, <2>2 DEF AppInv, SuspendedFor, Recorded
    <2>6. NoUnnoticedRace'
      <3>1. \A f, g \in ToSet(OBJ_ARR') : ~Conflict(f, g)
        BY <2>2, PairwiseSet DEF AppInv, NoPair
      <3> QED
        BY <3>1 DEF NoUnnoticedRace, Conflict, ToSet
    <2> QED
      BY <2>3, <2>4, <2>5, <2>6 DEF AppInv
  <1>2. CASE TimerIdle
    <2>1. /\ TimerRuns /\ RUNNING /\ Continue /\ status' \in {status, "kill"}
          /\ UNCHANGED <<OBJ_ARR, elapsed, susp>>
      BY <1>2 DEF TimerIdle
    <2>2. TypeOK'
      BY <1>0, <2>1 DEF AppInv, TypeOK, Ended
    <2>3. TargetOK' /\ NotLaunched'
      BY <1>0, <2>1, ContinueTypes DEF AppInv, TargetOK, NotLaunched
    <2>4. SuspendedFor' /\ NoUnnoticedRace'
      BY <1>0, <2>1 DEF AppInv, SuspendedFor, NoUnnoticedRace, Conflict
    <2> QED
      BY <2>2, <2>3, <2>4 DEF AppInv
  <1>3. CASE TimerTerm \/ TimerRearm
    <2>1. /\ TimerRuns /\ status' \in {status, "term"}
          /\ UNCHANGED <<OBJ_ARR, elapsed, proc, at, susp>>
      BY <1>3 DEF TimerTerm, TimerRearm
    <2>2. TypeOK'
      BY <1>0, <2>1 DEF AppInv, TypeOK, Ended
    <2>3. TargetOK' /\ NotLaunched' /\ SuspendedFor' /\ NoUnnoticedRace'
      BY <1>0, <2>1 DEF AppInv, TargetOK, NotLaunched, SuspendedFor, NoUnnoticedRace, Conflict
    <2> QED
      BY <2>2, <2>3 DEF AppInv
  <1> QED
    BY <1>1, <1>2, <1>3 DEF Timer

\* Every step keeps the invariant.
LEMMA InvStep == AppInv /\ [Next]_vars => AppInv'
  <1> SUFFICES ASSUME AppInv, [Next]_vars
               PROVE  AppInv'
    OBVIOUS
  <1>1. CASE Import
    <2>1. UNCHANGED <<mode, RUNNING, OBJ_ARR, lock, STATUS_FOUND, timerOn, pair, target>>
          /\ status' \in {"active", "error"} /\ elapsed' \in {Never, elapsed}
      BY <1>1 DEF Import, set_trigger, lldb_init_module_fails
    <2>2. TypeOK'
      BY <2>1 DEF AppInv, TypeOK, Never, Term, Ended, target
    <2>3. TargetOK' /\ NotLaunched' /\ SuspendedFor' /\ NoUnnoticedRace'
      BY <2>1 DEF AppInv, TargetOK, NotLaunched, SuspendedFor, NoUnnoticedRace, Conflict, target
    <2> QED
      BY <2>2, <2>3 DEF AppInv
  <1>2. CASE Environment
    BY <1>2, EnvironmentKeepsInv
  <1>3. CASE Tick
    <2>1. TypeOK'
      BY <1>3 DEF Tick, AppInv, TypeOK, Never, Term, target
    <2>2. TargetOK' /\ NotLaunched' /\ SuspendedFor' /\ NoUnnoticedRace'
      BY <1>3 DEF Tick, AppInv, TargetOK, NotLaunched, SuspendedFor, NoUnnoticedRace, Conflict, target
    <2> QED
      BY <2>1, <2>2 DEF AppInv
  <1>4. CASE Callbacks
    <2>1. ASSUME NEW type \in {"W", "R"}, NEW found \in BOOLEAN, lock # NoCallback, CallbackEnd(type, found)
          PROVE  AppInv'
      <3>1. CASE NoVariables
        BY <2>1, <3>1, NoVariablesKeepsInv DEF CallbackEnd
      <3>2. ASSUME NEW addrs \in get_addr(lock) \ {{}},
                   LET e == [id |-> lock.id, type |-> type, addrs |-> addrs] IN
                   Halt(e, found) \/ Track(e)
            PROVE  AppInv'
        <4> DEFINE e == [id |-> lock.id, type |-> type, addrs |-> addrs]
        <4>1. e \in Entry
          BY <2>1, RecordOfLock
        <4>2. e.id = lock.id /\ (Halt(e, found) \/ Track(e))
          BY <3>2
        <4>3. status = "active" /\ UNCHANGED mode
          BY <2>1 DEF CallbackEnd
        <4> HIDE DEF e
        <4> QED
          BY <2>1, <4>1, <4>2, <4>3, HaltKeepsInv, TrackKeepsInv
      <3> QED
        BY <2>1, <3>1, <3>2 DEF CallbackEnd
    <2>2. CASE read_callback
      <3>1. lock # NoCallback
        BY <2>2 DEF read_callback, NoCallback
      <3>2. CallbackEnd("R", TRUE)
        BY <2>2 DEF read_callback
      <3> QED
        BY <2>1, <3>1, <3>2
    <2>3. CASE write_callback
      <3>1. lock # NoCallback
        BY <2>3 DEF write_callback, NoCallback
      <3>2. CallbackEnd("W", STATUS_FOUND) /\ STATUS_FOUND \in BOOLEAN
        BY <2>3 DEF write_callback, AppInv, TypeOK
      <3> QED
        BY <2>1, <3>1, <3>2
    <2> QED
      BY <1>4, <2>2, <2>3, BeginKeepsInv DEF Callbacks
  <1>5. CASE Timer
    BY <1>5, TimerKeepsInv
  <1>6. CASE UNCHANGED vars
    BY <1>6 DEF vars, script, target, AppInv, TypeOK, TargetOK, NotLaunched, SuspendedFor,
                NoUnnoticedRace, Conflict
  <1>7. CASE Over
    BY <1>6, <1>7 DEF Over
  <1> QED
    BY <1>1, <1>2, <1>3, <1>4, <1>5, <1>6, <1>7 DEF Next

\* For whom each thread is held, at every step of the callbacks and the
\* timer, whatever the target does meanwhile.
THEOREM AppInvariant == Spec => []AppInv
  BY InitInv, InvStep, PTL DEF Spec

\* The globals of the script keep their types, and a suspended thread is
\* one that LLDB still knows.
THEOREM TypeCorrect == Spec => []TypeOK
  <1>1. AppInv => TypeOK
    BY DEF AppInv
  <1> QED
    BY <1>1, AppInvariant, PTL

\* No thread is suspended and lost track of, although release_bp may fail,
\* and although the target runs on while a callback is under way.
THEOREM SuspendedIsTracked == Spec => []SuspendedTracked
  <1>1. AppInv => SuspendedTracked
    BY DEF AppInv, SuspendedFor, SuspendedTracked
  <1> QED
    BY <1>1, AppInvariant, PTL

\* No two threads are held on a race that was not reported, in spite of the
\* callbacks that continue the process for one another.
THEOREM NoRaceUnnoticed == Spec => []NoUnnoticedRace
  <1>1. AppInv => NoUnnoticedRace
    BY DEF AppInv
  <1> QED
    BY <1>1, AppInvariant, PTL

=============================================================================
