------------------------- MODULE TriggerRefinement -------------------------
(***************************************************************************)
(* Trigger implements RaceVerifier, for every set of threads and           *)
(* addresses, every report and every timeout.                              *)
(***************************************************************************)
EXTENDS TriggerProofs

\* The threads of the target that are before an access.
Before == {t \in Threads : at[t] # NoStop}

\* Deleting a record takes it out of the set of the records.
LEMMA RemoveSet ==
    ASSUME NEW arr \in Seq(Entry), NEW i \in DOMAIN arr, Once(arr)
    PROVE  ToSet(RemoveAt(arr, i)) = ToSet(arr) \ {arr[i]}
  <1> DEFINE new == RemoveAt(arr, i)
  <1>1. /\ \A j \in DOMAIN new : \E k \in DOMAIN arr : k # i /\ new[j] = arr[k]
        /\ \A k \in DOMAIN arr : k # i => \E j \in DOMAIN new : new[j] = arr[k]
    BY RemoveAtKeeps
  <1> HIDE DEF new
  <1>2. \A j, k \in DOMAIN arr : j # k => arr[j] # arr[k]
    BY DEF Once
  <1>3. ToSet(new) = ToSet(arr) \ {arr[i]}
    BY <1>1, <1>2 DEF ToSet
  <1> QED
    BY <1>3 DEF new

\* While the session is active and the target exists, the held threads are
\* before their accesses.
LEMMA HeldBefore ==
    ASSUME TypeOK, TrackingInv, status = "active", proc # "exited"
    PROVE  /\ Verifier!Ids(ToSet(OBJ_ARR)) = Tracked
           /\ Tracked \subseteq susp
           /\ susp \subseteq Before
  <1>1. Tracked \subseteq susp /\ \A t \in susp : at[t] # NoStop
    BY DEF TrackingInv, RecordInv, HeldInv, Stopped
  <1>2. susp \subseteq Threads
    BY DEF TypeOK
  <1> QED
    BY <1>1, <1>2 DEF Verifier!Ids, ToSet, Tracked, Before

\* A step that leaves OBJ_ARR alone and the session active is a step of the
\* target, if the held threads stay where they are.
LEMMA RunStep ==
    ASSUME TypeOK, TypeOK', status \notin Ended, status' \notin Ended, OBJ_ARR' = OBJ_ARR,
           proc' # "exited" => proc # "exited" /\ Tracked \subseteq Before'
    PROVE  Verifier!RVNext
  <1>1. Before' \in SUBSET Threads
    BY DEF Before
  <1>2. Verifier!Ids(ToSet(OBJ_ARR)) = Tracked
    BY DEF Verifier!Ids, ToSet, Tracked
  <1>3. status # "match" /\ status' # "match"
    BY DEF Ended
  <1>4. (proc' # "exited") \in BOOLEAN /\ ToSet(OBJ_ARR)' = ToSet(OBJ_ARR)
    OBVIOUS
  <1>5. Verifier!Run
    BY <1>1, <1>2, <1>3, <1>4 DEF Verifier!Run, Before
  <1> QED
    BY <1>5 DEF Verifier!RVNext

\* A step that ends the session without a match gives up.
LEMMA GiveUpStep ==
    ASSUME TypeOK, status = "active", status' \in Ended \ {"match"},
           OBJ_ARR' = OBJ_ARR, (proc' = "exited") <=> (proc = "exited")
    PROVE  Verifier!RVNext
  <1>1. Before' \in SUBSET Threads
    BY DEF Before
  <1>2. ToSet(OBJ_ARR)' = ToSet(OBJ_ARR)
    OBVIOUS
  <1>3. Verifier!GiveUp
    BY <1>1, <1>2 DEF Verifier!GiveUp, Ended, Before
  <1> QED
    BY <1>3 DEF Verifier!RVNext

\* A record deleted while the target exists is a thread let go.
LEMMA ReleaseStep ==
    ASSUME TypeOK, TrackingInv, status = "active", status' = "active",
           proc # "exited", proc' # "exited",
           NEW i \in DOMAIN OBJ_ARR, OBJ_ARR' = RemoveAt(OBJ_ARR, i),
           Before' \subseteq Before, susp \ {OBJ_ARR[i].id} \subseteq Before'
    PROVE  Verifier!RVNext
  <1>1. OBJ_ARR \in Seq(Entry) /\ Once(OBJ_ARR)
    BY DEF TypeOK, TrackingInv, TrackedOnce, Once
  <1>2. ToSet(OBJ_ARR)' = ToSet(OBJ_ARR) \ {OBJ_ARR[i]}
    BY <1>1, RemoveSet
  <1>3. PICK e \in ToSet(OBJ_ARR) : e = OBJ_ARR[i]
    BY DEF ToSet
  <1>4. Verifier!Ids(ToSet(OBJ_ARR) \ {OBJ_ARR[i]}) \subseteq susp \ {OBJ_ARR[i].id}
    <2>1. ASSUME NEW f \in ToSet(OBJ_ARR) \ {OBJ_ARR[i]}
          PROVE  f.id \in susp /\ f.id # OBJ_ARR[i].id
      <3>1. PICK j \in DOMAIN OBJ_ARR : f = OBJ_ARR[j]
        BY DEF ToSet
      <3> QED
        BY <1>1, <3>1, HeldBefore DEF Once, Tracked
    <2> QED
      BY <2>1 DEF Verifier!Ids
  <1>5. \A f \in ToSet(OBJ_ARR)' : f.id \in Before'
    BY <1>2, <1>4 DEF Verifier!Ids
  <1>6. Verifier!Release(e)
    BY <1>2, <1>3, <1>5 DEF Verifier!Release, Verifier!Ids, Before, Ended
  <1> QED
    BY <1>3, <1>6 DEF Verifier!RVNext

\* A thread recorded by a callback is a thread taken hold of.
LEMMA HoldStep ==
    ASSUME TypeOK, TrackingInv, NEW t \in todo, NEW addrs \in SUBSET Addrs, VisitRecord(t, addrs)
    PROVE  Verifier!RVNext
  <1> DEFINE e == [id |-> t, type |-> Label(t), addrs |-> addrs]
             arr == Append(OBJ_ARR, e)
  <1>1. /\ status = "active" /\ status' = status
        /\ proc' = proc /\ at' = at
        /\ match(e) = {} /\ lock = "callback"
    BY DEF VisitRecord, Visit
  <1>2. proc = "stopped" /\ at[t] # NoStop /\ t \notin Tracked /\ t \in Threads
    BY <1>1 DEF TrackingInv, CallbackInv, Stopped, TypeOK
  <1>3. e \in Entry
    BY VisitTypes, <1>2 DEF VisitRecord, FoundAddrs, Entry
  <1>4. OBJ_ARR \in Seq(Entry) /\ Once(OBJ_ARR)
    BY DEF TypeOK, TrackingInv, TrackedOnce, Once
  <1>5. arr \in Seq(Entry) /\ Once(arr)
    <2>1. /\ arr \in Seq(Entry) /\ DOMAIN arr = 1 .. Len(OBJ_ARR) + 1
          /\ DOMAIN OBJ_ARR = 1 .. Len(OBJ_ARR) /\ Len(OBJ_ARR) \in Nat
          /\ arr[Len(OBJ_ARR) + 1] = e
          /\ \A j \in DOMAIN OBJ_ARR : arr[j] = OBJ_ARR[j]
      BY <1>3, <1>4
    <2>2. \A j \in DOMAIN OBJ_ARR : OBJ_ARR[j].id # e.id
      BY <1>2 DEF Tracked
    <2>3. \A j \in DOMAIN arr : j \in DOMAIN OBJ_ARR \/ j = Len(OBJ_ARR) + 1
      BY <2>1
    <2> HIDE DEF arr, e
    <2> QED
      BY <1>4, <2>1, <2>2, <2>3 DEF Once
  <1>6. ToSet(arr) = ToSet(OBJ_ARR) \cup {e}
    BY <1>3, <1>4, AppendToSet
  <1>7. \/ OBJ_ARR' = arr
        \/ \E i \in DOMAIN arr : OBJ_ARR' = RemoveAt(arr, i)
    BY DEF VisitRecord
  <1>8. \E gone \in SUBSET (ToSet(OBJ_ARR) \cup {e}) :
           /\ \A f, g \in gone : f = g
           /\ ToSet(OBJ_ARR)' = (ToSet(OBJ_ARR) \cup {e}) \ gone
    <2>1. CASE OBJ_ARR' = arr
      <3>1. ToSet(OBJ_ARR)' = (ToSet(OBJ_ARR) \cup {e}) \ {}
        BY <1>6, <2>1
      <3> QED
        BY <3>1
    <2>2. ASSUME NEW i \in DOMAIN arr, OBJ_ARR' = RemoveAt(arr, i)
          PROVE  \E gone \in SUBSET (ToSet(OBJ_ARR) \cup {e}) :
                    /\ \A f, g \in gone : f = g
                    /\ ToSet(OBJ_ARR)' = (ToSet(OBJ_ARR) \cup {e}) \ gone
      <3>1. ToSet(OBJ_ARR)' = ToSet(arr) \ {arr[i]}
        BY <1>5, <2>2, RemoveSet
      <3>2. arr[i] \in ToSet(arr)
        BY DEF ToSet
      <3> HIDE DEF arr, e
      <3> QED
        BY <1>6, <3>1, <3>2
    <2> QED
      BY <1>7, <2>1, <2>2
  <1>9. \A f \in ToSet(OBJ_ARR) : ~Verifier!RVConflict(e, f)
    BY <1>1 DEF match, Conflict, Verifier!RVConflict
  <1>10. e.id = t /\ t \notin Verifier!Ids(ToSet(OBJ_ARR))
    BY <1>2 DEF Tracked, Verifier!Ids, ToSet
  <1> HIDE DEF e
  <1>11. PICK gone \in SUBSET (ToSet(OBJ_ARR) \cup {e}) :
            /\ \A f, g \in gone : f = g
            /\ ToSet(OBJ_ARR)' = (ToSet(OBJ_ARR) \cup {e}) \ gone
    BY <1>8
  <1>12. Verifier!Hold(e, gone)
    BY <1>1, <1>2, <1>9, <1>10, <1>11 DEF Verifier!Hold, Ended
  <1> QED
    BY <1>3, <1>12 DEF Verifier!RVNext

\* A match is a report.
LEMMA ReportStep ==
    ASSUME TypeOK, TrackingInv, NEW t \in todo, NEW addrs \in SUBSET Addrs, VisitMatch(t, addrs)
    PROVE  Verifier!RVNext
  <1> DEFINE e == [id |-> t, type |-> Label(t), addrs |-> addrs]
  <1>1. /\ status = "active" /\ status' = "match"
        /\ proc' = proc /\ at' = at /\ OBJ_ARR' = OBJ_ARR
        /\ match(e) # {} /\ lock = "callback"
    BY DEF VisitMatch, Visit
  <1>2. proc = "stopped" /\ at[t] # NoStop /\ t \in Threads
    BY <1>1 DEF TrackingInv, CallbackInv, Stopped, TypeOK
  <1>3. e \in Entry
    BY VisitTypes, <1>2 DEF VisitMatch, FoundAddrs, Entry
  <1>4. PICK f \in ToSet(OBJ_ARR) : Conflict(e, f)
    BY <1>1 DEF match
  <1>5. f.id \in Before
    BY <1>1, <1>2, HeldBefore DEF Tracked, ToSet
  <1>6. Verifier!RVConflict(e, f) /\ e.id = t
    BY <1>4 DEF Conflict, Verifier!RVConflict
  <1> HIDE DEF e
  <1>7. Verifier!Report(e)
    BY <1>1, <1>2, <1>5, <1>6 DEF Verifier!Report, Before, Ended
  <1> QED
    BY <1>3, <1>7 DEF Verifier!RVNext

\* Every step of Trigger is a step of the verifier or leaves it unchanged.
LEMMA RefinementStep ==
    ASSUME TypeOK, TypeOK', TrackingInv, TrackingInv', [Next]_vars
    PROVE  [Verifier!RVNext]_(Verifier!rvars)
  <1>1. CASE Import
    <2>1. CASE SetTrigger
      BY <2>1 DEF SetTrigger, target, Verifier!rvars, Ended
    <2>2. CASE BadReport
      <3>1. Verifier!GiveUp
        BY <2>2 DEF BadReport, target, Verifier!GiveUp, Ended
      <3> QED
        BY <3>1 DEF Verifier!RVNext
    <2> QED
      BY <1>1, <2>1, <2>2 DEF Import
  <1>2. CASE Environment
    <2>1. /\ status = "active" /\ status' = "active" /\ OBJ_ARR' = OBJ_ARR
          /\ proc' # "exited" => proc # "exited"
      BY <1>2 DEF Environment, TargetNext, script, Launch, Spawn, ThreadExit, ProcExit, Hit
    <2>2. proc' # "exited" => Tracked \subseteq Before'
      <3>1. ASSUME proc' # "exited"
            PROVE  (Tracked \subseteq susp)' /\ (susp \subseteq Before)'
        BY <2>1, <3>1 DEF TrackingInv, RecordInv, HeldInv, Stopped, Before, TypeOK
      <3> QED
        BY <2>1, <3>1 DEF Tracked
    <2> QED
      BY <2>1, <2>2, RunStep DEF Ended
  <1>3. CASE Tick
    BY <1>3 DEF Tick, target, Verifier!rvars
  <1>4. ASSUME NEW c \in pending, CallbackBegin(c)
        PROVE  [Verifier!RVNext]_(Verifier!rvars)
    <2>1. /\ status = "active" /\ status' = status /\ proc # "exited" /\ proc' = "stopped"
          /\ at' = at /\ susp' = susp
      BY <1>4 DEF CallbackBegin
    <2>2. Before' = Before /\ susp \subseteq Before
      BY <2>1, HeldBefore DEF Before
    <2>3. CASE OBJ_ARR' = OBJ_ARR
      BY <2>1, <2>3 DEF Verifier!rvars
    <2>4. ASSUME NEW i \in DOMAIN OBJ_ARR, OBJ_ARR' = RemoveAt(OBJ_ARR, i)
          PROVE  Verifier!RVNext
      BY <2>1, <2>2, <2>4, ReleaseStep
    <2> QED
      BY <1>4, <2>3, <2>4 DEF CallbackBegin
  <1>5. ASSUME NEW c \in pending, CallbackHang(c)
        PROVE  [Verifier!RVNext]_(Verifier!rvars)
    BY <1>5 DEF CallbackHang, Verifier!rvars, Ended
  <1>6. ASSUME NEW t \in todo, VisitError(t)
        PROVE  [Verifier!RVNext]_(Verifier!rvars)
    BY <1>6, GiveUpStep DEF VisitError, Visit, Ended
  <1>7. CASE CallbackEnd
    <2>1. /\ status = "active" /\ status' = "active" /\ OBJ_ARR' = OBJ_ARR
          /\ proc = "stopped" /\ at' = Resumed(susp)
      BY <1>7 DEF CallbackEnd, TrackingInv, CallbackInv
    <2>2. Tracked \subseteq susp /\ susp \subseteq Before
      BY <2>1, HeldBefore
    <2>3. susp \subseteq Before'
      BY <2>1, <2>2 DEF Before, Resumed
    <2> QED
      BY <2>1, <2>2, <2>3, RunStep DEF Ended
  <1>8. ASSUME NEW i \in DOMAIN OBJ_ARR, TimerRelease(i)
        PROVE  [Verifier!RVNext]_(Verifier!rvars)
    <2>1. /\ status = "active" /\ status' = "active" /\ proc # "exited" /\ proc' = "running"
          /\ OBJ_ARR' = RemoveAt(OBJ_ARR, i)
          /\ at' = Resumed(susp') /\ susp' = susp \ {OBJ_ARR[i].id}
      BY <1>8 DEF TimerRelease, TimerRuns
    <2>2. susp \subseteq Before
      BY <2>1, HeldBefore
    <2>3. Before' \subseteq Before /\ susp \ {OBJ_ARR[i].id} \subseteq Before'
      BY <2>1, <2>2 DEF Before, Resumed
    <2> QED
      BY <2>1, <2>3, ReleaseStep
  <1>9. CASE TimerHang
    BY <1>9 DEF TimerHang, TimerRuns, target, Verifier!rvars, Ended
  <1>10. CASE TimerIdle
    <2>1. /\ status = "active" /\ status' \in {"active", "kill"} /\ OBJ_ARR' = OBJ_ARR
          /\ (proc' = "exited") <=> (proc = "exited")
          /\ OBJ_ARR = <<>>
      BY <1>10 DEF TimerIdle, TimerRuns
    <2>2. Tracked = {}
      BY <2>1 DEF Tracked
    <2>3. CASE status' = "active"
      BY <2>1, <2>2, <2>3, RunStep DEF Ended
    <2>4. CASE status' = "kill"
      BY <2>1, <2>4, GiveUpStep DEF Ended
    <2> QED
      BY <2>1, <2>3, <2>4
  <1>11. CASE TimerTerm
    BY <1>11, GiveUpStep DEF TimerTerm, TimerRuns, target, Ended
  <1>12. CASE TimerRearm \/ Over \/ UNCHANGED vars
    BY <1>12 DEF TimerRearm, Over, vars, Verifier!rvars
  <1> QED
    BY <1>1, <1>2, <1>3, <1>4, <1>5, <1>6, <1>7, <1>8, <1>9, <1>10, <1>11, <1>12,
       HoldStep, ReportStep DEF Next, Callbacks, Timer

\* trigger.py is a race verifier: it holds a thread only while the thread is
\* before its access, and what it reports are threads caught on a race.
THEOREM TriggerImplementsVerifier == Spec => ImplementsVerifier
  <1>1. Init => Verifier!RVInit
    BY DEF Init, TargetInit, Verifier!RVInit, ToSet, Ended
  <1>2. TypeOK /\ TypeOK' /\ TrackingInv /\ TrackingInv' /\ [Next]_vars
           => [Verifier!RVNext]_(Verifier!rvars)
    BY RefinementStep
  <1> QED
    BY <1>1, <1>2, TypeCorrect, TrackingInvariant, PTL
    DEF Spec, ImplementsVerifier, Verifier!RVSpec
=============================================================================
