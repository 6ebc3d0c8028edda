------------------------------ MODULE Trigger ------------------------------
(***************************************************************************)
(* The race verifier scripts/conbreak/src/trigger/trigger.py: a Python     *)
(* module inside LLDB that tries to catch the two accesses of one reported *)
(* data race "in the moment".  It puts a breakpoint on the write and one   *)
(* on the read of the report, suspends every thread that stops at one of   *)
(* them, and halts when two suspended threads are about to access a common *)
(* address.  A periodic timer releases suspended threads, one at a time,   *)
(* when nothing has happened for a while, and ends the session when        *)
(* nothing is left to wait for.                                            *)
(*                                                                         *)
(* Three parties interleave: the target's threads (external), the          *)
(* breakpoint callbacks LLDB starts, and the timer thread.  Callbacks and  *)
(* timer exclude each other by process_lock; a callback is split at every  *)
(* iteration of its loop, a timer run is one step.                         *)
(***************************************************************************)
EXTENDS Target

CONSTANTS
    Line,         \* Line[s]: line number the report gives for side s
    StopLine,     \* StopLine[s]: line a thread is at when it stops for s
    Source,       \* Source[s]: text of the source line of side s
    WAIT_TIME,    \* quiet time after which the timer releases a thread
    KILL_TIME,    \* quiet time with nothing tracked that ends the session
    TERM_TIME,    \* start-up time without any breakpoint that ends it
    INTERACTIVE   \* a user drives lldb: the timer never ends the session

ASSUME ReportAssumption ==
    /\ Line \in [Sides -> Nat]
    /\ StopLine \in [Sides -> Nat]
    /\ DOMAIN Source = Sides

ASSUME TimeAssumption ==
    /\ WAIT_TIME \in Nat
    /\ KILL_TIME \in Nat
    /\ TERM_TIME \in Nat
    /\ WAIT_TIME <= KILL_TIME

ASSUME ModeAssumption == INTERACTIVE \in BOOLEAN

VARIABLES
    status,    \* "load", "active", or how the session ended
    bps,       \* sides that have a breakpoint
    RUNNING,   \* the script believes that the target runs
    OBJ_ARR,   \* records of the suspended threads, oldest first
    elapsed,   \* time.time() - LAST_BREAK, saturating above every timeout
    lock,      \* holder of process_lock
    todo,      \* untracked threads the running callback has yet to visit
    pair       \* except_set: the threads of the match

script == <<status, bps, RUNNING, OBJ_ARR, elapsed, lock, todo, pair>>
vars   == <<status, bps, RUNNING, OBJ_ARR, elapsed, lock, todo, pair,
            proc, live, at, susp, pending, hits>>

Entry == [id : Threads, type : {"W", "R"}, addrs : (SUBSET Addrs) \ {{}}]

\* A session that ended through terminate(), and one that can never end.
Ended == {"match", "error", "kill", "term"}
Final == Ended \cup {"hang"}

MaxElapsed == IF KILL_TIME > TERM_TIME THEN KILL_TIME + 1 ELSE TERM_TIME + 1

----------------------------------------------------------------------------
(* What the script computes.                                               *)

\* The script compares the texts of the two lines, not their positions.
SameSource == Source["write"] = Source["read"]

Tracked == {OBJ_ARR[i].id : i \in DOMAIN OBJ_ARR}

\* A thread is classified by the number of the line it stands on, the
\* write's line first.
Label(t) ==
    CASE StopLine[at[t].bp] = Line["write"] -> "W"
      [] StopLine[at[t].bp] # Line["write"]
            /\ StopLine[at[t].bp] = Line["read"] -> "R"
      [] OTHER -> "?"

LabelSource(t) == IF Label(t) = "W" THEN Source["write"] ELSE Source["read"]

\* get_addr looks up the variables of a source line in the thread's frame.
\* A lookup may fail at random; the text of the other line may name
\* anything in this frame.
get_addr(t) ==
    IF LabelSource(t) = Source[at[t].bp] THEN SUBSET at[t].addrs ELSE SUBSET Addrs

\* Variant: the kinds of the two accesses are not compared.
ConflictAnyKind(e, f) == e.id # f.id /\ e.addrs \cap f.addrs # {}

\* Two accesses match: different threads, different instructions (unless the
\* two lines read the same), a common address.
Conflict(e, f) ==
    /\ e.id # f.id
    /\ SameSource \/ e.type # f.type
    /\ e.addrs \cap f.addrs # {}

\* Variant: only the oldest record is compared.
MatchOldest(e) == {f \in ToSet(OBJ_ARR) : f = OBJ_ARR[1] /\ Conflict(e, f)}

match(e) == {f \in ToSet(OBJ_ARR) : Conflict(e, f)}

\* The lookups that find something; the script gives up on an empty list.
\* Variant: it does not.
AnyAddrs(t) == get_addr(t)
FoundAddrs(t) == get_addr(t) \ {{}}

\* Variant: tracked threads are not left out.
UntrackedAll(arr) == {t \in live : at[t] # NoStop}

\* What untracked_breakpoint_check collects when arr is the tracking array.
Untracked(arr) ==
    {t \in live : at[t] # NoStop /\ \A i \in DOMAIN arr : arr[i].id # t}

\* Variant: some thread is suspended.
AnySuspended(t) == live \cap (susp \cup {t}) # {}

\* Every thread is suspended, t included.
all_bp_hit(t) == live \subseteq susp \cup {t}

\* What resume_threads leaves of the suspended threads S.
resume_threads(S, except_set) == S \cap except_set

----------------------------------------------------------------------------
Init ==
    /\ status = "load"
    /\ bps = {}
    /\ RUNNING = FALSE
    /\ OBJ_ARR = <<>>
    /\ elapsed = 0
    /\ lock = "free"
    /\ todo = {}
    /\ pair = {}
    /\ TargetInit

\* The module is imported: the report is parsed, the breakpoints are set and
\* the timer is started.
SetTrigger ==
    /\ status = "load"
    /\ status' = "active"
    /\ bps' = IF SameSource THEN {"write"} ELSE Sides
    /\ elapsed' = 0
    /\ UNCHANGED <<RUNNING, OBJ_ARR, lock, todo, pair, target>>

\* The report does not parse or its source lines cannot be read.
BadReport ==
    /\ status = "load"
    /\ status' = "error"
    /\ UNCHANGED <<bps, RUNNING, OBJ_ARR, elapsed, lock, todo, pair, target>>

\* Time passes.
Tick ==
    /\ status = "active"
    /\ elapsed < MaxElapsed
    /\ elapsed' = elapsed + 1
    /\ UNCHANGED <<status, bps, RUNNING, OBJ_ARR, lock, todo, pair, target>>

----------------------------------------------------------------------------
(* read_callback and write_callback.                                       *)

\* Variant: the untracked threads are collected before the deletion.
CallbackBeginStale(c) ==
    /\ status = "active"
    /\ lock = "free"
    /\ c \in pending
    /\ proc # "exited"
    /\ lock' = "callback"
    /\ pending' = pending \ {c}
    /\ proc' = "stopped"
    /\ RUNNING' = FALSE
    /\ \/ /\ c.bp = "write"
          /\ \E i \in DOMAIN OBJ_ARR :
                /\ OBJ_ARR[i].id = c.id
                /\ OBJ_ARR' = RemoveAt(OBJ_ARR, i)
       \/ /\ c.bp = "read" \/ c.id \notin Tracked
          /\ UNCHANGED OBJ_ARR
    /\ todo' = Untracked(OBJ_ARR)
    /\ UNCHANGED <<status, bps, elapsed, pair, live, at, susp, hits>>

\* Up to the loop.  Only write_callback forgets a thread that it is told
\* about again (thread_liveness_check); there is at most one such record, so
\* that deleting by index is safe (TrackedOnce).
CallbackBegin(c) ==
    /\ status = "active"
    /\ lock = "free"
    /\ c \in pending
    /\ proc # "exited"
    /\ lock' = "callback"
    /\ pending' = pending \ {c}
    /\ proc' = "stopped"
    /\ RUNNING' = FALSE
    /\ \/ /\ c.bp = "write"
          /\ \E i \in DOMAIN OBJ_ARR :
                /\ OBJ_ARR[i].id = c.id
                /\ OBJ_ARR' = RemoveAt(OBJ_ARR, i)
       \/ /\ c.bp = "read" \/ c.id \notin Tracked
          /\ UNCHANGED OBJ_ARR
    /\ todo' = Untracked(OBJ_ARR')
    /\ UNCHANGED <<status, bps, elapsed, pair, live, at, susp, hits>>

\* stop_process retries for ever on a process that has exited.
CallbackHang(c) ==
    /\ status = "active"
    /\ lock = "free"
    /\ c \in pending
    /\ proc = "exited"
    /\ lock' = "callback"
    /\ pending' = pending \ {c}
    /\ status' = "hang"
    /\ UNCHANGED <<bps, RUNNING, OBJ_ARR, elapsed, todo, pair,
                   proc, live, at, susp, hits>>

\* One iteration, up to the call of breakpoint_match_check.
Visit(t) ==
    /\ status = "active"
    /\ lock = "callback"
    /\ t \in todo

\* The thread stands on neither line, or no variable of the line was found.
VisitError(t) ==
    /\ Visit(t)
    /\ Label(t) = "?" \/ {} \in get_addr(t)
    /\ susp' = susp \cup {t}
    /\ status' = "error"
    /\ UNCHANGED <<bps, RUNNING, OBJ_ARR, elapsed, lock, todo, pair,
                   proc, live, at, pending, hits>>

\* breakpoint_match_check finds a match: every other thread is resumed, the
\* process stays stopped, and the session ends.
VisitMatch(t, addrs) ==
    LET e == [id |-> t, type |-> Label(t), addrs |-> addrs]
        except_set == {t} \cup {f.id : f \in match(e)} IN
    /\ Visit(t)
    /\ Label(t) # "?"
    /\ addrs \in FoundAddrs(t)
    /\ match(e) # {}
    /\ pair' = except_set
    /\ susp' = resume_threads(susp \cup {t}, except_set)
    /\ status' = "match"
    /\ UNCHANGED <<bps, RUNNING, OBJ_ARR, elapsed, lock, todo,
                   proc, live, at, pending, hits>>

\* breakpoint_match_check finds none: the thread is tracked, and if every
\* thread is suspended now, a tracked one is released at random.
VisitRecord(t, addrs) ==
    LET e == [id |-> t, type |-> Label(t), addrs |-> addrs]
        arr == Append(OBJ_ARR, e) IN
    /\ Visit(t)
    /\ Label(t) # "?"
    /\ addrs \in FoundAddrs(t)
    /\ match(e) = {}
    /\ elapsed' = 0
    /\ todo' = todo \ {t}
    /\ \/ /\ ~all_bp_hit(t)
          /\ OBJ_ARR' = arr
          /\ susp' = susp \cup {t}
       \/ /\ all_bp_hit(t)
          /\ \E i \in DOMAIN arr :
                /\ OBJ_ARR' = RemoveAt(arr, i)
                /\ susp' = (susp \cup {t}) \ {arr[i].id}
    /\ UNCHANGED <<status, bps, RUNNING, lock, pair,
                   proc, live, at, pending, hits>>

\* Variant: RUNNING stays false.
CallbackEndNotRunning ==
    /\ status = "active"
    /\ lock = "callback"
    /\ todo = {}
    /\ lock' = "free"
    /\ proc' = "running"
    /\ at' = Resumed(susp)
    /\ UNCHANGED <<status, bps, RUNNING, OBJ_ARR, elapsed, todo, pair,
                   live, susp, pending, hits>>

\* After the loop: the process continues and the lock is released.
CallbackEnd ==
    /\ status = "active"
    /\ lock = "callback"
    /\ todo = {}
    /\ lock' = "free"
    /\ RUNNING' = TRUE
    /\ proc' = "running"
    /\ at' = Resumed(susp)
    /\ UNCHANGED <<status, bps, OBJ_ARR, elapsed, todo, pair,
                   live, susp, pending, hits>>

----------------------------------------------------------------------------
(* timer(), which takes process_lock for the whole of one run.             *)

TimerRuns == status = "active" /\ lock = "free"

\* Variant: the record of the released thread stays.
TimerReleaseKeepsRecord(i) ==
    /\ TimerRuns
    /\ RUNNING
    /\ elapsed > WAIT_TIME
    /\ proc # "exited"
    /\ susp' = susp \ {OBJ_ARR[i].id}
    /\ elapsed' = 0
    /\ proc' = "running"
    /\ at' = Resumed(susp')
    /\ UNCHANGED <<status, bps, RUNNING, OBJ_ARR, lock, todo, pair, live, pending, hits>>

\* Variant: the last tracked thread is never released.
TimerReleaseButOne(i) ==
    /\ TimerRuns
    /\ RUNNING
    /\ elapsed > WAIT_TIME
    /\ proc # "exited"
    /\ Len(OBJ_ARR) > 1
    /\ OBJ_ARR' = RemoveAt(OBJ_ARR, i)
    /\ susp' = susp \ {OBJ_ARR[i].id}
    /\ elapsed' = 0
    /\ proc' = "running"
    /\ at' = Resumed(susp')
    /\ UNCHANGED <<status, bps, RUNNING, lock, todo, pair, live, pending, hits>>

\* The quiet time is over: release_bp releases a random tracked thread and
\* the process continues, even one that has just stopped at a breakpoint
\* whose callback still waits for the lock.
TimerRelease(i) ==
    /\ TimerRuns
    /\ RUNNING
    /\ elapsed > WAIT_TIME
    /\ proc # "exited"
    /\ OBJ_ARR' = RemoveAt(OBJ_ARR, i)
    /\ susp' = susp \ {OBJ_ARR[i].id}
    /\ elapsed' = 0
    /\ proc' = "running"
    /\ at' = Resumed(susp')
    /\ UNCHANGED <<status, bps, RUNNING, lock, todo, pair, live, pending, hits>>

\* release_bp on a process that has exited: stop_process retries for ever.
TimerHang ==
    /\ TimerRuns
    /\ RUNNING
    /\ elapsed > WAIT_TIME
    /\ OBJ_ARR # <<>>
    /\ proc = "exited"
    /\ status' = "hang"
    /\ lock' = "timer"
    /\ UNCHANGED <<bps, RUNNING, OBJ_ARR, elapsed, todo, pair, target>>

\* Nothing to release: the process is continued all the same, and the
\* session ends when nothing was tracked for KILL_TIME.
TimerIdle ==
    /\ TimerRuns
    /\ RUNNING
    /\ elapsed > WAIT_TIME
    /\ OBJ_ARR = <<>>
    /\ proc' = IF proc = "stopped" THEN "running" ELSE proc
    /\ at' = Resumed(susp)
    /\ status' = IF ~INTERACTIVE /\ elapsed > KILL_TIME THEN "kill" ELSE status
    /\ UNCHANGED <<bps, RUNNING, OBJ_ARR, elapsed, lock, todo, pair,
                   live, susp, pending, hits>>

\* No breakpoint was ever reached.
TimerTerm ==
    /\ TimerRuns
    /\ ~RUNNING
    /\ ~INTERACTIVE
    /\ elapsed > TERM_TIME
    /\ status' = "term"
    /\ UNCHANGED <<bps, RUNNING, OBJ_ARR, elapsed, lock, todo, pair, target>>

\* A run that finds no timeout expired only re-arms the timer.
TimerRearm ==
    /\ TimerRuns
    /\ IF RUNNING THEN elapsed <= WAIT_TIME ELSE INTERACTIVE \/ elapsed <= TERM_TIME
    /\ UNCHANGED vars

----------------------------------------------------------------------------
Import == SetTrigger \/ BadReport

Callbacks ==
    \/ \E c \in pending : CallbackBegin(c) \/ CallbackHang(c)
    \/ \E t \in todo :
          \/ VisitError(t)
          \/ \E addrs \in SUBSET Addrs : VisitMatch(t, addrs) \/ VisitRecord(t, addrs)
    \/ CallbackEnd

Timer ==
    \/ \E i \in DOMAIN OBJ_ARR : TimerRelease(i)
    \/ TimerHang
    \/ TimerIdle
    \/ TimerTerm
    \/ TimerRearm

\* The target runs while the session is active.
Environment == status = "active" /\ TargetNext(bps) /\ UNCHANGED script

\* A session that has ended.
Over ==
    /\ status \in Final
    /\ UNCHANGED vars

Next == Import \/ Environment \/ Tick \/ Callbacks \/ Timer \/ Over

\* Time passes, the timer is re-armed after each of its runs, and a callback
\* that holds the lock or waits for it makes progress.  The target owes
\* nothing.
Fairness ==
    /\ WF_vars(Import)
    /\ WF_vars(Tick)
    /\ WF_vars(Timer)
    /\ WF_vars(Callbacks)

Spec == Init /\ [][Next]_vars

FairSpec == Spec /\ Fairness

----------------------------------------------------------------------------
(* Properties.                                                             *)

\* The types of the script's globals and of the target's state.
TypeOK ==
    /\ status \in {"load", "active"} \cup Final
    /\ bps \in SUBSET Sides
    /\ RUNNING \in BOOLEAN
    /\ OBJ_ARR \in Seq(Entry)
    /\ elapsed \in 0 .. MaxElapsed
    /\ lock \in {"free", "callback", "timer"}
    /\ todo \in SUBSET Threads
    /\ pair \in SUBSET Threads
    /\ proc \in {"none", "running", "stopped", "exited"}
    /\ live \in SUBSET Threads
    /\ at \in [Threads -> Access \cup {NoStop}]
    /\ susp \in SUBSET Threads
    /\ pending \in SUBSET Callback
    /\ hits \in 0 .. MaxHits

\* OBJ_ARR never holds two records of one thread: the deletion by a list of
\* indices in write_callback (del OBJ_ARR[i] in a loop) would otherwise
\* delete the wrong record, and release_bp would leave a stale one behind.
TrackedOnce ==
    \A i, j \in DOMAIN OBJ_ARR : OBJ_ARR[i].id = OBJ_ARR[j].id => i = j

\* While the session is active and the target has not exited, every record
\* in OBJ_ARR describes a thread that is suspended before a breakpoint, so
\* that release_bp resumes a thread that is really held and a match is made
\* with an access that has not happened yet.
TrackedPaused ==
    status = "active" /\ proc # "exited" =>
        \A i \in DOMAIN OBJ_ARR :
            /\ OBJ_ARR[i].id \in susp \cap live
            /\ at[OBJ_ARR[i].id] # NoStop

\* The script never forgets a thread it has suspended: a suspended thread
\* that is neither in OBJ_ARR nor still to be visited by the running
\* callback would never be released again.
SuspendedTracked == status = "active" => susp \subseteq Tracked \cup todo

\* Whatever the order of the hits, no two threads are held at the same time
\* before different lines of the report with a common recorded address: the
\* race would have been reported when the second one was recorded.
NoUnnoticedRace ==
    status = "active" /\ proc # "exited" =>
        \A i, j \in DOMAIN OBJ_ARR :
            /\ i # j
            /\ SameSource \/ at[OBJ_ARR[i].id].bp # at[OBJ_ARR[j].id].bp
            => OBJ_ARR[i].addrs \cap OBJ_ARR[j].addrs = {}

\* Two accesses that make a race: a common address, on the two different
\* lines of the report (or on the only line with a breakpoint).
Races(t, u) ==
    /\ at[t] # NoStop
    /\ at[u] # NoStop
    /\ at[t].addrs \cap at[u].addrs # {}
    /\ SameSource \/ at[t].bp # at[u].bp

\* When HALT is reported, the process is stopped, exactly the threads of the
\* match are still suspended, and one of them is before an access that races
\* with the access each other one is before ("caught in the moment").
MatchInTheMoment ==
    status = "match" =>
        /\ proc = "stopped"
        /\ susp = pair
        /\ \E t \in pair :
              /\ pair # {t}
              /\ \A u \in pair \ {t} : Races(t, u)

\* A callback lets at most one of the stopped threads go, the one all_bp_hit
\* made it release: two accesses let go together could race unobserved.
OneAccessAtATime ==
    [][ lock = "callback" /\ status' = "active" =>
          \A t, u \in Threads :
              /\ at[t] # NoStop /\ at'[t] = NoStop
              /\ at[u] # NoStop /\ at'[u] = NoStop
              => t = u ]_vars

\* When every thread of the target is suspended (the others have exited),
\* the timer gets the target going again.
StallResolved ==
    (proc = "running" /\ live # {} /\ live = susp) ~> (live # susp \/ status \in Ended)

\* No thread is held for ever.
HeldIsReleased ==
    \A t \in Threads : t \in susp ~> (t \notin susp \/ status \in Ended)

\* A non-interactive session ends once the target stops reaching new
\* breakpoints (the hits are bounded by MaxHits).
SessionEnds == <>(status \in Ended)

----------------------------------------------------------------------------
(* What a verifier promises, and how the script's state shows it.          *)

Verifier == INSTANCE RaceVerifier WITH
    Entries <- Entry,
    OneLine <- SameSource,
    verdict <- IF status = "match" THEN "match"
               ELSE IF status \in Ended THEN "none" ELSE "open",
    held    <- ToSet(OBJ_ARR),
    stopped <- {t \in Threads : at[t] # NoStop},
    alive   <- proc # "exited"

\* Every step of the callbacks, of the timer and of the target is one of a
\* verifier, or none: trigger.py holds a thread only while it is before its
\* access, and says so when two threads it holds race.
ImplementsVerifier == Verifier!RVSpec

----------------------------------------------------------------------------
(* The inductive invariant behind the safety properties.                   *)

Stopped(t) == at[t] # NoStop

\* The label of a thread tells the breakpoint it stopped at.
LabelsFaithful ==
    \/ SameSource
    \/ /\ StopLine["read"] # Line["write"]
       /\ StopLine["write"] # Line["read"]

\* Suspended threads are stopped, stopped threads exist, and only suspended
\* threads stay stopped while the process runs.
HeldInv ==
    /\ \A t \in susp : Stopped(t)
    /\ \A t \in Threads : Stopped(t) => t \in live
    /\ proc # "stopped" => \A t \in Threads : Stopped(t) => t \in susp
    /\ proc = "none" => live = {}

\* The process is stopped during a callback, which has yet to visit stopped
\* threads only, none of them tracked; at most one stopped thread is neither
\* suspended nor to be visited, the one that was released.
CallbackInv ==
    /\ lock = "callback" => proc = "stopped"
    /\ lock # "callback" => todo = {}
    /\ \A t \in todo : Stopped(t) /\ t \notin Tracked
    /\ lock = "callback" =>
          \A t, u \in Threads \ (susp \cup todo) :
              Stopped(t) /\ Stopped(u) => t = u

\* The tracked threads are suspended and their records are true.
RecordInv ==
    proc # "exited" =>
        /\ Tracked \subseteq susp
        /\ LabelsFaithful =>
              \A i \in DOMAIN OBJ_ARR :
                  /\ OBJ_ARR[i].addrs \subseteq at[OBJ_ARR[i].id].addrs
                  /\ SameSource \/ (OBJ_ARR[i].type = "W" <=> at[OBJ_ARR[i].id].bp = "write")

NoConflict == \A i, j \in DOMAIN OBJ_ARR : ~Conflict(OBJ_ARR[i], OBJ_ARR[j])

\* Each step of the callbacks and of the timer keeps the tracking array, the
\* suspended threads and the stops of the target in agreement.
TrackingInv ==
    /\ TrackedOnce
    /\ NoConflict
    /\ status \in {"load", "active"} =>
          /\ HeldInv
          /\ CallbackInv
          /\ RecordInv
          /\ susp \subseteq Tracked \cup todo

\* The inductive invariant.
TriggerInv == TypeOK /\ TrackingInv

=============================================================================
