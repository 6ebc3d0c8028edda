----------------------------- MODULE AppTrigger -----------------------------
(***************************************************************************)
(* The copies of trigger.py kept with the applications under               *)
(* scripts/conbreak: one earlier version of the race verifier, with other  *)
(* settings and in two copies another guard.  A callback handles its own   *)
(* thread only, does not stop the process first, and continues it at its   *)
(* end, whatever other threads stopped meanwhile; release_bp does not      *)
(* retry.  A callback is split where it has taken process_lock and         *)
(* suspended its thread, because a target that runs goes on running.       *)
(***************************************************************************)
EXTENDS Target

\* The settings of each copy; KillGuard: INTERACTIVE is checked before the
\* session is ended for want of breakpoints.
Globals(kill_time, term_time, interactive, guard) ==
    [WAIT_TIME |-> 1, KILL_TIME |-> kill_time, TERM_TIME |-> term_time,
     INTERACTIVE |-> interactive, KillGuard |-> guard]

Apache21287    == Globals(5, 20, TRUE, TRUE)
Apache21287Old == Globals(5, 20, FALSE, FALSE)
Apache25520    == Globals(5, 20, FALSE, FALSE)
Apache46215    == Globals(5, 20, FALSE, TRUE)
Memcached      == Globals(5, 30, FALSE, TRUE)
Mysql24988_1   == Globals(10, 20, FALSE, TRUE)
Mysql24988_2   == Globals(10, 20, FALSE, TRUE)
Mysql35589_1   == Globals(5, 20, FALSE, TRUE)
Mysql35589_2   == Globals(5, 20, FALSE, TRUE)

Copies == {Apache21287, Apache21287Old, Apache25520, Apache46215, Memcached,
           Mysql24988_1, Mysql24988_2, Mysql35589_1, Mysql35589_2}

\* The timeouts have the same order in every copy, and only their order
\* matters: elapsed counts how many of them have expired.
ASSUME TimeoutOrder == \A c \in Copies : c.WAIT_TIME < c.KILL_TIME /\ c.KILL_TIME < c.TERM_TIME

Never == 0
Wait  == 1
Kill  == 2
Term  == 3

CONSTANT Modes    \* which switches are checked: pairs INTERACTIVE, KillGuard

ASSUME ModesOfCopies == Modes \subseteq {<<c.INTERACTIVE, c.KillGuard>> : c \in Copies}

VARIABLES
    mode,          \* the switches of the copy
    status,        \* "load", "active" or how the session ended
    RUNNING,       \* the script believes that the target runs
    OBJ_ARR,       \* records of the threads at a breakpoint, oldest first
    elapsed,       \* the timeouts expired since LAST_BREAK
    lock,          \* the callback that has process_lock, or NoCallback
    STATUS_FOUND,  \* the timer is to stop after a match
    timerOn,       \* timer() runs again
    pair           \* the threads of the matches reported

script == <<status, RUNNING, OBJ_ARR, elapsed, lock, STATUS_FOUND, timerOn, pair>>
vars   == <<mode, script, target>>

NoCallback  == [id |-> "none", bp |-> "none"]
INTERACTIVE == mode[1]
KillGuard   == mode[2]
Entry       == [id : Threads, type : {"W", "R"}, addrs : (SUBSET Addrs) \ {{}}]
Ended       == {"match", "error", "kill", "term"}

----------------------------------------------------------------------------
\* The frame of a callback can be searched while the process is stopped.  A
\* thread that has left its line meanwhile may show any variable there.
get_addr(c) ==
    IF proc # "stopped" \/ c.id \notin live THEN {{}}
    ELSE IF at[c.id].bp = c.bp THEN SUBSET at[c.id].addrs ELSE SUBSET Addrs

Conflict(e, f) == e.id # f.id /\ e.type # f.type /\ e.addrs \cap f.addrs # {}

\* Variant: the lists of addresses are compared as a whole.
MatchWhole(e) == {f \in ToSet(OBJ_ARR) : Conflict(e, f) /\ e.addrs = f.addrs}

match(e) == {f \in ToSet(OBJ_ARR) : Conflict(e, f)}

all_bp_hit == live \subseteq susp

\* Variant: the record goes, the thread stays suspended.
ReleaseForgets(arr, i) ==
    /\ OBJ_ARR' = RemoveAt(arr, i)
    /\ susp' = susp

\* Resume() fails for a thread that has gone; its record stays.
release_bp(arr, i) ==
    IF arr[i].id \in live
    THEN OBJ_ARR' = RemoveAt(arr, i) /\ susp' = susp \ {arr[i].id}
    ELSE OBJ_ARR' = arr /\ susp' = susp

\* process.Continue().
Continue ==
    /\ proc' = IF proc = "exited" THEN proc ELSE "running"
    /\ at' = Resumed(susp')

----------------------------------------------------------------------------
Init ==
    /\ mode \in Modes
    /\ status = "load"
    /\ RUNNING = FALSE
    /\ OBJ_ARR = <<>>
    /\ elapsed = Never
    /\ lock = NoCallback
    /\ STATUS_FOUND = FALSE
    /\ timerOn = TRUE
    /\ pair = {}
    /\ TargetInit

\* The breakpoints are set and the timer is started.
set_trigger ==
    /\ status = "load"
    /\ status' = "active"
    /\ elapsed' = Never
    /\ UNCHANGED <<mode, RUNNING, OBJ_ARR, lock, STATUS_FOUND, timerOn, pair, target>>

\* A report without two locations ends the import.
lldb_init_module_fails ==
    /\ status = "load"
    /\ status' = "error"
    /\ UNCHANGED <<mode, RUNNING, OBJ_ARR, elapsed, lock, STATUS_FOUND, timerOn, pair, target>>

\* process_lock is taken, and the thread is suspended if the process is
\* stopped and the thread is still there.
CallbackBegin(c) ==
    /\ status = "active"
    /\ lock = NoCallback
    /\ c \in pending
    /\ lock' = c
    /\ pending' = pending \ {c}
    /\ RUNNING' = FALSE
    /\ susp' = IF proc = "stopped" /\ c.id \in live THEN susp \cup {c.id} ELSE susp
    /\ UNCHANGED <<mode, status, OBJ_ARR, elapsed, STATUS_FOUND, timerOn, pair,
                   proc, live, at, hits>>

\* kill() when no variable is found: process_lock is never released.
NoVariables ==
    /\ {} \in get_addr(lock)
    /\ status' = "error"
    /\ UNCHANGED <<RUNNING, OBJ_ARR, elapsed, lock, STATUS_FOUND, timerOn, pair, target>>

\* A match: the process stays stopped.  Without a user the session ends,
\* with a user only process_lock is released.
Halt(e, found) ==
    /\ match(e) # {}
    /\ pair' = pair \cup {e.id} \cup {f.id : f \in match(e)}
    /\ STATUS_FOUND' = found
    /\ status' = IF INTERACTIVE THEN status ELSE "match"
    /\ lock' = IF INTERACTIVE THEN NoCallback ELSE lock
    /\ UNCHANGED <<RUNNING, OBJ_ARR, elapsed, timerOn, target>>

\* No match: the thread is recorded, a random one is released when every
\* thread is suspended, and the process continues.
Track(e) ==
    LET arr == Append(OBJ_ARR, e) IN
    /\ match(e) = {}
    /\ elapsed' = Never
    /\ \/ ~all_bp_hit /\ OBJ_ARR' = arr /\ susp' = susp
       \/ all_bp_hit /\ \E i \in DOMAIN arr : release_bp(arr, i)
    /\ RUNNING' = TRUE
    /\ lock' = NoCallback
    /\ Continue
    /\ UNCHANGED <<status, STATUS_FOUND, timerOn, pair, live, pending, hits>>

\* The rest of a callback for a thread recorded as type.
CallbackEnd(type, found) ==
    /\ status = "active"
    /\ UNCHANGED mode
    /\ \/ NoVariables
       \/ \E addrs \in get_addr(lock) \ {{}} :
             LET e == [id |-> lock.id, type |-> type, addrs |-> addrs] IN
             Halt(e, found) \/ Track(e)

read_callback == lock.bp = "read" /\ CallbackEnd("R", TRUE)

\* STATUS_FOUND is a local variable here.
write_callback == lock.bp = "write" /\ CallbackEnd("W", STATUS_FOUND)

----------------------------------------------------------------------------
(* timer(), which runs every 0.1 seconds until a match is found.           *)

\* Variant: the timer is not started again.
TimerOnce ==
    /\ status = "active"
    /\ lock = NoCallback
    /\ timerOn
    /\ timerOn' = FALSE
    /\ UNCHANGED <<mode, RUNNING, lock, STATUS_FOUND, pair, live, pending, hits>>

TimerRuns ==
    /\ status = "active"
    /\ lock = NoCallback
    /\ timerOn
    /\ timerOn' = ~STATUS_FOUND
    /\ UNCHANGED <<mode, RUNNING, lock, STATUS_FOUND, pair, live, pending, hits>>

\* A random record is released, and the process continues.
TimerRelease(i) ==
    /\ TimerRuns
    /\ RUNNING
    /\ elapsed >= Wait
    /\ release_bp(OBJ_ARR, i)
    /\ elapsed' = IF Len(OBJ_ARR') < Len(OBJ_ARR) THEN Never ELSE elapsed
    /\ Continue
    /\ UNCHANGED status

\* Nothing to release: the process is continued all the same, and the
\* session ends after KILL_TIME.
TimerIdle ==
    /\ TimerRuns
    /\ RUNNING
    /\ elapsed >= Wait
    /\ OBJ_ARR = <<>>
    /\ susp' = susp
    /\ Continue
    /\ status' = IF ~(KillGuard /\ INTERACTIVE) /\ elapsed >= Kill THEN "kill" ELSE status
    /\ UNCHANGED <<OBJ_ARR, elapsed>>

TimerTerm ==
    /\ TimerRuns
    /\ ~RUNNING
    /\ ~INTERACTIVE
    /\ elapsed = Term
    /\ status' = "term"
    /\ UNCHANGED <<OBJ_ARR, elapsed, proc, at, susp>>

TimerRearm ==
    /\ TimerRuns
    /\ IF RUNNING THEN elapsed < Wait ELSE INTERACTIVE \/ elapsed < Term
    /\ UNCHANGED <<status, OBJ_ARR, elapsed, proc, at, susp>>

Tick ==
    /\ status = "active"
    /\ elapsed < Term
    /\ elapsed' = elapsed + 1
    /\ UNCHANGED <<mode, status, RUNNING, OBJ_ARR, lock, STATUS_FOUND, timerOn, pair, target>>

----------------------------------------------------------------------------
Import == set_trigger \/ lldb_init_module_fails

Callbacks == (\E c \in pending : CallbackBegin(c)) \/ read_callback \/ write_callback

Timer ==
    \/ \E i \in DOMAIN OBJ_ARR : TimerRelease(i)
    \/ TimerIdle
    \/ TimerTerm
    \/ TimerRearm

Environment == status = "active" /\ TargetNext(Sides) /\ UNCHANGED <<mode, script>>

\* A session that has ended, or that waits for its user after a match.
Over ==
    /\ status \in Ended \/ ~timerOn
    /\ UNCHANGED vars

Next == Import \/ Callbacks \/ Timer \/ Tick \/ Environment \/ Over

\* The release of a thread that still exists: random.randrange does not
\* choose the record of a gone thread for ever.
ReleaseLive == \E i \in DOMAIN OBJ_ARR : OBJ_ARR[i].id \in live /\ TimerRelease(i)

Spec == Init /\ [][Next]_vars

FairSpec ==
    /\ Spec
    /\ WF_vars(Import)
    /\ WF_vars(Tick)
    /\ WF_vars(Timer)
    /\ WF_vars(Callbacks)
    /\ SF_vars(ReleaseLive)

----------------------------------------------------------------------------
(* Properties.                                                             *)

\* The types of the script's globals.
TypeOK ==
    /\ status \in {"load", "active"} \cup Ended
    /\ OBJ_ARR \in Seq(Entry)
    /\ elapsed \in Never .. Term
    /\ lock \in Callback \cup {NoCallback}
    /\ {RUNNING, STATUS_FOUND, timerOn} \subseteq BOOLEAN
    /\ pair \subseteq Threads
    /\ susp \subseteq live

\* A thread that is suspended is known to the script: recorded, reported or
\* being handled.  release_bp could never resume another one.
SuspendedTracked ==
    status = "active" => susp \subseteq {e.id : e \in ToSet(OBJ_ARR)} \cup pair \cup {lock.id}

\* No two records make a match: the callback that recorded the later one
\* compared it with every record that is still there.
NoUnnoticedRace ==
    \A i, j \in DOMAIN OBJ_ARR : ~Conflict(OBJ_ARR[i], OBJ_ARR[j])

\* The parts of AppInv.  A thread is suspended for a record, for a match
\* that was reported, or for the callback that has process_lock.
SuspendedFor ==
    susp \subseteq {e.id : e \in ToSet(OBJ_ARR)} \cup pair
                     \cup (IF lock = NoCallback THEN {} ELSE {lock.id})

\* Before the target is launched there is nothing to stop or to continue.
NotLaunched ==
    proc = "none" => live = {} /\ pending = {} /\ lock = NoCallback /\ ~RUNNING

TargetOK ==
    /\ proc \in {"none", "running", "stopped", "exited"}
    /\ live \subseteq Threads
    /\ at \in [Threads -> Access \cup {NoStop}]
    /\ pending \subseteq Callback

\* The inductive invariant: with the pairwise comparison of the records it
\* says for whom each thread is held, at every step of every callback, also
\* while the target runs on with process_lock taken.
AppInv == TypeOK /\ TargetOK /\ NotLaunched /\ SuspendedFor /\ NoUnnoticedRace

\* The timer releases every suspended thread sooner or later, though it may
\* fail to resume a thread that has gone, unless a match is found.
HeldIsReleased ==
    \A t \in Threads : t \in susp ~> (t \notin susp \/ status \in Ended \/ pair # {})

\* When a race has been reported, its threads are still before their
\* accesses, for the user to inspect the program "in the moment".
MatchInTheMoment ==
    \A t \in pair : t \in susp /\ at[t] # NoStop
=============================================================================
