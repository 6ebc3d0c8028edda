---------------------------- MODULE RaceVerifier ----------------------------
(***************************************************************************)
(* What a race verifier promises (scripts/conbreak/README.md): it holds    *)
(* threads before the accesses of a race report, lets them go again, and   *)
(* either reports a race it has caught "in the moment" or gives up.  While *)
(* it holds a thread, the thread has not made its access, and it never     *)
(* holds two threads that race without saying so.                          *)
(***************************************************************************)
EXTENDS Naturals

CONSTANTS
    Threads,   \* thread ids of the target
    Entries,   \* what can be known of a thread
    OneLine    \* the two accesses of the report are one source line

VARIABLES
    verdict,   \* "open", "match" or "none"
    held,      \* what is known of the threads it holds: id, type, addrs
    stopped,   \* the threads of the target that are before an access
    alive      \* the target has not exited

rvars == <<verdict, held, stopped, alive>>

RVConflict(e, f) ==
    /\ e.id # f.id
    /\ OneLine \/ e.type # f.type
    /\ e.addrs \cap f.addrs # {}

Ids(S) == {e.id : e \in S}

RVInit ==
    /\ verdict = "open"
    /\ held = {}
    /\ stopped = {}
    /\ alive = TRUE

\* It takes hold of a thread, which races with none it holds, and may let
\* one thread go.
Hold(e, gone) ==
    /\ verdict = "open"
    /\ alive
    /\ e.id \in stopped \ Ids(held)
    /\ \A f \in held : ~RVConflict(e, f)
    /\ \A f, g \in gone : f = g
    /\ held' = (held \cup {e}) \ gone
    /\ UNCHANGED <<verdict, stopped, alive>>

\* It lets a thread go, and the target continues.
Release(e) ==
    /\ verdict = "open"
    /\ alive
    /\ e \in held
    /\ held' = held \ {e}
    /\ stopped' \in SUBSET stopped
    /\ Ids(held') \subseteq stopped'
    /\ UNCHANGED <<verdict, alive>>

\* A thread that it is about to hold races with one it holds: both are
\* still before their accesses.
Report(e) ==
    /\ verdict = "open"
    /\ alive
    /\ e.id \in stopped
    /\ \E f \in held : RVConflict(e, f) /\ f.id \in stopped
    /\ verdict' = "match"
    /\ UNCHANGED <<held, stopped, alive>>

GiveUp ==
    /\ verdict = "open"
    /\ verdict' = "none"
    /\ stopped' \in SUBSET Threads
    /\ UNCHANGED <<held, alive>>

\* The target goes on, without the threads that are held.
Run ==
    /\ verdict = "open"
    /\ alive' \in BOOLEAN
    /\ alive' => alive
    /\ stopped' \in SUBSET Threads
    /\ alive' => Ids(held) \subseteq stopped'
    /\ UNCHANGED <<verdict, held>>

RVNext ==
    \/ Run
    \/ GiveUp
    \/ \E e \in held : Release(e)
    \/ \E e \in Entries : Report(e) \/ \E gone \in SUBSET (held \cup {e}) : Hold(e, gone)

RVSpec == RVInit /\ [][RVNext]_rvars
=============================================================================
