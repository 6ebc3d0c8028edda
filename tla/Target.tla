------------------------------- MODULE Target -------------------------------
(***************************************************************************)
(* The program under LLDB, as the trigger scripts use it (external).  Its  *)
(* threads come and go, stop at breakpoints, and LLDB starts a callback    *)
(* for a thread that stopped.  Breakpoints may be hit together, and not    *)
(* every thread that stops gets a callback.  A thread that is suspended    *)
(* stays where it is when the process continues.                           *)
(***************************************************************************)
EXTENDS Integers, Sequences, FiniteSets, SequencesExt

CONSTANTS
    Threads,      \* thread ids of the target
    Addrs,        \* addresses of the watched variables
    AbruptExit,   \* the target may exit with threads suspended or callbacks due
    MaxHits       \* bound on the number of times the target stops

ASSUME TargetAssumption == AbruptExit \in BOOLEAN /\ MaxHits \in Nat

VARIABLES
    proc,      \* state of the process
    live,      \* its threads
    at,        \* at[t]: the breakpoint access t is stopped before
    susp,      \* threads LLDB will not run when the process continues
    pending,   \* callbacks started by LLDB that wait for process_lock
    hits       \* number of stops so far

target == <<proc, live, at, susp, pending, hits>>

\* The two accesses of a race report, each with a breakpoint of its own.
Sides == {"write", "read"}

NoStop   == [bp |-> "none", addrs |-> {}]
Access   == [bp : Sides, addrs : (SUBSET Addrs) \ {{}}]
Callback == [id : Threads, bp : Sides]

\* Threads keep their stop only while LLDB holds them back.
Resumed(held) == [t \in Threads |-> IF t \in held THEN at[t] ELSE NoStop]

TargetInit ==
    /\ proc = "none"
    /\ live = {}
    /\ at = [t \in Threads |-> NoStop]
    /\ susp = {}
    /\ pending = {}
    /\ hits = 0

Launch(t) ==
    /\ proc = "none"
    /\ proc' = "running"
    /\ live' = {t}
    /\ UNCHANGED <<at, susp, pending, hits>>

Spawn(t) ==
    /\ proc = "running"
    /\ live \ susp # {}
    /\ t \notin live
    /\ live' = live \cup {t}
    /\ UNCHANGED <<proc, at, susp, pending, hits>>

ThreadExit(t) ==
    /\ proc = "running"
    /\ t \in live \ susp
    /\ live # {t}
    /\ live' = live \ {t}
    /\ UNCHANGED <<proc, at, susp, pending, hits>>

\* Some thread leaves main or calls exit(): the whole process is gone.
ProcExit ==
    /\ proc = "running"
    /\ live \ susp # {}
    /\ AbruptExit \/ (susp = {} /\ pending = {})
    /\ proc' = "exited"
    /\ live' = {}
    /\ susp' = {}
    /\ at' = [t \in Threads |-> NoStop]
    /\ UNCHANGED <<pending, hits>>

\* Threads S reach breakpoints among bps at the same time and stop the
\* process; LLDB starts the callbacks of the threads C among them.
Hit(bps, S, C, acc) ==
    /\ proc = "running"
    /\ hits < MaxHits
    /\ S \subseteq live \ susp
    /\ C \subseteq S
    /\ C # {}
    /\ \A t \in S : acc[t].bp \in bps
    /\ proc' = "stopped"
    /\ at' = [t \in Threads |-> IF t \in S THEN acc[t] ELSE at[t]]
    /\ pending' = pending \cup {[id |-> t, bp |-> acc[t].bp] : t \in C}
    /\ hits' = hits + 1
    /\ UNCHANGED <<live, susp>>

\* A step of the target while the breakpoints bps are set.
TargetNext(bps) ==
    \/ \E t \in Threads : Launch(t) \/ Spawn(t) \/ ThreadExit(t)
    \/ ProcExit
    \/ \E S \in SUBSET (live \ susp) :
          \E C \in SUBSET S, acc \in [S -> Access] : Hit(bps, S, C, acc)
=============================================================================
