# A formal model of ConAnalysis

ConAnalysis looks for concurrency attacks: data races whose outcome reaches a
dangerous operation. It is a pipeline. A race detector (ThreadSanitizer or
Valgrind) produces reports; scripts split and thin them out; *trigger.py* runs
the program under LLDB and tries to catch each reported race "in the moment";
and LLVM passes follow the racy value through the program's code to the
operations it can influence.

This directory holds TLA+ modules for the parts of that pipeline where the
difficult logic is, TLC configurations that check them on small instances, and
TLAPS proofs of the main results for all instances. `PROJECT.json` maps each
definition to the lines of code it stands for.

## 1. The system

| component | source | state | operations | interacts with |
|---|---|---|---|---|
| Trigger | `scripts/conbreak/src/trigger/trigger.py` | `OBJ_ARR` (records of suspended threads), `RUNNING`, `LAST_BREAK`, `process_lock`, breakpoints | `set_trigger`, `read_callback`, `write_callback`, `timer`, `release_bp`, `terminate` | LLDB's threads call it; it stops, suspends and continues the target |
| Dataflow analysis | `lib/ConAnal/ConAnalysis.cpp` | corrupted values, their order, corrupted pointers, branches and calls, call stack, enter/exit sizes | `initializeCallStack`, `getCorruptedIRs`, `intraDataflowAnalysis` | reads Inst2Int, DOL and the control dependence graphs |
| Dominator analysis | `lib/ConAnal/ConAnalysis.cpp` | `dominatorMap_` | `computeDominators`, `getDominators`, `getFeasiblePath` | reads the corrupted values |
| Control dependence graph | `lib/CDG/ControlDependenceGraph.cpp` | nodes, regions | `computeDependencies`, `insertRegions`, `influences` | used by the dataflow analysis |
| Sync loop analysis | `lib/SyncLoop/SyncLoopAnalysis.cpp` | loops and the variables they wait on | detection of ad-hoc synchronisation in a report | reads reports |
| Dangerous operation labels | `lib/DOL/DangerOpLabel.cpp` | lists of operations by line | one pass over the module | read by ConAnalysis |
| Inst2Int | `lib/Misc/Inst2Int/Inst2Int.cpp` | numbers of instructions, line to instructions | one pass over the module | read by ConAnalysis |
| Copies of trigger.py | `scripts/conbreak/<application>/trigger/trigger.py` (nine) | as Trigger, and `STATUS_FOUND` | as Trigger, but a callback handles one thread and does not stop the process first | LLDB, as Trigger |
| Report parsers | `scripts/tsanOutputParser.py`, `scripts/valgrindOutputParser.py` | position in the report, block flags, stacks collected, files written | `checkBlockIntegrity`, one loop per mode | the detector may still be writing; the race files are read by Trigger and by the passes |
| memcached client | `scripts/conbreak/memcached-1.4.25/trigger/scripts/*.py` | a connection, opaques | one method per command, `getMulti`, `stats`, SASL; compliance tests | drives the memcached server that Trigger watches |
| Wrapper | `scripts/conbreak/src/wrapper.sh.*`, `interface.exp` | lists of confirmed and unconfirmed reports | one LLDB session per report | starts Trigger, reads its output file |
| Converger | `scripts/tsanOutputConverger.sh` and others | directories of reports | thin out, count | parsers |

What is hard in it:

* **Trigger** is concurrent. The target's threads stop at any time, several at
  once; LLDB starts callbacks that wait for one lock, which the timer takes as
  well; the process may be continued, or may exit, between a stop and its
  callback. What the script believes (`OBJ_ARR`, `RUNNING`) has to agree with
  what LLDB holds. It is correct if no thread is lost track of or held for
  ever, if a race among held threads is noticed, if a reported match is one,
  and if a session ends.
* **The dataflow analysis** is a recursion over an explicit call stack with a
  memory of earlier visits, on state that is partly local to an activation,
  partly per head and partly global. It is correct if everything it marks has
  a cause, if it does not skip what it should look at, and if it ends.
* **The dominator analysis** is a fixpoint iteration whose result is cached
  and used with changing corrupted branches. It is correct if it computes
  dominators, in any order of the worklist.
* **Control dependence graphs** are built by an algorithm that edits sets
  while it runs over them.
* **The parsers** keep flags and partly filled lists from line to line while a
  report may be cut off within a block, or may grow. They are correct if every
  complete race gives one race file, with sites of that race only.
* **The memcached client** makes several requests before it reads a response,
  and does not always compare opaques. It is correct if a call gets the answer
  to its own requests, and no call waits for an answer that never comes.
* The copies of trigger.py have the interleavings of Trigger without its
  precautions.
* **The wrapper** goes by an output file that a session leaves, or does not
  leave, behind.

## 2. Modules

| module | models | checked by | proved in |
|---|---|---|---|
| `Target` | the program under LLDB, as the scripts use it (external) | with the next two | – |
| `Trigger` | trigger.py | `MCTrigger` | `TriggerProofs`, `TriggerRefinement` |
| `AppTrigger` | the nine copies of its earlier version | `MCAppTrigger` | `AppTriggerProofs` |
| `RaceVerifier` | what a race verifier promises (abstract specification) | `MCTrigger` | `TriggerRefinement` |
| `Taint` | getCorruptedIRs and intraDataflowAnalysis | `MCTaint` | `TaintProofs` |
| `Dominators` | computeDominators, its cache, getDominators | `MCDominators` | `DominatorsProofs` |
| `ReportFile` | a report, its boundary and the state of a line loop | with the next two | – |
| `TsanParser` | tsanOutputParser.py, three loops | `MCParsers` | `ParserProofs` |
| `ValgrindParser` | valgrindOutputParser.py | `MCParsers` | `ParserProofs` |
| `McClient` | mc_bin_client.py, with an external server | `MCMcClient` | `McClientProofs` |
| `McTests` | testClient.py, as programs of calls | `MCMcClient` | – |

`Trigger` and `AppTrigger` extend `Target`, which is their environment: each
specification composes the script's actions with `TargetNext`. `McTests`
extends `McClient`; both parsers extend `ReportFile`. Beyond that the modules
are independent. `Dominators` takes the corrupted branches of a head as given,
as `Taint` would deliver them; `Taint` takes the relation `influences` as
given, as the control dependence graphs deliver it. `SequenceLemmas` has what
the proofs need of sequences and of least and greatest numbers, and is extended
by five of the proof modules.

Operators whose comment begins with "Variant" are plausible faults of the code.
They are not used by the specifications. They serve to show that each property
can fail: put in the place of the definition that follows them, TLC finds the
property violated.

### Trigger

State. `OBJ_ARR`, `RUNNING`, `bps` are the script's globals; `elapsed` is
`time.time() - LAST_BREAK`; `lock` is `process_lock`; `todo` is the list a
callback has yet to work through; `status` tells how the session ended. The
target is `proc`, `live`, `at` (the access a thread is stopped before), `susp`
(threads LLDB will not run) and `pending` (callbacks that wait for the lock).

Actions. `SetTrigger` and `BadReport` are the import of the script. A callback
is `CallbackBegin` (lock, stop the process, forget a thread that is reported
again, collect the untracked threads), one `VisitError`, `VisitMatch` or
`VisitRecord` per thread, and `CallbackEnd` (continue, unlock). A run of the
timer, which holds the lock throughout, is one of the `Timer...` actions.
`CallbackHang` and `TimerHang` are the retry loops on a process that has
exited. `Launch`, `Spawn`, `ThreadExit`, `ProcExit` and `Hit`, in `Target`, are
external.

Abstractions and assumptions about LLDB:

* A thread's address list is a set of addresses; looking up variables may fail
  at random, as the script says, so any subset may be found.
* `pending` is a set: two waiting callbacks for the same thread and breakpoint
  are one. The order in which waiting callbacks get the lock is arbitrary.
* Several threads may stop together, and a callback may come for only some of
  them. A thread keeps its stop reason until it runs again.
* `SBProcess.Stop()` and `SBThread.Resume()` keep failing on a process that has
  exited; while it is alive, they succeed in the end.
* With `AbruptExit = FALSE` the target exits only when no thread is suspended
  and no callback waits.

### RaceVerifier

An abstract verifier holds threads before their accesses (`Hold`), lets them go
(`Release`), reports a race (`Report`), or gives up; the target runs on without
the held threads (`Run`). `Trigger` maps to it by `Verifier`: `held` is the set
of the records in `OBJ_ARR`, `stopped` the threads before an access, `verdict`
what `status` says, `alive` whether the process has exited. A visit of a
callback is a `Hold` or a `Report`, a run of the timer a `Release` or a
`GiveUp`; everything else is a `Run` or nothing.

### AppTrigger

The nine copies are one program, with different settings and, in two of them,
without the check of `INTERACTIVE` in line 110 (`KillGuard`). `Globals` holds
the settings of each; since WAIT_TIME < KILL_TIME < TERM_TIME in all of them
(`TimeoutOrder`), `elapsed` counts how many have expired. The copies also split
a source line at different characters in get_addr, which is within what is
abstracted.

A callback is `CallbackBegin` (lock, `RUNNING`, Suspend) and `read_callback` or
`write_callback`, its rest: in between the target may run, because nothing
stops it, and a frame can be searched only when it has stopped again.
`STATUS_FOUND` in write_callback is a local variable, as in the code. kill()
leaves process_lock taken. The timer's actions are those of Trigger, without
its retry loops: Resume() of a thread that has gone fails, and the record stays.

### ReportFile, TsanParser, ValgrindParser

A line is the regular expression that it matches and, for a line of a stack,
the site that it names. There is one action per branch of a loop; the loops of
tsanOutputParser.py share those that are the same in them, and `mode` tells
which loop runs (`runNormalSyncLoop` is "syncloop" and "verifier",
`runNormalConAnalysis` is "conanalysis", `runOverNight` is "overnight").
`checkBlockIntegrity` counts from where the file was left, as enumerate() does.
`Detector` is the race detector that writes more of the report (external).

Reports are built from blocks, `TsanLines` and `VgLines`, so that the
properties can say what the race files should be (`TsanExpected`, `VgExpected`)
without the parser's flags. A block that is cut off keeps a prefix of its lines.
A block of Helgrind (`VgBlock`) is as in the reports kept under `TESTS`: an
announcement with a stack of its own, the stack of one access or of two, and the
address with the stack of its allocation, or a location. For the theorems a
report is any sequence of lines (`AnyReport`, `VgAnyReport`), and ThreadSanitizer's
may get any more before it is scanned (`MoreLines`).

What the parsers are right about is said of the lines of the report: a frame is
in a stack of a kind (`InStack`) if there is a header of that kind above it and
no line in between ends a stack, and a site is `Taken` if it was read from such
a frame and no block has broken since. What they must not miss is the first frame
of the first stack of its kind in a block (`Leads`), with nothing between it and
the header but, in the mode "verifier", frames of interceptors (`Opens`). Without
the condition "first of its kind" nothing could be said: the code keeps one write
and one read, and what comes later in a block finds the lists taken. Two race
files are in order if a line of the report parts the frames they begin with, or
in ThreadSanitizer's reports all frames they have (`TsanInOrder`, `VgInOrder`).

### McClient, McTests

A program is a list of calls. `Begin` sends the requests of a call, `Receive`
takes one response and handles it as the method does (`HandleSingle`,
`HandleMulti`, `HandleStats`, `HandleCram`), `Eof` is a connection that the
server has closed. A call raises MemcachedError when the status is not zero,
and the program may go on; other exceptions end it: the struct.error of a random
number that is too large (`BeginFails`, and `SendFails` for the second request of
sasl_auth_cram_md5), the socket.error or EOFError of a connection to a dead server
(`SendFails`, `Eof`), and what getMulti raises when it handles a response: its
right side is evaluated first, so that a terminal it does not expect is a
struct.error before it is a KeyError. An opaque is a random one,
taken to be new, or the number that getMulti uses. The server executes requests
in order; if it is not `reliable` it refuses requests and dies. Values are
lists of words or numbers, expiration times are left out; a kept cas is
`savedCas`. `Programs` is the set of programs, `Keys` has the keys and what the
methods send in the place of a key (`KeysAssumption`); `ProgramsAssumption` says
what a call is, and that the calls that collect a dict return no cas to keep.
A dict is a function, and `Update` what an assignment to its keys does to it.

### Taint

State. `corruptedIR`, `orderedIR`, `corruptedPtr`, `funcEnterExitVal`,
`corruptedBr`, `corruptedCallIns` and `interCtrlDep` are the members of the
class with (nearly) the same names; interCtrlDepPtr_ and interCtrlDepFunc_ are
one map, since a line's label decides which of them it is in. An element of
`callStack` is one of `callStack_` with the local variables of its activation:
where the iterator is (`pc`), the flag passed in (`ctrlDep`), the corrupted
branches found (`localBr`) and the result (`rv`).

Actions. One per kind of instruction: `IgnoredCall` (unknown, intrinsic or
recursive callee), `ExternalCall`, `SkippedCall` (by the memory of earlier
visits), `AnalysedCall` (the recursive call), `Gep`, `Operation`. Each first
records a dangerous operation (`Recorded`), as the loop body does.
`EnterAfterCall` and `EnterAtSource` start a frame of the report's call stack,
`Return` and `ReturnFromFrame` end an activation, `NextHead` clears what
getCorruptedIRs clears, `Abort` is the failed parse of a GetElementPtrInst.
The branches, the calls and the notes of earlier heads stay (`NextHead`), as in
the code.

The shape of the program (functions, parameters, blocks) is given by constants;
what the instructions are is chosen initially from `Programs`. Values are
names. Lists of branches and of calls are sets.

### Dominators

The control flow graph is chosen initially from `Cfgs`. `StartCompute`,
`ProcessBlock` (a round of the while loop) and `EndCompute` are
computeDominators; `Judge` and `Skip` are getDominators for one operation;
`NextHead` is the next head of the call stack, with other corrupted branches
and the cached dominators. The worklist is a set, with `twice` for the entries
that several edges from the entry block put there, and any of its blocks may be
next: the result does not depend on the order. The set of a dead block, which
no edge leads to, is itself alone, and it is intersected into those of its
successors. So the properties have two kinds of paths:
those from the entry, which are executed, and those from the entry or from a dead
block that leads somewhere (`Roots`). printDominators is left out: it
only prints, and its call is commented out.

## 3. Runs

| run | instance | what it shows |
|---|---|---|
| `trigger_safety` | 3 threads, 2 addresses, 2 stops, exit at any time | tracking agrees with LLDB's state, no race among held threads is overlooked, a match is a race, one access is let go at a time; the script implements `RaceVerifier` |
| `trigger_ends` | 3 threads, 2 stops, both accesses in one line, orderly exit | with a single breakpoint, and every record labelled as a write, a non-interactive session ends by itself |
| `trigger_interactive` | 2 threads, 3 stops | a target whose threads are all suspended gets going again; no thread is held for ever |
| `app_trigger` | the switches of all copies, 2 threads, 2 addresses, 2 stops, exit at any time | no suspended thread is forgotten, no two records are a race, every held thread is let go in the end; `AppInv`, from which it is proved |
| `taint` | 3402 programs with calls, recursion, stores, branches, array elements, external and unknown functions; one or two heads | what is marked has a reason found earlier, lists agree, when a callee is skipped one more pass over its own instructions would add nothing, a cross function result names a branch that this head has corrupted and stays with its line over all heads, the analysis ends; `TaintInv`, from which it is proved, and which has that recursion is cut off (`NoReentry`) |
| `dominators` | every graph with 4 blocks, 2 of which may branch; two heads | what is computed are dominators, in every order of the worklist, and none is lost but to paths from dead blocks; reports are exact, up to such paths, although the dominators are cached; the pass ends |
| `parsers` | TSan reports of one or two blocks, the first or the second cut off at any line; Helgrind reports of up to three blocks with one access or two, the first or the last cut off | the race files are exactly those of the complete races (`TsanExact`, `VgExact`); the sites of a race file are frames of one block below headers of their kind (`TsanSound`), or of two different writes (`VgSound`); no block is missed whose stacks end (`TsanMissesNone`, `VgMissesNone`), also behind one that is cut off; `TsanInv` and `VgInv`, from which that is proved, and that the files are in the order of the report (`TsanInOrder`, `VgInOrder`) |
| `mc_client` | the 27 compliance tests; 768 programs of four calls against a server that fails | the tests pass; a call gets its own answer, getMulti exactly its items, nothing stays on the connection unless a call was given up, every call returns or raises an exception (also one of a connection that is gone); `ConnInv`, from which it is proved |

Runs that find a disagreement between the code and its comments or documents:

| run | code | disagreement |
|---|---|---|
| `trigger_abrupt` | `trigger.py:301` | the target exits while a thread is tracked: the script retries for ever and no timeout ends the session |
| `app_trigger_moment` | `apache-21287/trigger/trigger.py:334` | two threads stop together, the callback of one continues the process: the race reported with the other has gone by |
| `taint_args` | `ConAnalysis.cpp:578` | f(clean) and then f(corrupted): the second call is skipped, and f is never analysed with the corrupted parameter |
| `tsan_overnight` | `tsanOutputParser.py:70` | the boundary is counted from where the file was left: a block is parsed again, and its race is written again |

More consequences of the code are in the models without a run of their own:

* two different lines with the same text get one breakpoint (`SetTrigger`), and
  two lines with the same number in different files are taken for one in the
  callbacks (`Label`; the theorems have `LabelsFaithful` for that);
* the timer may end a session while the callback of a breakpoint that has just
  been reached waits for the lock (`TimerIdle`);
* a dead block that leads into a graph takes dominators away, and with them
  reports. `DominatorsComplete` and `ReportExact` say how many: a dominator is in
  the set unless a path from a dead block avoids it (`DominatesFrom(Roots, ...)`),
  and a dangerous operation that a corrupted branch dominates may go without a
  report only if such a path avoids the branch. `DominatorsSound` has no such
  condition: nothing else is ever taken for a dominator;
* an InvokeInst in the report's call stack is not skipped like a CallInst and
  is marked as corrupted (`EnterAfterCall`);
* runNormalConAnalysis does not look at block breaks, so a stack that is cut
  off goes on in the next block (`OtherLine`; the run gives this loop complete
  blocks);
* a Helgrind block with the stack of one write only leaves pendingWriteFlag set,
  and the next block of two writes then gives two frames of its first stack;
  writeResultList2 is not emptied when a block starts, so that a block that is
  cut off in its second write stack gives its site to the next block. `VgExact`
  leaves these reports out (`Paired`); `VgSound` has no condition, and therefore
  speaks of two writes without saying that they are of one block;
* the loop stops before the last line break of the file, so that the race of the
  last block is written only if a line break follows the one behind its stacks
  (`VgComplete`);
* after a getMulti that was given up, another one can take the responses of the
  first (`MultiExact` excludes it by `dirty`).

Hazards that the models have, or leave open, and no property judges, since
nothing in the repository says what should happen then:

* which operand is meant at ConAnalysis.cpp:660. The model follows both places,
  and `Justified` holds for what is found;
* the timeout of a session fires while a callback waits (trigger.py:245). This is
  a behaviour of `Trigger`; LAST_BREAK is the last breakpoint recorded, and KILL_TIME
  is about that;
* two positions with the same line number in two files (trigger.py:421). The lines
  of the runs differ in number and text, and the theorems that speak of races have
  `LabelsFaithful`: no result covers such reports;
* STATUS_FOUND is local in write_callback (apache-21287/trigger.py:371), so that the
  timer may release the threads of a race that was found. `SuspendedTracked` counts
  them as known, and does not notice;
* the random number 2**32 (mc_bin_client.py:90) ends the program before anything is
  sent, and the UnboundLocalError at line 173 ends it with a call that `CallsReturn`
  counts as returned;
* for the branches of earlier heads that stand beside those of this head in a note
  (ConAnalysis.cpp:310), `NotesStay` says that nothing noted is lost; whether
  a note should have the branches of one head only is not said;
* in the overnight loop, the only property is `NoRaceTwice`, which fails
  (`tsan_overnight`); of its lists only the types are known.

The bounds, and why they are enough:

* Two threads make a race; the third one is needed for a bystander that is
  suspended, resumed or released at random. Two addresses make accesses that
  do and do not overlap.
* A stop can involve several threads, so two stops already give repeated and
  late callbacks and a second round with tracked threads. `MaxHits` bounds the
  number of stops; liveness needs it as the assumption that the target does not
  reach breakpoints for ever.
* The timeouts are small numbers in the order the script has them
  (`WAIT_TIME <= KILL_TIME`); `elapsed` saturates above the largest.
* Four blocks give branches, joins, loops, loops with two entries and dead
  blocks; two heads give reuse of the cache with other corrupted branches.
* The programs of `MCTaint` have three free instructions in the racy function,
  two in the function it calls and one in a third, enough for a function to be
  called twice around a store or a branch, and for recursion through two
  functions and through the report's call stack.

* In `app_trigger` the second stop can come while the callback of the first
  waits or has the lock, and the target can exit under a suspended thread.
* Two blocks are needed for lines of one to get into the race of another; three
  in `ValgrindParser`, whose pendingWriteFlag could survive a block. Stacks have
  one or two frames, with an interceptor (or the wrapper) first, last or absent.
* After a call that fails, two more calls show what it has left on the
  connection. getMulti has two or three keys, some of which do not exist.

Fairness. Time passes; the timer is re-armed 0.1 s after each run; a callback
that holds the lock gets on, and LLDB's waiting callbacks are served. So `Tick`,
`Timer`, `Callbacks` and the import are weakly fair. Nothing is assumed of the
target: it may stop doing anything at any point. In `AppTrigger` the release of a
thread that still exists is strongly fair: the timer chooses a record at random
each time, so it does not choose records of gone threads for ever. The LLVM
passes are one thread that runs to its end: the next-state relation as a whole
is weakly fair. The memcached client does not stop between calls, and the
server answers, refuses or dies.

## 4. Proofs

The theorems hold for all values of the constants that satisfy the named
assumptions of the modules; they speak of safety. In each proof an inductive
invariant is established by the initial states and kept by every action, and
TLC has checked that invariant on the run of the module before.

`TriggerProofs` proves, for any threads, addresses, report and timeouts:

* `TypeCorrect`, and `TriggerInvariant`: the inductive invariant `TriggerInv`,
  the types and `TrackingInv`. The properties alone are not inductive: that every record belongs to a thread
  suspended before a breakpoint survives a callback only if one knows that a
  thread has at most one record (deletion is by index), that the threads still
  to be visited are stopped and not recorded, that the lock separates callback
  and timer, and that suspended threads that are not recorded are about to be
  visited.
* `RecordedOnce` (one record per thread), `RecordedIsPaused` (recorded threads
  are held), `SuspendedIsTracked` (held threads are recorded) and
  `OneAccessReleased` follow from it.
* `NoRaceUnnoticed` and `MatchIsRace` hold under `LabelsFaithful`: a line's
  number tells the two lines apart.

`TriggerRefinement` proves `TriggerImplementsVerifier`: `Spec` implements
`RaceVerifier`, for the same constants and without `LabelsFaithful`. There is
one lemma per kind of abstract step (`HoldStep`, `ReleaseStep`, `ReportStep`,
`RunStep`, `GiveUpStep`), and `RefinementStep` assigns every action to one of
them. `TriggerInv` is needed for it: that `held` loses exactly one element when
a record is deleted needs one record per thread, and that held threads stay
before their accesses when the process continues needs that they are suspended.

`AppTriggerProofs` proves, for any threads, addresses and switches:

* `AppInvariant`: the inductive invariant `AppInv`. A callback is two steps with
  the lock taken, and the target runs in between; so the invariant says for
  which record, match or callback a thread is suspended (`SuspendedFor`), at
  every step. That the lock, and not only the array, has to be in it is what
  makes a late callback harmless for this property.
* `TypeCorrect`, `SuspendedIsTracked` and `NoRaceUnnoticed` follow from it. The
  latter is kept because the callback that adds a record compares it with all
  that are left; removing records from the middle keeps it.

`TaintProofs` proves, for any functions, code, lists of heads and influences:

* `TypeCorrect`, and `TaintInvariant`. The assumptions say what LLVM's
  code is like: `OperandAssumption`, for example, that a formal parameter is an
  operand in its own function only. Beside the types and `OrderedIsSet`, `TaintInv`
  has these parts. `StackInv`: the call stack is a chain of activations over the frame of the report that is being
  analysed, over the frames still to come. `ActivationInv`: what an activation
  remembers (its branches, its flag, its result) is backed by the lists of the
  pass. `PtrInv`: the indices kept for a pointer are those of a corrupted
  element. `SettledInv`: as long as the number of corrupted values is the one
  that was remembered, what has been analysed since is settled. `ExternalInv`: an external
  function is entered only by a call without corrupted arguments, for which there
  was nothing to do. `NotesInv`: the branches of a note decide on calls that are
  noted. `NoReentry`: a function that was called is nowhere else on the stack (two
  frames of the report may be of one function).
* `ListIsSet` (`OrderedIsSet`, a part of `TaintInv`) and `EveryValueJustified` are
  shown step by step: every action appends to `orderedIR` values that are new and have a reason before them
  (`Extends`), and a reason stays one when more is found.
* `NoFunctionReentered` comes from the guard of the recursive call together with
  `StackInv`, which says that nothing else brings a function on the stack.
* `SkippedBodyIsSettled`: when a callee is skipped because the number of corrupted
  values is the one remembered, one more pass over its own instructions would add
  no value: not for an operand, not for an array element that is corrupted, not for
  an argument of an external function that it calls (`Settled`). It needs
  `SettledInv`, and with it that equal numbers mean equal sets: the sets only grow
  within a head (`SettledStays`, `SizeStep`), and a set that contains another of the
  same size is that set. It does not say that the skip is harmless. The parameter that the
  skipped call itself would corrupt is lost (`taint_args` shows it), and nothing is
  said of the functions that the callee calls in turn, nor of the control dependence
  that the skipped call would have handed down.
* `NotesNeverLost` (`NotesStay`): a later note of a line replaces the earlier one,
  and has all of its branches. This comes from `NotesInv`, and from branches and calls
  being kept when the values of a head are cleared.
* `NotesHaveBranch` comes from `ActivationInv`: the flag is handed down the stack.

`DominatorsProofs` proves, for any graph without an edge to the entry block,
and any order of the worklist:

* `TypeCorrect`, and `DomInvariant`: between two rounds, each edge into a block
  that is not on the worklist is settled (the target's set is within the
  source's set and the target itself), another round would not add anything,
  and no block is lost that dominates on the paths from the entry and from dead
  blocks (`DominatesFrom(Roots, ...)`).
* `DominatorsCorrect`: with an empty worklist, the settled edges give that each
  member of a reachable block's set dominates it. Dominance is stated without
  paths, by a set of blocks that is closed under successors and avoids d and b,
  so that no induction over paths is needed. `NoDominatorLost` is the converse:
  what dominates on all paths, also those from dead blocks, is in the set. If no
  dead block leads into the graph the two meet, and the sets are the dominators.
* `ReportsCorrect`: a report has a corrupted branch that dominates the operation, and
  one that does so on all paths is reported, for every head. And `SetsShrink`.

`McClientProofs` proves, for any set of programs, any number of keys, and a
server that refuses any request or dies at any time:

* `TypeCorrect`: among other things, no opaque has a negative number. That it is less
  than 2**32 is not said: a random one that is not ends the call.
* `ConnectionInvariant`: `ConnInv`, which with the properties below is inductive.
  `Tagged`: a message has the opaque of its request, so that equal opaques mean
  the same request. `EndsLast`: nothing follows on the connection what ends the
  current call, in the requests or in the responses; this is why a call leaves
  nothing behind. `MultiParts`: a key that is stored is asked for, answered or
  collected as long as getMulti's terminal is on its way and nothing has failed.
  It is stated over both queues and the dict together, because a step moves the
  parts of the answer from one to the next. The last two hold until a call is
  given up with responses on their way (`dirty`).
* `OwnResponseOnly`, `ConnectionInSync` and `MultiIsExact`. For the last, when
  the terminal is read it is the last response and no request is left
  (`EndsLast`), so that what is stored has been collected (`MultiParts`); that
  the terminal is none of the keys' numbers is needed in both.

`ParserProofs` proves about both parsers, for every report file, that is, any
sequence of lines, of blocks or not, and not only for those that the run builds
from blocks:

* `TsanInvariant` and `VgInvariant`: `TsanInv` and `VgInv`, which say where the
  scan is. A flag that is on stands for a header above the line, with nothing in
  between that ends a stack; each element of a list is the site of a frame in such
  a stack, and there is no block break between that frame and the line (`Taken`).
  The lemmas about this (`FlagStep`, `Takes`, `KeepsTaken`, `Meets`) are stated
  for any kinds of lines, any ends of stacks and any breaks, and serve both
  parsers. A report of ThreadSanitizer may grow until it is read.
* `TsanFilesSound` and `VgFilesSound`: when the race file of a write and a read is
  written, its two sites are taken at the same line, so there is no block break
  between their frames (`Meets`); what was written before stays right because
  the report does not change during a scan.
* In valgrindOutputParser.py the second list of writes outlives its block, so its
  elements are taken without regard to breaks. That a race file of two writes has
  two different frames needs `TwoWrites` in the invariant, of every element of the
  one list and of the other: a frame gets into the first list only if that is
  empty and into the second only if it is not, so never into both.
* `TsanFilesComplete` and `VgFilesComplete`: no race is missed. At the end of a
  stack, the first write and the first read above it in the block are in a race
  file, and when the scan is over this is so for every stack of every block that
  ends. `PairInv` (`VgPairInv`) is what makes it inductive: a header right above the
  line has its flag on; an access that has been read is in its list unless the other
  one has been seen; if both have been seen they are in a file or both in the lists,
  and then no stack has ended since. That last part is where a cut block could do
  harm: `Meets` and `Taken` say that what is in the lists is of the current block, so
  the lists of TSan's loop are free when a block starts (`BreakPairs`). The code
  looks at lines up to the boundary only; `AllBefore` shows that no end of a block
  is behind it.
* Helgrind's loop keeps a write over blank lines. So `VgPairInv` also says that a
  write whose stack has ended has a race file or is kept with `pendingWriteFlag` on,
  and that a second write stack after it finds the second list filled (`TwoAt`).
  `VgFlushes` shows what each branch at a line break does for it. What the
  theorem says of two writes is that there is a race file which begins with the
  first: the second site may be one that an earlier block has left
  (`VgSound`), since the second list is not emptied.
* `TsanFilesInOrder` and `VgFilesInOrder`: the race files are in the order of the
  report. Of two files of ThreadSanitizer's, a line of the report parts the frames
  of the earlier from those of the later (`From`, `Within`), so no frame is used
  for both; two files of Helgrind's begin with different writes, in their order.
  `OrderInv` (`VgOrderInv`) makes it inductive: behind some line there is all that
  the lists have and nothing that has been written. A race file moves that line to
  where the scan is (`OrderFile`, `VgOrderFile`), since its frames come from the
  lists and the lists are empty afterwards. Of Helgrind's files only the first
  sites are in order: the second list outlives a race file.
* The overnight loop only has its types in the invariant. It reads the file again
  from the start with the flags and the read list of the last scan, so that the
  list may have frames below no header of the new scan.

`SequenceLemmas` states once what these proofs need of the community modules'
operators: deletion, concatenation, the set of a sequence, a stack's top. The
proof system cannot instantiate its induction theorems; `Least` (a non-empty set
of numbers has a least element) takes their place.

Only model-checked:

* `TsanExact` and `VgExact`: their expected result is computed from the blocks
  of a report by recursive functions over sequences. For every
  report it is proved that a race file has a block, that no block goes without
  one, and that they are in order and share no frame; that this is the list
  computed from the blocks, one file for each of them, is checked;
* `TestsPass`, which is about the programs of the compliance tests and not about
  all programs;
* the liveness properties `SessionEnds`, `StallResolved`, `HeldIsReleased`,
  `PassEnds`, `AnalysisEnds`, `CallsReturn`, since fairness is outside of the
  proof system's reach.

## 5. Plan

Done: Trigger and its copies, the abstract verifier and the refinement, the
dataflow and dominator analyses, both parsers, the memcached client; theorems
about all of them, for the parsers that a race file is right, that none is missing
and that they are in order. Left, in this order:

1. `CallStack`: parseInput and initializeCallStack, the choice of heads and
   frames from a line's instructions; then a composition with `Taint` and
   `Dominators`.
2. `ControlDependence`: computeDependencies, insertRegions, controls and
   influences, against control dependence defined by post-dominance.

## 6. Not modelled

* LLDB, LLVM, the target and the memcached server are environment, modelled by
  how the code uses them.
* Printing, debug output, names of variables in debug information, the layout
  of packets; increments beyond the integers of TLC (testIncr's last step).
* The choice of heads (parseInput, initializeCallStack) and the control
  dependence graphs: given to `Taint` as constants.
* The sync loop analysis, the labels of dangerous operations and Inst2Int are
  single passes over LLVM's lists without state of their own.
* The wrapper and the converger are shell and Expect scripts; what they do is
  file input and output.
* `llvm-sanity-check` holds experiments with LLDB that nothing uses.
* The tests' reports, bitcode, vendored drivers such as `mysql-test-run.pl` and
  the sample programs are data or third-party code.
