------------------------------- MODULE Taint -------------------------------
(***************************************************************************)
(* The dataflow part of lib/ConAnal/ConAnalysis.cpp: getCorruptedIRs and   *)
(* intraDataflowAnalysis.  From the instruction that reads or writes the   *)
(* corrupted variable the pass follows the corruption forward through the  *)
(* function, into the functions it calls, and back into the functions of   *)
(* the call stack of the race report.  It also notes the dangerous         *)
(* operations that are control dependent on a corrupted branch of a        *)
(* calling function.                                                       *)
(*                                                                         *)
(* The recursion of intraDataflowAnalysis is made explicit: an element of  *)
(* callStack is an element of callStack_ together with the local variables *)
(* of the activation that analyses it.  One action handles one             *)
(* instruction.                                                            *)
(***************************************************************************)
EXTENDS Naturals, Sequences, FiniteSets, SequencesExt

CONSTANTS
    Inst,       \* instructions
    Value,      \* everything an instruction can have as an operand
    Func,       \* functions
    Line,       \* source lines
    null,       \* no instruction, or no function
    Code,       \* the instructions of a function in order; none if it is external
    Params,     \* the formal parameters of a function
    LineOf,     \* the source line of an instruction (or one that stands for none)
    danOps,     \* dangerous lines
    Blk,        \* the basic block of an instruction
    influences, \* <<a, b>>: the branch of block a decides on the execution of b
    Body,       \* the calls of the report's call stack below its head
    HeadLists,  \* possible lists of heads, the candidates for the corrupted variable
    Programs    \* what the instructions may be

Kinds == {"call", "invoke", "intrinsic", "gep", "store", "br", "other"}

ASSUME InstAssumption == Inst \subseteq Value /\ null \notin Inst \cup Func

ASSUME CodeAssumption ==
    /\ Code \in [Func -> Seq(Inst)]
    /\ \A f, g \in Func : \A j \in DOMAIN Code[f], k \in DOMAIN Code[g] :
          Code[f][j] = Code[g][k] => f = g /\ j = k
    /\ \A i \in Inst : \E f \in Func : \E k \in DOMAIN Code[f] : Code[f][k] = i
    /\ Params \in [Func -> Seq(Value \ Inst)]
    /\ LineOf \in [Inst -> Line] /\ danOps \subseteq Line
    /\ Body \in Seq(Inst) /\ HeadLists \subseteq Seq(Inst)

ASSUME ProgramAssumption ==
    Programs \subseteq [Inst -> [kind : Kinds, args : Seq(Value), callee : Func \cup {null}]]

\* Formal parameters are different values, and only operands of their own
\* function; a store has a value and a place as operands and is not itself a
\* value; the instructions below the head of the call stack are calls that
\* call no intrinsic function.
ASSUME ParamsAssumption ==
    \A f \in Func : \A j, k \in DOMAIN Params[f] : Params[f][j] = Params[f][k] => j = k
ASSUME OperandAssumption ==
    \A p \in Programs, i \in Inst, f \in Func :
        ToSet(p[i].args) \cap ToSet(Params[f]) # {} => i \in ToSet(Code[f])
ASSUME StoreAssumption ==
    \A p \in Programs, i \in Inst : p[i].kind = "store" => Len(p[i].args) = 2 /\ p[i].args[2] # i
ASSUME BodyAssumption ==
    \A p \in Programs, k \in DOMAIN Body : p[Body[k]].kind \in {"call", "invoke"}

VARIABLES
    ins,                \* the program: what each instruction is
    heads,              \* callStackHead_
    head,               \* heads analysed so far, with the current one
    callStack,          \* callStack_ with the activations, the current one first
    corruptedIR,        \* corrupted values
    orderedIR,          \* the same in the order in which they were found
    corruptedPtr,       \* pointer -> indices of its corrupted elements
    funcEnterExitVal,   \* function -> number of corrupted values at entry and exit
    corruptedBr,        \* corrupted branches
    corruptedCallIns,   \* calls that depend on a corrupted branch
    interCtrlDep,       \* dangerous line -> branches of calling functions
    aborted

perHead == <<corruptedIR, orderedIR, corruptedPtr, funcEnterExitVal>>
overall == <<corruptedBr, corruptedCallIns, interCtrlDep>>
program == <<ins, heads>>
vars == <<program, head, callStack, perHead, overall, aborted>>

----------------------------------------------------------------------------
(* The program.                                                            *)

\* map[x] = y.
With(map, x, y) == [z \in DOMAIN map \cup {x} |-> IF z = x THEN y ELSE map[z]]

\* The function an instruction is in, and its place there.
FuncOf == [i \in Inst |-> CHOOSE f \in Func : i \in ToSet(Code[f])]
Place == [i \in Inst |-> CHOOSE k \in DOMAIN Code[FuncOf[i]] : Code[FuncOf[i]][k] = i]

\* cdg.influences.
Influences(i, j) == <<Blk[i], Blk[j]>> \in influences

\* The indices of a GetElementPtrInst, which is understood with two or
\* three operands only.
Index(i) == Tail(ins[i].args)
Parses(i) == Len(ins[i].args) \in {2, 3}

----------------------------------------------------------------------------
(* The current activation.                                                 *)

\* An element of the call stack that is still to be analysed, from its
\* instruction on, and a callee, analysed from its first instruction on.
Frame(i) ==
    [fn |-> FuncOf[i], ins |-> i, pc |-> 0, ctrlDep |-> FALSE, localBr |-> {}, rv |-> FALSE]
Activation(f, flag) ==
    [fn |-> f, ins |-> null, pc |-> 1, ctrlDep |-> flag, localBr |-> {}, rv |-> FALSE]

top == Head(callStack)
Returning == top.pc = Len(Code[top.fn]) + 1
Running == callStack # <<>> /\ top.pc > 0 /\ ~Returning
cur == Code[top.fn][top.pc]

\* Variant: the iterator stays.
AdvancedNot(fr) == <<fr>> \o Tail(callStack)

\* The current activation goes on to the next instruction.
Advanced(fr) == <<[fr EXCEPT !.pc = @ + 1]>> \o Tail(callStack)

\* ctrlDepWithinCurFunc: a corrupted branch found in this activation decides
\* on the current instruction.
WithinCurFunc == \E b \in top.localBr : Influences(b, cur)

\* Variant: the list is not searched for the value.
NewAlways(v) == <<v>>

\* add2CrptList, for values that are not in the list yet.
New(v) == IF v \in corruptedIR THEN <<>> ELSE <<v>>
Add(vs) ==
    /\ orderedIR' = orderedIR \o vs
    /\ corruptedIR' = corruptedIR \cup ToSet(vs)

SomeOperandCorrupted(i) == \E k \in DOMAIN ins[i].args : ins[i].args[k] \in corruptedIR

\* Corrupted branches that decide on one of the noted calls.
CtrlDepBrs == {b \in corruptedBr : \E c \in corruptedCallIns : Influences(b, c)}

\* Every instruction is first checked for being a dangerous operation that
\* is control dependent on a branch of a calling function only.
Recorded ==
    IF top.ctrlDep /\ ~WithinCurFunc /\ LineOf[cur] \in danOps
    THEN With(interCtrlDep, LineOf[cur], CtrlDepBrs)
    ELSE interCtrlDep

----------------------------------------------------------------------------
(* Call instructions.                                                      *)

callee == ins[cur].callee

\* The callee is being analysed already, or waits on the call stack.
Cycle(f) == \E k \in DOMAIN callStack : callStack[k].fn = f

\* Variant: all operands that are instructions.
CoParamsAll == {k \in DOMAIN ins[cur].args : ins[cur].args[k] \in Inst}

\* coparams: the operands that are corrupted instructions.
CoParamsOf(i) ==
    {k \in DOMAIN ins[i].args :
        /\ ins[i].args[k] \in Inst
        /\ \/ ins[i].args[k] \in corruptedIR
           \/ ins[i].args[k] \in DOMAIN corruptedPtr}
CoParams == CoParamsOf(cur)

\* Variant: any second analysis is skipped.
SeenBefore(f) == f \in DOMAIN funcEnterExitVal

\* The last analysis of f changed nothing, and nothing has changed since.
Unchanged(f) ==
    /\ f \in DOMAIN funcEnterExitVal
    /\ funcEnterExitVal[f].enterVal = funcEnterExitVal[f].exitVal
    /\ funcEnterExitVal[f].enterVal = Cardinality(corruptedIR)

\* The entry for f at a call of f; a new entry starts with exitVal zero.
Entered(f) ==
    LET size == Cardinality(corruptedIR) IN
    IF f \notin DOMAIN funcEnterExitVal
    THEN [enterVal |-> size, exitVal |-> 0]
    ELSE IF /\ funcEnterExitVal[f].enterVal = funcEnterExitVal[f].exitVal
              /\ funcEnterExitVal[f].enterVal < size
         THEN [funcEnterExitVal[f] EXCEPT !.enterVal = size]
         ELSE funcEnterExitVal[f]

\* The elements of s with an index in J, in their order.
Picked(s, J) ==
    LET upto[n \in 0 .. Len(s)] ==
            IF n = 0 THEN <<>> ELSE IF n \in J THEN Append(upto[n - 1], s[n]) ELSE upto[n - 1]
    IN  upto[Len(s)]

\* Formal parameters that get corrupted by the call.
NewFormals ==
    Picked(Params[callee],
        {k \in CoParams \cap DOMAIN Params[callee] :
            ins[cur].args[k] \in corruptedIR /\ Params[callee][k] \notin corruptedIR})

\* Formal parameters take over the indices of corrupted elements.
FormalPtrs ==
    {k \in CoParams : /\ k \in DOMAIN Params[callee]
                      /\ ins[cur].args[k] \in DOMAIN corruptedPtr}
PassedPtr ==
    LET passed == {Params[callee][k] : k \in FormalPtrs}
        From(v) == ins[cur].args[CHOOSE k \in FormalPtrs : Params[callee][k] = v]
    IN  [v \in DOMAIN corruptedPtr \cup passed |->
            IF v \in passed THEN corruptedPtr[From(v)] ELSE corruptedPtr[v]]

\* An unknown callee, an intrinsic function, or a cycle: nothing is done.
IgnoredCall ==
    /\ Running
    /\ ins[cur].kind \in {"call", "intrinsic"}
    /\ ins[cur].kind = "intrinsic" \/ callee = null \/ Cycle(callee)
    /\ callStack' = Advanced(top)
    /\ interCtrlDep' = Recorded
    /\ UNCHANGED <<program, head, perHead, corruptedBr, corruptedCallIns, aborted>>

Considered ==
    /\ Running
    /\ ins[cur].kind = "call"
    /\ callee # null
    /\ ~Cycle(callee)

\* The callee has no body: its result is corrupted if a parameter is.
External == Code[callee] = <<>> /\ CoParams # {}

ExternalCall ==
    /\ Considered
    /\ External
    /\ callStack' = Advanced(top)
    /\ Add(New(cur))
    /\ interCtrlDep' = Recorded
    /\ UNCHANGED <<program, head, corruptedPtr, funcEnterExitVal, corruptedBr, corruptedCallIns, aborted>>

Skips == Considered /\ ~External /\ Unchanged(callee)

SkippedCall ==
    /\ Skips
    /\ callStack' = Advanced(top)
    /\ interCtrlDep' = Recorded
    /\ UNCHANGED <<program, head, perHead, corruptedBr, corruptedCallIns, aborted>>

\* Variant: only calls below a corrupted branch of this function are noted.
NotedHere == IF top.ctrlDep THEN {cur} ELSE {}

\* The call is noted if it depends on a corrupted branch, here or in a caller.
Noted == IF top.ctrlDep \/ WithinCurFunc THEN {cur} ELSE {}

\* The callee is analysed; the caller stays at the call.
AnalysedCall ==
    /\ Considered
    /\ ~External
    /\ ~Unchanged(callee)
    /\ callStack' = <<Activation(callee, top.ctrlDep \/ WithinCurFunc)>> \o callStack
    /\ Add(NewFormals)
    /\ corruptedPtr' = PassedPtr
    /\ funcEnterExitVal' = With(funcEnterExitVal, callee, Entered(callee))
    /\ corruptedCallIns' = corruptedCallIns \cup Noted
    /\ interCtrlDep' = Recorded
    /\ UNCHANGED <<program, head, corruptedBr, aborted>>

----------------------------------------------------------------------------
(* Other instructions.                                                     *)

\* The indices are those of a corrupted element of the same pointer.
MatchesAt(i) ==
    /\ Parses(i)
    /\ ins[i].args[1] \in DOMAIN corruptedPtr
    /\ Index(i) \in corruptedPtr[ins[i].args[1]]
Matches == MatchesAt(cur)

\* The element the instruction computes gets corrupted.
PtrWith(v, i) ==
    With(corruptedPtr, v, {Index(i)} \cup (IF v \in DOMAIN corruptedPtr THEN corruptedPtr[v] ELSE {}))

GepTaints == ~Matches /\ cur \notin corruptedIR /\ SomeOperandCorrupted(cur)

\* A GetElementPtrInst; the indices are kept for operand 1.
Gep ==
    /\ Running
    /\ ins[cur].kind = "gep"
    /\ GepTaints => Parses(cur)
    /\ callStack' = Advanced(top)
    /\ Add(IF Matches \/ GepTaints THEN New(cur) ELSE <<>>)
    /\ corruptedPtr' = IF GepTaints THEN PtrWith(ins[cur].args[2], cur) ELSE corruptedPtr
    /\ interCtrlDep' = Recorded
    /\ UNCHANGED <<program, head, funcEnterExitVal, corruptedBr, corruptedCallIns, aborted>>

\* Any other instruction, an InvokeInst included, is corrupted by an operand;
\* a store corrupts the place, a branch is kept for the rest of the function.
Operation ==
    LET taints == cur \notin corruptedIR /\ SomeOperandCorrupted(cur)
        branch == IF taints /\ ins[cur].kind = "br" THEN {cur} ELSE {}
        place  == IF ins[cur].kind = "store" THEN New(ins[cur].args[2]) ELSE <<>>
    IN  /\ Running
        /\ ins[cur].kind \notin {"call", "intrinsic", "gep"}
        /\ callStack' = Advanced([top EXCEPT !.localBr = @ \cup branch, !.rv = @ \/ taints])
        /\ Add(IF taints THEN <<cur>> \o place ELSE <<>>)
        /\ corruptedBr' = corruptedBr \cup branch
        /\ interCtrlDep' = Recorded
        /\ UNCHANGED <<program, head, corruptedPtr, funcEnterExitVal, corruptedCallIns, aborted>>

----------------------------------------------------------------------------
(* Start and end of an analysis.                                           *)

\* A caller of the report's call stack goes on behind its call.
EnterAfterCall ==
    /\ callStack # <<>> /\ top.pc = 0
    /\ ins[top.ins].kind \in {"call", "intrinsic"}
    /\ callStack' = <<[top EXCEPT !.pc = Place[top.ins] + 1]>> \o Tail(callStack)
    /\ UNCHANGED <<program, head, perHead, overall, aborted>>

\* The analysis starts with an instruction that is corrupted by itself; the
\* indices are kept for operand 0.
EnterAtSource ==
    LET i == top.ins
        new == i \notin corruptedIR
    IN  /\ callStack # <<>> /\ top.pc = 0
        /\ ins[i].kind \notin {"call", "intrinsic"}
        /\ ins[i].kind = "gep" /\ new => Parses(i)
        /\ callStack' = <<[top EXCEPT !.pc = Place[i], !.rv = new]>> \o Tail(callStack)
        /\ Add(New(i))
        /\ corruptedPtr' = IF ins[i].kind = "gep" /\ new
                           THEN PtrWith(ins[i].args[1], i) ELSE corruptedPtr
        /\ UNCHANGED <<program, head, funcEnterExitVal, overall, aborted>>

\* "Cannot parse GetElementPtrInst".
Abort ==
    /\ callStack # <<>>
    /\ \/ /\ top.pc = 0
          /\ ins[top.ins].kind = "gep" /\ top.ins \notin corruptedIR /\ ~Parses(top.ins)
       \/ /\ Running
          /\ ins[cur].kind = "gep" /\ GepTaints /\ ~Parses(cur)
    /\ aborted' = TRUE
    /\ callStack' = <<>>
    /\ UNCHANGED <<program, head, perHead, overall>>

\* A callee returns; the call is corrupted if an instruction of it got so.
Return ==
    LET caller == callStack[2]
        call == Code[caller.fn][caller.pc]
        entry == funcEnterExitVal[top.fn]
    IN  /\ callStack # <<>> /\ top.pc > 0 /\ Returning
        /\ top.ins = null
        /\ callStack' = <<[caller EXCEPT !.pc = @ + 1]>> \o SubSeq(callStack, 3, Len(callStack))
        /\ Add(IF top.rv THEN New(call) ELSE <<>>)
        /\ funcEnterExitVal' = With(funcEnterExitVal, top.fn,
                [entry EXCEPT !.exitVal = Cardinality(corruptedIR')])
        /\ UNCHANGED <<program, head, corruptedPtr, overall, aborted>>

\* The function of a frame is done; its call in the next frame is corrupted.
ReturnFromFrame ==
    /\ callStack # <<>> /\ top.pc > 0 /\ Returning
    /\ top.ins # null
    /\ callStack' = Tail(callStack)
    /\ Add(IF top.rv /\ Len(callStack) > 1 THEN New(callStack[2].ins) ELSE <<>>)
    /\ UNCHANGED <<program, head, corruptedPtr, funcEnterExitVal, overall, aborted>>

\* Variant: branches and calls are cleared, too, as the sets of a head are.
NextHeadClears ==
    /\ callStack = <<>> /\ ~aborted /\ head < Len(heads)
    /\ head' = head + 1
    /\ callStack' = <<Frame(heads[head'])>> \o [k \in DOMAIN Body |-> Frame(Body[k])]
    /\ corruptedIR' = {} /\ orderedIR' = <<>>
    /\ corruptedPtr' = [v \in {} |-> {}]
    /\ funcEnterExitVal' = [f \in {} |-> 0]
    /\ corruptedBr' = {} /\ corruptedCallIns' = {}
    /\ UNCHANGED <<program, interCtrlDep, aborted>>

\* The next head; the branches, calls and cross function results stay.
NextHead ==
    /\ callStack = <<>> /\ ~aborted /\ head < Len(heads)
    /\ head' = head + 1
    /\ callStack' = <<Frame(heads[head'])>> \o [k \in DOMAIN Body |-> Frame(Body[k])]
    /\ corruptedIR' = {} /\ orderedIR' = <<>>
    /\ corruptedPtr' = [v \in {} |-> {}]
    /\ funcEnterExitVal' = [f \in {} |-> 0]
    /\ UNCHANGED <<program, overall, aborted>>

Done == callStack = <<>> /\ (aborted \/ head = Len(heads))
Finished == Done /\ UNCHANGED vars

----------------------------------------------------------------------------
Init ==
    /\ ins \in Programs
    /\ heads \in HeadLists
    /\ head = 0
    /\ callStack = <<>>
    /\ corruptedIR = {} /\ orderedIR = <<>>
    /\ corruptedPtr = [v \in {} |-> {}]
    /\ funcEnterExitVal = [f \in {} |-> 0]
    /\ corruptedBr = {} /\ corruptedCallIns = {}
    /\ interCtrlDep = [l \in {} |-> {}]
    /\ aborted = FALSE

Next ==
    \/ NextHead
    \/ EnterAfterCall \/ EnterAtSource \/ Abort
    \/ IgnoredCall \/ ExternalCall \/ SkippedCall \/ AnalysedCall
    \/ Gep \/ Operation
    \/ Return \/ ReturnFromFrame
    \/ Finished

Spec == Init /\ [][Next]_vars

\* The pass is one thread that runs to its end.
FairSpec == Spec /\ WF_vars(Next)

----------------------------------------------------------------------------
(* Properties.                                                             *)

ActivationType ==
    [fn : Func, ins : Inst \cup {null}, pc : Nat, ctrlDep : BOOLEAN, localBr : SUBSET Inst,
     rv : BOOLEAN]

\* The types of the pass's data; an activation is at an instruction of its
\* function or behind the last one, and a callee is never before its first.
TypeOK ==
    /\ \A i \in Inst : ins[i].kind \in Kinds
    /\ heads \in HeadLists
    /\ head \in 0 .. Len(heads)
    /\ callStack \in Seq(ActivationType)
    /\ callStack # <<>> => head > 0
    /\ \A k \in DOMAIN callStack :
          /\ callStack[k].pc <= Len(Code[callStack[k].fn]) + 1
          /\ callStack[k].ins = null => callStack[k].pc > 0
          /\ callStack[k].localBr \subseteq ToSet(Code[callStack[k].fn])
    /\ corruptedIR \subseteq Value
    /\ orderedIR \in Seq(Value)
    /\ DOMAIN corruptedPtr \subseteq Value
    /\ DOMAIN funcEnterExitVal \subseteq Func
    /\ corruptedBr \subseteq Inst /\ corruptedCallIns \subseteq Inst
    /\ DOMAIN interCtrlDep \subseteq Line
    /\ aborted \in BOOLEAN

\* orderedcorruptedIR_, from which the printed paths are taken, lists exactly
\* the corrupted values, each of them once, although entries are added at
\* seven places of the code, by add2CrptList and without it.
OrderedIsSet ==
    /\ ToSet(orderedIR) = corruptedIR
    /\ \A j, k \in DOMAIN orderedIR : orderedIR[j] = orderedIR[k] => j = k

\* What corrupts by itself: the head, and an InvokeInst of the call stack.
Sources == {heads[head]} \cup {i \in ToSet(Body) : ins[i].kind = "invoke"}

\* v is corrupted because of values in the set B.
Reason(v, B) ==
    \/ v \in Sources
    \/ /\ v \in Inst /\ ins[v].kind \notin {"call", "intrinsic"}
       /\ ToSet(ins[v].args) \cap B # {}
    \/ /\ v \in Inst /\ ins[v].kind = "gep"
       /\ \E w \in B \cap Inst : ins[w].kind = "gep" /\ Index(w) = Index(v)
    \/ \E w \in B \cap Inst : ins[w].kind = "store" /\ ins[w].args[2] = v
    \/ \E w \in Inst : /\ ins[w].kind = "call" /\ ins[w].callee # null
                      /\ \E k \in DOMAIN Params[ins[w].callee] \cap DOMAIN ins[w].args :
                            /\ Params[ins[w].callee][k] = v
                            /\ ins[w].args[k] \in B
    \/ /\ v \in Inst /\ ins[v].kind = "call" /\ ins[v].callee # null
       /\ IF Code[ins[v].callee] = <<>>
          THEN ToSet(ins[v].args) \cap (B \cup DOMAIN corruptedPtr) # {}
          ELSE ToSet(Code[ins[v].callee]) \cap B # {}
    \/ /\ v \in ToSet(Body)
       /\ \E w \in B \cap Inst : FuncOf[w] \in {FuncOf[i] : i \in {heads[head]} \cup ToSet(Body)}

\* Every corrupted value has a reason among the values found before it, so
\* that a chain of reasons leads back to the corrupted variable: operands,
\* stores, array elements, parameters in both directions and call results.
Justified ==
    \A k \in DOMAIN orderedIR : Reason(orderedIR[k], {orderedIR[j] : j \in 1 .. k - 1})

\* A function is never entered while it is on the call stack, be it in a
\* running activation or in a frame of the report that is still to come:
\* otherwise the recursion of intraDataflowAnalysis need not end.
NoReentry ==
    \A j, k \in DOMAIN callStack :
        j # k /\ callStack[j].ins = null => callStack[j].fn # callStack[k].fn

\* Reaching i once more adds no corrupted value: not on account of an operand,
\* of an element that is corrupted already, or, at a call of a function
\* without a body, of an argument.  A call of another function does not add
\* anything itself.
Settled(i) ==
    \/ i \in corruptedIR
    \/ /\ ins[i].kind \notin {"call", "intrinsic"} => ~SomeOperandCorrupted(i)
       /\ ins[i].kind = "gep" => ~MatchesAt(i)
       /\ ins[i].kind = "call" /\ ins[i].callee # null =>
             Code[ins[i].callee] # <<>> \/ CoParamsOf(i) = {}

\* The number of corrupted values stands for the set of them: when a call is
\* skipped on account of it, one more pass over the instructions of the
\* callee would not add a value.  This is said of the callee's own
\* instructions and of the arguments as they were: not of a parameter that
\* the skipped call would corrupt (ArgsHandled), and not of the functions
\* that the callee calls in turn.
SkippedIsSettled ==
    Skips => \A i \in ToSet(Code[callee]) : Settled(i)

\* A dangerous operation is noted as control dependent across functions only
\* on account of a branch that this head has corrupted: the flag passed down
\* the calls is on only when the call that started it and the branch above
\* it are both in the lists, which are never cleared and so may explain the
\* flag by what earlier heads left there.
CrossDepHasBranch ==
    /\ \A l \in DOMAIN interCtrlDep : interCtrlDep[l] # {}
    /\ Running /\ top.ctrlDep /\ ~WithinCurFunc /\ LineOf[cur] \in danOps
          => CtrlDepBrs \cap corruptedIR # {}

\* Activation a analyses the callee of the call that b is at; a is the frame
\* of a function of the report; the analysis of a has not begun.
CalledBy(a, b) ==
    /\ a.ins = null
    /\ b.pc \in DOMAIN Code[b.fn]
    /\ ins[Code[b.fn][b.pc]].kind = "call" /\ ins[Code[b.fn][b.pc]].callee = a.fn
Reported(a) == a.ins \in {heads[head]} \cup ToSet(Body) /\ a.fn = FuncOf[a.ins]
Pending(a) == a.ins \in ToSet(Body) /\ a.pc = 0

\* What is noted of a dangerous line stays with it: a later note of the line,
\* be it of another head, replaces the list of branches (lines 503 and 523),
\* and has all of the earlier one only because neither the branches nor the
\* calls are cleared when the values of a head are.
NotesStay ==
    [][\A l \in DOMAIN interCtrlDep :
          l \in DOMAIN interCtrlDep' /\ interCtrlDep[l] \subseteq interCtrlDep'[l]]_vars

\* The parts of TaintInv.  The call stack is a chain of activations, each
\* called by the one below it, then the frame of the report that is being
\* analysed, then those that are still to come.
StackInv ==
    \A k \in DOMAIN callStack :
        \/ k + 1 \in DOMAIN callStack /\ CalledBy(callStack[k], callStack[k + 1])
        \/ /\ Reported(callStack[k])
           /\ \A j \in DOMAIN callStack : j > k => Pending(callStack[j])

\* What an activation remembers is backed by the lists of the pass.
ActivationInv ==
    \A k \in DOMAIN callStack :
        LET a == callStack[k] IN
        /\ a.localBr \subseteq corruptedBr \cap corruptedIR
        /\ a.ctrlDep => CtrlDepBrs \cap corruptedIR # {}
        /\ a.rv => ToSet(Code[a.fn]) \cap corruptedIR # {}

\* The indices kept for a pointer are those of a corrupted element.
PtrInv ==
    \A p \in DOMAIN corruptedPtr : \A x \in corruptedPtr[p] :
        \E w \in corruptedIR \cap Inst : ins[w].kind = "gep" /\ Index(w) = x

Active(f) == \E k \in DOMAIN callStack : callStack[k].ins = null /\ callStack[k].fn = f

\* enterVal is never more than the number of corrupted values, and as long
\* as it is this number what has been analysed since is settled.
SettledInv ==
    LET size == Cardinality(corruptedIR) IN
    /\ \A f \in DOMAIN funcEnterExitVal :
          /\ funcEnterExitVal[f] \in [enterVal : 0 .. size, exitVal : 0 .. size]
          /\ ~Active(f) /\ Unchanged(f) => \A i \in ToSet(Code[f]) : Settled(i)
    /\ \A k \in DOMAIN callStack :
          LET a == callStack[k] IN
          a.ins = null =>
             /\ a.fn \in DOMAIN funcEnterExitVal
             /\ funcEnterExitVal[a.fn].enterVal = size =>
                   \A j \in 1 .. a.pc - 1 : Settled(Code[a.fn][j])

\* A function without a body is entered only by a call without corrupted
\* arguments, and left at once.
ExternalInv ==
    \A k \in DOMAIN callStack :
        Code[callStack[k].fn] = <<>> =>
            /\ k = 1 /\ 2 \in DOMAIN callStack
            /\ CoParamsOf(Code[callStack[2].fn][callStack[2].pc]) = {}

\* The notes have branches that decide on noted calls.
NotesInv == \A l \in DOMAIN interCtrlDep : interCtrlDep[l] \subseteq CtrlDepBrs

\* The inductive invariant of the pass.
TaintInv ==
    /\ TypeOK
    /\ StackInv /\ NoReentry /\ ExternalInv /\ NotesInv
    /\ ActivationInv
    /\ PtrInv
    /\ OrderedIsSet
    /\ ~aborted => SettledInv

\* The analysis ends, whatever recursion the program has.
AnalysisEnds == <>Done

\* ConAnalysis.cpp:429: "Handle the corrupted var passed in as function
\* parameters": behind a call with a corrupted argument, the parameter of
\* the callee is corrupted.
ArgsHandled ==
    Skips =>
        \A k \in CoParams \cap DOMAIN Params[callee] :
            ins[cur].args[k] \in corruptedIR => Params[callee][k] \in corruptedIR
=============================================================================
