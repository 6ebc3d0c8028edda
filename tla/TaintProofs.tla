---------------------------- MODULE TaintProofs ----------------------------
(***************************************************************************)
(* Proofs about Taint, for every program, call stack and choice of heads.  *)
(***************************************************************************)
EXTENDS Taint, SequenceLemmas

----------------------------------------------------------------------------
(* The operators of the model.                                             *)

\* g is the recursive function in Picked, for indices up to m.
IsUpto(g, s, J, m) ==
    g = [n \in 0 .. m |->
            IF n = 0 THEN <<>> ELSE IF n \in J THEN Append(g[n - 1], s[n]) ELSE g[n - 1]]

\* The recursive function in Picked exists: the first length for which it
\* would not extends the function for the length before.
LEMMA PickedExists ==
    ASSUME NEW s, NEW J, NEW len \in Nat
    PROVE  \E g : IsUpto(g, s, J, len)
  <1> DEFINE T == {m \in Nat : ~\E g : IsUpto(g, s, J, m)}
  <1>1. T = {}
    <2> SUFFICES ASSUME T # {} PROVE FALSE
      OBVIOUS
    <2>1. PICK m \in T : \A n \in T : m <= n
      <3>1. T \in SUBSET Nat
        OBVIOUS
      <3> HIDE DEF T
      <3> QED
        BY <3>1, Least
    <2>2. m \in Nat /\ ~\E g : IsUpto(g, s, J, m)
      OBVIOUS
    <2>3. CASE m = 0
      <3>1. IsUpto([n \in 0 .. 0 |-> <<>>], s, J, 0)
        BY DEF IsUpto
      <3> QED
        BY <2>2, <2>3, <3>1
    <2>4. CASE m # 0
      <3>1. m - 1 \in Nat /\ ~(m <= m - 1)
        BY <2>2, <2>4
      <3>2. PICK g : IsUpto(g, s, J, m - 1)
        <4>1. m - 1 \notin T
          <5> HIDE DEF T
          <5> QED
            BY <2>1, <3>1
        <4> QED
          BY <3>1, <4>1
      <3> DEFINE last == IF m \in J THEN Append(g[m - 1], s[m]) ELSE g[m - 1]
                 h == [n \in 0 .. m |-> IF n = m THEN last ELSE g[n]]
      <3>3. \A n \in 0 .. m - 1 : g[n] = IF n = 0 THEN <<>>
                                         ELSE IF n \in J THEN Append(g[n - 1], s[n]) ELSE g[n - 1]
        BY <3>2 DEF IsUpto
      <3>4. \A n \in 0 .. m : n # m => n \in 0 .. m - 1 /\ h[n] = g[n]
        BY <2>2
      <3>5. \A n \in 0 .. m : n # 0 => n - 1 \in 0 .. m /\ h[n - 1] = g[n - 1]
        BY <2>2
      <3>6. h[m] = last
        BY <2>2
      <3> HIDE DEF last
      <3>7. \A n \in 0 .. m : h[n] = IF n = 0 THEN <<>>
                                     ELSE IF n \in J THEN Append(h[n - 1], s[n]) ELSE h[n - 1]
        <4> SUFFICES ASSUME NEW n \in 0 .. m
                     PROVE  h[n] = IF n = 0 THEN <<>>
                                   ELSE IF n \in J THEN Append(h[n - 1], s[n]) ELSE h[n - 1]
          OBVIOUS
        <4> HIDE DEF h
        <4>1. CASE n = m
          BY <2>4, <3>5, <3>6, <4>1 DEF last
        <4>2. CASE n # m
          <5>1. n \in 0 .. m - 1 /\ h[n] = g[n]
            BY <3>4, <4>2
          <5>2. CASE n = 0
            BY <3>3, <5>1, <5>2
          <5>3. CASE n # 0
            BY <3>3, <3>5, <5>1, <5>3
          <5> QED
            BY <5>2, <5>3
        <4> QED
          BY <4>1, <4>2
      <3>8. h = [n \in 0 .. m |-> h[n]]
        OBVIOUS
      <3> HIDE DEF h
      <3>9. IsUpto(h, s, J, m)
        BY <3>7, <3>8 DEF IsUpto
      <3> QED
        BY <2>2, <3>9
    <2> QED
      BY <2>3, <2>4
  <1>2. \E g : IsUpto(g, s, J, len)
    BY <1>1
  <1> QED
    BY <1>2

\* Picked lists exactly the elements at the indices, each of them once if
\* the sequence does not repeat any.
LEMMA PickedIs ==
    ASSUME NEW S, NEW s \in Seq(S), Injective(s), NEW J \in SUBSET DOMAIN s
    PROVE  /\ Picked(s, J) \in Seq(S)
           /\ Injective(Picked(s, J))
           /\ ToSet(Picked(s, J)) = {s[k] : k \in J}
  <1> DEFINE upto == CHOOSE g : g = [n \in 0 .. Len(s) |->
                          IF n = 0 THEN <<>>
                          ELSE IF n \in J THEN Append(g[n - 1], s[n]) ELSE g[n - 1]]
  <1>1. Len(s) \in Nat /\ DOMAIN s = 1 .. Len(s)
    OBVIOUS
  <1>2. upto = [n \in 0 .. Len(s) |->
                    IF n = 0 THEN <<>>
                    ELSE IF n \in J THEN Append(upto[n - 1], s[n]) ELSE upto[n - 1]]
    <2>1. \E g : IsUpto(g, s, J, Len(s))
      BY <1>1, PickedExists
    <2> QED
      BY <2>1, Zenon DEF IsUpto
  <1>3. Picked(s, J) = upto[Len(s)]
    BY DEF Picked
  <1> HIDE DEF upto
  <1>4. \A n \in 0 .. Len(s) : upto[n] = IF n = 0 THEN <<>>
                                         ELSE IF n \in J THEN Append(upto[n - 1], s[n]) ELSE upto[n - 1]
    BY <1>2
  <1> DEFINE Ok(n) == /\ upto[n] \in Seq(S)
                      /\ Injective(upto[n])
                      /\ ToSet(upto[n]) = {s[k] : k \in J \cap (1 .. n)}
             T == {n \in 0 .. Len(s) : ~Ok(n)}
  <1>5. T = {}
    <2> SUFFICES ASSUME T # {} PROVE FALSE
      OBVIOUS
    <2>1. PICK m \in T : \A n \in T : m <= n
      <3>1. T \in SUBSET Nat
        BY <1>1
      <3> HIDE DEF T
      <3> QED
        BY <3>1, Least
    <2>2. m \in 0 .. Len(s) /\ ~Ok(m)
      OBVIOUS
    <2>3. CASE m = 0
      <3>1. upto[m] = <<>>
        BY <1>4, <2>2, <2>3
      <3>2. J \cap (1 .. m) = {}
        BY <2>3
      <3>3. ToSet(<<>>) = {} /\ Injective(<<>>) /\ <<>> \in Seq(S)
        BY DEF ToSet, Injective
      <3> QED
        BY <2>2, <3>1, <3>2, <3>3
    <2>4. CASE m # 0
      <3>1. m - 1 \in 0 .. Len(s) /\ m \in DOMAIN s
        BY <1>1, <2>2, <2>4
      <3>2. m - 1 \notin T
        <4>1. ~(m <= m - 1)
          BY <1>1, <2>2
        <4> HIDE DEF T
        <4> QED
          BY <2>1, <4>1
      <3>3. Ok(m - 1)
        BY <3>1, <3>2
      <3>4. CASE m \in J
        <4>1. upto[m] = Append(upto[m - 1], s[m])
          BY <1>4, <2>2, <2>4, <3>4
        <4>2. J \cap (1 .. m) = (J \cap (1 .. m - 1)) \cup {m}
          BY <1>1, <2>2, <2>4, <3>4
        <4>3. s[m] \in S /\ s[m] \notin ToSet(upto[m - 1])
          <5>1. \A k \in J \cap (1 .. m - 1) : k \in DOMAIN s /\ k # m
            BY <1>1, <2>2
          <5>2. \A k \in J \cap (1 .. m - 1) : s[k] # s[m]
            BY <3>1, <5>1 DEF Injective
          <5> QED
            BY <3>1, <3>3, <5>2
        <4>4. /\ upto[m] \in Seq(S)
              /\ ToSet(upto[m]) = ToSet(upto[m - 1]) \cup {s[m]}
          BY <3>3, <4>1, <4>3, AppendToSet
        <4>5. Injective(upto[m])
          <5> DEFINE u == upto[m - 1]
          <5>1. u \in Seq(S) /\ Injective(u) /\ s[m] \notin ToSet(u) /\ upto[m] = Append(u, s[m])
            BY <3>3, <4>1, <4>3
          <5> HIDE DEF u
          <5>2. \A j \in DOMAIN u : u[j] # s[m]
            BY <5>1 DEF ToSet
          <5>3. /\ DOMAIN u = 1 .. Len(u) /\ Len(u) \in Nat
                /\ DOMAIN Append(u, s[m]) = 1 .. Len(u) + 1
                /\ \A j \in 1 .. Len(u) : Append(u, s[m])[j] = u[j]
                /\ Append(u, s[m])[Len(u) + 1] = s[m]
            BY <5>1
          <5> QED
            BY <5>1, <5>2, <5>3 DEF Injective
        <4>6. ToSet(upto[m]) = {s[k] : k \in J \cap (1 .. m)}
          BY <3>3, <4>2, <4>4
        <4> QED
          BY <2>2, <4>4, <4>5, <4>6
      <3>5. CASE m \notin J
        <4>1. upto[m] = upto[m - 1]
          BY <1>4, <2>2, <2>4, <3>5
        <4>2. J \cap (1 .. m) = J \cap (1 .. m - 1)
          BY <1>1, <2>2, <2>4, <3>5
        <4> QED
          BY <2>2, <3>3, <4>1, <4>2
      <3> QED
        BY <3>4, <3>5
    <2> QED
      BY <2>3, <2>4
  <1>6. Ok(Len(s))
    <2>1. Len(s) \in 0 .. Len(s)
      BY <1>1
    <2> HIDE DEF Ok
    <2> QED
      BY <1>5, <2>1
  <1>7. J \cap (1 .. Len(s)) = J
    BY <1>1
  <1> QED
    BY <1>3, <1>6, <1>7

\* Every instruction has a function and a place in it.
LEMMA Placed ==
    ASSUME NEW i \in Inst
    PROVE  /\ FuncOf[i] \in Func
           /\ Place[i] \in DOMAIN Code[FuncOf[i]]
           /\ Code[FuncOf[i]][Place[i]] = i
  <1>1. PICK f \in Func : \E k \in DOMAIN Code[f] : Code[f][k] = i
    BY CodeAssumption
  <1>2. i \in ToSet(Code[f])
    BY <1>1 DEF ToSet
  <1>3. FuncOf[i] \in Func /\ i \in ToSet(Code[FuncOf[i]])
    BY <1>2, Zenon DEF FuncOf
  <1>4. \E k \in DOMAIN Code[FuncOf[i]] : Code[FuncOf[i]][k] = i
    BY <1>3 DEF ToSet
  <1> QED
    BY <1>3, <1>4, Zenon DEF Place

\* The function of the instructions of f is f.
LEMMA InCode ==
    ASSUME NEW f \in Func, NEW k \in DOMAIN Code[f]
    PROVE  /\ Code[f][k] \in Inst
           /\ FuncOf[Code[f][k]] = f
           /\ Code[f][k] \in ToSet(Code[f])
           /\ DOMAIN Code[f] = 1 .. Len(Code[f]) /\ Len(Code[f]) \in Nat
  <1>1. Code[f] \in Seq(Inst)
    BY CodeAssumption
  <1>2. Code[f][k] \in Inst /\ DOMAIN Code[f] = 1 .. Len(Code[f]) /\ Len(Code[f]) \in Nat
    BY <1>1
  <1> DEFINE i == Code[f][k]
             g == FuncOf[i]
  <1>3. g \in Func /\ Place[i] \in DOMAIN Code[g] /\ Code[g][Place[i]] = i
    BY <1>2, Placed
  <1>4. g = f
    <2>1. Code[f][k] = i
      OBVIOUS
    <2>2. \A e \in Func : \A j \in DOMAIN Code[e] : Code[e][j] = Code[f][k] => e = f
      BY CodeAssumption
    <2> HIDE DEF i, g
    <2> QED
      BY <1>3, <2>1, <2>2
  <1> QED
    BY <1>2, <1>4 DEF ToSet

LEMMA PlaceIs ==
    ASSUME NEW i \in Inst
    PROVE  Place[i] \in Nat /\ Place[i] + 1 \in Nat
  <1>1. FuncOf[i] \in Func /\ Place[i] \in DOMAIN Code[FuncOf[i]]
    BY Placed
  <1> QED
    BY <1>1, InCode

\* The types of the instructions.
LEMMA Instructions ==
    ASSUME ins \in Programs, NEW i \in Inst
    PROVE  /\ ins[i].kind \in Kinds
           /\ ins[i].args \in Seq(Value)
           /\ ins[i].callee \in Func \cup {null}
  <1>1. ins \in [Inst -> [kind : Kinds, args : Seq(Value), callee : Func \cup {null}]]
    BY ProgramAssumption
  <1> QED
    BY <1>1

\* The current activation, and the current instruction in it.
LEMMA TopIs ==
    ASSUME TypeOK, callStack # <<>>
    PROVE  /\ callStack \in Seq(ActivationType)
           /\ Len(callStack) \in Nat /\ DOMAIN callStack = 1 .. Len(callStack)
           /\ 1 \in DOMAIN callStack
           /\ top = callStack[1] /\ top \in ActivationType
           /\ Code[top.fn] \in Seq(Inst) /\ Len(Code[top.fn]) \in Nat
           /\ top.pc \in 0 .. Len(Code[top.fn]) + 1
           /\ top.localBr \subseteq ToSet(Code[top.fn])
           /\ top.ins = null => top.pc > 0
  <1>1. callStack \in Seq(ActivationType)
    BY DEF TypeOK
  <1>2. /\ Len(callStack) \in Nat /\ DOMAIN callStack = 1 .. Len(callStack)
        /\ 1 \in DOMAIN callStack
        /\ top = callStack[1] /\ top \in ActivationType
    BY <1>1 DEF top
  <1>3. /\ top.pc <= Len(Code[top.fn]) + 1
        /\ top.ins = null => top.pc > 0
        /\ top.localBr \subseteq ToSet(Code[top.fn])
    BY <1>2 DEF TypeOK
  <1>4. top.fn \in Func /\ top.pc \in Nat
    BY <1>2 DEF ActivationType
  <1>5. Code[top.fn] \in Seq(Inst)
    BY <1>4, CodeAssumption
  <1>6. Len(Code[top.fn]) \in Nat
    BY <1>5
  <1> QED
    BY <1>1, <1>2, <1>3, <1>4, <1>5, <1>6

LEMMA CurIs ==
    ASSUME TypeOK, Running
    PROVE  /\ top.fn \in Func /\ top.pc \in DOMAIN Code[top.fn]
           /\ cur \in Inst
           /\ cur \in ToSet(Code[top.fn])
           /\ FuncOf[cur] = top.fn
  <1>1. callStack # <<>> /\ top.pc > 0 /\ top.pc # Len(Code[top.fn]) + 1
    BY DEF Running, Returning
  <1>2. /\ top \in ActivationType
        /\ Code[top.fn] \in Seq(Inst) /\ Len(Code[top.fn]) \in Nat
        /\ top.pc \in 0 .. Len(Code[top.fn]) + 1
    BY <1>1, TopIs
  <1>3. top.fn \in Func /\ top.pc \in DOMAIN Code[top.fn]
    BY <1>1, <1>2 DEF ActivationType
  <1> QED
    BY <1>3, InCode DEF cur

----------------------------------------------------------------------------
(* How a step changes the call stack.                                      *)

\* The current activation moves to another instruction.
Moves ==
    /\ callStack # <<>> /\ (Running \/ top.ins # null)
    /\ \E fr \in ActivationType :
          /\ fr.fn = top.fn /\ fr.ins = top.ins /\ fr.ctrlDep = top.ctrlDep
          /\ fr.pc \in 1 .. Len(Code[top.fn]) + 1
          /\ fr.localBr \subseteq ToSet(Code[top.fn])
          /\ callStack' = <<fr>> \o Tail(callStack)

\* A callee is entered.
Enters ==
    /\ AnalysedCall /\ Considered
    /\ \E fr \in ActivationType :
          /\ fr.fn = callee /\ fr.ins = null /\ fr.pc = 1 /\ fr.localBr = {}
          /\ callStack' = <<fr>> \o callStack

\* A callee or a frame is left.
Leaves ==
    /\ callStack # <<>> /\ top.pc > 0
    /\ \/ /\ top.ins = null
          /\ callStack' = <<[callStack[2] EXCEPT !.pc = @ + 1]>> \o SubSeq(callStack, 3, Len(callStack))
       \/ /\ top.ins # null
          /\ callStack' = Tail(callStack)

\* The frames of the report are put on the stack for the next head.
Starts ==
    /\ callStack = <<>> /\ head < Len(heads) /\ head' = head + 1
    /\ callStack' = <<Frame(heads[head'])>> \o [k \in DOMAIN Body |-> Frame(Body[k])]

LEMMA AdvancedMoves ==
    ASSUME TypeOK, Running, NEW br \in SUBSET {cur}, NEW rv \in BOOLEAN,
           callStack' = Advanced([top EXCEPT !.localBr = @ \cup br, !.rv = rv])
    PROVE  Moves
  <1>1. callStack # <<>> /\ top.pc > 0 /\ top.pc # Len(Code[top.fn]) + 1
    BY DEF Running, Returning
  <1>2. /\ top \in ActivationType
        /\ Len(Code[top.fn]) \in Nat
        /\ top.pc \in 0 .. Len(Code[top.fn]) + 1
        /\ top.localBr \subseteq ToSet(Code[top.fn])
    BY <1>1, TopIs
  <1>3. cur \in Inst /\ cur \in ToSet(Code[top.fn])
    BY CurIs
  <1> DEFINE mid == [top EXCEPT !.localBr = @ \cup br, !.rv = rv]
             fr == [mid EXCEPT !.pc = @ + 1]
  <1>4. /\ fr \in ActivationType
        /\ fr.fn = top.fn /\ fr.ins = top.ins /\ fr.ctrlDep = top.ctrlDep
        /\ fr.pc = top.pc + 1
        /\ fr.localBr = top.localBr \cup br
    <2>1. top.localBr \cup br \in SUBSET Inst
      BY <1>2, <1>3 DEF ActivationType
    <2>2. /\ mid \in ActivationType
          /\ mid.fn = top.fn /\ mid.ins = top.ins /\ mid.ctrlDep = top.ctrlDep
          /\ mid.pc = top.pc /\ mid.localBr = top.localBr \cup br
      BY <1>2, <2>1 DEF ActivationType
    <2> HIDE DEF mid
    <2>3. /\ fr \in ActivationType
          /\ fr.fn = mid.fn /\ fr.ins = mid.ins /\ fr.ctrlDep = mid.ctrlDep
          /\ fr.pc = mid.pc + 1 /\ fr.localBr = mid.localBr
      BY <2>2 DEF ActivationType
    <2> QED
      BY <2>2, <2>3
  <1>5. fr.pc \in 1 .. Len(Code[top.fn]) + 1
    BY <1>1, <1>2, <1>4
  <1>6. callStack' = <<fr>> \o Tail(callStack)
    BY DEF Advanced
  <1> HIDE DEF fr
  <1> QED
    BY <1>1, <1>2, <1>3, <1>4, <1>5, <1>6 DEF Moves

\* The same for an activation that only goes on to the next instruction.
LEMMA TopMoves ==
    ASSUME TypeOK, Running, callStack' = Advanced(top)
    PROVE  Moves
  <1>1. callStack # <<>>
    BY DEF Running
  <1>2. top \in ActivationType
    BY <1>1, TopIs
  <1>3. top = [top EXCEPT !.localBr = @ \cup {}, !.rv = top.rv] /\ top.rv \in BOOLEAN
    BY <1>2 DEF ActivationType
  <1> QED
    BY <1>3, AdvancedMoves

LEMMA AnalysedEnters ==
    ASSUME TypeOK, ins \in Programs, AnalysedCall
    PROVE  Enters
  <1> DEFINE flag == top.ctrlDep \/ WithinCurFunc
             fr == Activation(callee, flag)
  <1>1. Considered /\ callStack' = <<fr>> \o callStack
    BY DEF AnalysedCall
  <1>2. callee \in Func
    <2>1. cur \in Inst /\ callee # null
      BY <1>1, CurIs DEF Considered
    <2> QED
      BY <2>1, Instructions DEF callee
  <1>3. flag \in BOOLEAN
    BY Zenon
  <1> HIDE DEF flag
  <1>4. /\ fr \in ActivationType
        /\ fr.fn = callee /\ fr.ins = null /\ fr.pc = 1 /\ fr.localBr = {}
    BY <1>2, <1>3 DEF Activation, ActivationType
  <1> HIDE DEF fr
  <1> QED
    BY <1>1, <1>4 DEF Enters

\* Every step of the pass changes the call stack in one of these ways, or
\* empties it.
StackStep ==
    /\ UNCHANGED program
    /\ \/ Starts
       \/ UNCHANGED head /\ (Moves \/ Enters \/ Leaves \/ UNCHANGED vars \/ callStack' = <<>>)

LEMMA Steps ==
    ASSUME TypeOK, ins \in Programs, StackInv, [Next]_vars
    PROVE  StackStep
  <1>1. UNCHANGED program /\ (Starts \/ UNCHANGED head)
    BY DEF Next, vars, program, NextHead, Starts, EnterAfterCall, EnterAtSource, Abort,
           IgnoredCall, ExternalCall, SkippedCall, AnalysedCall, Gep, Operation, Return,
           ReturnFromFrame, Finished
  <1>0. CASE NextHead
    BY <1>0, <1>1 DEF NextHead, Starts, StackStep
  <1>2. ASSUME callStack # <<>>, top.pc = 0,
               NEW pc \in {Place[top.ins], Place[top.ins] + 1}, NEW rv \in BOOLEAN,
               callStack' = <<[top EXCEPT !.pc = pc, !.rv = rv]>> \o Tail(callStack)
        PROVE  Moves
    <2>1. /\ 1 \in DOMAIN callStack /\ top = callStack[1]
          /\ top.ins # null /\ top \in ActivationType
          /\ top.localBr \subseteq ToSet(Code[top.fn])
          /\ Len(Code[top.fn]) \in Nat
      BY <1>2, TopIs
    <2>2. top.fn = FuncOf[top.ins]
      BY <2>1 DEF StackInv, CalledBy, Reported
    <2>3. top.ins \in Inst /\ top.fn \in Func
      BY <2>1 DEF ActivationType
    <2>4. Place[top.ins] \in DOMAIN Code[top.fn]
      BY <2>2, <2>3, Placed
    <2>5. Place[top.ins] \in 1 .. Len(Code[top.fn])
      BY <2>3, <2>4, InCode
    <2>6. pc \in Nat /\ pc \in 1 .. Len(Code[top.fn]) + 1
      BY <2>1, <2>5
    <2> DEFINE fr == [top EXCEPT !.pc = pc, !.rv = rv]
    <2>7. /\ fr \in ActivationType
          /\ fr.fn = top.fn /\ fr.ins = top.ins /\ fr.ctrlDep = top.ctrlDep
          /\ fr.pc = pc
          /\ fr.localBr = top.localBr
      <3>1. pc \in Nat /\ top \in ActivationType /\ rv \in BOOLEAN
        BY <2>1, <2>6
      <3> QED
        BY <3>1 DEF ActivationType
    <2>8. callStack' = <<fr>> \o Tail(callStack)
      BY <1>2
    <2> HIDE DEF fr
    <2> QED
      BY <1>2, <2>1, <2>6, <2>7, <2>8 DEF Moves
  <1>3. CASE EnterAfterCall
    <2>1. /\ callStack # <<>> /\ top.pc = 0
          /\ callStack' = <<[top EXCEPT !.pc = Place[top.ins] + 1]>> \o Tail(callStack)
      BY <1>3 DEF EnterAfterCall
    <2>2. top \in ActivationType
      BY <2>1, TopIs
    <2>3. /\ top.rv \in BOOLEAN
          /\ [top EXCEPT !.pc = Place[top.ins] + 1] =
             [top EXCEPT !.pc = Place[top.ins] + 1, !.rv = top.rv]
      BY <2>2 DEF ActivationType
    <2>4. Moves
      BY <1>2, <2>1, <2>3
    <2> QED
      BY <1>1, <2>4 DEF StackStep
  <1>4. CASE EnterAtSource
    <2> DEFINE new == top.ins \notin corruptedIR
    <2>1. /\ callStack # <<>> /\ top.pc = 0
          /\ callStack' = <<[top EXCEPT !.pc = Place[top.ins], !.rv = new]>> \o Tail(callStack)
      BY <1>4 DEF EnterAtSource
    <2>2. new \in BOOLEAN
      OBVIOUS
    <2> HIDE DEF new
    <2>3. Moves
      BY <1>2, <2>1, <2>2
    <2> QED
      BY <1>1, <2>3 DEF StackStep
  <1>5. CASE Abort
    BY <1>1, <1>5 DEF Abort, StackStep
  <1>6. CASE IgnoredCall
    BY <1>1, <1>6, TopMoves DEF IgnoredCall, StackStep
  <1>7. CASE ExternalCall
    BY <1>1, <1>7, TopMoves DEF ExternalCall, Considered, StackStep
  <1>8. CASE SkippedCall
    BY <1>1, <1>8, TopMoves DEF SkippedCall, Skips, Considered, StackStep
  <1>9. CASE AnalysedCall
    BY <1>1, <1>9, AnalysedEnters DEF AnalysedCall, StackStep
  <1>10. CASE Gep
    BY <1>1, <1>10, TopMoves DEF Gep, StackStep
  <1>11. CASE Operation
    <2> DEFINE taints == cur \notin corruptedIR /\ SomeOperandCorrupted(cur)
               branch == IF taints /\ ins[cur].kind = "br" THEN {cur} ELSE {}
               rv == top.rv \/ taints
    <2>1. Running /\ callStack' = Advanced([top EXCEPT !.localBr = @ \cup branch, !.rv = rv])
      BY <1>11 DEF Operation
    <2>2. branch \in SUBSET {cur} /\ rv \in BOOLEAN
      BY Zenon
    <2> HIDE DEF branch, rv
    <2>3. Moves
      BY <2>1, <2>2, AdvancedMoves
    <2> QED
      BY <1>1, <2>3 DEF StackStep
  <1>12. CASE Return
    BY <1>1, <1>12 DEF Return, Leaves, StackStep
  <1>13. CASE ReturnFromFrame
    BY <1>1, <1>13 DEF ReturnFromFrame, Leaves, StackStep
  <1>14. CASE Finished \/ UNCHANGED vars
    BY <1>1, <1>14 DEF Finished, StackStep
  <1> QED
    BY <1>0, <1>3, <1>4, <1>5, <1>6, <1>7, <1>8, <1>9, <1>10, <1>11, <1>12, <1>13, <1>14 DEF Next

----------------------------------------------------------------------------
(* The call stack: a chain of activations of different functions.          *)

\* The part of TypeOK about the call stack.
StackTyped ==
    /\ callStack \in Seq(ActivationType)
    /\ \A k \in DOMAIN callStack :
          /\ callStack[k].pc <= Len(Code[callStack[k].fn]) + 1
          /\ callStack[k].ins = null => callStack[k].pc > 0
          /\ callStack[k].localBr \subseteq ToSet(Code[callStack[k].fn])

StackOK == StackTyped /\ StackInv /\ NoReentry

LEMMA MovesKeeps ==
    ASSUME TypeOK, StackInv, NoReentry, UNCHANGED <<program, head>>, Moves
    PROVE  StackOK'
  <1>1. PICK fr \in ActivationType :
          /\ fr.fn = top.fn /\ fr.ins = top.ins /\ fr.ctrlDep = top.ctrlDep
          /\ fr.pc \in 1 .. Len(Code[top.fn]) + 1
          /\ fr.localBr \subseteq ToSet(Code[top.fn])
          /\ callStack' = <<fr>> \o Tail(callStack)
    BY DEF Moves
  <1>2. callStack # <<>>
    BY DEF Moves
  <1>3. /\ callStack \in Seq(ActivationType) /\ DOMAIN callStack = 1 .. Len(callStack)
        /\ 1 \in DOMAIN callStack /\ top = callStack[1]
        /\ Len(Code[top.fn]) \in Nat /\ Len(callStack) \in Nat
    BY <1>2, TopIs
  <1>4. /\ callStack' \in Seq(ActivationType)
        /\ DOMAIN callStack' = DOMAIN callStack
        /\ callStack'[1] = fr
        /\ \A k \in DOMAIN callStack : k # 1 => callStack'[k] = callStack[k]
    BY <1>1, <1>2, <1>3, ReplaceTop
  <1>5. \A k \in DOMAIN callStack :
           /\ callStack'[k].fn = callStack[k].fn
           /\ callStack'[k].ins = callStack[k].ins
    BY <1>1, <1>3, <1>4
  <1>6. StackTyped'
    <2>1. fr.pc <= Len(Code[fr.fn]) + 1 /\ fr.pc > 0 /\ fr.localBr \subseteq ToSet(Code[fr.fn])
      BY <1>1, <1>3
    <2> QED
      BY <1>3, <1>4, <2>1 DEF StackTyped, TypeOK
  <1>7. StackInv'
    <2>1. /\ ins' = ins /\ heads' = heads /\ head' = head
          /\ \A k \in DOMAIN callStack : k # 1 => k + 1 # 1 /\ \A j \in DOMAIN callStack : j > k => j # 1
      BY <1>3 DEF program
    <2>2. \A a, b : CalledBy(a, b)' <=> CalledBy(a, b)
      BY <2>1 DEF CalledBy
    <2>3. \A a : (Reported(a)' <=> Reported(a)) /\ (Pending(a)' <=> Pending(a))
      BY <2>1 DEF Reported, Pending
    <2>4. \A b : CalledBy(callStack[1], b) => CalledBy(fr, b)
      BY <1>1, <1>3 DEF CalledBy
    <2>5. Reported(callStack[1]) => Reported(fr)
      BY <1>1, <1>3 DEF Reported
    <2>6. \A k, j \in DOMAIN callStack : j > k => j # 1
      BY <1>3
    <2>7. \A k \in DOMAIN callStack : k + 1 # 1
      BY <1>3
    <2> SUFFICES ASSUME NEW k \in DOMAIN callStack
                 PROVE  \/ k + 1 \in DOMAIN callStack /\ CalledBy(callStack'[k], callStack'[k + 1])
                        \/ /\ Reported(callStack'[k])
                           /\ \A j \in DOMAIN callStack : j > k => Pending(callStack'[j])
      BY <1>4, <2>2, <2>3 DEF StackInv
    <2>8. \/ k + 1 \in DOMAIN callStack /\ CalledBy(callStack[k], callStack[k + 1])
          \/ /\ Reported(callStack[k])
             /\ \A j \in DOMAIN callStack : j > k => Pending(callStack[j])
      BY DEF StackInv
    <2> QED
      BY <1>4, <2>4, <2>5, <2>6, <2>7, <2>8
  <1>8. NoReentry'
    BY <1>4, <1>5 DEF NoReentry
  <1> QED
    BY <1>6, <1>7, <1>8 DEF StackOK

LEMMA EntersKeeps ==
    ASSUME TypeOK, StackInv, NoReentry, UNCHANGED <<program, head>>, Enters
    PROVE  StackOK'
  <1>1. PICK fr \in ActivationType :
          /\ fr.fn = callee /\ fr.ins = null /\ fr.pc = 1 /\ fr.localBr = {}
          /\ callStack' = <<fr>> \o callStack
    BY DEF Enters
  <1>2. Running /\ callStack # <<>> /\ ins[cur].kind = "call" /\ ~Cycle(callee)
    BY DEF Enters, Considered, Running
  <1>3. /\ callStack \in Seq(ActivationType) /\ DOMAIN callStack = 1 .. Len(callStack)
        /\ 1 \in DOMAIN callStack /\ top = callStack[1]
        /\ Len(callStack) \in Nat
    BY <1>2, TopIs
  <1>4. /\ callStack' \in Seq(ActivationType)
        /\ DOMAIN callStack' = 1 .. Len(callStack) + 1
        /\ callStack'[1] = fr
        /\ \A k \in DOMAIN callStack : callStack'[k + 1] = callStack[k]
    BY <1>1, <1>3, PushTop
  <1>5. \A k \in DOMAIN callStack' : k # 1 => \E n \in DOMAIN callStack : k = n + 1
    <2> SUFFICES ASSUME NEW k \in DOMAIN callStack', k # 1
                 PROVE  k - 1 \in DOMAIN callStack /\ k = (k - 1) + 1
      OBVIOUS
    <2> QED
      BY <1>3, <1>4
  <1>6. StackTyped'
    <2>1. callee \in Func
      BY <1>1 DEF ActivationType
    <2>2. Len(Code[callee]) \in Nat
      BY <2>1, CodeAssumption
    <2>3. fr.pc <= Len(Code[fr.fn]) + 1 /\ fr.pc > 0 /\ fr.localBr \subseteq ToSet(Code[fr.fn])
      BY <1>1, <2>2
    <2> QED
      BY <1>4, <1>5, <2>3 DEF StackTyped, TypeOK
  <1>7. StackInv'
    <2> DEFINE new == callStack'
    <2>1. /\ \A a, b : CalledBy(a, b)' <=> CalledBy(a, b)
          /\ \A a : (Reported(a)' <=> Reported(a)) /\ (Pending(a)' <=> Pending(a))
      BY DEF CalledBy, Reported, Pending, program
    <2> SUFFICES ASSUME NEW k \in DOMAIN new
                 PROVE  \/ k + 1 \in DOMAIN new /\ CalledBy(new[k], new[k + 1])
                        \/ /\ Reported(new[k])
                           /\ \A j \in DOMAIN new : j > k => Pending(new[j])
      BY <2>1 DEF StackInv
    <2>2. CASE k = 1
      <3>1. k + 1 \in DOMAIN new /\ new[k + 1] = top
        BY <1>3, <1>4, <2>2
      <3>2. top.pc \in DOMAIN Code[top.fn]
        BY <1>2, CurIs
      <3>3. CalledBy(fr, top)
        BY <1>1, <1>2, <3>2 DEF CalledBy, callee, cur
      <3> QED
        BY <1>4, <2>2, <3>1, <3>3
    <2>3. CASE k # 1
      <3>1. PICK n \in DOMAIN callStack : k = n + 1
        BY <1>5, <2>3
      <3>2. CASE n + 1 \in DOMAIN callStack /\ CalledBy(callStack[n], callStack[n + 1])
        <4>1. k + 1 \in DOMAIN new /\ new[k] = callStack[n] /\ new[k + 1] = callStack[n + 1]
          BY <1>3, <1>4, <3>1, <3>2
        <4> QED
          BY <3>2, <4>1
      <3>3. CASE /\ Reported(callStack[n])
                 /\ \A j \in DOMAIN callStack : j > n => Pending(callStack[j])
        <4>1. new[k] = callStack[n]
          BY <1>4, <3>1
        <4>2. ASSUME NEW j \in DOMAIN new, j > k PROVE Pending(new[j])
          <5>1. j # 1
            BY <1>3, <3>1, <4>2
          <5>2. PICK m \in DOMAIN callStack : j = m + 1
            BY <1>5, <5>1
          <5>3. m > n
            BY <1>3, <3>1, <4>2, <5>2
          <5> QED
            BY <1>4, <3>3, <5>2, <5>3
        <4> QED
          BY <3>3, <4>1, <4>2
      <3> QED
        BY <3>2, <3>3 DEF StackInv
    <2> QED
      BY <2>2, <2>3
  <1>8. NoReentry'
    <2>1. \A n \in DOMAIN callStack : callStack[n].fn # fr.fn
      BY <1>1, <1>2 DEF Cycle
    <2> SUFFICES ASSUME NEW j \in DOMAIN callStack', NEW k \in DOMAIN callStack', j # k,
                        callStack'[j].ins = null
                 PROVE  callStack'[j].fn # callStack'[k].fn
      BY DEF NoReentry
    <2>2. CASE j = 1 \/ k = 1
      BY <1>4, <1>5, <2>1, <2>2
    <2>3. CASE j # 1 /\ k # 1
      <3>1. PICK n \in DOMAIN callStack, m \in DOMAIN callStack : j = n + 1 /\ k = m + 1
        BY <1>5, <2>3
      <3> QED
        BY <1>4, <3>1 DEF NoReentry
    <2> QED
      BY <2>2, <2>3
  <1> QED
    BY <1>6, <1>7, <1>8 DEF StackOK

LEMMA ShiftKeeps ==
    ASSUME TypeOK, StackInv, NoReentry, UNCHANGED <<program, head>>,
           callStack' \in Seq(ActivationType), DOMAIN callStack' = 1 .. Len(callStack) - 1,
           \A k \in DOMAIN callStack' :
              /\ callStack'[k].fn = callStack[k + 1].fn
              /\ callStack'[k].ins = callStack[k + 1].ins
              /\ callStack'[k].localBr = callStack[k + 1].localBr
              /\ k # 1 => callStack'[k] = callStack[k + 1],
           1 \in DOMAIN callStack' =>
              /\ callStack'[1].pc <= Len(Code[callStack'[1].fn]) + 1
              /\ callStack'[1].ins = null => callStack'[1].pc > 0
    PROVE  StackOK'
  <1>1. callStack \in Seq(ActivationType)
    BY DEF TypeOK
  <1>2. Len(callStack) \in Nat /\ DOMAIN callStack = 1 .. Len(callStack)
    BY <1>1
  <1>3. \A k \in DOMAIN callStack' : k + 1 \in DOMAIN callStack
    BY <1>2
  <1>4. StackTyped'
    <2> SUFFICES ASSUME NEW k \in DOMAIN callStack'
                 PROVE  /\ callStack'[k].pc <= Len(Code[callStack'[k].fn]) + 1
                        /\ callStack'[k].ins = null => callStack'[k].pc > 0
                        /\ callStack'[k].localBr \subseteq ToSet(Code[callStack'[k].fn])
      BY DEF StackTyped
    <2> QED
      BY <1>3 DEF TypeOK
  <1>5. StackInv'
    <2> DEFINE new == callStack'
    <2>1. /\ \A a, b : CalledBy(a, b)' <=> CalledBy(a, b)
          /\ \A a : (Reported(a)' <=> Reported(a)) /\ (Pending(a)' <=> Pending(a))
      BY DEF CalledBy, Reported, Pending, program
    <2> SUFFICES ASSUME NEW k \in DOMAIN new
                 PROVE  \/ k + 1 \in DOMAIN new /\ CalledBy(new[k], new[k + 1])
                        \/ /\ Reported(new[k])
                           /\ \A j \in DOMAIN new : j > k => Pending(new[j])
      BY <2>1 DEF StackInv
    <2>2. k \in Nat /\ k + 1 \in DOMAIN callStack
      BY <1>2, <1>3
    <2>3. CASE k + 2 \in DOMAIN callStack /\ CalledBy(callStack[k + 1], callStack[k + 2])
      <3>1. k + 1 \in DOMAIN new /\ k + 1 # 1 /\ (k + 1) + 1 = k + 2
        BY <1>2, <2>2, <2>3
      <3>2. new[k + 1] = callStack[k + 2]
        BY <3>1
      <3> QED
        BY <2>3, <3>1, <3>2 DEF CalledBy
    <2>4. CASE /\ Reported(callStack[k + 1])
               /\ \A j \in DOMAIN callStack : j > k + 1 => Pending(callStack[j])
      <3>1. Reported(new[k])
        BY <2>4 DEF Reported
      <3>2. ASSUME NEW j \in DOMAIN new, j > k PROVE Pending(new[j])
        <4>1. j # 1 /\ j + 1 \in DOMAIN callStack /\ j + 1 > k + 1
          BY <1>2, <2>2, <3>2
        <4> QED
          BY <2>4, <4>1
      <3> QED
        BY <3>1, <3>2
    <2> QED
      <3>1. (k + 1) + 1 = k + 2
        BY <2>2
      <3> QED
        BY <2>2, <2>3, <2>4, <3>1 DEF StackInv
  <1>6. NoReentry'
    <2> SUFFICES ASSUME NEW j \in DOMAIN callStack', NEW k \in DOMAIN callStack', j # k,
                        callStack'[j].ins = null
                 PROVE  callStack'[j].fn # callStack'[k].fn
      BY DEF NoReentry
    <2>1. j + 1 \in DOMAIN callStack /\ k + 1 \in DOMAIN callStack /\ j + 1 # k + 1
      BY <1>2, <1>3
    <2> QED
      BY <2>1 DEF NoReentry
  <1> QED
    BY <1>4, <1>5, <1>6 DEF StackOK

\* The head and the calls below it are instructions.
LEMMA SourcesAre ==
    ASSUME TypeOK, callStack # <<>>
    PROVE  heads[head] \in Inst /\ ToSet(Body) \subseteq Inst
  <1>1. heads \in Seq(Inst) /\ head \in 1 .. Len(heads)
    BY CodeAssumption DEF TypeOK
  <1>2. heads[head] \in Inst
    BY <1>1
  <1>3. Body \in Seq(Inst)
    BY CodeAssumption
  <1> QED
    BY <1>2, <1>3 DEF ToSet

\* The activation below a callee is at the call.
LEMMA CallerIs ==
    ASSUME TypeOK, StackInv, callStack # <<>>, top.ins = null
    PROVE  /\ Len(callStack) > 1
           /\ 2 \in DOMAIN callStack /\ callStack[2] \in ActivationType
           /\ CalledBy(top, callStack[2])
  <1>1. /\ callStack \in Seq(ActivationType) /\ DOMAIN callStack = 1 .. Len(callStack)
        /\ 1 \in DOMAIN callStack /\ top = callStack[1] /\ Len(callStack) \in Nat
    BY TopIs
  <1>2. ~Reported(top)
    BY InstAssumption, SourcesAre DEF Reported
  <1> QED
    BY <1>1, <1>2 DEF StackInv

LEMMA LeavesKeeps ==
    ASSUME TypeOK, StackInv, NoReentry, UNCHANGED <<program, head>>, Leaves
    PROVE  StackOK'
  <1>1. callStack # <<>>
    BY DEF Leaves
  <1>2. /\ callStack \in Seq(ActivationType) /\ DOMAIN callStack = 1 .. Len(callStack)
        /\ 1 \in DOMAIN callStack /\ top = callStack[1] /\ Len(callStack) \in Nat
    BY <1>1, TopIs
  <1>3. CASE /\ top.ins = null
             /\ callStack' = <<[callStack[2] EXCEPT !.pc = @ + 1]>> \o SubSeq(callStack, 3, Len(callStack))
    <2> DEFINE fr == [callStack[2] EXCEPT !.pc = @ + 1]
    <2>1. /\ Len(callStack) > 1
          /\ 2 \in DOMAIN callStack /\ callStack[2] \in ActivationType
          /\ CalledBy(top, callStack[2])
      BY <1>1, <1>3, CallerIs
    <2>2. /\ fr \in ActivationType
          /\ fr.fn = callStack[2].fn /\ fr.ins = callStack[2].ins
          /\ fr.localBr = callStack[2].localBr
          /\ fr.pc = callStack[2].pc + 1
          /\ callStack[2].fn \in Func
      BY <2>1 DEF ActivationType
    <2>3. callStack' = <<fr>> \o SubSeq(callStack, 3, Len(callStack))
      BY <1>3
    <2> HIDE DEF fr
    <2>4. /\ callStack' \in Seq(ActivationType)
          /\ DOMAIN callStack' = 1 .. Len(callStack) - 1
          /\ callStack'[1] = fr
          /\ \A k \in DOMAIN callStack' : k # 1 => callStack'[k] = callStack[k + 1]
      BY <1>2, <2>1, <2>2, <2>3, ReplaceSecond
    <2>5. fr.pc > 0 /\ fr.pc <= Len(Code[fr.fn]) + 1
      <3>1. callStack[2].pc \in DOMAIN Code[callStack[2].fn]
        BY <2>1 DEF CalledBy
      <3>2. callStack[2].pc \in 1 .. Len(Code[callStack[2].fn]) /\ Len(Code[callStack[2].fn]) \in Nat
        BY <2>2, <3>1, InCode
      <3> QED
        BY <2>2, <3>2
    <2>6. \A k \in DOMAIN callStack' :
             /\ callStack'[k].fn = callStack[k + 1].fn
             /\ callStack'[k].ins = callStack[k + 1].ins
             /\ callStack'[k].localBr = callStack[k + 1].localBr
             /\ k # 1 => callStack'[k] = callStack[k + 1]
      BY <2>2, <2>4
    <2> QED
      BY <2>4, <2>5, <2>6, ShiftKeeps
  <1>4. CASE top.ins # null /\ callStack' = Tail(callStack)
    <2>1. /\ callStack' \in Seq(ActivationType)
          /\ DOMAIN callStack' = 1 .. Len(callStack) - 1
          /\ \A k \in DOMAIN callStack' : k + 1 \in DOMAIN callStack /\ callStack'[k] = callStack[k + 1]
      BY <1>1, <1>2, <1>4, PopTop
    <2>2. 1 \in DOMAIN callStack' =>
              /\ callStack'[1].pc <= Len(Code[callStack'[1].fn]) + 1
              /\ callStack'[1].ins = null => callStack'[1].pc > 0
      BY <2>1 DEF TypeOK
    <2> QED
      BY <2>1, <2>2, ShiftKeeps
  <1> QED
    BY <1>3, <1>4 DEF Leaves

LEMMA StartsKeeps ==
    ASSUME TypeOK, UNCHANGED program, Starts
    PROVE  StackOK' /\ \A k \in DOMAIN callStack' : callStack'[k].ins # null
  <1> DEFINE below == [k \in DOMAIN Body |-> Frame(Body[k])]
             first == Frame(heads'[head'])
  <1>1. heads \in Seq(Inst) /\ head' \in 1 .. Len(heads) /\ heads' = heads
    BY CodeAssumption DEF TypeOK, Starts, program
  <1>2. heads'[head'] \in Inst
    BY <1>1
  <1>3. /\ Body \in Seq(Inst) /\ Len(Body) \in Nat /\ DOMAIN Body = 1 .. Len(Body)
        /\ \A k \in DOMAIN Body : Body[k] \in Inst /\ Body[k] \in ToSet(Body)
    <2>1. Body \in Seq(Inst)
      BY CodeAssumption
    <2> QED
      BY <2>1 DEF ToSet
  <1>4. ASSUME NEW i \in Inst
        PROVE  /\ Frame(i) \in ActivationType
               /\ Frame(i).ins = i /\ Frame(i).fn = FuncOf[i] /\ Frame(i).pc = 0
               /\ Frame(i).localBr = {}
    BY Placed DEF Frame, ActivationType
  <1>5. below \in Seq(ActivationType) /\ DOMAIN below = DOMAIN Body
    BY <1>3, <1>4
  <1>6. first \in ActivationType
    BY <1>2, <1>4
  <1>7. callStack' = <<first>> \o below
    BY <1>1 DEF Starts
  <1>8. \A k \in DOMAIN Body : below[k] = Frame(Body[k])
    OBVIOUS
  <1>9. Len(below) = Len(Body)
    BY <1>3, <1>5
  <1> HIDE DEF below
  <1>10. /\ callStack' \in Seq(ActivationType)
         /\ DOMAIN callStack' = 1 .. Len(Body) + 1
         /\ callStack'[1] = first
         /\ \A k \in DOMAIN Body : callStack'[k + 1] = Frame(Body[k])
    BY <1>5, <1>6, <1>7, <1>8, <1>9, PushTop
  <1>11. \A k \in DOMAIN callStack' :
            /\ \/ k = 1 /\ callStack'[k].ins = heads'[head']
               \/ callStack'[k].ins \in ToSet(Body)
            /\ k > 1 => callStack'[k].ins \in ToSet(Body)
            /\ callStack'[k].ins \in Inst
            /\ callStack'[k].fn = FuncOf[callStack'[k].ins]
            /\ callStack'[k].pc = 0
            /\ callStack'[k].localBr = {}
    <2> SUFFICES ASSUME NEW k \in DOMAIN callStack'
                 PROVE  /\ \/ k = 1 /\ callStack'[k].ins = heads'[head']
                           \/ callStack'[k].ins \in ToSet(Body)
                        /\ k > 1 => callStack'[k].ins \in ToSet(Body)
                        /\ callStack'[k].ins \in Inst
                        /\ callStack'[k].fn = FuncOf[callStack'[k].ins]
                        /\ callStack'[k].pc = 0
                        /\ callStack'[k].localBr = {}
      OBVIOUS
    <2>1. CASE k = 1
      BY <1>2, <1>4, <1>10, <2>1
    <2>2. CASE k # 1
      <3>1. k - 1 \in DOMAIN Body /\ (k - 1) + 1 = k
        BY <1>3, <1>10, <2>2
      <3>2. callStack'[k] = Frame(Body[k - 1])
        BY <1>10, <3>1
      <3> QED
        BY <1>3, <1>4, <2>2, <3>1, <3>2
    <2> QED
      BY <2>1, <2>2
  <1>12. StackTyped'
    <2> SUFFICES ASSUME NEW k \in DOMAIN callStack'
                 PROVE  callStack'[k].pc <= Len(Code[callStack'[k].fn]) + 1
      BY <1>10, <1>11, InstAssumption DEF StackTyped
    <2>1. callStack'[k].fn \in Func
      BY <1>11, Placed
    <2>2. Code[callStack'[k].fn] \in Seq(Inst)
      BY <2>1, CodeAssumption
    <2>3. Len(Code[callStack'[k].fn]) \in Nat
      BY <2>2
    <2> QED
      BY <1>11, <2>3
  <1>13. StackInv'
    <2> SUFFICES ASSUME NEW k \in DOMAIN callStack'
                 PROVE  /\ callStack'[k].ins \in {heads'[head']} \cup ToSet(Body)
                        /\ callStack'[k].fn = FuncOf[callStack'[k].ins]
                        /\ \A j \in DOMAIN callStack' :
                              j > k => callStack'[j].ins \in ToSet(Body) /\ callStack'[j].pc = 0
      BY DEF StackInv, Reported, Pending
    <2>1. \A j \in DOMAIN callStack' : j > k => j > 1
      BY <1>10
    <2> QED
      BY <1>11, <2>1
  <1>14. NoReentry'
    BY <1>11, InstAssumption DEF NoReentry
  <1> QED
    BY <1>11, <1>12, <1>13, <1>14, InstAssumption DEF StackOK

\* The call stack keeps its shape in every step.
LEMMA StackKeeps ==
    ASSUME TypeOK, ins \in Programs, StackInv, NoReentry, [Next]_vars
    PROVE  StackOK'
  <1>1. StackStep
    BY Steps
  <1>2. CASE UNCHANGED vars
    <2>1. StackTyped
      BY DEF TypeOK, StackTyped
    <2> QED
      BY <1>2, <2>1 DEF StackOK, StackTyped, StackInv, CalledBy, Reported, Pending, NoReentry, vars, program
  <1>3. CASE callStack' = <<>>
    BY <1>3 DEF StackOK, StackTyped, StackInv, NoReentry
  <1> QED
    BY <1>1, <1>2, <1>3, MovesKeeps, EntersKeeps, LeavesKeeps, StartsKeeps DEF StackStep

----------------------------------------------------------------------------
(* What a step adds to the corrupted values.                               *)

\* The values of vs are new and different, and each has a reason among those
\* before it.
Extends(vs) ==
    /\ vs \in Seq(Value)
    /\ Injective(vs)
    /\ ToSet(vs) \cap corruptedIR = {}
    /\ \A j \in DOMAIN vs : Reason(vs[j], corruptedIR \cup {vs[k] : k \in 1 .. j - 1})

\* A reason among some values is a reason among more values.
LEMMA ReasonMore ==
    ASSUME NEW v, NEW B, NEW C, B \subseteq C, Reason(v, B)
    PROVE  Reason(v, C)
  <1>1. CASE v \in Sources
    BY <1>1 DEF Reason
  <1>2. CASE v \in Inst /\ ins[v].kind \notin {"call", "intrinsic"} /\ ToSet(ins[v].args) \cap B # {}
    BY <1>2 DEF Reason
  <1>3. CASE /\ v \in Inst /\ ins[v].kind = "gep"
             /\ \E w \in B \cap Inst : ins[w].kind = "gep" /\ Index(w) = Index(v)
    BY <1>3 DEF Reason
  <1>4. CASE \E w \in B \cap Inst : ins[w].kind = "store" /\ ins[w].args[2] = v
    BY <1>4 DEF Reason
  <1>5. CASE \E w \in Inst : /\ ins[w].kind = "call" /\ ins[w].callee # null
                             /\ \E k \in DOMAIN Params[ins[w].callee] \cap DOMAIN ins[w].args :
                                   /\ Params[ins[w].callee][k] = v
                                   /\ ins[w].args[k] \in B
    BY <1>5 DEF Reason
  <1>6. CASE /\ v \in Inst /\ ins[v].kind = "call" /\ ins[v].callee # null
             /\ IF Code[ins[v].callee] = <<>>
                THEN ToSet(ins[v].args) \cap (B \cup DOMAIN corruptedPtr) # {}
                ELSE ToSet(Code[ins[v].callee]) \cap B # {}
    BY <1>6 DEF Reason
  <1>7. CASE /\ v \in ToSet(Body)
             /\ \E w \in B \cap Inst : FuncOf[w] \in {FuncOf[i] : i \in {heads[head]} \cup ToSet(Body)}
    BY <1>7 DEF Reason
  <1> QED
    BY <1>1, <1>2, <1>3, <1>4, <1>5, <1>6, <1>7 DEF Reason

LEMMA ExtendsNone == Extends(<<>>)
  BY DEF Extends, Injective, ToSet

LEMMA ExtendsOne ==
    ASSUME NEW v \in Value, v \notin corruptedIR => Reason(v, corruptedIR)
    PROVE  Extends(New(v))
  <1>1. CASE v \in corruptedIR
    BY <1>1, ExtendsNone DEF New
  <1>2. CASE v \notin corruptedIR
    <2>1. /\ <<v>> \in Seq(Value) /\ DOMAIN <<v>> = {1} /\ <<v>>[1] = v
          /\ ToSet(<<v>>) = {v} /\ New(v) = <<v>>
      BY <1>2 DEF New, ToSet
    <2>2. Reason(v, corruptedIR \cup {<<v>>[k] : k \in 1 .. 1 - 1})
      BY <1>2, ReasonMore
    <2> QED
      BY <1>2, <2>1, <2>2 DEF Extends, Injective
  <1> QED
    BY <1>1, <1>2

\* An operand of an instruction is in its list of operands.
LEMMA CorruptedOperand ==
    ASSUME ins \in Programs, NEW i \in Inst, SomeOperandCorrupted(i)
    PROVE  ToSet(ins[i].args) \cap corruptedIR # {}
  BY Instructions DEF SomeOperandCorrupted, ToSet

LEMMA SourceExtends ==
    ASSUME TypeOK, ins \in Programs, StackInv, EnterAtSource
    PROVE  Extends(New(top.ins)) /\ Add(New(top.ins))
  <1>1. callStack # <<>> /\ top.pc = 0 /\ ins[top.ins].kind \notin {"call", "intrinsic"}
        /\ Add(New(top.ins))
    BY DEF EnterAtSource
  <1>2. 1 \in DOMAIN callStack /\ top = callStack[1] /\ top.ins # null /\ top \in ActivationType
    BY <1>1, TopIs
  <1>3. top.ins \in {heads[head]} \cup ToSet(Body) /\ top.ins \in Inst
    BY <1>2 DEF StackInv, CalledBy, Reported, ActivationType
  <1>4. top.ins \in ToSet(Body) => ins[top.ins].kind = "invoke"
    BY <1>1, BodyAssumption DEF ToSet
  <1>5. Reason(top.ins, corruptedIR)
    BY <1>3, <1>4 DEF Reason, Sources
  <1> QED
    BY <1>1, <1>3, <1>5, ExtendsOne, InstAssumption

LEMMA ExternalExtends ==
    ASSUME TypeOK, ins \in Programs, ExternalCall
    PROVE  Extends(New(cur)) /\ Add(New(cur))
  <1>1. Running /\ ins[cur].kind = "call" /\ callee # null /\ External /\ Add(New(cur))
    BY DEF ExternalCall, Considered
  <1>2. cur \in Inst
    BY <1>1, CurIs
  <1>3. ToSet(ins[cur].args) \cap (corruptedIR \cup DOMAIN corruptedPtr) # {}
    BY <1>1, <1>2, Instructions DEF External, CoParams, CoParamsOf, ToSet
  <1>4. Reason(cur, corruptedIR)
    BY <1>1, <1>2, <1>3 DEF Reason, External, callee
  <1> QED
    BY <1>1, <1>2, <1>4, ExtendsOne, InstAssumption

LEMMA FormalsExtend ==
    ASSUME TypeOK, ins \in Programs, AnalysedCall
    PROVE  Extends(NewFormals) /\ Add(NewFormals)
  <1>1. Running /\ ins[cur].kind = "call" /\ callee # null /\ Add(NewFormals)
    BY DEF AnalysedCall, Considered
  <1>2. cur \in Inst /\ callee \in Func
    BY <1>1, CurIs, Instructions DEF callee
  <1>3. Params[callee] \in Seq(Value)
    BY <1>2, CodeAssumption
  <1>4. Injective(Params[callee])
    BY <1>2, ParamsAssumption DEF Injective
  <1> DEFINE J == {k \in CoParams \cap DOMAIN Params[callee] :
                      ins[cur].args[k] \in corruptedIR /\ Params[callee][k] \notin corruptedIR}
  <1>5. J \in SUBSET DOMAIN Params[callee]
    OBVIOUS
  <1>6. /\ NewFormals \in Seq(Value) /\ Injective(NewFormals)
        /\ ToSet(NewFormals) = {Params[callee][k] : k \in J}
    <2>1. NewFormals = Picked(Params[callee], J)
      BY DEF NewFormals
    <2> HIDE DEF J
    <2> QED
      BY <1>3, <1>4, <1>5, <2>1, PickedIs
  <1>7. ASSUME NEW j \in DOMAIN NewFormals
        PROVE  Reason(NewFormals[j], corruptedIR)
    <2>1. PICK k \in J : NewFormals[j] = Params[callee][k]
      BY <1>6 DEF ToSet
    <2>2. /\ k \in DOMAIN Params[ins[cur].callee] \cap DOMAIN ins[cur].args
          /\ ins[cur].args[k] \in corruptedIR
      BY DEF CoParams, CoParamsOf, callee
    <2> HIDE DEF J
    <2> QED
      BY <1>1, <1>2, <2>1, <2>2 DEF Reason, callee
  <1>8. ToSet(NewFormals) \cap corruptedIR = {}
    BY <1>6
  <1>9. \A j \in DOMAIN NewFormals :
           Reason(NewFormals[j], corruptedIR \cup {NewFormals[k] : k \in 1 .. j - 1})
    BY <1>7, ReasonMore
  <1> QED
    BY <1>1, <1>6, <1>8, <1>9 DEF Extends

LEMMA GepExtends ==
    ASSUME TypeOK, ins \in Programs, PtrInv, Gep
    PROVE  \E vs : Extends(vs) /\ Add(vs)
  <1>1. Running /\ ins[cur].kind = "gep" /\ Add(IF Matches \/ GepTaints THEN New(cur) ELSE <<>>)
    BY DEF Gep
  <1>2. cur \in Inst
    BY <1>1, CurIs
  <1>3. CASE Matches
    <2>1. PICK w \in corruptedIR \cap Inst : ins[w].kind = "gep" /\ Index(w) = Index(cur)
      BY <1>3 DEF Matches, MatchesAt, PtrInv
    <2>2. Reason(cur, corruptedIR)
      BY <1>1, <1>2, <2>1 DEF Reason
    <2> QED
      BY <1>1, <1>2, <1>3, <2>2, ExtendsOne, InstAssumption
  <1>4. CASE GepTaints
    <2>1. ToSet(ins[cur].args) \cap corruptedIR # {}
      BY <1>2, <1>4, CorruptedOperand DEF GepTaints
    <2>2. Reason(cur, corruptedIR)
      BY <1>1, <1>2, <2>1 DEF Reason
    <2> QED
      BY <1>1, <1>2, <1>4, <2>2, ExtendsOne, InstAssumption
  <1> QED
    BY <1>1, <1>3, <1>4, ExtendsNone

LEMMA OperationExtends ==
    ASSUME TypeOK, ins \in Programs, Operation
    PROVE  /\ \E vs : Extends(vs) /\ Add(vs)
           /\ cur \notin corruptedIR /\ SomeOperandCorrupted(cur) => cur \in corruptedIR'
  <1> DEFINE taints == cur \notin corruptedIR /\ SomeOperandCorrupted(cur)
             place  == IF ins[cur].kind = "store" THEN New(ins[cur].args[2]) ELSE <<>>
  <1>1. /\ Running /\ ins[cur].kind \notin {"call", "intrinsic", "gep"}
        /\ Add(IF taints THEN <<cur>> \o place ELSE <<>>)
    BY DEF Operation
  <1>2. cur \in Inst /\ cur \in Value
    BY <1>1, CurIs, InstAssumption
  <1>3. CASE ~taints
    BY <1>1, <1>3, ExtendsNone
  <1>4. CASE taints
    <2>1. Reason(cur, corruptedIR)
      BY <1>1, <1>2, <1>4, CorruptedOperand DEF Reason
    <2>2. CASE place = <<>>
      <3>1. Extends(New(cur)) /\ New(cur) = <<cur>>
        BY <1>2, <1>4, <2>1, ExtendsOne DEF New
      <3>2. <<cur>> \o place = <<cur>>
        <4>1. <<cur>> \o <<>> = <<cur>>
          BY <1>2
        <4> HIDE DEF place
        <4> QED
          BY <2>2, <4>1
      <3>3. cur \in ToSet(<<cur>>)
        BY DEF ToSet
      <3> HIDE DEF place
      <3> QED
        BY <1>1, <1>4, <3>1, <3>2, <3>3 DEF Add
    <2>3. CASE place # <<>>
      <3> DEFINE p == ins[cur].args[2]
                 vs == <<cur, p>>
      <3>1. ins[cur].kind = "store" /\ place = <<p>> /\ p \notin corruptedIR
        BY <2>3 DEF New
      <3>2. p \in Value /\ p # cur
        BY <1>2, <3>1, StoreAssumption, Instructions
      <3>3. Reason(p, corruptedIR \cup {cur})
        BY <1>2, <3>1 DEF Reason
      <3>4. <<cur>> \o place = vs
        <4>1. <<cur>> \o <<p>> = vs
          BY <1>2, <3>2, ConcatPair
        <4> HIDE DEF place, vs, p
        <4> QED
          BY <3>1, <4>1
      <3>5. /\ vs \in Seq(Value) /\ DOMAIN vs = {1, 2} /\ vs[1] = cur /\ vs[2] = p
            /\ ToSet(vs) = {cur, p}
        BY <1>2, <3>2 DEF ToSet
      <3> HIDE DEF vs, p
      <3>6. /\ Reason(vs[1], corruptedIR \cup {vs[k] : k \in 1 .. 1 - 1})
            /\ Reason(vs[2], corruptedIR \cup {vs[k] : k \in 1 .. 2 - 1})
        <4>1. cur \in {vs[k] : k \in 1 .. 2 - 1}
          BY <3>5
        <4> QED
          BY <2>1, <3>3, <3>5, <4>1, ReasonMore
      <3>7. Extends(vs)
        BY <1>4, <3>1, <3>2, <3>5, <3>6 DEF Extends, Injective
      <3> HIDE DEF place
      <3> QED
        BY <1>1, <1>4, <3>4, <3>5, <3>7 DEF Add
    <2> QED
      BY <2>2, <2>3
  <1> QED
    BY <1>3, <1>4

LEMMA ReturnExtends ==
    ASSUME TypeOK, ins \in Programs, StackInv, ActivationInv, Return
    PROVE  \E vs : Extends(vs) /\ Add(vs)
  <1> DEFINE call == Code[callStack[2].fn][callStack[2].pc]
  <1>1. /\ callStack # <<>> /\ top.ins = null
        /\ Add(IF top.rv THEN New(call) ELSE <<>>)
    BY DEF Return
  <1>2. /\ callStack[2] \in ActivationType /\ CalledBy(top, callStack[2])
        /\ 1 \in DOMAIN callStack /\ top = callStack[1] /\ top \in ActivationType
    BY <1>1, TopIs, CallerIs
  <1>3. /\ call \in Inst /\ ins[call].kind = "call" /\ ins[call].callee = top.fn
        /\ top.fn \in Func
    BY <1>2, InCode DEF CalledBy, ActivationType
  <1> HIDE DEF call
  <1>4. CASE ~top.rv
    BY <1>1, <1>4, ExtendsNone
  <1>5. CASE top.rv
    <2>1. ToSet(Code[top.fn]) \cap corruptedIR # {}
      BY <1>2, <1>5 DEF ActivationInv
    <2>2. Code[top.fn] # <<>>
      BY <2>1 DEF ToSet
    <2>3. Reason(call, corruptedIR)
      BY <1>3, <2>1, <2>2, InstAssumption DEF Reason
    <2> QED
      BY <1>1, <1>3, <1>5, <2>3, ExtendsOne, InstAssumption
  <1> QED
    BY <1>4, <1>5

LEMMA FrameExtends ==
    ASSUME TypeOK, ins \in Programs, StackInv, ActivationInv, ReturnFromFrame
    PROVE  \E vs : Extends(vs) /\ Add(vs)
  <1> DEFINE call == callStack[2].ins
  <1>1. /\ callStack # <<>> /\ top.ins # null
        /\ Add(IF top.rv /\ Len(callStack) > 1 THEN New(call) ELSE <<>>)
    BY DEF ReturnFromFrame
  <1>2. CASE ~(top.rv /\ Len(callStack) > 1)
    BY <1>1, <1>2, ExtendsNone
  <1>3. CASE top.rv /\ Len(callStack) > 1
    <2>1. /\ 1 \in DOMAIN callStack /\ top = callStack[1] /\ top \in ActivationType
          /\ 2 \in DOMAIN callStack
      BY <1>1, <1>3, TopIs
    <2>2. Reported(top) /\ call \in ToSet(Body)
      BY <1>1, <2>1 DEF StackInv, CalledBy, Pending
    <2>3. call \in Inst
      BY <1>1, <2>2, SourcesAre
    <2>4. PICK w : w \in ToSet(Code[top.fn]) \cap corruptedIR
      BY <1>3, <2>1 DEF ActivationInv
    <2>5. w \in Inst /\ FuncOf[w] = FuncOf[top.ins]
      BY <2>1, <2>2, <2>4, InCode DEF ToSet, ActivationType, Reported
    <2>6. Reason(call, corruptedIR)
      BY <2>2, <2>4, <2>5 DEF Reason, Reported
    <2> QED
      BY <1>1, <1>3, <2>3, <2>6, ExtendsOne, InstAssumption
  <1> QED
    BY <1>2, <1>3

\* In every step of a head's analysis the list is extended so.
LEMMA Grows ==
    ASSUME TypeOK, ins \in Programs, StackInv, ActivationInv, PtrInv, [Next]_vars
    PROVE  NextHead \/ \E vs : Extends(vs) /\ Add(vs)
  <1>1. CASE UNCHANGED <<corruptedIR, orderedIR>>
    <2>1. Add(<<>>)
      BY <1>1 DEF TypeOK, Add, ToSet
    <2> QED
      BY <2>1, ExtendsNone
  <1>2. CASE EnterAfterCall \/ Abort \/ IgnoredCall \/ SkippedCall \/ Finished \/ UNCHANGED vars
    BY <1>1, <1>2 DEF EnterAfterCall, Abort, IgnoredCall, SkippedCall, Finished, vars, perHead
  <1> QED
    BY <1>2, SourceExtends, ExternalExtends, FormalsExtend, GepExtends, OperationExtends,
       ReturnExtends, FrameExtends DEF Next

----------------------------------------------------------------------------
(* Pointers to corrupted elements.                                         *)

\* The pointers known before are kept, and what is kept for a pointer in the
\* new state is backed by a corrupted element.
PtrStep ==
    /\ DOMAIN corruptedPtr \subseteq DOMAIN corruptedPtr' /\ DOMAIN corruptedPtr' \subseteq Value
    /\ \A p \in DOMAIN corruptedPtr' : \A x \in corruptedPtr'[p] :
          \E w \in corruptedIR' \cap Inst : ins[w].kind = "gep" /\ Index(w) = x

LEMMA PtrWithStep ==
    ASSUME TypeOK, ins \in Programs, PtrInv, corruptedIR \subseteq corruptedIR',
           NEW i \in Inst \cap corruptedIR', NEW v \in Value, ins[i].kind = "gep",
           corruptedPtr' = PtrWith(v, i)
    PROVE  PtrStep
  <1> DEFINE old == IF v \in DOMAIN corruptedPtr THEN corruptedPtr[v] ELSE {}
             new == {Index(i)} \cup old
  <1>1. corruptedPtr' = [z \in DOMAIN corruptedPtr \cup {v} |-> IF z = v THEN new ELSE corruptedPtr[z]]
    BY DEF PtrWith, With
  <1>2. DOMAIN corruptedPtr' = DOMAIN corruptedPtr \cup {v} /\ DOMAIN corruptedPtr \subseteq Value
    BY <1>1 DEF TypeOK
  <1>3. ASSUME NEW p \in DOMAIN corruptedPtr', NEW x \in corruptedPtr'[p]
        PROVE  \E w \in corruptedIR' \cap Inst : ins[w].kind = "gep" /\ Index(w) = x
    <2>1. x = Index(i) \/ \E q \in DOMAIN corruptedPtr : x \in corruptedPtr[q]
      BY <1>1, <1>2, <1>3
    <2> QED
      BY <2>1 DEF PtrInv
  <1> QED
    BY <1>2, <1>3 DEF PtrStep

LEMMA Pointers ==
    ASSUME TypeOK, ins \in Programs, StackInv, ActivationInv, PtrInv, [Next]_vars
    PROVE  NextHead \/ PtrStep
  <1>1. SUFFICES ASSUME ~NextHead PROVE PtrStep
    OBVIOUS
  <1>2. corruptedIR \subseteq corruptedIR'
    BY <1>1, Grows DEF Add
  <1>3. CASE corruptedPtr' = corruptedPtr
    BY <1>2, <1>3 DEF PtrStep, PtrInv, TypeOK
  <1>4. CASE EnterAtSource
    <2>1. CASE ins[top.ins].kind = "gep" /\ top.ins \notin corruptedIR
      <3> DEFINE i == top.ins
      <3>1. callStack # <<>> /\ top.pc = 0 /\ Parses(i) /\ corruptedPtr' = PtrWith(ins[i].args[1], i)
        BY <1>4, <2>1 DEF EnterAtSource
      <3>2. i \in Inst
        BY <3>1, TopIs DEF ActivationType
      <3>3. i \in corruptedIR'
        BY <1>4, <2>1, SourceExtends DEF Add, New, ToSet
      <3>4. ins[i].args[1] \in Value
        BY <3>1, <3>2, Instructions DEF Parses
      <3> QED
        BY <1>2, <2>1, <3>1, <3>2, <3>3, <3>4, PtrWithStep
    <2>2. CASE ~(ins[top.ins].kind = "gep" /\ top.ins \notin corruptedIR)
      BY <1>3, <1>4, <2>2 DEF EnterAtSource
    <2> QED
      BY <2>1, <2>2
  <1>5. CASE Gep
    <2>1. CASE GepTaints
      <3>1. /\ Running /\ ins[cur].kind = "gep" /\ Parses(cur)
            /\ corruptedPtr' = PtrWith(ins[cur].args[2], cur)
            /\ Add(New(cur)) /\ cur \notin corruptedIR
        BY <1>5, <2>1 DEF Gep, GepTaints
      <3>2. cur \in Inst
        BY <3>1, CurIs
      <3>3. cur \in corruptedIR'
        BY <3>1 DEF Add, New, ToSet
      <3>4. ins[cur].args[2] \in Value
        BY <3>1, <3>2, Instructions DEF Parses
      <3> QED
        BY <1>2, <3>1, <3>2, <3>3, <3>4, PtrWithStep
    <2>2. CASE ~GepTaints
      BY <1>3, <1>5, <2>2 DEF Gep
    <2> QED
      BY <2>1, <2>2
  <1>6. CASE AnalysedCall
    <2> DEFINE passed == {Params[callee][k] : k \in FormalPtrs}
               From(v) == ins[cur].args[CHOOSE k \in FormalPtrs : Params[callee][k] = v]
    <2>1. Running /\ callee # null /\ corruptedPtr' = PassedPtr
      BY <1>6 DEF AnalysedCall, Considered
    <2>2. corruptedPtr' = [v \in DOMAIN corruptedPtr \cup passed |->
                              IF v \in passed THEN corruptedPtr[From(v)] ELSE corruptedPtr[v]]
      BY <2>1 DEF PassedPtr
    <2>3. passed \subseteq Value
      <3>1. callee \in Func
        BY <2>1, CurIs, Instructions DEF callee
      <3>2. Params[callee] \in Seq(Value)
        BY <3>1, CodeAssumption
      <3> QED
        BY <3>2 DEF FormalPtrs
    <2>4. \A v \in passed : From(v) \in DOMAIN corruptedPtr
      BY DEF FormalPtrs
    <2> HIDE DEF passed, From
    <2>5. DOMAIN corruptedPtr' = DOMAIN corruptedPtr \cup passed
      BY <2>2
    <2>6. ASSUME NEW p \in DOMAIN corruptedPtr', NEW x \in corruptedPtr'[p]
          PROVE  \E w \in corruptedIR' \cap Inst : ins[w].kind = "gep" /\ Index(w) = x
      <3>1. \E q \in DOMAIN corruptedPtr : x \in corruptedPtr[q]
        BY <2>2, <2>4, <2>5, <2>6
      <3> QED
        BY <1>2, <3>1 DEF PtrInv
    <2> QED
      BY <2>3, <2>5, <2>6 DEF PtrStep, TypeOK
  <1>7. CASE EnterAfterCall \/ Abort \/ IgnoredCall \/ ExternalCall \/ SkippedCall \/ Operation
             \/ Return \/ ReturnFromFrame \/ Finished \/ UNCHANGED vars
    BY <1>3, <1>7 DEF EnterAfterCall, Abort, IgnoredCall, ExternalCall, SkippedCall, Operation,
                      Return, ReturnFromFrame, Finished, vars, perHead
  <1> QED
    BY <1>1, <1>4, <1>5, <1>6, <1>7 DEF Next

----------------------------------------------------------------------------
(* What the activations remember.                                          *)

\* A part of ActivationInv, for lists of branches, calls and values.
Backed(a, br, calls, ir) ==
    /\ a.localBr \subseteq br \cap ir
    /\ a.ctrlDep => \E b \in br \cap ir : \E c \in calls : Influences(b, c)
    /\ a.rv => ToSet(Code[a.fn]) \cap ir # {}

LEMMA BackedIs ==
    /\ ActivationInv <=>
          \A k \in DOMAIN callStack : Backed(callStack[k], corruptedBr, corruptedCallIns, corruptedIR)
    /\ ActivationInv' <=>
          \A k \in DOMAIN callStack' : Backed(callStack'[k], corruptedBr', corruptedCallIns', corruptedIR')
  <1>1. ASSUME NEW br, NEW calls, NEW ir
        PROVE  {b \in br : \E c \in calls : Influences(b, c)} \cap ir # {} <=>
               \E b \in br \cap ir : \E c \in calls : Influences(b, c)
    OBVIOUS
  <1>2. CtrlDepBrs \cap corruptedIR # {} <=>
            \E b \in corruptedBr \cap corruptedIR : \E c \in corruptedCallIns : Influences(b, c)
    BY <1>1 DEF CtrlDepBrs
  <1>3. (CtrlDepBrs \cap corruptedIR # {})' <=>
            \E b \in corruptedBr' \cap corruptedIR' : \E c \in corruptedCallIns' : Influences(b, c)
    BY <1>1 DEF CtrlDepBrs, Influences
  <1> QED
    BY <1>2, <1>3 DEF ActivationInv, Backed

LEMMA BackedMore ==
    ASSUME NEW a, NEW br, NEW calls, NEW ir, NEW br2, NEW calls2, NEW ir2,
           Backed(a, br, calls, ir), br \subseteq br2, calls \subseteq calls2, ir \subseteq ir2
    PROVE  Backed(a, br2, calls2, ir2)
  BY DEF Backed

\* The lists of branches and calls are never cleared.
LEMMA BranchesGrow ==
    ASSUME TypeOK, ins \in Programs, [Next]_vars
    PROVE  /\ corruptedBr \subseteq corruptedBr' /\ corruptedCallIns \subseteq corruptedCallIns'
           /\ corruptedBr' \subseteq Inst /\ corruptedCallIns' \subseteq Inst
  <1>1. CASE UNCHANGED <<corruptedBr, corruptedCallIns>>
    BY <1>1 DEF TypeOK
  <1>2. CASE AnalysedCall
    <2>1. /\ cur \in Inst /\ corruptedBr' = corruptedBr
          /\ corruptedCallIns' = corruptedCallIns \cup Noted
      BY <1>2, CurIs DEF AnalysedCall, Considered
    <2> QED
      BY <2>1 DEF Noted, TypeOK
  <1>3. CASE Operation
    <2>1. /\ cur \in Inst /\ corruptedCallIns' = corruptedCallIns
          /\ \E branch \in SUBSET {cur} : corruptedBr' = corruptedBr \cup branch
      BY <1>3, CurIs DEF Operation
    <2> QED
      BY <2>1 DEF TypeOK
  <1> QED
    BY <1>1, <1>2, <1>3 DEF Next, NextHead, EnterAfterCall, EnterAtSource, Abort, IgnoredCall,
       ExternalCall, SkippedCall, Gep, Return, ReturnFromFrame, Finished, vars, overall

\* The lists have grown, and the first activation is the one that changed.
LEMMA TopBacked ==
    ASSUME TypeOK, ActivationInv, callStack # <<>>, NEW fr \in ActivationType,
           callStack' = <<fr>> \o Tail(callStack),
           corruptedBr \subseteq corruptedBr', corruptedCallIns \subseteq corruptedCallIns',
           corruptedIR \subseteq corruptedIR',
           Backed(fr, corruptedBr', corruptedCallIns', corruptedIR')
    PROVE  ActivationInv'
  <1>1. callStack \in Seq(ActivationType)
    BY TopIs
  <1>2. /\ DOMAIN callStack' = DOMAIN callStack
        /\ callStack'[1] = fr
        /\ \A k \in DOMAIN callStack : k # 1 => callStack'[k] = callStack[k]
    BY <1>1, ReplaceTop
  <1> QED
    BY <1>2, BackedIs, BackedMore

\* The same if the memory of the activation stays.
LEMMA TopStays ==
    ASSUME TypeOK, ActivationInv, callStack # <<>>, NEW fr \in ActivationType,
           fr.fn = top.fn, fr.localBr = top.localBr, fr.ctrlDep = top.ctrlDep, fr.rv = top.rv,
           callStack' = <<fr>> \o Tail(callStack),
           corruptedBr \subseteq corruptedBr', corruptedCallIns \subseteq corruptedCallIns',
           corruptedIR \subseteq corruptedIR'
    PROVE  ActivationInv'
  <1>1. 1 \in DOMAIN callStack /\ top = callStack[1]
    BY TopIs
  <1>2. Backed(top, corruptedBr, corruptedCallIns, corruptedIR)
    BY <1>1, BackedIs
  <1>3. Backed(fr, corruptedBr, corruptedCallIns, corruptedIR)
    BY <1>2 DEF Backed
  <1> QED
    BY <1>3, BackedMore, TopBacked

LEMMA ActivationStep ==
    ASSUME TypeOK, ins \in Programs, StackInv, ActivationInv, PtrInv, [Next]_vars
    PROVE  ActivationInv'
  <1>1. /\ corruptedBr \subseteq corruptedBr' /\ corruptedCallIns \subseteq corruptedCallIns'
        /\ ~NextHead => corruptedIR \subseteq corruptedIR'
    BY BranchesGrow, Grows DEF Add
  <1>2. CASE NextHead
    <2> DEFINE below == [k \in DOMAIN Body |-> Frame(Body[k])]
               first == Frame(heads[head'])
    <2>1. ASSUME NEW i, NEW br, NEW calls, NEW ir PROVE Backed(Frame(i), br, calls, ir)
      BY DEF Frame, Backed
    <2>2. callStack' = <<first>> \o below /\ UNCHANGED program
      BY <1>2 DEF NextHead
    <2>3. Body \in Seq(Inst)
      BY CodeAssumption
    <2>4. heads \in Seq(Inst) /\ head' \in 1 .. Len(heads)
      BY <1>2, CodeAssumption DEF TypeOK, NextHead
    <2>5. \A i \in Inst : Frame(i) \in ActivationType
      BY Placed DEF Frame, ActivationType
    <2>6. first \in ActivationType
      BY <2>4, <2>5
    <2>7. below \in Seq(ActivationType) /\ DOMAIN below = 1 .. Len(below)
      BY <2>3, <2>5
    <2>8. \A k \in DOMAIN below : below[k] = Frame(Body[k])
      OBVIOUS
    <2> HIDE DEF below
    <2>9. /\ DOMAIN callStack' = 1 .. Len(below) + 1 /\ Len(below) \in Nat
          /\ callStack'[1] = first
          /\ \A k \in DOMAIN below : callStack'[k + 1] = below[k]
      BY <2>2, <2>6, <2>7, PushTop
    <2>10. ASSUME NEW k \in DOMAIN callStack' PROVE \E i : callStack'[k] = Frame(i)
      <3>1. CASE k = 1
        BY <2>9, <3>1
      <3>2. CASE k # 1
        <4>1. k - 1 \in DOMAIN below /\ (k - 1) + 1 = k
          BY <2>7, <2>9, <3>2
        <4> QED
          BY <2>8, <2>9, <4>1
      <3> QED
        BY <3>1, <3>2
    <2> QED
      BY <2>1, <2>10, BackedIs
  <1>3. CASE callStack' = <<>>
    BY <1>3, BackedIs
  <1>4. CASE UNCHANGED <<callStack, corruptedBr, corruptedCallIns, corruptedIR>>
    BY <1>4, BackedIs
  <1>5. ASSUME Running, callStack' = Advanced(top), ~NextHead PROVE ActivationInv'
    <2>1. callStack # <<>> /\ top \in ActivationType
      BY <1>5, TopIs DEF Running
    <2> DEFINE fr == [top EXCEPT !.pc = @ + 1]
    <2>2. fr \in ActivationType /\ fr.fn = top.fn /\ fr.localBr = top.localBr
          /\ fr.ctrlDep = top.ctrlDep /\ fr.rv = top.rv
      BY <2>1 DEF ActivationType
    <2>3. callStack' = <<fr>> \o Tail(callStack)
      BY <1>5 DEF Advanced
    <2> HIDE DEF fr
    <2> QED
      BY <1>1, <1>5, <2>1, <2>2, <2>3, TopStays
  <1>6. CASE EnterAfterCall /\ ~NextHead
    <2> DEFINE pc == Place[top.ins] + 1
               fr == [top EXCEPT !.pc = pc]
    <2>1. callStack # <<>> /\ top.pc = 0 /\ callStack' = <<fr>> \o Tail(callStack)
      BY <1>6 DEF EnterAfterCall
    <2>2. top \in ActivationType /\ pc \in Nat
      <3>1. top \in ActivationType /\ top.ins \in Inst
        BY <2>1, TopIs DEF ActivationType
      <3>2. FuncOf[top.ins] \in Func /\ Place[top.ins] \in DOMAIN Code[FuncOf[top.ins]]
        BY <3>1, Placed
      <3> QED
        BY <3>1, <3>2, InCode
    <2> HIDE DEF pc
    <2>3. fr \in ActivationType /\ fr.fn = top.fn /\ fr.localBr = top.localBr
          /\ fr.ctrlDep = top.ctrlDep /\ fr.rv = top.rv
      BY <2>2 DEF ActivationType
    <2> HIDE DEF fr
    <2> QED
      BY <1>1, <1>6, <2>1, <2>3, TopStays
  <1>7. CASE EnterAtSource /\ ~NextHead
    <2> DEFINE new == top.ins \notin corruptedIR
               pc == Place[top.ins]
               fr == [top EXCEPT !.pc = pc, !.rv = new]
    <2>1. callStack # <<>> /\ top.pc = 0 /\ callStack' = <<fr>> \o Tail(callStack)
      BY <1>7 DEF EnterAtSource
    <2>2. 1 \in DOMAIN callStack /\ top = callStack[1] /\ top \in ActivationType /\ top.ins # null
      BY <2>1, TopIs
    <2>3. top.ins \in Inst /\ top.fn = FuncOf[top.ins]
      BY <2>2 DEF StackInv, CalledBy, Reported, ActivationType
    <2>4. /\ top.fn \in Func /\ pc \in DOMAIN Code[top.fn] /\ Code[top.fn][pc] = top.ins
      BY <2>3, Placed
    <2>5. pc \in Nat /\ top.ins \in ToSet(Code[top.fn])
      BY <2>4, InCode
    <2>6. new => top.ins \in corruptedIR'
      BY <1>7, SourceExtends DEF Add, New, ToSet
    <2>7. new \in BOOLEAN
      OBVIOUS
    <2> HIDE DEF new, pc
    <2>8. /\ fr \in ActivationType /\ fr.fn = top.fn /\ fr.localBr = top.localBr
          /\ fr.ctrlDep = top.ctrlDep /\ fr.rv = new
      BY <2>2, <2>5, <2>7 DEF ActivationType
    <2>9. Backed(top, corruptedBr, corruptedCallIns, corruptedIR)
      BY <2>2, BackedIs
    <2>10. Backed(top, corruptedBr', corruptedCallIns', corruptedIR')
      BY <1>1, <1>7, <2>9, BackedMore
    <2> HIDE DEF fr
    <2>11. Backed(fr, corruptedBr', corruptedCallIns', corruptedIR')
      BY <2>5, <2>6, <2>8, <2>10 DEF Backed
    <2> QED
      BY <1>1, <1>7, <2>1, <2>8, <2>11, TopBacked
  <1>8. CASE AnalysedCall /\ ~NextHead
    <2> DEFINE flag == top.ctrlDep \/ WithinCurFunc
               fr == Activation(callee, flag)
    <2>1. Considered /\ Running /\ callStack # <<>> /\ callStack' = <<fr>> \o callStack
          /\ corruptedCallIns' = corruptedCallIns \cup Noted
      BY <1>8 DEF AnalysedCall, Considered, Running
    <2>2. /\ callStack \in Seq(ActivationType) /\ 1 \in DOMAIN callStack /\ top = callStack[1]
          /\ Len(callStack) \in Nat /\ DOMAIN callStack = 1 .. Len(callStack)
      BY <2>1, TopIs
    <2>3. callee \in Func
      BY <2>1, CurIs, Instructions DEF callee, Considered
    <2>4. flag \in BOOLEAN
      BY Zenon
    <2>5. Backed(top, corruptedBr, corruptedCallIns, corruptedIR)
      BY <2>2, BackedIs
    <2>6. flag => \E b \in corruptedBr' \cap corruptedIR' : \E c \in corruptedCallIns' : Influences(b, c)
      <3>1. CASE top.ctrlDep
        BY <1>1, <1>8, <2>5, <3>1 DEF Backed
      <3>2. CASE WithinCurFunc
        <4>1. PICK b \in top.localBr : Influences(b, cur)
          BY <3>2 DEF WithinCurFunc
        <4>2. b \in corruptedBr' \cap corruptedIR'
          BY <1>1, <1>8, <2>5, <4>1 DEF Backed
        <4>3. cur \in corruptedCallIns'
          BY <2>1, <3>2 DEF Noted
        <4> QED
          BY <4>1, <4>2, <4>3
      <3> QED
        BY <3>1, <3>2
    <2> HIDE DEF flag
    <2>7. /\ fr \in ActivationType
          /\ fr.localBr = {} /\ fr.ctrlDep = flag /\ fr.rv = FALSE
      BY <2>3, <2>4 DEF Activation, ActivationType
    <2> HIDE DEF fr
    <2>8. Backed(fr, corruptedBr', corruptedCallIns', corruptedIR')
      BY <2>6, <2>7 DEF Backed
    <2>9. /\ DOMAIN callStack' = 1 .. Len(callStack) + 1
          /\ callStack'[1] = fr
          /\ \A k \in DOMAIN callStack : callStack'[k + 1] = callStack[k]
      BY <2>1, <2>2, <2>7, PushTop
    <2>10. ASSUME NEW k \in DOMAIN callStack', k # 1
           PROVE  Backed(callStack'[k], corruptedBr', corruptedCallIns', corruptedIR')
      <3>1. k - 1 \in DOMAIN callStack /\ (k - 1) + 1 = k
        BY <2>2, <2>9, <2>10
      <3>2. callStack'[k] = callStack[k - 1]
        BY <2>9, <3>1
      <3>3. Backed(callStack[k - 1], corruptedBr, corruptedCallIns, corruptedIR)
        BY <3>1, BackedIs
      <3> QED
        BY <1>1, <1>8, <3>2, <3>3, BackedMore
    <2> QED
      BY <2>8, <2>9, <2>10, BackedIs
  <1>9. CASE Operation /\ ~NextHead
    <2> DEFINE taints == cur \notin corruptedIR /\ SomeOperandCorrupted(cur)
               branch == IF taints /\ ins[cur].kind = "br" THEN {cur} ELSE {}
               place == IF ins[cur].kind = "store" THEN New(ins[cur].args[2]) ELSE <<>>
               rv == top.rv \/ taints
               mid == [top EXCEPT !.localBr = @ \cup branch, !.rv = rv]
               fr == [mid EXCEPT !.pc = @ + 1]
    <2>1. /\ Running /\ callStack' = <<fr>> \o Tail(callStack)
          /\ Add(IF taints THEN <<cur>> \o place ELSE <<>>)
          /\ corruptedBr' = corruptedBr \cup branch
      BY <1>9 DEF Operation, Advanced
    <2>2. callStack # <<>> /\ cur \in Inst /\ cur \in ToSet(Code[top.fn])
      BY <2>1, CurIs DEF Running
    <2>3. 1 \in DOMAIN callStack /\ top = callStack[1] /\ top \in ActivationType
      BY <2>2, TopIs
    <2>4. taints => cur \in corruptedIR'
      BY <1>9, OperationExtends
    <2>5. branch \subseteq {cur} /\ branch \subseteq corruptedBr' \cap corruptedIR'
          /\ rv \in BOOLEAN /\ (rv => top.rv \/ cur \in corruptedIR')
      BY <2>1, <2>4
    <2> HIDE DEF branch, rv
    <2>6. mid \in ActivationType /\ mid.fn = top.fn /\ mid.localBr = top.localBr \cup branch
          /\ mid.ctrlDep = top.ctrlDep /\ mid.rv = rv
      <3>1. top.localBr \cup branch \in SUBSET Inst
        BY <2>2, <2>3, <2>5 DEF ActivationType
      <3> QED
        BY <2>3, <2>5, <3>1 DEF ActivationType
    <2> HIDE DEF mid
    <2>7. fr \in ActivationType /\ fr.fn = mid.fn /\ fr.localBr = mid.localBr
          /\ fr.ctrlDep = mid.ctrlDep /\ fr.rv = mid.rv
      BY <2>6 DEF ActivationType
    <2> HIDE DEF fr
    <2>8. Backed(top, corruptedBr, corruptedCallIns, corruptedIR)
      BY <2>3, BackedIs
    <2>9. Backed(top, corruptedBr', corruptedCallIns', corruptedIR')
      BY <1>1, <1>9, <2>8, BackedMore
    <2>10. Backed(fr, corruptedBr', corruptedCallIns', corruptedIR')
      BY <2>2, <2>5, <2>6, <2>7, <2>9 DEF Backed
    <2> QED
      BY <1>1, <1>9, <2>1, <2>2, <2>7, <2>10, TopBacked
  <1>10. CASE Return /\ ~NextHead
    <2> DEFINE fr == [callStack[2] EXCEPT !.pc = @ + 1]
    <2>1. callStack # <<>> /\ top.ins = null
          /\ callStack' = <<fr>> \o SubSeq(callStack, 3, Len(callStack))
      BY <1>10 DEF Return
    <2>2. callStack \in Seq(ActivationType) /\ Len(callStack) > 1 /\ 2 \in DOMAIN callStack
          /\ callStack[2] \in ActivationType
          /\ Len(callStack) \in Nat /\ DOMAIN callStack = 1 .. Len(callStack)
      BY <2>1, TopIs, CallerIs
    <2>3. fr \in ActivationType /\ fr.fn = callStack[2].fn /\ fr.localBr = callStack[2].localBr
          /\ fr.ctrlDep = callStack[2].ctrlDep /\ fr.rv = callStack[2].rv
      BY <2>2 DEF ActivationType
    <2> HIDE DEF fr
    <2>4. /\ DOMAIN callStack' = 1 .. Len(callStack) - 1
          /\ callStack'[1] = fr
          /\ \A k \in DOMAIN callStack' : k # 1 => callStack'[k] = callStack[k + 1]
      BY <2>1, <2>2, <2>3, ReplaceSecond
    <2>5. Backed(callStack[2], corruptedBr, corruptedCallIns, corruptedIR)
      BY <2>2, BackedIs
    <2>6. Backed(fr, corruptedBr, corruptedCallIns, corruptedIR)
      BY <2>3, <2>5 DEF Backed
    <2>7. \A k \in DOMAIN callStack' : k + 1 \in DOMAIN callStack
      BY <2>2, <2>4
    <2>8. \A k \in DOMAIN callStack' : Backed(callStack'[k], corruptedBr, corruptedCallIns, corruptedIR)
      BY <2>4, <2>6, <2>7, BackedIs
    <2> QED
      BY <1>1, <1>10, <2>8, BackedIs, BackedMore
  <1>11. CASE ReturnFromFrame /\ ~NextHead
    <2>1. callStack # <<>> /\ callStack' = Tail(callStack)
      BY <1>11 DEF ReturnFromFrame
    <2>2. \A k \in DOMAIN callStack' : k + 1 \in DOMAIN callStack /\ callStack'[k] = callStack[k + 1]
      BY <2>1, TopIs, PopTop
    <2> QED
      BY <1>1, <1>11, <2>2, BackedIs, BackedMore
  <1> QED
    BY <1>2, <1>3, <1>4, <1>5, <1>6, <1>7, <1>8, <1>9, <1>10, <1>11
       DEF Next, IgnoredCall, ExternalCall, SkippedCall, Skips, Considered, Gep, Abort, Finished,
           vars, perHead, overall

----------------------------------------------------------------------------
(* The list of corrupted values.                                           *)

\* A reason stays one as long as the same head is analysed.
LEMMA ReasonStays ==
    ASSUME UNCHANGED <<program, head>>, DOMAIN corruptedPtr \subseteq DOMAIN corruptedPtr',
           NEW v, NEW B, Reason(v, B)
    PROVE  Reason(v, B)'
  <1>1. ins' = ins /\ heads' = heads /\ head' = head
    BY DEF program
  <1>2. CASE v \in Sources
    BY <1>1, <1>2 DEF Reason, Sources
  <1>3. CASE v \in Inst /\ ins[v].kind \notin {"call", "intrinsic"} /\ ToSet(ins[v].args) \cap B # {}
    BY <1>1, <1>3 DEF Reason
  <1>4. CASE /\ v \in Inst /\ ins[v].kind = "gep"
             /\ \E w \in B \cap Inst : ins[w].kind = "gep" /\ Index(w) = Index(v)
    BY <1>1, <1>4 DEF Reason, Index
  <1>5. CASE \E w \in B \cap Inst : ins[w].kind = "store" /\ ins[w].args[2] = v
    BY <1>1, <1>5 DEF Reason
  <1>6. CASE \E w \in Inst : /\ ins[w].kind = "call" /\ ins[w].callee # null
                             /\ \E k \in DOMAIN Params[ins[w].callee] \cap DOMAIN ins[w].args :
                                   /\ Params[ins[w].callee][k] = v
                                   /\ ins[w].args[k] \in B
    BY <1>1, <1>6 DEF Reason
  <1>7. CASE /\ v \in Inst /\ ins[v].kind = "call" /\ ins[v].callee # null
             /\ IF Code[ins[v].callee] = <<>>
                THEN ToSet(ins[v].args) \cap (B \cup DOMAIN corruptedPtr) # {}
                ELSE ToSet(Code[ins[v].callee]) \cap B # {}
    BY <1>1, <1>7 DEF Reason
  <1>8. CASE /\ v \in ToSet(Body)
             /\ \E w \in B \cap Inst : FuncOf[w] \in {FuncOf[i] : i \in {heads[head]} \cup ToSet(Body)}
    BY <1>1, <1>8 DEF Reason
  <1> QED
    BY <1>2, <1>3, <1>4, <1>5, <1>6, <1>7, <1>8 DEF Reason

\* Within the analysis of a head the program and the head stay.
LEMMA SameHead ==
    ASSUME [Next]_vars, ~NextHead
    PROVE  UNCHANGED <<program, head>>
  BY DEF Next, EnterAfterCall, EnterAtSource, Abort, IgnoredCall, ExternalCall, SkippedCall,
         AnalysedCall, Gep, Operation, Return, ReturnFromFrame, Finished, vars

LEMMA ListStep ==
    ASSUME TypeOK, ins \in Programs, StackInv, ActivationInv, PtrInv, OrderedIsSet, Justified,
           [Next]_vars
    PROVE  /\ corruptedIR' \subseteq Value /\ orderedIR' \in Seq(Value)
           /\ OrderedIsSet' /\ Justified'
  <1>1. CASE NextHead
    <2>1. corruptedIR' = {} /\ orderedIR' = <<>>
      BY <1>1 DEF NextHead
    <2> QED
      BY <2>1 DEF OrderedIsSet, Justified, ToSet
  <1>2. CASE ~NextHead
    <2>1. PICK vs : Extends(vs) /\ Add(vs)
      BY <1>2, Grows
    <2>2. /\ orderedIR \in Seq(Value) /\ corruptedIR \subseteq Value /\ ToSet(orderedIR) = corruptedIR
          /\ Injective(orderedIR)
      BY DEF TypeOK, OrderedIsSet, Injective
    <2>3. /\ vs \in Seq(Value) /\ Injective(vs) /\ ToSet(orderedIR) \cap ToSet(vs) = {}
          /\ orderedIR' = orderedIR \o vs /\ corruptedIR' = corruptedIR \cup ToSet(vs)
      BY <2>1, <2>2 DEF Extends, Add
    <2>4. orderedIR' \in Seq(Value) /\ ToSet(orderedIR') = corruptedIR'
      BY <2>2, <2>3, ConcatToSet
    <2>5. Injective(orderedIR')
      BY <2>2, <2>3, ConcatInjective
    <2>6. corruptedIR' \subseteq Value
      BY <2>4 DEF ToSet
    <2>7. Justified'
      <3>1. \A v, B : Reason(v, B) => Reason(v, B)'
        BY <1>2, SameHead, Pointers, ReasonStays DEF PtrStep
      <3>2. /\ Len(orderedIR) \in Nat /\ DOMAIN orderedIR = 1 .. Len(orderedIR)
            /\ Len(vs) \in Nat /\ DOMAIN vs = 1 .. Len(vs)
        BY <2>2, <2>3
      <3> DEFINE new == orderedIR'
      <3>3. /\ DOMAIN new = 1 .. Len(orderedIR) + Len(vs)
            /\ \A j \in 1 .. Len(orderedIR) + Len(vs) :
                  new[j] = IF j <= Len(orderedIR) THEN orderedIR[j] ELSE vs[j - Len(orderedIR)]
        <4> DEFINE both == orderedIR \o vs
        <4>1. /\ both \in Seq(Value) /\ Len(both) = Len(orderedIR) + Len(vs)
              /\ \A j \in 1 .. Len(orderedIR) + Len(vs) :
                    both[j] = IF j <= Len(orderedIR) THEN orderedIR[j] ELSE vs[j - Len(orderedIR)]
          BY <2>2, <2>3, ConcatProperties, Zenon
        <4>2. new = both
          BY <2>3
        <4> HIDE DEF both, new
        <4>3. DOMAIN both = 1 .. Len(both)
          BY <4>1
        <4> QED
          BY <4>1, <4>2, <4>3
      <3> SUFFICES ASSUME NEW k \in DOMAIN new
                   PROVE  Reason(new[k], {new[j] : j \in 1 .. k - 1})
        BY <3>1 DEF Justified
      <3> HIDE DEF new
      <3>4. CASE k <= Len(orderedIR)
        <4>1. k \in DOMAIN orderedIR /\ new[k] = orderedIR[k]
          BY <3>2, <3>3, <3>4
        <4>2. \A j \in 1 .. k - 1 : new[j] = orderedIR[j]
          BY <3>2, <3>3, <3>4
        <4>3. {orderedIR[j] : j \in 1 .. k - 1} \subseteq {new[j] : j \in 1 .. k - 1}
          BY <4>2
        <4>4. Reason(orderedIR[k], {orderedIR[j] : j \in 1 .. k - 1})
          BY <4>1 DEF Justified
        <4> QED
          BY <4>1, <4>3, <4>4, ReasonMore
      <3>5. CASE ~(k <= Len(orderedIR))
        <4> DEFINE m == k - Len(orderedIR)
        <4>1. m \in DOMAIN vs /\ new[k] = vs[m] /\ k = Len(orderedIR) + m
          BY <3>2, <3>3, <3>5
        <4>2. Reason(vs[m], corruptedIR \cup {vs[j] : j \in 1 .. m - 1})
          BY <2>1, <4>1 DEF Extends
        <4>3. corruptedIR \subseteq {new[j] : j \in 1 .. k - 1}
          <5>1. \A j \in DOMAIN orderedIR : j \in 1 .. k - 1 /\ new[j] = orderedIR[j]
            BY <3>2, <3>3, <3>5
          <5> QED
            BY <2>2, <5>1 DEF ToSet
        <4>4. {vs[j] : j \in 1 .. m - 1} \subseteq {new[j] : j \in 1 .. k - 1}
          <5>1. ASSUME NEW j \in 1 .. m - 1
                PROVE  Len(orderedIR) + j \in 1 .. k - 1 /\ new[Len(orderedIR) + j] = vs[j]
            <6> DEFINE n == Len(orderedIR) + j
            <6>1. j \in 1 .. Len(vs) /\ j < m
              BY <3>2, <4>1
            <6>2. /\ n \in 1 .. k - 1 /\ n \in 1 .. Len(orderedIR) + Len(vs)
                  /\ ~(n <= Len(orderedIR)) /\ n - Len(orderedIR) = j
              BY <3>2, <4>1, <6>1
            <6> HIDE DEF n
            <6>3. new[n] = vs[n - Len(orderedIR)]
              BY <3>3, <6>2
            <6> QED
              BY <6>2, <6>3 DEF n
          <5> QED
            BY <5>1
        <4> HIDE DEF m
        <4> QED
          BY <4>1, <4>2, <4>3, <4>4, ReasonMore
      <3> QED
        BY <3>4, <3>5
    <2> QED
      BY <2>4, <2>5, <2>6, <2>7 DEF OrderedIsSet, Injective
  <1> QED
    BY <1>1, <1>2

----------------------------------------------------------------------------
(* The other lists.                                                        *)

\* What is noted for a dangerous line is not empty.
LEMMA RecordedIs ==
    ASSUME TypeOK, ins \in Programs, ActivationInv, CrossDepHasBranch, [Next]_vars
    PROVE  /\ DOMAIN interCtrlDep' \subseteq Line
           /\ \A l \in DOMAIN interCtrlDep' : interCtrlDep'[l] # {}
  <1>1. CASE interCtrlDep' = interCtrlDep
    BY <1>1 DEF TypeOK, CrossDepHasBranch
  <1>2. CASE Running /\ interCtrlDep' = Recorded
    <2>1. CASE top.ctrlDep /\ ~WithinCurFunc /\ LineOf[cur] \in danOps
      <3>1. interCtrlDep' = [l \in DOMAIN interCtrlDep \cup {LineOf[cur]} |->
                                IF l = LineOf[cur] THEN CtrlDepBrs ELSE interCtrlDep[l]]
        BY <1>2, <2>1 DEF Recorded, With
      <3>2. LineOf[cur] \in Line
        BY <1>2, CurIs, CodeAssumption
      <3>3. CtrlDepBrs # {}
        BY <1>2, <2>1 DEF CrossDepHasBranch
      <3> QED
        BY <3>1, <3>2, <3>3 DEF TypeOK, CrossDepHasBranch
    <2>2. CASE ~(top.ctrlDep /\ ~WithinCurFunc /\ LineOf[cur] \in danOps)
      BY <1>1, <1>2, <2>2, Zenon DEF Recorded
    <2> QED
      BY <2>1, <2>2
  <1> QED
    BY <1>1, <1>2 DEF Next, NextHead, EnterAfterCall, EnterAtSource, Abort, IgnoredCall,
       ExternalCall, SkippedCall, Skips, AnalysedCall, Considered, Gep, Operation, Return,
       ReturnFromFrame, Finished, vars, overall

\* A note about a dangerous operation needs a branch of this head.
LEMMA CrossDepNext ==
    ASSUME TypeOK', ActivationInv', \A l \in DOMAIN interCtrlDep' : interCtrlDep'[l] # {}
    PROVE  CrossDepHasBranch'
  <1>1. callStack' # <<>> => 1 \in DOMAIN callStack'
    BY DEF TypeOK
  <1>2. Running' => top' = callStack'[1] /\ callStack' # <<>>
    BY DEF Running, top
  <1>3. Running' /\ top.ctrlDep' => (CtrlDepBrs \cap corruptedIR # {})'
    BY <1>1, <1>2 DEF ActivationInv
  <1> QED
    BY <1>3 DEF CrossDepHasBranch

\* A later note of a line has all the branches of the earlier one.
LEMMA NotesStep ==
    ASSUME TypeOK, ins \in Programs, NotesInv, [Next]_vars
    PROVE  /\ NotesInv'
           /\ \A l \in DOMAIN interCtrlDep :
                 l \in DOMAIN interCtrlDep' /\ interCtrlDep[l] \subseteq interCtrlDep'[l]
  <1>1. CtrlDepBrs \subseteq CtrlDepBrs'
    BY BranchesGrow DEF CtrlDepBrs, Influences
  <1>2. CASE interCtrlDep' = interCtrlDep
    BY <1>1, <1>2 DEF NotesInv
  <1>3. CASE Running /\ interCtrlDep' = Recorded
    <2>1. CASE top.ctrlDep /\ ~WithinCurFunc /\ LineOf[cur] \in danOps
      <3>1. interCtrlDep' = [l \in DOMAIN interCtrlDep \cup {LineOf[cur]} |->
                                IF l = LineOf[cur] THEN CtrlDepBrs ELSE interCtrlDep[l]]
        BY <1>3, <2>1 DEF Recorded, With
      <3> QED
        BY <1>1, <3>1 DEF NotesInv
    <2>2. CASE ~(top.ctrlDep /\ ~WithinCurFunc /\ LineOf[cur] \in danOps)
      BY <1>2, <1>3, <2>2, Zenon DEF Recorded
    <2> QED
      BY <2>1, <2>2
  <1> QED
    BY <1>2, <1>3 DEF Next, NextHead, EnterAfterCall, EnterAtSource, Abort, IgnoredCall,
       ExternalCall, SkippedCall, Skips, AnalysedCall, Considered, Gep, Operation, Return,
       ReturnFromFrame, Finished, vars, overall

\* Only functions have an entry.
LEMMA EntriesTyped ==
    ASSUME TypeOK, ins \in Programs, [Next]_vars
    PROVE  DOMAIN funcEnterExitVal' \subseteq Func
  <1>1. CASE funcEnterExitVal' = funcEnterExitVal
    BY <1>1 DEF TypeOK
  <1>2. CASE NextHead
    BY <1>2 DEF NextHead
  <1>3. CASE AnalysedCall
    <2>1. Running /\ callee # null /\ funcEnterExitVal' = With(funcEnterExitVal, callee, Entered(callee))
      BY <1>3 DEF AnalysedCall, Considered
    <2>2. callee \in Func
      BY <2>1, CurIs, Instructions DEF callee
    <2> QED
      BY <2>1, <2>2 DEF With, TypeOK
  <1>4. CASE Return
    <2>1. callStack # <<>> /\ \E e : funcEnterExitVal' = With(funcEnterExitVal, top.fn, e)
      BY <1>4 DEF Return
    <2>2. top.fn \in Func
      BY <2>1, TopIs DEF ActivationType
    <2> QED
      BY <2>1, <2>2 DEF With, TypeOK
  <1> QED
    BY <1>1, <1>2, <1>3, <1>4 DEF Next, EnterAfterCall, EnterAtSource, Abort, IgnoredCall,
       ExternalCall, SkippedCall, Gep, Operation, ReturnFromFrame, Finished, vars, perHead

LEMMA TypeStep ==
    ASSUME TypeOK, ins \in Programs, StackInv, NoReentry, ActivationInv, PtrInv, OrderedIsSet,
           Justified, CrossDepHasBranch, [Next]_vars
    PROVE  TypeOK'
  <1>1. StackTyped'
    BY StackKeeps DEF StackOK
  <1>2. ins' = ins /\ heads' = heads
    BY Steps DEF StackStep, program
  <1>3. \A i \in Inst : ins'[i].kind \in Kinds
    BY <1>2, Instructions
  <1>4. heads \in HeadLists /\ Len(heads) \in Nat
    BY CodeAssumption DEF TypeOK
  <1>5. head' \in 0 .. Len(heads) /\ (callStack' # <<>> => head' > 0)
    <2>1. CASE NextHead
      BY <1>4, <2>1 DEF NextHead, TypeOK
    <2>2. CASE ~NextHead
      <3>1. head' = head
        BY <2>2, SameHead
      <3>2. callStack = <<>> => callStack' = <<>>
        BY <2>2 DEF Next, EnterAfterCall, EnterAtSource, Abort, IgnoredCall, ExternalCall,
           SkippedCall, Skips, AnalysedCall, Considered, Running, Gep, Operation, Return,
           ReturnFromFrame, Finished, vars
      <3> QED
        BY <3>1, <3>2 DEF TypeOK
    <2> QED
      BY <2>1, <2>2
  <1>6. corruptedIR' \subseteq Value /\ orderedIR' \in Seq(Value)
    BY ListStep
  <1>7. DOMAIN corruptedPtr' \subseteq Value
    <2>1. CASE NextHead
      BY <2>1 DEF NextHead
    <2> QED
      BY <2>1, Pointers DEF PtrStep
  <1>8. aborted' \in BOOLEAN
    BY DEF TypeOK, Next, NextHead, EnterAfterCall, EnterAtSource, Abort, IgnoredCall, ExternalCall,
       SkippedCall, AnalysedCall, Gep, Operation, Return, ReturnFromFrame, Finished, vars
  <1> QED
    BY <1>1, <1>2, <1>3, <1>4, <1>5, <1>6, <1>7, <1>8, BranchesGrow, EntriesTyped, RecordedIs
       DEF TypeOK, StackTyped

----------------------------------------------------------------------------
(* Why a call may be skipped.                                              *)

\* SettledInv for corrupted values and pointers, entries and a call stack.
HitBy(i, ptr) ==
    Parses(i) /\ ins[i].args[1] \in DOMAIN ptr /\ Index(i) \in ptr[ins[i].args[1]]

PassedBy(i, ir, ptr) ==
    {k \in DOMAIN ins[i].args :
        ins[i].args[k] \in Inst /\ (ins[i].args[k] \in ir \/ ins[i].args[k] \in DOMAIN ptr)}

SettledBy(i, ir, ptr) ==
    \/ i \in ir
    \/ /\ ins[i].kind \notin {"call", "intrinsic"} => ~\E k \in DOMAIN ins[i].args : ins[i].args[k] \in ir
       /\ ins[i].kind = "gep" => ~HitBy(i, ptr)
       /\ ins[i].kind = "call" /\ ins[i].callee # null =>
             Code[ins[i].callee] # <<>> \/ PassedBy(i, ir, ptr) = {}

ActiveIn(f, stack) == \E k \in DOMAIN stack : stack[k].ins = null /\ stack[k].fn = f

SettledIn(ir, ptr, entries, stack) ==
    /\ \A f \in DOMAIN entries :
          /\ entries[f] \in [enterVal : 0 .. Cardinality(ir), exitVal : 0 .. Cardinality(ir)]
          /\ /\ ~ActiveIn(f, stack)
             /\ entries[f].enterVal = entries[f].exitVal
             /\ entries[f].enterVal = Cardinality(ir)
             => \A i \in ToSet(Code[f]) : SettledBy(i, ir, ptr)
    /\ \A k \in DOMAIN stack :
          stack[k].ins = null =>
             /\ stack[k].fn \in DOMAIN entries
             /\ entries[stack[k].fn].enterVal = Cardinality(ir) =>
                   \A j \in 1 .. stack[k].pc - 1 : SettledBy(Code[stack[k].fn][j], ir, ptr)

LEMMA SettledIs ==
    /\ \A i : Settled(i) <=> SettledBy(i, corruptedIR, corruptedPtr)
    /\ SettledInv <=> SettledIn(corruptedIR, corruptedPtr, funcEnterExitVal, callStack)
    /\ ins' = ins =>
          (SettledInv' <=> SettledIn(corruptedIR', corruptedPtr', funcEnterExitVal', callStack'))
  <1>1. \A i : Settled(i) <=> SettledBy(i, corruptedIR, corruptedPtr)
    BY DEF Settled, SettledBy, SomeOperandCorrupted, MatchesAt, HitBy, CoParamsOf, PassedBy
  <1>2. ASSUME ins' = ins PROVE \A i : Settled(i)' <=> SettledBy(i, corruptedIR', corruptedPtr')
    BY <1>2 DEF Settled, SettledBy, SomeOperandCorrupted, MatchesAt, HitBy, CoParamsOf, PassedBy,
       Parses, Index
  <1>3. SettledInv <=> SettledIn(corruptedIR, corruptedPtr, funcEnterExitVal, callStack)
    BY <1>1 DEF SettledInv, SettledIn, Active, ActiveIn, Unchanged
  <1>4. ASSUME ins' = ins
        PROVE  SettledInv' <=> SettledIn(corruptedIR', corruptedPtr', funcEnterExitVal', callStack')
    BY <1>2, <1>4 DEF SettledInv, SettledIn, Active, ActiveIn, Unchanged
  <1> QED
    BY <1>1, <1>3, <1>4

\* How the number and the set of corrupted values, the entries and the call
\* stack change: an entry stays, or its function is active, or it is settled;
\* an activation is new, or at the same place or behind a settled instruction;
\* pointers change by themselves only for a function that is just entered.
SizesFit(ir, ir2) ==
    /\ Cardinality(ir) \in Nat /\ Cardinality(ir2) \in Nat
    /\ Cardinality(ir) <= Cardinality(ir2)
    /\ Cardinality(ir) = Cardinality(ir2) => ir2 = ir
PtrFits(ir, ir2, ptr, ptr2, en, st2) ==
    ir2 = ir =>
        \A f \in DOMAIN en :
           \/ \A i \in ToSet(Code[f]) : SettledBy(i, ir, ptr) => SettledBy(i, ir, ptr2)
           \/ /\ ActiveIn(f, st2)
              /\ \A k \in DOMAIN st2 : st2[k].ins = null /\ st2[k].fn = f => st2[k].pc = 1
InPlace(st) ==
    \A k \in DOMAIN st : \A j \in 1 .. st[k].pc - 1 : Code[st[k].fn][j] \in ToSet(Code[st[k].fn])
EntriesFit(ir2, ptr2, en, en2, st, st2) ==
    \A f \in DOMAIN en2 :
        /\ en2[f] \in [enterVal : 0 .. Cardinality(ir2), exitVal : 0 .. Cardinality(ir2)]
        /\ \/ f \in DOMAIN en /\ en2[f] = en[f] /\ (ActiveIn(f, st) => ActiveIn(f, st2))
           \/ ActiveIn(f, st2)
           \/ en2[f].enterVal = Cardinality(ir2) => \A i \in ToSet(Code[f]) : SettledBy(i, ir2, ptr2)
StackFits(ir, ir2, ptr2, en, en2, st, st2) ==
    \A k \in DOMAIN st2 :
        st2[k].ins = null =>
            /\ st2[k].fn \in DOMAIN en2
            /\ \/ st2[k].pc = 1
               \/ \E n \in DOMAIN st :
                     /\ st[n].ins = null /\ st[n].fn = st2[k].fn /\ st[n].pc \in Nat
                     /\ en2[st[n].fn] = en[st[n].fn]
                     /\ \/ st2[k].pc = st[n].pc
                        \/ /\ st2[k].pc = st[n].pc + 1
                           /\ ir2 = ir => SettledBy(Code[st[n].fn][st[n].pc], ir2, ptr2)

\* Entries that stay are settled as before: if the number of values is that
\* of an older entry, then the set of values is the older one, too.
LEMMA SettledStays ==
    ASSUME NEW ir, NEW ir2, NEW ptr, NEW ptr2, NEW en, NEW en2, NEW st, NEW st2,
           SettledIn(ir, ptr, en, st), SizesFit(ir, ir2), PtrFits(ir, ir2, ptr, ptr2, en, st2), InPlace(st),
           EntriesFit(ir2, ptr2, en, en2, st, st2), StackFits(ir, ir2, ptr2, en, en2, st, st2)
    PROVE  SettledIn(ir2, ptr2, en2, st2)
  <1>1. ASSUME NEW f \in DOMAIN en2, ~ActiveIn(f, st2), en2[f].enterVal = en2[f].exitVal,
               en2[f].enterVal = Cardinality(ir2)
        PROVE  \A i \in ToSet(Code[f]) : SettledBy(i, ir2, ptr2)
    <2>1. CASE f \in DOMAIN en /\ en2[f] = en[f] /\ (ActiveIn(f, st) => ActiveIn(f, st2))
      <3>1. en[f].enterVal \in 0 .. Cardinality(ir)
        BY <2>1 DEF SettledIn
      <3>2. Cardinality(ir) = Cardinality(ir2) /\ ir2 = ir
        BY <1>1, <2>1, <3>1 DEF SizesFit
      <3>3. \A i \in ToSet(Code[f]) : SettledBy(i, ir, ptr)
        BY <1>1, <2>1, <3>2 DEF SettledIn
      <3> QED
        BY <1>1, <2>1, <3>2, <3>3 DEF PtrFits
    <2> QED
      BY <1>1, <2>1 DEF EntriesFit
  <1>2. ASSUME NEW k \in DOMAIN st2, st2[k].ins = null, en2[st2[k].fn].enterVal = Cardinality(ir2),
               NEW j \in 1 .. st2[k].pc - 1
        PROVE  SettledBy(Code[st2[k].fn][j], ir2, ptr2)
    <2>1. st2[k].pc # 1
      BY <1>2
    <2>2. PICK n \in DOMAIN st :
              /\ st[n].ins = null /\ st[n].fn = st2[k].fn /\ st[n].pc \in Nat
              /\ en2[st[n].fn] = en[st[n].fn]
              /\ \/ st2[k].pc = st[n].pc
                 \/ /\ st2[k].pc = st[n].pc + 1
                    /\ ir2 = ir => SettledBy(Code[st[n].fn][st[n].pc], ir2, ptr2)
      BY <1>2, <2>1 DEF StackFits
    <2>3. /\ st[n].fn \in DOMAIN en
          /\ en[st[n].fn].enterVal \in 0 .. Cardinality(ir)
      BY <2>2 DEF SettledIn
    <2>4. Cardinality(ir) = Cardinality(ir2) /\ ir2 = ir
      BY <1>2, <2>2, <2>3 DEF SizesFit
    <2>5. j \in 1 .. st[n].pc - 1 \/ (j = st[n].pc /\ st2[k].pc = st[n].pc + 1)
      BY <2>2
    <2>6. CASE j \in 1 .. st[n].pc - 1
      <3>1. SettledBy(Code[st[n].fn][j], ir, ptr) /\ Code[st[n].fn][j] \in ToSet(Code[st[n].fn])
        BY <1>2, <2>2, <2>3, <2>4, <2>6 DEF SettledIn, InPlace
      <3>2. \A i \in ToSet(Code[st[n].fn]) : SettledBy(i, ir, ptr) => SettledBy(i, ir, ptr2)
        BY <1>2, <2>1, <2>2, <2>3, <2>4 DEF PtrFits
      <3> QED
        BY <2>2, <2>4, <3>1, <3>2
    <2>7. CASE j = st[n].pc /\ st2[k].pc = st[n].pc + 1
      BY <2>2, <2>4, <2>7
    <2> QED
      BY <2>5, <2>6, <2>7
  <1> QED
    BY <1>1, <1>2 DEF SettledIn, EntriesFit, StackFits

\* The number of values never shrinks, and it only stays if the set does.
LEMMA SizeStep ==
    ASSUME TypeOK, ins \in Programs, StackInv, ActivationInv, PtrInv, OrderedIsSet, [Next]_vars,
           ~NextHead
    PROVE  SizesFit(corruptedIR, corruptedIR')
  <1>1. PICK vs : Extends(vs) /\ Add(vs)
    BY Grows
  <1>2. /\ orderedIR \in Seq(Value) /\ ToSet(orderedIR) = corruptedIR /\ Injective(orderedIR)
    BY DEF TypeOK, OrderedIsSet, Injective
  <1>3. /\ vs \in Seq(Value) /\ Injective(vs) /\ ToSet(orderedIR) \cap ToSet(vs) = {}
        /\ orderedIR' = orderedIR \o vs /\ corruptedIR' = corruptedIR \cup ToSet(vs)
    BY <1>1, <1>2 DEF Extends, Add
  <1>4. orderedIR' \in Seq(Value) /\ ToSet(orderedIR') = corruptedIR' /\ Injective(orderedIR')
    BY <1>2, <1>3, ConcatToSet, ConcatInjective
  <1>5. Cardinality(corruptedIR) = Len(orderedIR) /\ Cardinality(corruptedIR') = Len(orderedIR')
    BY <1>2, <1>4, CountToSet
  <1>6. /\ Len(orderedIR) \in Nat /\ Len(vs) \in Nat
        /\ Len(orderedIR') = Len(orderedIR) + Len(vs)
    BY <1>2, <1>3
  <1>7. Len(vs) = 0 => ToSet(vs) = {}
    BY <1>3 DEF ToSet
  <1> QED
    BY <1>3, <1>5, <1>6, <1>7 DEF SizesFit

\* The entries fit a larger number of values.
LEMMA EntryFits ==
    ASSUME SettledInv, SizesFit(corruptedIR, corruptedIR'), NEW f \in DOMAIN funcEnterExitVal
    PROVE  funcEnterExitVal[f] \in [enterVal : 0 .. Cardinality(corruptedIR'),
                                    exitVal : 0 .. Cardinality(corruptedIR')]
  <1> DEFINE e == funcEnterExitVal[f]
             size == Cardinality(corruptedIR)
             size2 == Cardinality(corruptedIR')
  <1>1. e \in [enterVal : 0 .. size, exitVal : 0 .. size]
    BY DEF SettledInv
  <1>2. size \in Nat /\ size2 \in Nat /\ size <= size2
    BY DEF SizesFit
  <1> HIDE DEF e, size, size2
  <1>3. 0 .. size \subseteq 0 .. size2
    BY <1>2
  <1>4. e \in [enterVal : 0 .. size2, exitVal : 0 .. size2]
    BY <1>1, <1>3
  <1> QED
    BY <1>4 DEF e, size2

\* What an activation has behind it are instructions of its function.
LEMMA PlacesIn ==
    ASSUME TypeOK
    PROVE  InPlace(callStack)
  <1> SUFFICES ASSUME NEW k \in DOMAIN callStack, NEW j \in 1 .. callStack[k].pc - 1
               PROVE  Code[callStack[k].fn][j] \in ToSet(Code[callStack[k].fn])
    BY DEF InPlace
  <1>1. callStack[k] \in ActivationType /\ callStack[k].pc <= Len(Code[callStack[k].fn]) + 1
    BY DEF TypeOK
  <1>2. callStack[k].fn \in Func /\ callStack[k].pc \in Nat
    BY <1>1 DEF ActivationType
  <1>3. Code[callStack[k].fn] \in Seq(Inst)
    BY <1>2, CodeAssumption
  <1>4. Len(Code[callStack[k].fn]) \in Nat
        /\ DOMAIN Code[callStack[k].fn] = 1 .. Len(Code[callStack[k].fn])
    BY <1>3
  <1>5. j \in DOMAIN Code[callStack[k].fn]
    BY <1>1, <1>2, <1>4
  <1> QED
    BY <1>5 DEF ToSet

\* The pointers that are passed to a callee are parameters, which only the
\* callee's own instructions use.
LEMMA PassedKeeps ==
    ASSUME TypeOK, ins \in Programs, Running, callee \in Func,
           NEW f \in Func, f # callee, NEW i \in ToSet(Code[f]),
           SettledBy(i, corruptedIR, corruptedPtr)
    PROVE  SettledBy(i, corruptedIR, PassedPtr)
  <1> DEFINE passed == {Params[callee][k] : k \in FormalPtrs}
             From(v) == ins[cur].args[CHOOSE k \in FormalPtrs : Params[callee][k] = v]
             new == PassedPtr
             own == ToSet(ins[i].args)
  <1>1. new = [v \in DOMAIN corruptedPtr \cup passed |->
                  IF v \in passed THEN corruptedPtr[From(v)] ELSE corruptedPtr[v]]
    BY DEF PassedPtr
  <1>2. i \in Inst /\ i \notin ToSet(Code[callee])
    <2>1. PICK j \in DOMAIN Code[f] : i = Code[f][j]
      BY DEF ToSet
    <2>2. i \in Inst /\ FuncOf[i] = f
      BY <2>1, InCode
    <2>3. ASSUME NEW m \in DOMAIN Code[callee], Code[callee][m] = i PROVE f = callee
      BY <2>2, <2>3, InCode
    <2> QED
      BY <2>2, <2>3 DEF ToSet
  <1>3. own \cap ToSet(Params[callee]) = {}
    BY <1>2, OperandAssumption
  <1>4. passed \subseteq ToSet(Params[callee])
    BY DEF FormalPtrs, ToSet
  <1> HIDE DEF passed, From, new
  <1>5. \A v \in own : /\ v \in DOMAIN new <=> v \in DOMAIN corruptedPtr
                       /\ v \in DOMAIN new => new[v] = corruptedPtr[v]
    BY <1>1, <1>3, <1>4
  <1>6. ins[i].args \in Seq(Value)
    BY <1>2, Instructions
  <1>7. \A k \in DOMAIN ins[i].args : ins[i].args[k] \in own
    BY DEF ToSet
  <1>8. PassedBy(i, corruptedIR, new) = PassedBy(i, corruptedIR, corruptedPtr)
    BY <1>5, <1>7 DEF PassedBy
  <1>9. HitBy(i, new) => HitBy(i, corruptedPtr)
    <2>1. Parses(i) => 1 \in DOMAIN ins[i].args
      BY <1>6 DEF Parses
    <2> QED
      BY <1>5, <1>7, <2>1 DEF HitBy
  <1>10. SettledBy(i, corruptedIR, new)
    BY <1>8, <1>9 DEF SettledBy
  <1> QED
    BY <1>10 DEF new

\* Where an instruction is current, and in a frame of the report, there is no
\* function without a body on the call stack.
LEMMA BodiesOnStack ==
    ASSUME TypeOK, StackInv, ExternalInv, callStack # <<>>, Running \/ top.ins # null
    PROVE  \A k \in DOMAIN callStack : Code[callStack[k].fn] # <<>>
  <1>1. /\ 1 \in DOMAIN callStack /\ top = callStack[1] /\ top \in ActivationType
    BY TopIs
  <1>2. Code[top.fn] # <<>>
    <2>1. CASE Running
      <3>1. top.pc \in DOMAIN Code[top.fn]
        BY <2>1, CurIs
      <3> QED
        BY <3>1
    <2>2. CASE top.ins # null
      <3>1. top.fn = FuncOf[top.ins] /\ top.ins \in Inst
        BY <1>1, <2>2 DEF StackInv, CalledBy, Reported, ActivationType
      <3>2. Place[top.ins] \in DOMAIN Code[top.fn]
        BY <3>1, Placed
      <3> QED
        BY <3>2
    <2> QED
      BY <2>1, <2>2
  <1> QED
    BY <1>1, <1>2 DEF ExternalInv

\* A function without a body stays on the call stack only for one step.
LEMMA ExternalStep ==
    ASSUME TypeOK, ins \in Programs, StackInv, NoReentry, ExternalInv, [Next]_vars
    PROVE  ExternalInv'
  <1>1. StackStep /\ StackOK'
    BY Steps, StackKeeps
  <1>2. CASE callStack' = <<>>
    BY <1>2 DEF ExternalInv
  <1>3. CASE UNCHANGED vars
    BY <1>3 DEF vars, program, perHead, ExternalInv, CoParamsOf
  <1>4. CASE Starts
    <2>1. UNCHANGED program
      BY <1>1 DEF StackStep
    <2>2. \A k \in DOMAIN callStack' : callStack'[k].ins # null
      BY <1>4, <2>1, StartsKeeps
    <2>3. ASSUME NEW k \in DOMAIN callStack' PROVE Code[callStack'[k].fn] # <<>>
      <3>0. callStack' \in Seq(ActivationType)
        BY <1>1 DEF StackOK, StackTyped
      <3>1. callStack'[k].ins \in Inst
        <4> DEFINE a == callStack'[k]
        <4>1. a \in ActivationType
          BY <2>3, <3>0
        <4>2. a.ins # null
          BY <2>2, <2>3
        <4> HIDE DEF a
        <4>3. a.ins \in Inst
          BY <4>1, <4>2 DEF ActivationType
        <4> QED
          BY <4>3 DEF a
      <3>2. callStack'[k].fn = FuncOf[callStack'[k].ins]
        BY <1>1, <2>2, <2>3 DEF StackOK, StackInv, CalledBy, Reported
      <3>3. Place[callStack'[k].ins] \in DOMAIN Code[callStack'[k].fn]
        BY <3>1, <3>2, Placed
      <3> QED
        BY <3>3
    <2> QED
      BY <2>3 DEF ExternalInv
  <1>5. CASE Moves
    <2>1. callStack # <<>> /\ (Running \/ top.ins # null)
      BY <1>5 DEF Moves
    <2>2. PICK fr \in ActivationType : fr.fn = top.fn /\ callStack' = <<fr>> \o Tail(callStack)
      BY <1>5 DEF Moves
    <2>3. callStack \in Seq(ActivationType) /\ 1 \in DOMAIN callStack /\ top = callStack[1]
      BY <2>1, TopIs
    <2>4. /\ DOMAIN callStack' = DOMAIN callStack
          /\ callStack'[1] = fr
          /\ \A k \in DOMAIN callStack : k # 1 => callStack'[k] = callStack[k]
      BY <2>1, <2>2, <2>3, ReplaceTop
    <2>5. \A k \in DOMAIN callStack' : callStack'[k].fn = callStack[k].fn
      BY <2>2, <2>3, <2>4
    <2> QED
      BY <2>1, <2>4, <2>5, BodiesOnStack DEF ExternalInv
  <1>6. CASE Enters
    <2>1. AnalysedCall /\ Considered /\ Running /\ callStack # <<>>
      BY <1>6 DEF Enters, Considered, Running
    <2>2. PICK fr \in ActivationType : fr.fn = callee /\ callStack' = <<fr>> \o callStack
      BY <1>6 DEF Enters
    <2>3. /\ callStack \in Seq(ActivationType) /\ 1 \in DOMAIN callStack /\ top = callStack[1]
          /\ Len(callStack) \in Nat /\ DOMAIN callStack = 1 .. Len(callStack)
      BY <2>1, TopIs
    <2>4. /\ DOMAIN callStack' = 1 .. Len(callStack) + 1
          /\ callStack'[1] = fr
          /\ \A k \in DOMAIN callStack : callStack'[k + 1] = callStack[k]
      BY <2>2, <2>3, PushTop
    <2>5. ASSUME NEW k \in DOMAIN callStack', k # 1 PROVE Code[callStack'[k].fn] # <<>>
      <3> DEFINE n == k - 1
      <3>1. n \in DOMAIN callStack /\ n + 1 = k
        BY <2>3, <2>4, <2>5
      <3> HIDE DEF n
      <3>2. callStack'[k] = callStack[n]
        BY <2>4, <3>1
      <3> QED
        BY <2>1, <3>1, <3>2, BodiesOnStack
    <2>6. 2 \in DOMAIN callStack' /\ callStack'[2] = top
      <3>1. 1 + 1 = 2 /\ 2 \in 1 .. Len(callStack) + 1
        BY <2>3
      <3> QED
        BY <2>3, <2>4, <3>1
    <2>7. ASSUME Code[callee] = <<>>, NEW i, i = cur PROVE CoParamsOf(i)' = {}
      <3>1. CoParams = {}
        BY <2>1, <2>7 DEF AnalysedCall, External
      <3>2. FormalPtrs = {}
        BY <3>1 DEF FormalPtrs
      <3>3. DOMAIN corruptedPtr' = DOMAIN corruptedPtr
        BY <2>1, <3>2 DEF AnalysedCall, PassedPtr
      <3>4. ToSet(NewFormals) = {}
        <4> DEFINE f == callee
                   J == {k \in CoParams \cap DOMAIN Params[f] :
                            ins[cur].args[k] \in corruptedIR /\ Params[f][k] \notin corruptedIR}
        <4>1. callee \in Func
          <5>1. cur \in Inst /\ callee # null
            BY <2>1, CurIs DEF Considered
          <5> QED
            BY <5>1, Instructions DEF callee
        <4>2. Params[f] \in Seq(Value \ Inst) /\ Injective(Params[f])
          BY <4>1, CodeAssumption, ParamsAssumption DEF Injective
        <4>3. J = {} /\ J \in SUBSET DOMAIN Params[f]
          BY <3>1
        <4>4. NewFormals = Picked(Params[f], J)
          BY DEF NewFormals
        <4> HIDE DEF f, J
        <4> QED
          BY <4>2, <4>3, <4>4, PickedIs
      <3>5. corruptedIR' = corruptedIR
        BY <2>1, <3>4 DEF AnalysedCall, Add
      <3>6. ins' = ins
        BY <1>1 DEF StackStep, program
      <3>7. CoParamsOf(i) = {}
        BY <2>7, <3>1 DEF CoParams
      <3> QED
        BY <3>3, <3>5, <3>6, <3>7 DEF CoParamsOf
    <2>8. PICK i : i = Code[top.fn][top.pc]
      OBVIOUS
    <2>9. Code[callee] = <<>> => CoParamsOf(i)' = {}
      BY <2>7, <2>8 DEF cur
    <2> QED
      BY <2>2, <2>4, <2>5, <2>6, <2>8, <2>9 DEF ExternalInv
  <1>7. CASE Leaves
    <2>1. callStack # <<>>
      BY <1>7 DEF Leaves
    <2>2. /\ callStack \in Seq(ActivationType) /\ Len(callStack) \in Nat
          /\ DOMAIN callStack = 1 .. Len(callStack)
      BY <2>1, TopIs
    <2>3. /\ DOMAIN callStack' = 1 .. Len(callStack) - 1
          /\ \A k \in DOMAIN callStack' : callStack'[k].fn = callStack[k + 1].fn
      <3>1. CASE /\ top.ins = null
                 /\ callStack' = <<[callStack[2] EXCEPT !.pc = @ + 1]>> \o SubSeq(callStack, 3, Len(callStack))
        <4> DEFINE fr == [callStack[2] EXCEPT !.pc = @ + 1]
        <4>1. Len(callStack) > 1 /\ callStack[2] \in ActivationType
          BY <2>1, <3>1, CallerIs
        <4>2. fr \in ActivationType /\ fr.fn = callStack[2].fn
          BY <4>1 DEF ActivationType
        <4>3. callStack' = <<fr>> \o SubSeq(callStack, 3, Len(callStack))
          BY <3>1
        <4> HIDE DEF fr
        <4>4. /\ DOMAIN callStack' = 1 .. Len(callStack) - 1
              /\ callStack'[1] = fr
              /\ \A k \in DOMAIN callStack' : k # 1 => callStack'[k] = callStack[k + 1]
          BY <2>2, <4>1, <4>2, <4>3, ReplaceSecond
        <4> QED
          BY <4>2, <4>4
      <3>2. CASE top.ins # null /\ callStack' = Tail(callStack)
        BY <2>1, <2>2, <3>2, PopTop
      <3> QED
        BY <1>7, <3>1, <3>2 DEF Leaves
    <2>4. \A k \in DOMAIN callStack' : k + 1 \in DOMAIN callStack /\ k + 1 # 1
      BY <2>2, <2>3
    <2> QED
      BY <2>3, <2>4 DEF ExternalInv
  <1> QED
    BY <1>1, <1>2, <1>3, <1>4, <1>5, <1>6, <1>7 DEF StackStep

\* The first activation goes on behind an instruction that is settled if
\* nothing was added.
LEMMA SettledAdvance ==
    ASSUME TypeOK, SettledInv, SizesFit(corruptedIR, corruptedIR'), callStack # <<>>,
           NEW fr \in ActivationType,
           ins' = ins, funcEnterExitVal' = funcEnterExitVal,
           callStack' = <<fr>> \o Tail(callStack), fr.fn = top.fn, fr.ins = top.ins,
           corruptedIR' = corruptedIR => corruptedPtr' = corruptedPtr,
           top.ins = null => /\ fr.pc = top.pc + 1
                             /\ corruptedIR' = corruptedIR => SettledBy(cur, corruptedIR, corruptedPtr)
    PROVE  SettledInv'
  <1>1. callStack \in Seq(ActivationType) /\ 1 \in DOMAIN callStack /\ top = callStack[1]
    BY TopIs
  <1>2. /\ DOMAIN callStack' = DOMAIN callStack
        /\ callStack'[1] = fr
        /\ \A k \in DOMAIN callStack : k # 1 => callStack'[k] = callStack[k]
    BY <1>1, ReplaceTop
  <1>3. \A f : ActiveIn(f, callStack) => ActiveIn(f, callStack')
    BY <1>1, <1>2 DEF ActiveIn
  <1>4. ASSUME NEW k \in DOMAIN callStack', callStack'[k].ins = null
        PROVE  /\ callStack'[k].fn \in DOMAIN funcEnterExitVal
               /\ \E n \in DOMAIN callStack :
                     /\ callStack[n].ins = null /\ callStack[n].fn = callStack'[k].fn
                     /\ callStack[n].pc \in Nat
                     /\ \/ callStack'[k].pc = callStack[n].pc
                        \/ /\ callStack'[k].pc = callStack[n].pc + 1
                           /\ corruptedIR' = corruptedIR =>
                                 SettledBy(Code[callStack[n].fn][callStack[n].pc], corruptedIR, corruptedPtr)
    <2>1. callStack[k].ins = null /\ callStack[k].fn = callStack'[k].fn /\ callStack[k].pc \in Nat
      <3>1. callStack[k] \in ActivationType
        BY <1>1, <1>2
      <3>2. callStack[k].ins = callStack'[k].ins /\ callStack[k].fn = callStack'[k].fn
        BY <1>1, <1>2
      <3> QED
        BY <1>4, <3>1, <3>2 DEF ActivationType
    <2>2. callStack'[k].fn \in DOMAIN funcEnterExitVal
      BY <1>2, <2>1 DEF SettledInv
    <2>3. CASE k # 1
      BY <1>2, <2>1, <2>2, <2>3
    <2>4. CASE k = 1
      BY <1>1, <1>2, <2>1, <2>2, <2>4 DEF cur
    <2> QED
      BY <2>3, <2>4
  <1>5. SettledIn(corruptedIR, corruptedPtr, funcEnterExitVal, callStack)
    BY SettledIs
  <1>6. EntriesFit(corruptedIR', corruptedPtr', funcEnterExitVal, funcEnterExitVal', callStack, callStack')
    BY <1>3, EntryFits DEF EntriesFit
  <1>7. StackFits(corruptedIR, corruptedIR', corruptedPtr', funcEnterExitVal, funcEnterExitVal',
                  callStack, callStack')
    BY <1>4 DEF StackFits
  <1>8. /\ PtrFits(corruptedIR, corruptedIR', corruptedPtr, corruptedPtr', funcEnterExitVal, callStack')
        /\ InPlace(callStack)
    BY PlacesIn DEF PtrFits
  <1>9. SettledIn(corruptedIR', corruptedPtr', funcEnterExitVal', callStack')
    BY <1>5, <1>6, <1>7, <1>8, SettledStays
  <1> QED
    BY <1>9, SettledIs

\* The same for the current instruction.
LEMMA SettledCur ==
    ASSUME TypeOK, ins \in Programs, SettledInv, SizesFit(corruptedIR, corruptedIR'), Running,
           callStack' = Advanced(top),
           ins' = ins, funcEnterExitVal' = funcEnterExitVal,
           corruptedIR' = corruptedIR => corruptedPtr' = corruptedPtr,
           corruptedIR' = corruptedIR => SettledBy(cur, corruptedIR, corruptedPtr)
    PROVE  SettledInv'
  <1> DEFINE fr == [top EXCEPT !.pc = @ + 1]
  <1>1. callStack # <<>> /\ top \in ActivationType /\ callStack' = <<fr>> \o Tail(callStack)
    BY TopIs DEF Running, Advanced
  <1>2. fr \in ActivationType /\ fr.fn = top.fn /\ fr.ins = top.ins /\ fr.pc = top.pc + 1
    BY <1>1 DEF ActivationType
  <1> HIDE DEF fr
  <1> QED
    BY <1>1, <1>2, SettledAdvance

\* The entry at a call fits, too.
LEMMA EnteredFits ==
    ASSUME SettledInv, SizesFit(corruptedIR, corruptedIR'), NEW f
    PROVE  Entered(f) \in [enterVal : 0 .. Cardinality(corruptedIR'),
                           exitVal : 0 .. Cardinality(corruptedIR')]
  <1> DEFINE size == Cardinality(corruptedIR)
             size2 == Cardinality(corruptedIR')
             e == funcEnterExitVal[f]
  <1>1. size \in Nat /\ size2 \in Nat /\ size \in 0 .. size2 /\ 0 \in 0 .. size2
    BY DEF SizesFit
  <1>2. f \in DOMAIN funcEnterExitVal => e \in [enterVal : 0 .. size2, exitVal : 0 .. size2]
    BY EntryFits
  <1>3. Entered(f) = IF f \notin DOMAIN funcEnterExitVal
                     THEN [enterVal |-> size, exitVal |-> 0]
                     ELSE IF e.enterVal = e.exitVal /\ e.enterVal < size
                          THEN [e EXCEPT !.enterVal = size]
                          ELSE e
    BY DEF Entered
  <1> HIDE DEF size, size2, e
  <1>4. Entered(f) \in [enterVal : 0 .. size2, exitVal : 0 .. size2]
    BY <1>1, <1>2, <1>3
  <1> QED
    BY <1>4 DEF size2

LEMMA SettledStep ==
    ASSUME TypeOK, ins \in Programs, StackInv, NoReentry, ExternalInv, ActivationInv, PtrInv,
           OrderedIsSet, SettledInv, [Next]_vars
    PROVE  aborted' \/ SettledInv'
  <1>1. CASE NextHead
    <2>1. ins' = ins /\ funcEnterExitVal' = [f \in {} |-> 0]
      BY <1>1 DEF NextHead, program
    <2>2. \A k \in DOMAIN callStack' : callStack'[k].ins # null
      <3>1. Starts /\ UNCHANGED program
        BY <1>1 DEF NextHead, Starts
      <3> QED
        BY <3>1, StartsKeeps
    <2> QED
      BY <2>1, <2>2, SettledIs DEF SettledIn
  <1>2. ASSUME ~NextHead PROVE SizesFit(corruptedIR, corruptedIR') /\ ins' = ins
    BY <1>2, SizeStep, SameHead DEF program
  <1>3. CASE UNCHANGED vars
    <2>1. UNCHANGED <<ins, corruptedIR, corruptedPtr, funcEnterExitVal, callStack>>
      BY <1>3 DEF vars, program, perHead
    <2> QED
      BY <2>1, SettledIs
  <1>4. CASE EnterAfterCall /\ ~NextHead
    <2> DEFINE pc == Place[top.ins] + 1
               fr == [top EXCEPT !.pc = pc]
    <2>1. callStack # <<>> /\ top.pc = 0 /\ callStack' = <<fr>> \o Tail(callStack)
          /\ funcEnterExitVal' = funcEnterExitVal /\ corruptedPtr' = corruptedPtr
      BY <1>4 DEF EnterAfterCall, perHead
    <2>2. top \in ActivationType /\ top.ins # null
      BY <2>1, TopIs
    <2>3. pc \in Nat
      BY <2>2, PlaceIs DEF ActivationType
    <2> HIDE DEF pc
    <2>4. fr \in ActivationType /\ fr.fn = top.fn /\ fr.ins = top.ins
      BY <2>2, <2>3 DEF ActivationType
    <2> HIDE DEF fr
    <2> QED
      BY <1>2, <1>4, <2>1, <2>2, <2>4, SettledAdvance
  <1>5. CASE EnterAtSource /\ ~NextHead
    <2> DEFINE new == top.ins \notin corruptedIR
               pc == Place[top.ins]
               fr == [top EXCEPT !.pc = pc, !.rv = new]
    <2>1. callStack # <<>> /\ top.pc = 0 /\ callStack' = <<fr>> \o Tail(callStack)
          /\ funcEnterExitVal' = funcEnterExitVal
          /\ Add(New(top.ins)) /\ (~new => corruptedPtr' = corruptedPtr)
      BY <1>5 DEF EnterAtSource
    <2>0. corruptedIR' = corruptedIR => corruptedPtr' = corruptedPtr
      <3>1. corruptedIR' = corruptedIR \cup ToSet(New(top.ins))
        BY <2>1 DEF Add
      <3>2. new => New(top.ins) = <<top.ins>>
        BY DEF New
      <3>3. top.ins \in ToSet(<<top.ins>>)
        BY DEF ToSet
      <3>4. corruptedIR' = corruptedIR => ~new
        BY <3>1, <3>2, <3>3
      <3> QED
        BY <2>1, <3>4
    <2>2. top \in ActivationType /\ top.ins # null
      BY <2>1, TopIs
    <2>3. pc \in Nat
      BY <2>2, PlaceIs DEF ActivationType
    <2>4. new \in BOOLEAN
      OBVIOUS
    <2> HIDE DEF pc, new
    <2>5. fr \in ActivationType /\ fr.fn = top.fn /\ fr.ins = top.ins
      BY <2>2, <2>3, <2>4 DEF ActivationType
    <2> HIDE DEF fr
    <2> QED
      BY <1>2, <1>5, <2>0, <2>1, <2>2, <2>5, SettledAdvance
  <1>6. CASE (IgnoredCall \/ ExternalCall \/ SkippedCall) /\ ~NextHead
    <2>1. /\ Running /\ callStack' = Advanced(top) /\ funcEnterExitVal' = funcEnterExitVal
          /\ corruptedPtr' = corruptedPtr
          /\ ins[cur].kind \in {"call", "intrinsic"}
      BY <1>6 DEF IgnoredCall, ExternalCall, SkippedCall, Skips, Considered, perHead
    <2>2. corruptedIR' = corruptedIR => SettledBy(cur, corruptedIR, corruptedPtr)
      <3>1. CASE ins[cur].kind = "intrinsic" \/ callee = null
        BY <2>1, <3>1 DEF SettledBy, callee
      <3>2. CASE Cycle(callee)
        <4>1. Code[callee] # <<>>
          BY <2>1, <3>2, BodiesOnStack DEF Cycle, Running
        <4> QED
          BY <2>1, <4>1 DEF SettledBy, callee
      <3>3. CASE ExternalCall
        <4>1. Add(New(cur))
          BY <3>3 DEF ExternalCall
        <4>2. corruptedIR' = corruptedIR => cur \in corruptedIR
          BY <4>1 DEF Add, New, ToSet
        <4> QED
          BY <4>2 DEF SettledBy
      <3>4. CASE SkippedCall
        <4>1. Code[callee] # <<>> \/ PassedBy(cur, corruptedIR, corruptedPtr) = {}
          BY <3>4 DEF SkippedCall, Skips, External, CoParams, CoParamsOf, PassedBy
        <4> QED
          BY <2>1, <4>1 DEF SettledBy, callee
      <3> QED
        BY <1>6, <3>1, <3>2, <3>3, <3>4 DEF IgnoredCall
    <2> QED
      BY <1>2, <1>6, <2>1, <2>2, SettledCur
  <1>7. CASE Gep /\ ~NextHead
    <2>1. /\ Running /\ callStack' = Advanced(top) /\ funcEnterExitVal' = funcEnterExitVal
          /\ Add(IF Matches \/ GepTaints THEN New(cur) ELSE <<>>)
      BY <1>7 DEF Gep
    <2>2. corruptedIR' = corruptedIR => cur \in corruptedIR \/ ~(Matches \/ GepTaints)
      BY <2>1 DEF Add, New, ToSet
    <2>3. corruptedIR' = corruptedIR => SettledBy(cur, corruptedIR, corruptedPtr)
      BY <1>7, <2>2
         DEF Gep, SettledBy, HitBy, Matches, MatchesAt, GepTaints, SomeOperandCorrupted
    <2>4. corruptedIR' = corruptedIR => corruptedPtr' = corruptedPtr
      BY <1>7, <2>2 DEF Gep, GepTaints
    <2> QED
      BY <1>2, <1>7, <2>1, <2>3, <2>4, SettledCur
  <1>8. CASE Operation /\ ~NextHead
    <2> DEFINE taints == cur \notin corruptedIR /\ SomeOperandCorrupted(cur)
               branch == IF taints /\ ins[cur].kind = "br" THEN {cur} ELSE {}
               rv == top.rv \/ taints
               mid == [top EXCEPT !.localBr = @ \cup branch, !.rv = rv]
               fr == [mid EXCEPT !.pc = @ + 1]
    <2>1. /\ Running /\ callStack # <<>> /\ callStack' = <<fr>> \o Tail(callStack)
          /\ funcEnterExitVal' = funcEnterExitVal /\ corruptedPtr' = corruptedPtr
          /\ ins[cur].kind \notin {"call", "intrinsic", "gep"}
      BY <1>8 DEF Operation, Advanced, Running
    <2>2. corruptedIR' = corruptedIR => SettledBy(cur, corruptedIR, corruptedPtr)
      <3>1. corruptedIR' = corruptedIR => ~taints
        BY <1>8, OperationExtends DEF SomeOperandCorrupted
      <3> QED
        BY <2>1, <3>1 DEF SettledBy, SomeOperandCorrupted
    <2>3. top \in ActivationType /\ cur \in Inst
      BY <2>1, TopIs, CurIs
    <2>4. branch \subseteq {cur} /\ rv \in BOOLEAN
      BY Zenon
    <2> HIDE DEF branch, rv
    <2>5. mid \in ActivationType /\ mid.fn = top.fn /\ mid.ins = top.ins /\ mid.pc = top.pc
      <3>1. top.localBr \cup branch \in SUBSET Inst
        BY <2>3, <2>4 DEF ActivationType
      <3> QED
        BY <2>3, <2>4, <3>1 DEF ActivationType
    <2> HIDE DEF mid
    <2>6. fr \in ActivationType /\ fr.fn = mid.fn /\ fr.ins = mid.ins /\ fr.pc = mid.pc + 1
      BY <2>5 DEF ActivationType
    <2> HIDE DEF fr
    <2> QED
      BY <1>2, <1>8, <2>1, <2>2, <2>5, <2>6, SettledAdvance
  <1>9. CASE AnalysedCall /\ ~NextHead
    <2> DEFINE en == funcEnterExitVal
               en2 == funcEnterExitVal'
    <2>1. /\ Considered /\ Running /\ callStack # <<>>
          /\ en2 = With(en, callee, Entered(callee))
          /\ \E flag : callStack' = <<Activation(callee, flag)>> \o callStack
      BY <1>9 DEF AnalysedCall, Considered, Running
    <2>2. /\ callStack \in Seq(ActivationType)
          /\ Len(callStack) \in Nat /\ DOMAIN callStack = 1 .. Len(callStack)
      BY <2>1, TopIs
    <2>3. /\ DOMAIN callStack' = 1 .. Len(callStack) + 1
          /\ callStack'[1].ins = null /\ callStack'[1].fn = callee /\ callStack'[1].pc = 1
          /\ \A k \in DOMAIN callStack : callStack'[k + 1] = callStack[k]
      <3>1. Enters
        BY <1>9, AnalysedEnters
      <3>2. PICK fr \in ActivationType :
                /\ fr.fn = callee /\ fr.ins = null /\ fr.pc = 1
                /\ callStack' = <<fr>> \o callStack
        BY <3>1 DEF Enters
      <3> QED
        BY <2>2, <3>2, PushTop
    <2>4. /\ DOMAIN en2 = DOMAIN en \cup {callee}
          /\ en2[callee] = Entered(callee)
          /\ \A f \in DOMAIN en : f # callee => en2[f] = en[f]
      BY <2>1 DEF With
    <2>5. ActiveIn(callee, callStack') /\ \A f : ActiveIn(f, callStack) => ActiveIn(f, callStack')
      <3>1. 1 \in DOMAIN callStack' /\ \A k \in DOMAIN callStack : k + 1 \in DOMAIN callStack'
        BY <2>2, <2>3
      <3> QED
        BY <2>3, <3>1 DEF ActiveIn
    <2>6. EntriesFit(corruptedIR', corruptedPtr', en, en2, callStack, callStack')
      <3> SUFFICES ASSUME NEW f \in DOMAIN en2
                   PROVE  /\ en2[f] \in [enterVal : 0 .. Cardinality(corruptedIR'),
                                         exitVal : 0 .. Cardinality(corruptedIR')]
                          /\ \/ f \in DOMAIN en /\ en2[f] = en[f]
                             \/ ActiveIn(f, callStack')
        BY <2>5 DEF EntriesFit
      <3>1. CASE f = callee
        BY <1>2, <1>9, <2>4, <2>5, <3>1, EnteredFits
      <3>2. CASE f # callee
        BY <1>2, <1>9, <2>4, <3>2, EntryFits
      <3> QED
        BY <3>1, <3>2
    <2>7. StackFits(corruptedIR, corruptedIR', corruptedPtr', en, en2, callStack, callStack')
      <3> SUFFICES ASSUME NEW k \in DOMAIN callStack', callStack'[k].ins = null
                   PROVE  /\ callStack'[k].fn \in DOMAIN en2
                          /\ \/ callStack'[k].pc = 1
                             \/ \E n \in DOMAIN callStack :
                                   /\ callStack[n].ins = null /\ callStack[n].fn = callStack'[k].fn
                                   /\ callStack[n].pc \in Nat
                                   /\ en2[callStack[n].fn] = en[callStack[n].fn]
                                   /\ callStack'[k].pc = callStack[n].pc
        BY DEF StackFits
      <3>1. CASE k = 1
        BY <2>3, <2>4, <3>1
      <3>2. CASE k # 1
        <4> DEFINE n == k - 1
        <4>1. n \in DOMAIN callStack /\ n + 1 = k
          BY <2>2, <2>3, <3>2
        <4> HIDE DEF n
        <4>2. callStack'[k] = callStack[n] /\ callStack[n] \in ActivationType
          BY <2>2, <2>3, <4>1
        <4>3. callStack[n].fn \in DOMAIN en
          BY <4>1, <4>2 DEF SettledInv
        <4>4. callStack[n].fn # callee
          BY <2>1, <4>1 DEF Considered, Cycle
        <4>5. callStack[n].pc \in Nat
          BY <4>2 DEF ActivationType
        <4> QED
          BY <2>4, <4>1, <4>2, <4>3, <4>4, <4>5
      <3> QED
        BY <3>1, <3>2
    <2>8. PtrFits(corruptedIR, corruptedIR', corruptedPtr, corruptedPtr', en, callStack')
      <3>1. callee \in Func /\ DOMAIN en \subseteq Func
        <4>1. cur \in Inst /\ callee # null
          BY <2>1, CurIs DEF Considered
        <4> QED
          BY <4>1, Instructions DEF callee, TypeOK
      <3>2. corruptedPtr' = PassedPtr
        BY <1>9 DEF AnalysedCall
      <3> SUFFICES ASSUME corruptedIR' = corruptedIR, NEW f \in DOMAIN en
                   PROVE  \/ \A i \in ToSet(Code[f]) : SettledBy(i, corruptedIR, corruptedPtr)
                                                      => SettledBy(i, corruptedIR, corruptedPtr')
                          \/ /\ ActiveIn(f, callStack')
                             /\ \A k \in DOMAIN callStack' :
                                   callStack'[k].ins = null /\ callStack'[k].fn = f => callStack'[k].pc = 1
        BY DEF PtrFits
      <3>3. CASE f = callee
        <4>1. ASSUME NEW k \in DOMAIN callStack', k # 1 PROVE callStack'[k].fn # callee
          <5> DEFINE n == k - 1
          <5>1. n \in DOMAIN callStack /\ n + 1 = k
            BY <2>2, <2>3, <4>1
          <5> HIDE DEF n
          <5> QED
            BY <2>1, <2>3, <5>1 DEF Considered, Cycle
        <4> QED
          BY <2>3, <2>5, <3>3, <4>1
      <3>4. CASE f # callee
        BY <2>1, <3>1, <3>2, <3>4, PassedKeeps
      <3> QED
        BY <3>3, <3>4
    <2> HIDE DEF en, en2
    <2>9. SettledIn(corruptedIR, corruptedPtr, en, callStack)
      BY SettledIs DEF en
    <2>10. SettledIn(corruptedIR', corruptedPtr', en2, callStack')
      BY <1>2, <1>9, <2>6, <2>7, <2>8, <2>9, PlacesIn, SettledStays
    <2> QED
      BY <1>2, <1>9, <2>10, SettledIs DEF en2
  <1>10. CASE Return /\ ~NextHead
    <2> DEFINE en == funcEnterExitVal
               en2 == funcEnterExitVal'
               fr == [callStack[2] EXCEPT !.pc = @ + 1]
               entry == [en[top.fn] EXCEPT !.exitVal = Cardinality(corruptedIR')]
    <2>1. /\ callStack # <<>> /\ top.ins = null /\ Returning
          /\ callStack' = <<fr>> \o SubSeq(callStack, 3, Len(callStack))
          /\ en2 = With(en, top.fn, entry) /\ corruptedPtr' = corruptedPtr
      BY <1>10 DEF Return
    <2>2. /\ callStack \in Seq(ActivationType) /\ Len(callStack) > 1
          /\ Len(callStack) \in Nat /\ DOMAIN callStack = 1 .. Len(callStack)
          /\ 1 \in DOMAIN callStack /\ top = callStack[1] /\ top \in ActivationType
          /\ 2 \in DOMAIN callStack /\ callStack[2] \in ActivationType
          /\ CalledBy(top, callStack[2])
      BY <2>1, TopIs, CallerIs
    <2>3. fr \in ActivationType /\ fr.fn = callStack[2].fn /\ fr.ins = callStack[2].ins
          /\ fr.pc = callStack[2].pc + 1
      <3> DEFINE c == callStack[2]
      <3>1. c \in ActivationType /\ fr = [c EXCEPT !.pc = @ + 1]
        BY <2>2
      <3> HIDE DEF c, fr
      <3>2. fr \in ActivationType /\ fr.fn = c.fn /\ fr.ins = c.ins /\ fr.pc = c.pc + 1
        BY <3>1 DEF ActivationType
      <3> QED
        BY <3>2 DEF c
    <2> HIDE DEF fr
    <2>4. /\ DOMAIN callStack' = 1 .. Len(callStack) - 1
          /\ callStack'[1] = fr
          /\ \A k \in DOMAIN callStack' : k # 1 => callStack'[k] = callStack[k + 1]
      BY <2>1, <2>2, <2>3, ReplaceSecond
    <2>5. top.fn \in DOMAIN en
      BY <2>1, <2>2 DEF SettledInv
    <2>6. /\ DOMAIN en2 = DOMAIN en
          /\ en2[top.fn] = entry
          /\ \A f \in DOMAIN en : f # top.fn => en2[f] = en[f]
      BY <2>1, <2>5 DEF With
    <2>7. ASSUME NEW f, f # top.fn, ActiveIn(f, callStack) PROVE ActiveIn(f, callStack')
      <3>1. PICK m \in DOMAIN callStack : callStack[m].ins = null /\ callStack[m].fn = f
        BY <2>7 DEF ActiveIn
      <3> DEFINE k == m - 1
      <3>2. k \in DOMAIN callStack' /\ m = k + 1
        BY <2>2, <2>4, <2>7, <3>1
      <3> HIDE DEF k
      <3>3. callStack'[k].ins = null /\ callStack'[k].fn = f
        <4>1. CASE k = 1
          BY <2>3, <2>4, <3>1, <3>2, <4>1
        <4>2. CASE k # 1
          BY <2>4, <3>1, <3>2, <4>2
        <4> QED
          BY <4>1, <4>2
      <3> QED
        BY <3>2, <3>3 DEF ActiveIn
    <2>8. EntriesFit(corruptedIR', corruptedPtr', en, en2, callStack, callStack')
      <3>1. SizesFit(corruptedIR, corruptedIR')
        BY <1>2, <1>10
      <3>2. ASSUME NEW f \in DOMAIN en2, f # top.fn
            PROVE  /\ en2[f] \in [enterVal : 0 .. Cardinality(corruptedIR'),
                                  exitVal : 0 .. Cardinality(corruptedIR')]
                   /\ f \in DOMAIN en /\ en2[f] = en[f] /\ (ActiveIn(f, callStack) => ActiveIn(f, callStack'))
        BY <2>6, <2>7, <3>1, <3>2, EntryFits
      <3>3. en2[top.fn] \in [enterVal : 0 .. Cardinality(corruptedIR'),
                             exitVal : 0 .. Cardinality(corruptedIR')]
        <4>1. en[top.fn] \in [enterVal : 0 .. Cardinality(corruptedIR'),
                              exitVal : 0 .. Cardinality(corruptedIR')]
          BY <2>5, <3>1, EntryFits
        <4>2. Cardinality(corruptedIR') \in 0 .. Cardinality(corruptedIR')
          BY <3>1 DEF SizesFit
        <4> DEFINE e == en[top.fn]
                   size2 == Cardinality(corruptedIR')
        <4> HIDE DEF e, size2
        <4> QED
          BY <2>6, <4>1, <4>2
      <3>4. ASSUME en2[top.fn].enterVal = Cardinality(corruptedIR'), NEW i \in ToSet(Code[top.fn])
            PROVE  SettledBy(i, corruptedIR', corruptedPtr')
        <4>1. en[top.fn].enterVal = Cardinality(corruptedIR')
              /\ en[top.fn].enterVal \in 0 .. Cardinality(corruptedIR)
          BY <2>5, <2>6, <3>4 DEF SettledInv
        <4>2. Cardinality(corruptedIR) = Cardinality(corruptedIR') /\ corruptedIR' = corruptedIR
          BY <3>1, <4>1 DEF SizesFit
        <4>3. PICK j \in DOMAIN Code[top.fn] : i = Code[top.fn][j]
          BY DEF ToSet
        <4>4. top.pc = Len(Code[top.fn]) + 1 /\ top.fn \in Func
          BY <2>1, <2>2 DEF Returning, ActivationType
        <4>5. DOMAIN Code[top.fn] = 1 .. Len(Code[top.fn]) /\ Len(Code[top.fn]) \in Nat
          BY <4>3, <4>4, InCode
        <4>6. j \in 1 .. top.pc - 1
          BY <4>3, <4>4, <4>5
        <4>7. SettledIn(corruptedIR, corruptedPtr, en, callStack)
          BY SettledIs
        <4>8. SettledBy(Code[top.fn][j], corruptedIR, corruptedPtr)
          BY <2>1, <2>2, <4>1, <4>2, <4>6, <4>7 DEF SettledIn
        <4> QED
          BY <2>1, <4>2, <4>3, <4>8
      <3> QED
        BY <3>2, <3>3, <3>4 DEF EntriesFit
    <2>9. StackFits(corruptedIR, corruptedIR', corruptedPtr', en, en2, callStack, callStack')
      <3> SUFFICES ASSUME NEW k \in DOMAIN callStack', callStack'[k].ins = null
                   PROVE  /\ callStack'[k].fn \in DOMAIN en2
                          /\ \E n \in DOMAIN callStack :
                                /\ callStack[n].ins = null /\ callStack[n].fn = callStack'[k].fn
                                /\ callStack[n].pc \in Nat
                                /\ en2[callStack[n].fn] = en[callStack[n].fn]
                                /\ \/ callStack'[k].pc = callStack[n].pc
                                   \/ /\ callStack'[k].pc = callStack[n].pc + 1
                                      /\ corruptedIR' = corruptedIR =>
                                            SettledBy(Code[callStack[n].fn][callStack[n].pc],
                                                      corruptedIR', corruptedPtr')
        BY DEF StackFits
      <3> DEFINE n == k + 1
      <3>1. n \in DOMAIN callStack /\ n # 1 /\ callStack[n] \in ActivationType
        BY <2>2, <2>4
      <3>2. callStack[n].ins = null /\ callStack[n].fn = callStack'[k].fn
        <4>1. CASE k = 1
          BY <2>3, <2>4, <4>1
        <4>2. CASE k # 1
          BY <2>4, <4>2
        <4> QED
          BY <4>1, <4>2
      <3>3. callStack[n].pc \in Nat /\ callStack[n].fn # top.fn /\ callStack[n].fn \in DOMAIN en
        BY <2>1, <2>2, <3>1, <3>2 DEF ActivationType, NoReentry, SettledInv
      <3>4. en2[callStack[n].fn] = en[callStack[n].fn] /\ callStack'[k].fn \in DOMAIN en2
        BY <2>6, <3>2, <3>3
      <3>5. \/ callStack'[k].pc = callStack[n].pc
            \/ /\ callStack'[k].pc = callStack[n].pc + 1
               /\ corruptedIR' = corruptedIR =>
                     SettledBy(Code[callStack[n].fn][callStack[n].pc], corruptedIR', corruptedPtr')
        <4>1. CASE k = 1
          <5>1. callStack'[k].pc = callStack[2].pc + 1 /\ n = 2
            BY <2>3, <2>4, <4>1
          <5> DEFINE i == Code[callStack[2].fn][callStack[2].pc]
          <5>2. ins[i].kind = "call" /\ ins[i].callee = top.fn
            BY <2>2 DEF CalledBy
          <5>3. Code[top.fn] # <<>> \/ PassedBy(i, corruptedIR, corruptedPtr) = {}
            BY <2>2 DEF ExternalInv, CoParamsOf, PassedBy
          <5> HIDE DEF i
          <5>4. SettledBy(i, corruptedIR, corruptedPtr)
            BY <5>2, <5>3 DEF SettledBy
          <5>5. corruptedIR' = corruptedIR => SettledBy(i, corruptedIR', corruptedPtr')
            BY <2>1, <5>4
          <5> HIDE DEF n
          <5> QED
            BY <5>1, <5>5 DEF i
        <4>2. CASE k # 1
          BY <2>4, <4>2
        <4> QED
          BY <4>1, <4>2
      <3> QED
        BY <3>1, <3>2, <3>3, <3>4, <3>5
    <2>10. PtrFits(corruptedIR, corruptedIR', corruptedPtr, corruptedPtr', en, callStack')
      BY <2>1 DEF PtrFits
    <2> HIDE DEF en, en2
    <2>11. SettledIn(corruptedIR, corruptedPtr, en, callStack)
      BY SettledIs DEF en
    <2>12. SettledIn(corruptedIR', corruptedPtr', en2, callStack')
      BY <1>2, <1>10, <2>8, <2>9, <2>10, <2>11, PlacesIn, SettledStays
    <2> QED
      BY <1>2, <1>10, <2>12, SettledIs DEF en2
  <1>11. CASE ReturnFromFrame /\ ~NextHead
    <2> DEFINE en == funcEnterExitVal
    <2>1. callStack # <<>> /\ top.ins # null /\ callStack' = Tail(callStack)
          /\ funcEnterExitVal' = en /\ corruptedPtr' = corruptedPtr
      BY <1>11 DEF ReturnFromFrame
    <2>2. /\ callStack \in Seq(ActivationType) /\ 1 \in DOMAIN callStack /\ top = callStack[1]
          /\ Len(callStack) \in Nat /\ DOMAIN callStack = 1 .. Len(callStack)
      BY <2>1, TopIs
    <2>3. /\ DOMAIN callStack' = 1 .. Len(callStack) - 1
          /\ \A k \in DOMAIN callStack' : k + 1 \in DOMAIN callStack /\ callStack'[k] = callStack[k + 1]
      BY <2>1, <2>2, PopTop
    <2>4. ASSUME NEW f, ActiveIn(f, callStack) PROVE ActiveIn(f, callStack')
      <3>1. PICK m \in DOMAIN callStack : callStack[m].ins = null /\ callStack[m].fn = f
        BY <2>4 DEF ActiveIn
      <3>2. m # 1
        BY <2>1, <2>2, <3>1
      <3> DEFINE k == m - 1
      <3>3. k \in DOMAIN callStack' /\ m = k + 1
        BY <2>2, <2>3, <3>2
      <3> HIDE DEF k
      <3> QED
        BY <2>3, <3>1, <3>3 DEF ActiveIn
    <2>5. EntriesFit(corruptedIR', corruptedPtr', en, en, callStack, callStack')
      BY <1>2, <1>11, <2>4, EntryFits DEF EntriesFit
    <2>6. StackFits(corruptedIR, corruptedIR', corruptedPtr', en, en, callStack, callStack')
      <3> SUFFICES ASSUME NEW k \in DOMAIN callStack', callStack'[k].ins = null
                   PROVE  /\ callStack'[k].fn \in DOMAIN en
                          /\ \E n \in DOMAIN callStack :
                                /\ callStack[n].ins = null /\ callStack[n].fn = callStack'[k].fn
                                /\ callStack[n].pc \in Nat
                                /\ callStack'[k].pc = callStack[n].pc
        BY DEF StackFits
      <3>1. k + 1 \in DOMAIN callStack /\ callStack'[k] = callStack[k + 1]
            /\ callStack[k + 1] \in ActivationType
        BY <2>2, <2>3
      <3>2. callStack'[k].fn \in DOMAIN en /\ callStack[k + 1].pc \in Nat
        BY <3>1 DEF ActivationType, SettledInv
      <3> QED
        BY <3>1, <3>2
    <2>7. PtrFits(corruptedIR, corruptedIR', corruptedPtr, corruptedPtr', en, callStack')
      BY <2>1 DEF PtrFits
    <2> HIDE DEF en
    <2>8. SettledIn(corruptedIR, corruptedPtr, en, callStack)
      BY SettledIs DEF en
    <2>9. SettledIn(corruptedIR', corruptedPtr', en, callStack')
      BY <1>2, <1>11, <2>5, <2>6, <2>7, <2>8, PlacesIn, SettledStays
    <2> QED
      BY <1>2, <1>11, <2>1, <2>9, SettledIs
  <1> QED
    BY <1>1, <1>3, <1>4, <1>5, <1>6, <1>7, <1>8, <1>9, <1>10, <1>11 DEF Next, Abort, Finished

----------------------------------------------------------------------------
(* The theorems.                                                           *)

\* Everything together: the program does not change, and after an abort
\* nothing is left on the call stack.
IInv ==
    /\ ins \in Programs
    /\ TaintInv
    /\ Justified /\ CrossDepHasBranch
    /\ aborted => callStack = <<>>

LEMMA InitIInv == Init => IInv
  <1> SUFFICES ASSUME Init PROVE IInv
    OBVIOUS
  <1>1. /\ ins \in Programs /\ heads \in HeadLists /\ head = 0 /\ callStack = <<>>
        /\ corruptedIR = {} /\ orderedIR = <<>>
        /\ corruptedPtr = [v \in {} |-> {}] /\ funcEnterExitVal = [f \in {} |-> 0]
        /\ corruptedBr = {} /\ corruptedCallIns = {} /\ interCtrlDep = [l \in {} |-> {}]
        /\ aborted = FALSE
    BY DEF Init
  <1>2. TypeOK
    <2>1. \A i \in Inst : ins[i].kind \in Kinds
      BY <1>1, Instructions
    <2>2. heads \in Seq(Inst)
      BY <1>1, CodeAssumption
    <2>3. head \in 0 .. Len(heads)
      BY <1>1, <2>2
    <2>4. callStack \in Seq(ActivationType) /\ DOMAIN callStack = {} /\ orderedIR \in Seq(Value)
      BY <1>1
    <2> QED
      BY <1>1, <2>1, <2>3, <2>4 DEF TypeOK
  <1>3. TaintInv
    BY <1>1, <1>2 DEF TaintInv, StackInv, NoReentry, ExternalInv, NotesInv, ActivationInv, PtrInv,
       OrderedIsSet, SettledInv, ToSet
  <1>4. Justified
    BY <1>1 DEF Justified, ToSet
  <1>5. CrossDepHasBranch
    BY <1>1 DEF CrossDepHasBranch, Running
  <1> QED
    BY <1>1, <1>3, <1>4, <1>5 DEF IInv

LEMMA NextIInv == IInv /\ [Next]_vars => IInv'
  <1> SUFFICES ASSUME IInv, [Next]_vars PROVE IInv'
    OBVIOUS
  <1>1. /\ ins \in Programs /\ TypeOK /\ StackInv /\ ActivationInv /\ PtrInv
        /\ ~aborted => SettledInv
        /\ NoReentry /\ ExternalInv /\ NotesInv
        /\ OrderedIsSet /\ Justified /\ CrossDepHasBranch
    BY DEF IInv, TaintInv
  <1>2. TypeOK'
    BY <1>1, TypeStep
  <1>3. StackInv' /\ NoReentry' /\ ExternalInv' /\ NotesInv'
    BY <1>1, StackKeeps, ExternalStep, NotesStep DEF StackOK
  <1>4. ActivationInv'
    BY <1>1, ActivationStep
  <1>5. PtrInv'
    <2>1. CASE NextHead
      BY <2>1 DEF NextHead, PtrInv
    <2>2. CASE PtrStep /\ ~NextHead
      <3>1. ins' = ins
        BY <2>2, SameHead DEF program
      <3> QED
        BY <2>2, <3>1 DEF PtrStep, PtrInv, Index
    <2> QED
      BY <1>1, <2>1, <2>2, Pointers
  <1>6. OrderedIsSet' /\ Justified'
    BY <1>1, ListStep
  <1>7. CrossDepHasBranch'
    <2>1. \A l \in DOMAIN interCtrlDep' : interCtrlDep'[l] # {}
      BY <1>1, RecordedIs
    <2> QED
      BY <1>2, <1>4, <2>1, CrossDepNext
  <1>8. (aborted => callStack = <<>>)'
    BY <1>1 DEF IInv, TypeOK, Next, NextHead, EnterAfterCall, EnterAtSource, Abort, IgnoredCall,
       ExternalCall, SkippedCall, Skips, AnalysedCall, Considered, Running, Gep, Operation,
       Return, ReturnFromFrame, Finished, vars
  <1>9. (~aborted => SettledInv)'
    <2>1. aborted => aborted'
      BY DEF IInv, Next, NextHead, EnterAfterCall, EnterAtSource, Abort, IgnoredCall,
         ExternalCall, SkippedCall, AnalysedCall, Gep, Operation, Return, ReturnFromFrame,
         Finished, vars
    <2> QED
      BY <1>1, <2>1, SettledStep
  <1>10. ins' \in Programs
    BY <1>1, Steps DEF StackStep, program
  <1> QED
    BY <1>2, <1>3, <1>4, <1>5, <1>6, <1>7, <1>8, <1>9, <1>10 DEF IInv, TaintInv

LEMMA AlwaysIInv == Spec => []IInv
  <1> QED
    BY InitIInv, NextIInv, PTL DEF Spec

\* The data of the pass has the types of TypeOK in every state: an activation
\* is always at an instruction of its function or behind the last one.
THEOREM TypeCorrect == Spec => []TypeOK
  <1>1. IInv => TypeOK
    BY DEF IInv, TaintInv
  <1> QED
    BY <1>1, AlwaysIInv, PTL

\* The inductive invariant of the pass holds in every state.
THEOREM TaintInvariant == Spec => []TaintInv
  <1>1. IInv => TaintInv
    BY DEF IInv
  <1> QED
    BY <1>1, AlwaysIInv, PTL

\* orderedcorruptedIR_ lists the corrupted values, each once.
THEOREM ListIsSet == Spec => []OrderedIsSet
  <1>1. IInv => OrderedIsSet
    BY DEF IInv, TaintInv
  <1> QED
    BY <1>1, AlwaysIInv, PTL

\* A chain of reasons leads from each corrupted value back to the corrupted
\* variable, or to an InvokeInst of the call stack.
THEOREM EveryValueJustified == Spec => []Justified
  <1>1. IInv => Justified
    BY DEF IInv
  <1> QED
    BY <1>1, AlwaysIInv, PTL

\* intraDataflowAnalysis never enters a function that is on the call stack.
THEOREM NoFunctionReentered == Spec => []NoReentry
  <1>1. IInv => NoReentry
    BY DEF IInv, TaintInv
  <1> QED
    BY <1>1, AlwaysIInv, PTL

\* A callee is skipped only when one more pass over its own instructions
\* would add no value: not for an operand, not for a corrupted element, not
\* for an argument of an external function.  The parameter that the skipped
\* call itself would corrupt is not meant, nor are the functions that the
\* callee calls in turn.
THEOREM SkippedBodyIsSettled == Spec => []SkippedIsSettled
  <1>1. IInv => SkippedIsSettled
    <2> SUFFICES ASSUME IInv, Skips PROVE \A i \in ToSet(Code[callee]) : Settled(i)
      BY DEF SkippedIsSettled
    <2>1. callStack # <<>> /\ ~Cycle(callee) /\ Unchanged(callee)
      BY DEF Skips, Considered, Running
    <2>2. SettledInv
      BY <2>1 DEF IInv, TaintInv
    <2>3. ~Active(callee) /\ callee \in DOMAIN funcEnterExitVal
      BY <2>1 DEF Active, Cycle, Unchanged
    <2> QED
      BY <2>1, <2>2, <2>3 DEF SettledInv
  <1> QED
    BY <1>1, AlwaysIInv, PTL

\* What is noted of a dangerous line stays with it in all later notes, those
\* of other heads included.
THEOREM NotesNeverLost == Spec => NotesStay
  <1>1. IInv /\ [Next]_vars =>
            [\A l \in DOMAIN interCtrlDep :
                l \in DOMAIN interCtrlDep' /\ interCtrlDep[l] \subseteq interCtrlDep'[l]]_vars
    BY NotesStep DEF IInv, TaintInv
  <1> QED
    BY <1>1, AlwaysIInv, PTL DEF Spec, NotesStay

\* A dangerous operation is noted as dependent on a calling function only
\* with a branch that this head has corrupted.
THEOREM NotesHaveBranch == Spec => []CrossDepHasBranch
  <1>1. IInv => CrossDepHasBranch
    BY DEF IInv
  <1> QED
    BY <1>1, AlwaysIInv, PTL

=============================================================================
