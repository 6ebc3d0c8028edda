-------------------------- MODULE DominatorsProofs --------------------------
(***************************************************************************)
(* Proofs about Dominators, for every set of blocks, every control flow    *)
(* graph and every order of the worklist.                                  *)
(***************************************************************************)
EXTENDS Dominators, TLAPS

LEMMA CfgType ==
    ASSUME TypeOK
    PROVE  succ \in [Block -> SUBSET (Block \ {entry})]
  BY CfgAssumption DEF TypeOK

----------------------------------------------------------------------------
(* Type correctness.                                                       *)

LEMMA TypeStep ==
    TypeOK /\ [Next]_vars => TypeOK'
  <1> SUFFICES ASSUME TypeOK, [Next]_vars
               PROVE  TypeOK'
    OBVIOUS
  <1>0. succ \in [Block -> SUBSET (Block \ {entry})] /\ entry \in Block
    BY CfgType, BlockAssumption
  <1>1. CASE StartCompute
    BY <1>0, <1>1 DEF TypeOK, StartCompute, InitialSet, InitialWork
  <1>2. ASSUME NEW Z \in worklist, ProcessBlock(Z)
        PROVE  TypeOK'
    <2>1. Z \in Block \ {entry} /\ Intersects(Z) \in SUBSET Block
      BY DEF TypeOK, Intersects
    <2>2. dominators' \in [Block -> SUBSET Block]
      BY <1>2, <2>1 DEF TypeOK, ProcessBlock
    <2>3. worklist' \in SUBSET (Block \ {entry})
      BY <1>0, <1>2, <2>1 DEF TypeOK, ProcessBlock, Pushed
    <2>4. twice' \in SUBSET worklist'
      BY <1>2 DEF TypeOK, ProcessBlock
    <2> QED
      BY <1>2, <2>2, <2>3, <2>4 DEF TypeOK, ProcessBlock
  <1>3. CASE EndCompute
    BY <1>3 DEF TypeOK, EndCompute
  <1>4. ASSUME NEW op \in danOps, Judge(op) \/ Skip(op)
        PROVE  TypeOK'
    BY <1>4 DEF TypeOK, Judge, Skip
  <1>5. CASE NextHead
    BY <1>5 DEF TypeOK, NextHead
  <1>6. CASE Finished \/ UNCHANGED vars
    BY <1>6 DEF TypeOK, Finished, vars
  <1> QED
    BY <1>1, <1>2, <1>3, <1>4, <1>5, <1>6 DEF Next

\* The data of the pass keep their types; in particular the entry block
\* never gets on the worklist.
THEOREM TypeCorrect == Spec => []TypeOK
  <1>1. Init => TypeOK
    BY DEF Init, TypeOK
  <1> QED
    BY <1>1, TypeStep, PTL DEF Spec

----------------------------------------------------------------------------
(* Facts about the graph.                                                  *)

\* The entry is dominated by itself only.
LEMMA EntryDominators ==
    ASSUME NEW d \in Block, DominatesFrom(Roots, d, entry)
    PROVE  d = entry
  BY DEF DominatesFrom, Roots

\* A dominator of a block, other than the block, dominates its predecessors,
\* and none of these is a dead block.
LEMMA DominatesPredecessor ==
    ASSUME TypeOK, NEW b \in Block, NEW d \in Block, d # b, DominatesFrom(Roots, d, b),
           NEW p \in pred(b), p # d
    PROVE  p \in Connected /\ DominatesFrom(Roots, d, p)
  <1>1. PICK S \in SUBSET (Block \ {d, b}) :
            /\ Roots \subseteq S \cup {d}
            /\ \A x \in S : succ[x] \subseteq S \cup {d}
    BY DEF DominatesFrom
  <1>2. p \notin S /\ p \in Block /\ succ[p] # {}
    BY <1>1 DEF pred
  <1>3. p \in Connected
    BY <1>1, <1>2 DEF Roots, Connected
  <1>4. S \in SUBSET (Block \ {d, p})
    BY <1>2
  <1> QED
    BY <1>1, <1>3, <1>4 DEF DominatesFrom

\* Every reachable block but the entry has a predecessor.
LEMMA ReachableConnected ==
    ASSUME TypeOK
    PROVE  Reachable \subseteq Connected
  <1> SUFFICES ASSUME NEW b \in Reachable, b # entry, pred(b) = {}
               PROVE  FALSE
    BY DEF Reachable, Connected
  <1> DEFINE S == Block \ {b}
  <1>1. S \in SUBSET Block /\ entry \in S
    BY BlockAssumption
  <1>2. \A x \in S : succ[x] \subseteq S
    BY CfgType DEF pred
  <1>3. b \in S
    BY <1>1, <1>2 DEF Reachable
  <1> QED
    BY <1>3

\* A successor of a reachable block is reachable, and the entry is.
LEMMA ReachableClosed ==
    ASSUME TypeOK
    PROVE  /\ entry \in Reachable
           /\ \A x \in Reachable : succ[x] \subseteq Reachable
  <1>1. entry \in Reachable
    BY BlockAssumption DEF Reachable
  <1>2. ASSUME NEW x \in Reachable, NEW y \in succ[x]
        PROVE  y \in Reachable
    <2>1. y \in Block
      BY CfgType DEF Reachable
    <2>2. ASSUME NEW S \in SUBSET Block, entry \in S, \A z \in S : succ[z] \subseteq S
          PROVE  y \in S
      <3>1. x \in S
        BY <2>2 DEF Reachable
      <3> QED
        BY <2>2, <3>1
    <2> QED
      BY <2>1, <2>2 DEF Reachable
  <1> QED
    BY <1>1, <1>2

----------------------------------------------------------------------------
(* The inductive invariant.                                                *)

\* The initialisation of computeDominators establishes the invariant.
LEMMA StartEstablishesInv ==
    ASSUME TypeOK, RoundInv, StartCompute
    PROVE  RoundInv'
  <1>1. /\ cached = "no" /\ cached' = "computing" /\ worklist' = succ[entry]
        /\ dominators' = [b \in Block |-> InitialSet(b)]
        /\ UNCHANGED <<succ, corrupted, judged, reported>>
    BY DEF StartCompute, InitialWork
  <1>2. entry \in Block /\ succ \in [Block -> SUBSET (Block \ {entry})]
    BY CfgType, BlockAssumption
  <1>3. \A b : pred(b)' = pred(b)
    BY <1>1 DEF pred
  <1>4. /\ Connected' = Connected /\ Connected \subseteq Block
        /\ \A d, b : DominatesFrom(Roots, d, b)' = DominatesFrom(Roots, d, b)
    BY <1>1, <1>3 DEF Connected, DominatesFrom, Roots
  <1>5. /\ \A b \in Connected \ {entry} : dominators'[b] = Block
        /\ \A b \in Block \ Connected : dominators'[b] = {b}
        /\ dominators'[entry] = {entry}
    BY <1>1, <1>2 DEF Connected, InitialSet
  <1>6. \A b \in Block : b \in dominators'[b]
    BY <1>1 DEF InitialSet
  <1>7. \A x \in Block : succ[x] \subseteq Connected \ {entry}
    BY <1>2 DEF Connected, pred
  <1>8. SettledInv'
    <2> SUFFICES ASSUME NEW x \in Connected, NEW y \in succ[x], y \notin worklist'
                 PROVE  dominators'[y] \subseteq {y} \cup dominators'[x]
      BY <1>1, <1>4 DEF SettledInv
    <2>1. x # entry
      BY <1>1
    <2> QED
      BY <1>4, <1>5, <1>7, <2>1
  <1>9. CompleteInv'
    BY <1>4, <1>5, EntryDominators DEF CompleteInv
  <1>10. ShrinkInv'
    BY <1>4, <1>5 DEF ShrinkInv, Intersects
  <1>11. ReportInv'
    BY <1>1 DEF RoundInv, ReportInv
  <1> QED
    BY <1>1, <1>2, <1>4, <1>5, <1>6, <1>7, <1>8, <1>9, <1>10, <1>11 DEF RoundInv

\* A round of the loop only shrinks the set of its block.
LEMMA RoundShrinks ==
    ASSUME TypeOK, RoundInv, NEW Z \in worklist, ProcessBlock(Z)
    PROVE  \A b \in Block : dominators'[b] \subseteq dominators[b]
  <1>1. Z \in Connected \ {entry} /\ ShrinkInv
    BY DEF RoundInv, TypeOK, ProcessBlock
  <1>2. Intersects(Z) \subseteq dominators[Z]
    BY <1>1 DEF ShrinkInv
  <1> QED
    BY <1>2 DEF ProcessBlock, TypeOK

\* A round of the loop keeps the invariant.
LEMMA RoundKeepsInv ==
    ASSUME TypeOK, RoundInv, NEW Z \in worklist, ProcessBlock(Z)
    PROVE  RoundInv'
  <1>1. /\ cached = "computing" /\ cached' = "computing"
        /\ UNCHANGED <<succ, corrupted, judged, reported>>
    BY DEF ProcessBlock
  <1>2. entry \in Block /\ succ \in [Block -> SUBSET (Block \ {entry})]
    BY CfgType, BlockAssumption
  <1>3. /\ \A b \in Block : b \in dominators[b]
        /\ dominators[entry] = {entry}
        /\ worklist \subseteq Connected
        /\ SettledInv /\ CompleteInv /\ ShrinkInv
    BY <1>1 DEF RoundInv
  <1>4. \A b : pred(b)' = pred(b)
    BY <1>1 DEF pred
  <1>5. /\ Connected' = Connected /\ Connected \subseteq Block
        /\ \A d, b : DominatesFrom(Roots, d, b)' = DominatesFrom(Roots, d, b)
    BY <1>1, <1>4 DEF Connected, DominatesFrom, Roots
  <1>6. Z \in Block \ {entry} /\ Z \in Connected
    BY <1>3 DEF TypeOK
  <1>7. /\ dominators'[Z] = Intersects(Z)
        /\ \A b \in Block \ {Z} : dominators'[b] = dominators[b]
    BY <1>6 DEF ProcessBlock, TypeOK
  <1>8. /\ worklist \ {Z} \subseteq worklist'
        /\ dominators[Z] # Intersects(Z) => succ[Z] \subseteq worklist'
        /\ worklist' \subseteq worklist \cup succ[Z]
    BY <1>2, <1>6 DEF ProcessBlock, Pushed
  <1>9. \A b \in Block : b \in dominators'[b]
    BY <1>3, <1>6, <1>7 DEF Intersects
  <1>10. dominators'[entry] = {entry}
    BY <1>2, <1>3, <1>6, <1>7
  <1>11. worklist' \subseteq Connected
    <2>1. succ[Z] \subseteq Connected
      BY <1>2, <1>6 DEF Connected, pred
    <2> QED
      BY <1>3, <1>8, <2>1
  <1>12. SettledInv'
    <2> SUFFICES ASSUME NEW x \in Connected, NEW y \in succ[x], y \notin worklist'
                 PROVE  dominators'[y] \subseteq {y} \cup dominators'[x]
      BY <1>1, <1>5 DEF SettledInv
    <2>1. x \in Block /\ y \in Block /\ x \in pred(y)
      BY <1>2, <1>5 DEF pred
    <2>2. CASE y = Z
      <3>1. CASE x = Z
        BY <2>2, <3>1
      <3>2. CASE x # Z
        BY <1>7, <2>1, <2>2, <3>2 DEF Intersects
      <3> QED
        BY <3>1, <3>2
    <2>3. CASE y # Z
      <3>1. dominators[y] \subseteq {y} \cup dominators[x]
        BY <1>3, <1>8, <2>3 DEF SettledInv
      <3>2. CASE x = Z
        BY <1>7, <1>8, <2>1, <2>3, <3>1, <3>2
      <3>3. CASE x # Z
        BY <1>7, <2>1, <2>3, <3>1, <3>3
      <3> QED
        BY <3>2, <3>3
    <2> QED
      BY <2>2, <2>3
  <1>13. CompleteInv'
    <2> SUFFICES ASSUME NEW b \in Connected, NEW d \in Block, DominatesFrom(Roots, d, b)
                 PROVE  d \in dominators'[b]
      BY <1>5 DEF CompleteInv
    <2>1. CASE b # Z
      BY <1>3, <1>5, <1>7, <2>1 DEF CompleteInv
    <2>2. CASE b = Z /\ d = Z
      BY <1>6, <1>9, <2>2
    <2>3. CASE b = Z /\ d # Z
      <3>1. ASSUME NEW p \in pred(Z)
            PROVE  d \in dominators[p]
        <4>1. CASE p = d
          BY <1>3, <4>1
        <4>2. CASE p # d
          <5>1. p \in Connected /\ DominatesFrom(Roots, d, p)
            BY <1>6, <2>3, <4>2, DominatesPredecessor
          <5> QED
            BY <1>3, <5>1 DEF CompleteInv
        <4> QED
          BY <4>1, <4>2
      <3> QED
        BY <1>7, <2>3, <3>1 DEF Intersects
    <2> QED
      BY <2>1, <2>2, <2>3
  <1>14. ShrinkInv'
    <2>1. \A b \in Block : dominators'[b] \subseteq dominators[b]
      BY RoundShrinks
    <2>2. \A b \in Block : Intersects(b)' \subseteq Intersects(b)
      BY <1>4, <2>1 DEF Intersects, pred
    <2> QED
      BY <1>3, <1>5, <1>6, <1>7, <2>2 DEF ShrinkInv
  <1>15. ReportInv'
    BY <1>1 DEF RoundInv, ReportInv
  <1> QED
    BY <1>1, <1>5, <1>9, <1>10, <1>11, <1>12, <1>13, <1>14, <1>15 DEF RoundInv

\* The steps that leave the dominators alone.
LEMMA OtherKeepsInv ==
    ASSUME TypeOK, RoundInv, UNCHANGED <<succ, dominators, worklist>>,
           cached' = cached \/ EndCompute, ReportInv'
    PROVE  RoundInv'
  <1>1. \A b : pred(b)' = pred(b)
    BY DEF pred
  <1>2. /\ Connected' = Connected
        /\ \A d, b : DominatesFrom(Roots, d, b)' = DominatesFrom(Roots, d, b)
        /\ \A b : Intersects(b)' = Intersects(b)
    BY <1>1 DEF Connected, DominatesFrom, Roots, Intersects
  <1>3. SettledInv' = SettledInv /\ CompleteInv' = CompleteInv /\ ShrinkInv' = ShrinkInv
    BY <1>2 DEF SettledInv, CompleteInv, ShrinkInv
  <1> QED
    BY <1>2, <1>3 DEF RoundInv, EndCompute

LEMMA InvStep ==
    TypeOK /\ RoundInv /\ [Next]_vars => RoundInv'
  <1> SUFFICES ASSUME TypeOK, RoundInv, [Next]_vars
               PROVE  RoundInv'
    OBVIOUS
  <1>1. CASE StartCompute
    BY <1>1, StartEstablishesInv
  <1>2. ASSUME NEW Z \in worklist, ProcessBlock(Z)
        PROVE  RoundInv'
    BY <1>2, RoundKeepsInv
  <1>3. CASE EndCompute
    <2>1. ReportInv'
      BY <1>3 DEF EndCompute, RoundInv, ReportInv, BranchesBefore, TypeOK
    <2> QED
      BY <1>3, <2>1, OtherKeepsInv DEF EndCompute
  <1>4. ASSUME NEW op \in danOps, Judge(op)
        PROVE  RoundInv'
    <2>1. ReportInv'
      BY <1>4 DEF Judge, RoundInv, ReportInv, BranchesBefore, TypeOK
    <2> QED
      BY <1>4, <2>1, OtherKeepsInv DEF Judge
  <1>5. ASSUME NEW op \in danOps, Skip(op)
        PROVE  RoundInv'
    <2>1. ReportInv'
      BY <1>5 DEF Skip, RoundInv, ReportInv, BranchesBefore, TypeOK
    <2> QED
      BY <1>5, <2>1, OtherKeepsInv DEF Skip
  <1>6. CASE NextHead
    <2>1. ReportInv'
      BY <1>6 DEF NextHead, ReportInv
    <2> QED
      BY <1>6, <2>1, OtherKeepsInv DEF NextHead
  <1>7. CASE Finished \/ UNCHANGED vars
    <2>1. ReportInv'
      BY <1>7 DEF Finished, vars, RoundInv, ReportInv, BranchesBefore
    <2> QED
      BY <1>7, <2>1, OtherKeepsInv DEF Finished, vars
  <1> QED
    BY <1>1, <1>2, <1>3, <1>4, <1>5, <1>6, <1>7 DEF Next

\* The edges of the graph are settled except those into the worklist, and no
\* dominator is lost, after every round of the loop.
THEOREM DomInvariant == Spec => []DomInv
  <1>1. Init => RoundInv
    BY DEF Init, RoundInv, ReportInv
  <1>2. TypeOK /\ RoundInv => DomInv
    BY DEF DomInv
  <1> QED
    BY <1>1, <1>2, TypeCorrect, InvStep, PTL DEF Spec

\* With an empty worklist, what is in the set of a reachable block
\* dominates the block: the blocks the set of which lacks d are closed
\* under edges that avoid d.
LEMMA SettledIsSound ==
    ASSUME TypeOK, RoundInv, cached = "yes",
           NEW b \in Reachable, NEW d \in dominators[b]
    PROVE  Dominates(d, b)
  <1> DEFINE S == {x \in Reachable : d \notin dominators[x]}
  <1>1. /\ \A x \in Block : x \in dominators[x]
        /\ dominators[entry] = {entry}
        /\ \A x \in Connected : \A y \in succ[x] : dominators[y] \subseteq {y} \cup dominators[x]
    BY DEF RoundInv, SettledInv
  <1>2. d \in Block /\ Reachable \subseteq Block
    BY DEF TypeOK, Reachable
  <1>3. S \in SUBSET (Block \ {d, b})
    BY <1>1, <1>2
  <1>4. entry \in S \/ entry = d
    BY <1>1, ReachableClosed
  <1>5. \A x \in S : succ[x] \subseteq S \cup {d}
    BY <1>1, ReachableClosed, ReachableConnected
  <1> HIDE DEF S
  <1> QED
    BY <1>3, <1>4, <1>5 DEF Dominates, DominatesFrom

\* computeDominators takes no block for a dominator that is not one, in any
\* graph and with any order of the worklist.
THEOREM DominatorsCorrect == Spec => []DominatorsSound
  <1>0. DomInv => TypeOK /\ RoundInv
    BY DEF DomInv
  <1>1. TypeOK /\ RoundInv => DominatorsSound
    BY SettledIsSound DEF DominatorsSound
  <1> QED
    BY <1>1, <1>0, DomInvariant, PTL

\* Nor does it lose a dominator, except one that is avoided on a path from a
\* dead block.
THEOREM NoDominatorLost == Spec => []DominatorsComplete
  <1>0. DomInv => TypeOK /\ RoundInv
    BY DEF DomInv
  <1>1. TypeOK /\ RoundInv => DominatorsComplete
    BY ReachableConnected DEF DominatorsComplete, RoundInv, CompleteInv
  <1> QED
    BY <1>1, <1>0, DomInvariant, PTL

\* getDominators reports only dangerous operations behind a corrupted branch,
\* and all of them if no dead block leads into the graph, for every head of
\* the call stack.
THEOREM ReportsCorrect == Spec => []ReportExact
  <1>0. DomInv => TypeOK /\ RoundInv
    BY DEF DomInv
  <1>1. TypeOK /\ RoundInv => ReportExact
    <2> SUFFICES ASSUME TypeOK, RoundInv, NEW op \in judged, op.blk \in Reachable
                 PROVE  /\ op \in reported => BranchBefore({entry}, op)
                        /\ BranchBefore(Roots, op) => op \in reported
      BY DEF ReportExact
    <2>1. op.blk \in Connected /\ op.blk \in Block
      BY ReachableConnected DEF Connected
    <2>2. corrupted \subseteq Block
      BY DEF TypeOK
    <2>3. op \in reported <=> cached = "yes" /\ BranchesBefore(op) \cap corrupted # {}
      BY DEF RoundInv, ReportInv
    <2>4. CASE cached # "yes"
      BY <2>3, <2>4 DEF RoundInv, ReportInv, BranchBefore
    <2>5. CASE cached = "yes"
      <3>1. \A b \in dominators[op.blk] : DominatesFrom({entry}, b, op.blk)
        BY <2>5, SettledIsSound DEF Dominates
      <3>2. \A b \in Block : DominatesFrom(Roots, b, op.blk) => b \in dominators[op.blk]
        BY <2>1, <2>5 DEF RoundInv, CompleteInv
      <3>3. op.blk \in dominators[op.blk]
        BY <2>1, <2>5 DEF RoundInv
      <3>4. \A b \in Block :
                b \in BranchesBefore(op) <=>
                    b \in dominators[op.blk] /\ (b = op.blk => op.isBranch)
        BY <3>3 DEF BranchesBefore
      <3> QED
        BY <2>2, <2>3, <2>5, <3>1, <3>2, <3>4 DEF BranchBefore
    <2> QED
      BY <2>4, <2>5
  <1> QED
    BY <1>1, <1>0, DomInvariant, PTL

\* The sets of dominators only shrink while they are computed.
THEOREM SetsShrink == Spec => OnlyShrinks
  <1>0. DomInv => TypeOK /\ RoundInv
    BY DEF DomInv
  <1>1. TypeOK /\ RoundInv /\ [Next]_vars =>
          (cached = "computing" => \A b \in Block : dominators'[b] \subseteq dominators[b])
    <2> SUFFICES ASSUME TypeOK, RoundInv, [Next]_vars, cached = "computing"
                 PROVE  \A b \in Block : dominators'[b] \subseteq dominators[b]
      OBVIOUS
    <2>1. ASSUME NEW Z \in worklist, ProcessBlock(Z)
          PROVE  \A b \in Block : dominators'[b] \subseteq dominators[b]
      BY <2>1, RoundShrinks
    <2>2. CASE UNCHANGED dominators
      BY <2>2
    <2> QED
      BY <2>1, <2>2 DEF Next, StartCompute, EndCompute, Judge, Skip, NextHead, Finished, vars
  <1> QED
    BY <1>1, <1>0, DomInvariant, PTL DEF Spec, OnlyShrinks

=============================================================================
