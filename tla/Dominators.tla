----------------------------- MODULE Dominators -----------------------------
(***************************************************************************)
(* The dominator part of lib/ConAnal/ConAnalysis.cpp, for the function of  *)
(* one or more dangerous operations: computeDominators, a worklist         *)
(* algorithm over the function's basic blocks, the cache of its result     *)
(* (dominatorMap_), and getDominators, which reports a dangerous operation *)
(* when a corrupted branch dominates it.                                   *)
(*                                                                         *)
(* The order of the worklist is abstracted: it is a set, and any of its    *)
(* blocks may be next.                                                     *)
(***************************************************************************)
EXTENDS Naturals, FiniteSets

CONSTANTS
    Block,      \* basic blocks of the function
    entry,      \* its first block
    Cfgs,       \* control flow graphs: the successors of each block
    danOps,     \* dangerous operations in the function
    MaxHeads    \* bound on the call stack heads that are analysed

ASSUME BlockAssumption == entry \in Block

\* No block branches to the entry block (a rule of LLVM IR).
ASSUME CfgAssumption == Cfgs \subseteq [Block -> SUBSET (Block \ {entry})]

\* An operation is in a block, and may be the branch that ends the block.
ASSUME OpAssumption == danOps \subseteq [blk : Block, isBranch : BOOLEAN]

VARIABLES
    succ,        \* the control flow graph
    cached,      \* "no", "computing" or "yes": is the function in dominatorMap_
    dominators,  \* dominators[b]: the current approximation
    worklist,    \* blocks to be processed
    twice,       \* those the worklist holds twice
    head,        \* call stack heads analysed so far
    corrupted,   \* blocks that end in a corrupted branch
    judged,      \* operations getDominators has looked at for this head
    reported     \* those it has reported

vars == <<succ, cached, dominators, worklist, twice, head, corrupted, judged, reported>>

pred(b) == {p \in Block : b \in succ[p]}

----------------------------------------------------------------------------
(* computeDominators.                                                      *)

\* Variant: no block starts with all blocks.
InitialSelf(b) == {b}

\* A block without predecessors other than the entry starts with itself.
InitialSet(b) == IF b # entry /\ pred(b) # {} THEN Block ELSE {b}

\* Variant: the block itself is not put back.
IntersectsOnly(Z) == {d \in Block : \A p \in pred(Z) : d \in dominators[p]}

\* The blocks that dominate Z and every predecessor of Z so far.
Intersects(Z) == {d \in Block : d = Z \/ \A p \in pred(Z) : d \in dominators[p]}

InitialWork == succ[entry]

\* Variant: no successor is pushed, and: successors are always pushed.
PushedNone(Z) == {}
PushedAlways(Z) == succ[Z] \ {entry}

\* The successors are pushed when the set of Z has changed.
Pushed(Z) == IF dominators[Z] # Intersects(Z) THEN succ[Z] \ {entry} ELSE {}

\* The initialisation; the entry may branch to a block on several edges.
StartCompute ==
    /\ cached = "no"
    /\ judged # danOps
    /\ cached' = "computing"
    /\ dominators' = [b \in Block |-> InitialSet(b)]
    /\ worklist' = InitialWork
    /\ twice' \in SUBSET succ[entry]
    /\ UNCHANGED <<succ, head, corrupted, judged, reported>>

\* One round of the while loop.
ProcessBlock(Z) ==
    /\ cached = "computing"
    /\ Z \in worklist
    /\ dominators' = [dominators EXCEPT ![Z] = Intersects(Z)]
    /\ worklist' = (worklist \ ({Z} \ twice)) \cup Pushed(Z)
    /\ twice' = twice \ {Z}
    /\ UNCHANGED <<succ, cached, head, corrupted, judged, reported>>

\* The worklist is empty: the result goes to dominatorMap_.
EndCompute ==
    /\ cached = "computing"
    /\ worklist = {}
    /\ cached' = "yes"
    /\ UNCHANGED <<succ, dominators, worklist, twice, head, corrupted, judged, reported>>

----------------------------------------------------------------------------
(* getDominators and its caller.                                           *)

\* Variant: all instructions of the operation's block are collected.
BranchesAround(op) == dominators[op.blk]

\* The instructions collected in dominatorSubset stop at the operation, so
\* that the branch of its own block counts only if it is the operation.
BranchesBefore(op) ==
    (dominators[op.blk] \ {op.blk}) \cup (IF op.isBranch THEN {op.blk} ELSE {})

\* One dangerous operation.  A corrupted branch is also in the ordered list
\* of the corrupted instructions, so that getFeasiblePath finds a path.
Judge(op) ==
    /\ cached = "yes"
    /\ op \in danOps \ judged
    /\ judged' = judged \cup {op}
    /\ reported' = reported \cup
          (IF BranchesBefore(op) \cap corrupted # {} THEN {op} ELSE {})
    /\ UNCHANGED <<succ, cached, dominators, worklist, twice, head, corrupted>>

\* The function holds no corrupted instruction at all for this head.
Skip(op) ==
    /\ cached # "computing"
    /\ corrupted = {}
    /\ op \in danOps \ judged
    /\ judged' = judged \cup {op}
    /\ UNCHANGED <<succ, cached, dominators, worklist, twice, head, corrupted, reported>>

\* getCorruptedIRs goes on to the next head of the call stack: what is
\* corrupted changes, the cached dominators stay.
NextHead ==
    /\ judged = danOps
    /\ cached # "computing"
    /\ head < MaxHeads
    /\ head' = head + 1
    /\ corrupted' \in SUBSET {b \in Block : succ[b] # {}}
    /\ judged' = {}
    /\ reported' = {}
    /\ UNCHANGED <<succ, cached, dominators, worklist, twice>>

Finished ==
    /\ judged = danOps
    /\ head = MaxHeads
    /\ UNCHANGED vars

----------------------------------------------------------------------------
Init ==
    /\ succ \in Cfgs
    /\ cached = "no"
    /\ dominators = [b \in Block |-> {}]
    /\ worklist = {}
    /\ twice = {}
    /\ head = 1
    /\ corrupted \in SUBSET {b \in Block : succ[b] # {}}
    /\ judged = {}
    /\ reported = {}

Next ==
    \/ StartCompute
    \/ \E Z \in worklist : ProcessBlock(Z)
    \/ EndCompute
    \/ \E op \in danOps : Judge(op) \/ Skip(op)
    \/ NextHead
    \/ Finished

\* The pass is one thread that runs to its end.
Spec == Init /\ [][Next]_vars

FairSpec == Spec /\ WF_vars(Next)

----------------------------------------------------------------------------
(* Dominance, defined on the graph.                                        *)

\* The blocks reached from the entry are in every set that holds the entry
\* and is closed under successors.
Reachable ==
    {b \in Block : \A S \in SUBSET Block :
        entry \in S /\ (\A x \in S : succ[x] \subseteq S) => b \in S}

\* Every path from a block of R to b passes through d: b lies outside a set
\* of blocks that holds everything R reaches without d.
DominatesFrom(R, d, b) ==
    \E S \in SUBSET (Block \ {d, b}) :
        /\ R \subseteq S \cup {d}
        /\ \A x \in S : succ[x] \subseteq S \cup {d}

Dominates(d, b) == DominatesFrom({entry}, d, b)

\* The dead blocks that lead into the graph, with the entry: no path that is
\* executed begins in another one than the entry, but computeDominators
\* takes each of them for the beginning of paths.
Roots == {entry} \cup {p \in Block : pred(p) = {} /\ succ[p] # {}}

----------------------------------------------------------------------------
(* Properties.                                                             *)

\* The types of the pass's data.
TypeOK ==
    /\ succ \in Cfgs
    /\ cached \in {"no", "computing", "yes"}
    /\ dominators \in [Block -> SUBSET Block]
    /\ worklist \in SUBSET (Block \ {entry})
    /\ twice \in SUBSET worklist
    /\ head \in Nat
    /\ corrupted \in SUBSET Block
    /\ judged \in SUBSET danOps
    /\ reported \in SUBSET judged

\* What computeDominators leaves in the cache for a block that can be
\* executed are dominators of the block, in any graph and whatever order the
\* worklist had: no other block is taken for one.
DominatorsSound ==
    cached = "yes" =>
        \A b \in Reachable : \A d \in dominators[b] : Dominates(d, b)

\* Dominators are lost to dead blocks only: during the whole computation
\* every block that dominates b is in the set of b, unless a path from a dead
\* block avoids it.
DominatorsComplete ==
    cached # "no" =>
        \A b \in Reachable : \A d \in Block :
            DominatesFrom(Roots, d, b) => d \in dominators[b]

\* A corrupted branch is before op on every path from R.
BranchBefore(R, op) ==
    \E b \in corrupted : DominatesFrom(R, b, op.blk) /\ (b = op.blk => op.isBranch)

\* getDominators reports a dangerous operation that can be executed only
\* when a corrupted branch is on every path to it, and always when there is
\* one on the paths from dead blocks, too: exactly then, if no dead block
\* leads into the graph.  This holds for every head of the call stack
\* although the dominators were computed for the first one.
ReportExact ==
    \A op \in judged : op.blk \in Reachable =>
        /\ op \in reported => BranchBefore({entry}, op)
        /\ BranchBefore(Roots, op) => op \in reported

\* A round of the loop only removes blocks from a set of dominators: the
\* reason why the loop ends.
OnlyShrinks ==
    [][cached = "computing" => \A b \in Block : dominators'[b] \subseteq dominators[b]]_vars

\* The worklist runs empty and every operation is judged.
PassEnds == <>(judged = danOps /\ head = MaxHeads)

----------------------------------------------------------------------------
(* The inductive invariant behind the properties.                          *)

\* The blocks the algorithm starts with the set of all blocks, and the entry.
Connected == {b \in Block : b = entry \/ pred(b) # {}}

\* An edge is settled unless its target is still to be processed: what is in
\* the target's set is in the source's set too.
SettledInv ==
    \A x \in Connected : \A y \in succ[x] :
        y \in worklist \/ dominators[y] \subseteq {y} \cup dominators[x]

CompleteInv ==
    \A b \in Connected : \A d \in Block : DominatesFrom(Roots, d, b) => d \in dominators[b]

\* Another round would not add a block anywhere.
ShrinkInv == \A b \in Connected \ {entry} : Intersects(b) \subseteq dominators[b]

\* What was reported follows from the cached dominators.
ReportInv ==
    /\ cached # "yes" /\ judged # {} => corrupted = {}
    /\ \A op \in judged :
          op \in reported <=> cached = "yes" /\ BranchesBefore(op) \cap corrupted # {}

\* Between two rounds of the loop every settled edge is in equilibrium and
\* no dominator has been lost.
RoundInv ==
    /\ cached = "yes" => worklist = {}
    /\ cached # "no" =>
          /\ \A b \in Block : b \in dominators[b]
          /\ dominators[entry] = {entry}
          /\ worklist \subseteq Connected
          /\ SettledInv
          /\ CompleteInv
          /\ ShrinkInv
    /\ ReportInv

\* The inductive invariant of the pass.
DomInv == TypeOK /\ RoundInv

=============================================================================
