---------------------------- MODULE MCDominators ----------------------------
(***************************************************************************)
(* Control flow graphs with four blocks, two of which may branch.          *)
(***************************************************************************)
EXTENDS Dominators

Four == 1 .. 4

FourCfgs ==
    {g \in [Four -> SUBSET (Four \ {1})] :
        \A b \in Four : Cardinality(g[b]) <= (IF b <= 2 THEN 2 ELSE 1)}

\* A call in the last block, and a branch in the one before.
FourOps == {[blk |-> 4, isBranch |-> FALSE], [blk |-> 3, isBranch |-> TRUE]}
=============================================================================
