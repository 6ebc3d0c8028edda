----------------------------- MODULE MCTrigger -----------------------------
(***************************************************************************)
(* Small instances of Trigger for TLC.                                     *)
(***************************************************************************)
EXTENDS Trigger, TLC

Symmetry == Permutations(Threads)

\* Two different lines, with different texts.
TwoLines == [s \in Sides |-> IF s = "write" THEN 10 ELSE 20]

\* Lines with the same number, in two files.
OneNumber == [s \in Sides |-> 10]

TwoTexts == [s \in Sides |-> s]
OneText  == [s \in Sides |-> "x++"]
=============================================================================
