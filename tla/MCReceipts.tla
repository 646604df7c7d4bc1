----------------------------- MODULE MCReceipts -----------------------------
(***************************************************************************)
(* Instances of Receipts for TLC: items with receipts of their own, or two *)
(* items whose receipts begin with the same line.                          *)
(***************************************************************************)
EXTENDS Receipts, TLC

CONSTANTS i1, i2, r1, r2, cycle, button, review

OneItem == {i1}
TwoItems == {i1, i2}
OneRecord == {r1}
TwoRecords == {r1, r2}
Button == {button}
TwoCallers == {button, review}

LinesDiffer == [i \in Items |-> i]
LinesCoincide == [i \in Items |-> i1]

Symmetry == Permutations(Records) \cup Permutations(Callers)
=============================================================================
