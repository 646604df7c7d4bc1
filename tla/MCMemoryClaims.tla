---------------------------- MODULE MCMemoryClaims ----------------------------
(***************************************************************************)
(* An instance of MemoryClaims for TLC.  ana is an authorised validator    *)
(* and an author too; victor is only an author.  Two requests are under    *)
(* way at a time.                                                          *)
(***************************************************************************)
EXTENDS MemoryClaims, TLC

CONSTANTS ana, victor, m1, m2, x, y, t1, t2

Persons == {ana, victor}
Authorised == {ana}
TwoExternals == {m1, m2}
TwoContents == {x, y}
TwoThreads == {t1, t2}

Symmetry ==
  Permutations(TwoExternals) \cup Permutations(TwoContents) \cup Permutations(TwoThreads)
=============================================================================
