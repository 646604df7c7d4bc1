------------------------- MODULE MCCommandDispatch -------------------------
(***************************************************************************)
(* Instances of CommandDispatch for TLC: the intents range over every way  *)
(* in which clients can share keys and tasks.                              *)
(***************************************************************************)
EXTENDS CommandDispatch

CONSTANTS c1, c2, c3, k1, k2, t1, t2

TwoClients == {c1, c2}
ThreeClients == {c1, c2, c3}
TwoKeys == {k1, k2}
TwoTasks == {t1, t2}
=============================================================================
