------------------------------- MODULE MCIngest -------------------------------
(***************************************************************************)
(* Instances of Ingest for TLC.                                            *)
(***************************************************************************)
EXTENDS Ingest

CONSTANTS p, w1, w2, g, c1, c2

NoThread == {}
OneThread == {w1}
TwoThreads == {w1, w2}
NoDirect == {}
OneDirect == {g}
OneContent == {c1}
TwoContents == {c1, c2}
=============================================================================
