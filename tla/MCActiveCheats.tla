--------------------------- MODULE MCActiveCheats ---------------------------
(***************************************************************************)
(* An instance of ActiveCheats for TLC: four addresses, one of which only *)
(* a byte may be written to, and which has more digits than a byte's edit  *)
(* box takes.                                                              *)
(***************************************************************************)
EXTENDS ActiveCheats
Entry(a, v, s) == [address |-> a, value |-> v, size |-> s]
FourEntries == {Entry(4, 1, 4), Entry(8, 1, 2), Entry(261, 1, 1), Entry(12, 2, 1)}
TwoTexts == {0, 261}
=============================================================================
