--------------------------- MODULE MCSearchCheck ----------------------------
(***************************************************************************)
(* SearchCheck with one bit to a byte: a value of Size bytes has Size      *)
(* bits, a u64 has eight.                                                  *)
(***************************************************************************)
EXTENDS SearchCheck

\* Every word in the lower half; its mirror image or ones in the upper half.
MCFilterDumps ==
  {[i \in 0 .. 7 |-> IF i < 4 THEN low[i] ELSE IF mirror THEN low[7 - i] ELSE 1] :
     low \in [0 .. 3 -> 0 .. 1], mirror \in BOOLEAN}

\* 3 is no multiple of a dump's size; 8 is.
MCFilterAddys == {0, 3, 8}

MCConsecShapes == {<<1, 5>>, <<2, 6>>}
=============================================================================
