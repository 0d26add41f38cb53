--------------------------- MODULE MCTextDocument ---------------------------
(***************************************************************************)
(* The piece table for TLC: the sets are given in the .cfg files.          *)
(***************************************************************************)
EXTENDS TextDocument, TLC

Symmetry == Permutations(Char) \cup Permutations(Owner \ {Main})
=============================================================================
