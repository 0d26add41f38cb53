------------------------------ MODULE MCKeymap ------------------------------
(***************************************************************************)
(* The keymap for TLC: a sequence, a longer one that begins with it, and   *)
(* the first one once more, without a target.                              *)
(***************************************************************************)
EXTENDS Keymap

CONSTANTS a, b, t

ShortAndLong == {<< <<a>>, t>>, << <<a, b>>, t>>, << <<a>>, NoTarget>>}

Symmetry == Permutations(Profiles) \cup Permutations(Contexts)
=============================================================================
