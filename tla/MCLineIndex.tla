---------------------------- MODULE MCLineIndex ----------------------------
(***************************************************************************)
(* Line indices for TLC: a file whose CR LF the scanned spans split.       *)
(***************************************************************************)
EXTENDS LineIndex

Files == {<<"x", "r", "n">>}
Typed == {<<>>, <<"x">>, <<"n">>, <<"r">>}
=============================================================================
