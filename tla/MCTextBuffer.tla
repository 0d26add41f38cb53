---------------------------- MODULE MCTextBuffer ----------------------------
(***************************************************************************)
(* The buffer for TLC: texts, cursors and jobs are model values of the     *)
(* .cfg files.                                                             *)
(***************************************************************************)
EXTENDS TextBuffer, TLC

\* What the actions and the properties of the buffer read: all but the history of
\* jobs and of undo.
Read == <<document, scene, undoStack, redoStack, saved, dialog,
          [j \in Job |-> [job[j] EXCEPT !.base = Empty, !.loaded = FALSE, !.stale = FALSE]]>>

Symmetry == Permutations(Text \ {Empty})
=============================================================================
