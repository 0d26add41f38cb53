--------------------------- MODULE MCCoprocessor ---------------------------
(***************************************************************************)
(* The coprocessor for TLC.  The bounds are set in the .cfg files.         *)
(***************************************************************************)
EXTENDS CoprocessorInv

\* A behaviour goes on while it has a kept worker or a source, not both.  The
\* two meet in the result queue only, where a one-shot lane stands for the other.
KeptOrSource == nextExternalSourceId = 1 \/ \A l \in Lane : mode[l] # "kept"
============================================================================
