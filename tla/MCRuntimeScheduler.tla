------------------------- MODULE MCRuntimeScheduler -------------------------
(***************************************************************************)
(* The scheduler for TLC: one modeless window owns every timer, every      *)
(* consumer has the same interval.                                         *)
(***************************************************************************)
EXTENDS RuntimeScheduler, TLC

CONSTANTS Window, Ticks

OneOwner == [k \in Timers |-> Window]
SameInterval == [k \in Timers \cup Closures |-> Ticks]

Symmetry == Permutations(Sessions) \cup Permutations(Timers)
=============================================================================
