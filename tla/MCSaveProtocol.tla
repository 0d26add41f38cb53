--------------------------- MODULE MCSaveProtocol ---------------------------
(***************************************************************************)
(* Saves for TLC: the editor alone, and the editor with the broker.        *)
(***************************************************************************)
EXTENDS SaveProtocol, TLC

\* The power goes and other programs interfere in different launches.
Direct == [privileged : {FALSE}, plans : {{"off", "copy"}},
           events : {{"window", "editor", "power"}, {"window", "editor", "others"}}]
Sudo == [privileged : {TRUE}, plans : {{"off", "copy", "broker"}},
         events : {{"editor", "power"}, {"editor", "others"}}]
SudoWindows == [privileged : {TRUE}, plans : {{"broker"}}, events : {{"window", "others"}}]
Both == Direct \cup Sudo \cup SudoWindows

Symmetry == Permutations(Inodes) \cup Permutations(Texts)
=============================================================================
