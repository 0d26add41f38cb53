------------------------- MODULE SaveProtocolProofs -------------------------
(***************************************************************************)
(* What a save guarantees for any number of inodes, texts and launches,    *)
(* proved with TLAPS: the last saved version survives every failure, no    *)
(* temporary file is left behind, an unmodified document is on the disk.   *)
(* The inductive invariant says where the editor and the broker can be     *)
(* together, which inode has which name, and what the inodes hold.         *)
(***************************************************************************)
EXTENDS SaveProtocol, TLAPS
-----------------------------------------------------------------------------
Names == {"target", "backup", "temp", "btemp"}

\* the editor is past the request for a file to write to and has not yet
\* handed it over
Writing == {"write", "bopen", "bcopy", "brename", "commit"}

\* The two processes: while the editor waits the broker works on its request,
\* while it does anything else the broker has nothing to do.  After the
\* editor's death the broker may be anywhere.
Positions ==
    /\ pc \in Writing \cup {"idle"} => step = "idle"
    /\ pc = "begin" => step \in {"begin", "granted", "refused"}
    /\ pc = "wait" => step \in {"verify", "unlink", "move", "rename", "sync", "reopen", "done", "failed"}
    /\ ~Privileged => step \in {"idle", "dead"} /\ pc \notin {"begin", "wait"} /\ plan # "broker"
    /\ plan \in launch.plans \cup {"off"}
    /\ pc \in {"bopen", "bcopy", "brename"} => plan = "copy"
    /\ step \in {"unlink", "move"} => plan = "broker"

\* No inode has two names, and the temporary ones are not in use.
Apart ==
    /\ \A m, n \in Names : m # n /\ name[m] # None => name[m] # name[n]
    /\ disk["target"] # None => disk["target"] # disk["backup"]
    /\ \A n \in {"temp", "btemp"} :
          name[n] # None => name[n] \notin {mapDoc, mapOther, disk["target"], disk["backup"]}
    /\ Privileged => \A n \in {"temp", "btemp"} : name[n] \notin {source, baseline}

\* Only the broker's second rename finds no target, and if it does find one
\* that one was put there by others; but it always finds the backup.
TargetThere ==
    /\ pc \in Writing \cup {"begin"} => name["target"] # None
    /\ step \in {"begin", "granted", "refused", "verify", "unlink", "move", "sync", "reopen", "done"}
         => name["target"] # None
    /\ step = "rename" /\ plan # "broker" => name["target"] # None
    /\ step = "rename" /\ plan = "broker" => /\ name["backup"] # None
                                             /\ name["target"] # None => unseen /\ late

\* When the temporary files exist.
TempThere ==
    /\ pc \in Writing => name["temp"] # None
    /\ step \in {"granted", "verify", "unlink", "move", "rename"} => name["temp"] # None
    /\ step \in {"begin", "refused", "sync", "reopen", "done"} => name["temp"] = None
    /\ pc # "dead" => (name["btemp"] # None <=> pc \in {"bcopy", "brename"})

\* From the end of the writing on the temporary file is the whole document.
TempWhole ==
    pc \in {"bopen", "bcopy", "brename", "commit"} \/ step \in {"verify", "unlink", "move", "rename"}
      => data[name["temp"]] = doc

\* What the broker has moved away is a whole version.
MovedWhole == step = "rename" /\ plan = "broker" => data[name["backup"]] \in Texts \cup {Foreign}

\* The target differs from the document only if it was changed by others or
\* the document is modified.
KeptIsDoc == pc # "dead" /\ ~unseen /\ (~modified \/ step \in {"sync", "reopen", "done"}) => kept = doc

Scheduled == modified /\ pc # "dead" => timer

Places == TypeOK /\ Positions /\ Apart /\ TargetThere /\ TempThere /\ NoLitter

IInv == Places /\ TempWhole /\ MovedWhole /\ NothingLost /\ KeptIsDoc /\ Scheduled
-----------------------------------------------------------------------------
(* The invariant is kept. *)

\* mkstemp() and O_EXCL take an inode that nothing uses.
LEMMA New == FreeInodes # {} => NewInode \in FreeInodes /\ NewInode \in Inodes
  BY DEF NewInode, FreeInodes

\* Every step of the editor, the broker and the others keeps the names apart and the
\* temporary files accounted for.
LEMMA PlacesStep == ASSUME Places, MovedWhole, NothingLost, [Next]_vars PROVE Places'
  <1> USE SaveAssumption DEF Places, TypeOK, Positions, Apart, TargetThere, TempThere,
      NoLitter, Names, Writing, EditorPoints, BrokerPoints, Contents, Privileged, windows,
      storage, broker
  <1>1. CASE \E t \in Texts : Edit(t)
    BY <1>1 DEF Edit
  <1>2. CASE \E n \in {"target", "backup"} : OpenOther(n)
    <2>1. TypeOK'
      <3> PICK n \in {"target", "backup"} : OpenOther(n)
        BY <1>2
      <3>1. mapOther' \in Inodes \cup {None}
        BY DEF OpenOther
      <3>2. baseline' \in Inodes
        BY DEF OpenOther
      <3>3. fresh' \in BOOLEAN
        BY DEF OpenOther
      <3>4. data' \in [Inodes -> Contents]
        BY DEF OpenOther, Freed
      <3>5. QED
        BY <3>1, <3>2, <3>3, <3>4 DEF OpenOther
    <2>2. Positions'
      BY <1>2 DEF OpenOther, Freed, Used
    <2>3. Apart'
      BY <1>2 DEF OpenOther, Freed, Used
    <2>4. TargetThere'
      BY <1>2 DEF OpenOther, Freed, Used
    <2>5. TempThere'
      BY <1>2 DEF OpenOther, Freed, Used
    <2>6. NoLitter'
      BY <1>2 DEF OpenOther, Freed, Used
    <2>7. QED
      BY <2>1, <2>2, <2>3, <2>4, <2>5, <2>6
  <1>3. CASE \E p \in launch.plans : BeginWrite(p)
    <2>1. TypeOK'
      <3> PICK p \in launch.plans : BeginWrite(p)
        BY <1>3
      <3>1. plan' \in {"off", "copy", "broker"}
        BY DEF BeginWrite
      <3>2. name' \in [Names -> Inodes \cup {None}] /\ data' \in [Inodes -> Contents]
        BY New DEF BeginWrite, Created
      <3>3. {modified, timer, fresh, open, unseen, late}' \subseteq BOOLEAN
        BY DEF BeginWrite
      <3>4. QED
        BY <3>1, <3>2, <3>3 DEF BeginWrite
    <2>2. Positions'
      BY <1>3, New DEF BeginWrite, Created, FreeInodes, Used
    <2>3. Apart'
      BY <1>3, New DEF BeginWrite, Created, FreeInodes, Used
    <2>4. TargetThere'
      BY <1>3, New DEF BeginWrite, Created, FreeInodes, Used
    <2>5. TempThere'
      BY <1>3, New DEF BeginWrite, Created, FreeInodes, Used
    <2>6. NoLitter'
      BY <1>3, New DEF BeginWrite, Created, FreeInodes, Used
    <2>7. QED
      BY <2>1, <2>2, <2>3, <2>4, <2>5, <2>6
  <1>4. CASE \E p \in launch.plans : CallBegin(p)
    BY <1>4 DEF CallBegin
  <1>5. CASE WriteData
    BY <1>5 DEF WriteData, WritesAll
  <1>6. CASE OpenBackup
    <2>1. TypeOK'
      BY <1>6, New DEF OpenBackup, BackupFile, Created, FreeInodes, Used
    <2>2. Positions'
      BY <1>6, New DEF OpenBackup, BackupFile, Created, FreeInodes, Used
    <2>3. Apart'
      BY <1>6, New DEF OpenBackup, BackupFile, Created, FreeInodes, Used
    <2>4. TargetThere'
      BY <1>6, New DEF OpenBackup, BackupFile, Created, FreeInodes, Used
    <2>5. TempThere'
      BY <1>6, New DEF OpenBackup, BackupFile, Created, FreeInodes, Used
    <2>6. NoLitter'
      BY <1>6, New DEF OpenBackup, BackupFile, Created, FreeInodes, Used
    <2>7. QED
      BY <2>1, <2>2, <2>3, <2>4, <2>5, <2>6
  <1>7. CASE CopyBackup
    BY <1>7 DEF CopyBackup, CopiedText
  <1>8. CASE RenameBackup
    BY <1>8 DEF RenameBackup, Freed, Used
  <1>9. CASE RenameTarget
    <2>1. TypeOK'
      BY <1>9 DEF RenameTarget, Renamed, Saved, Freed, Used
    <2>2. Positions'
      BY <1>9 DEF RenameTarget, Renamed, Saved, Freed, Used
    <2>3. Apart'
      BY <1>9 DEF RenameTarget, Renamed, Saved, Freed, Used
    <2>4. TargetThere'
      BY <1>9 DEF RenameTarget, Renamed, Saved, Freed, Used
    <2>5. TempThere'
      BY <1>9 DEF RenameTarget, Renamed, Saved, Freed, Used
    <2>6. NoLitter'
      BY <1>9 DEF RenameTarget, Renamed, Saved, Freed, Used
    <2>7. QED
      BY <2>1, <2>2, <2>3, <2>4, <2>5, <2>6
  <1>10. CASE FailWrite
    BY <1>10 DEF FailWrite, WithoutFiles, NotSaved, Freed, Used
  <1>11. CASE BeginSave
    BY <1>11, New DEF BeginSave, Created, FreeInodes, Used
  <1>12. CASE BeginFails
    BY <1>12 DEF BeginFails
  <1>13. CASE AnswerBegin
    BY <1>13 DEF AnswerBegin
  <1>14. CASE CallCommit
    BY <1>14 DEF CallCommit
  <1>15. CASE Verify
    BY <1>15 DEF Verify, Verdict, FingerprintEqual
  <1>16. CASE UnlinkBackup
    BY <1>16 DEF UnlinkBackup, Freed, Used
  <1>17. CASE MoveToBackup
    BY <1>17 DEF MoveToBackup, Moved
  <1>18. CASE CommitRename
    BY <1>18 DEF CommitRename, Renamed, Freed, Used
  <1>19. CASE CommitRenameFails
    <2>1. TypeOK'
      <3>1. kept' \in Texts \cup {Foreign}
        BY <1>19 DEF CommitRenameFails, MovedWhole
      <3>2. name' \in [{"target", "backup", "temp", "btemp"} -> Inodes \cup {None}] /\ data' \in [Inodes -> Contents]
        BY <1>19 DEF CommitRenameFails, Freed
      <3>3. fresh' \in BOOLEAN /\ step' \in BrokerPoints
        BY <1>19, Zenon DEF CommitRenameFails, TypeOK, BrokerPoints
      <3> QED
        BY <1>19, <3>1, <3>2, <3>3 DEF CommitRenameFails
    <2>2. Positions'
      BY <1>19 DEF CommitRenameFails, MovedWhole, Freed, Used
    <2>3. Apart'
      BY <1>19 DEF CommitRenameFails, MovedWhole, Freed, Used
    <2>4. TargetThere'
      BY <1>19 DEF CommitRenameFails, MovedWhole, Freed, Used
    <2>5. TempThere'
      BY <1>19 DEF CommitRenameFails, MovedWhole, Freed, Used
    <2>6. NoLitter'
      BY <1>19 DEF CommitRenameFails, MovedWhole, Freed, Used
    <2>7. QED
      BY <2>1, <2>2, <2>3, <2>4, <2>5, <2>6
  <1>20. CASE Reopen
    BY <1>20 DEF Reopen, Freed, Used
  <1>21. CASE CallFails
    BY <1>21 DEF CallFails
  <1>22. CASE Answer
    <2>1. TypeOK'
      BY <1>22 DEF Answer, Saved, NotSaved, Freed, Used
    <2>2. Positions'
      BY <1>22 DEF Answer, Saved, NotSaved, Freed, Used
    <2>3. Apart'
      BY <1>22 DEF Answer, Saved, NotSaved, Freed, Used
    <2>4. TargetThere'
      BY <1>22 DEF Answer, Saved, NotSaved, Freed, Used
    <2>5. TempThere'
      BY <1>22 DEF Answer, Saved, NotSaved, Freed, Used
    <2>6. NoLitter'
      BY <1>22 DEF Answer, Saved, NotSaved, Freed, Used
    <2>7. QED
      BY <2>1, <2>2, <2>3, <2>4, <2>5, <2>6
  <1>23. CASE ForeignWrite
    BY <1>23 DEF ForeignWrite
  <1>24. CASE ForeignReplace
    BY <1>24, New DEF ForeignReplace, FreeInodes, Used
  <1>25. CASE EditorDies
    BY <1>25 DEF EditorDies
  <1>26. CASE BrokerEnds
    <2>1. TypeOK'
      BY <1>26 DEF BrokerEnds, WithoutTemp, Freed, Used
    <2>2. Positions'
      BY <1>26 DEF BrokerEnds, WithoutTemp, Freed, Used
    <2>3. Apart'
      BY <1>26 DEF BrokerEnds, WithoutTemp, Freed, Used
    <2>4. TargetThere'
      BY <1>26 DEF BrokerEnds, WithoutTemp, Freed, Used
    <2>5. TempThere'
      BY <1>26 DEF BrokerEnds, WithoutTemp, Freed, Used
    <2>6. NoLitter'
      BY <1>26 DEF BrokerEnds, WithoutTemp, Freed, Used
    <2>7. QED
      BY <2>1, <2>2, <2>3, <2>4, <2>5, <2>6
  <1>27. CASE PowerLoss
    <2>1. TypeOK'
      BY <1>27 DEF PowerLoss, Freed, Used
    <2>2. Positions'
      BY <1>27 DEF PowerLoss, Freed, Used
    <2>3. Apart'
      BY <1>27 DEF PowerLoss, Freed, Used
    <2>4. TargetThere'
      BY <1>27 DEF PowerLoss, Freed, Used
    <2>5. TempThere'
      BY <1>27 DEF PowerLoss, Freed, Used
    <2>6. NoLitter'
      BY <1>27 DEF PowerLoss, Freed, Used
    <2>7. QED
      BY <2>1, <2>2, <2>3, <2>4, <2>5, <2>6
  <1>30. CASE SyncDirectory
    <2>1. TypeOK'
      BY <1>30 DEF SyncDirectory, Directory, Freed, Used
    <2>2. Positions'
      BY <1>30 DEF SyncDirectory, Directory, Freed, Used
    <2>3. Apart'
      BY <1>30 DEF SyncDirectory, Directory, Freed, Used
    <2>4. TargetThere'
      BY <1>30 DEF SyncDirectory, Directory, Freed, Used
    <2>5. TempThere'
      BY <1>30 DEF SyncDirectory, Directory, Freed, Used
    <2>6. NoLitter'
      BY <1>30 DEF SyncDirectory, Directory, Freed, Used
    <2>7. QED
      BY <2>1, <2>2, <2>3, <2>4, <2>5, <2>6
  <1>31. CASE WriteBack
    <2>1. TypeOK'
      BY <1>31 DEF WriteBack, Directory, Freed, Used
    <2>2. Positions'
      BY <1>31 DEF WriteBack, Directory, Freed, Used
    <2>3. Apart'
      BY <1>31 DEF WriteBack, Directory, Freed, Used
    <2>4. TargetThere'
      BY <1>31 DEF WriteBack, Directory, Freed, Used
    <2>5. TempThere'
      BY <1>31 DEF WriteBack, Directory, Freed, Used
    <2>6. NoLitter'
      BY <1>31 DEF WriteBack, Directory, Freed, Used
    <2>7. QED
      BY <2>1, <2>2, <2>3, <2>4, <2>5, <2>6
  <1>32. CASE BothDie
    BY <1>32 DEF BothDie
  <1>28. CASE Restart
    BY <1>28 DEF Restart, WithoutFiles, Freed, Used, NothingLost, Holds, Keeper
  <1>29. CASE UNCHANGED vars
    BY <1>29 DEF vars
  <1>33. QED
    BY <1>1, <1>2, <1>3, <1>4, <1>5, <1>6, <1>7, <1>8, <1>9, <1>10, <1>11, <1>12, <1>13,
      <1>14, <1>15, <1>16, <1>17, <1>18, <1>19, <1>20, <1>21, <1>22, <1>23, <1>24, <1>25,
      <1>26, <1>27, <1>28, <1>29, <1>30, <1>31, <1>32 DEF Next, EditorStep, BrokerStep, Begin

\* No step writes to the inode of the last saved version, and none takes its name away
\* before another has it.
LEMMA ContentStep == ASSUME Places, TempWhole, MovedWhole, NothingLost, [Next]_vars
                      PROVE  (TempWhole /\ MovedWhole /\ NothingLost)'
  <1> USE SaveAssumption DEF Places, TypeOK, Positions, Apart, TargetThere, TempThere,
      Names, Writing, Privileged, TempWhole, MovedWhole, NothingLost, Holds, Keeper, windows, storage, broker
  <1>1. CASE \E t \in Texts : Edit(t)
    BY <1>1 DEF Edit
  <1>2. CASE \E n \in {"target", "backup"} : OpenOther(n)
    BY <1>2 DEF OpenOther, Freed, Used
  <1>3. CASE \E p \in launch.plans : BeginWrite(p)
    BY <1>3, New DEF BeginWrite, Created, FreeInodes, Used
  <1>4. CASE \E p \in launch.plans : CallBegin(p)
    BY <1>4 DEF CallBegin
  <1>5. CASE WriteData
    BY <1>5 DEF WriteData, WritesAll
  <1>6. CASE OpenBackup
    BY <1>6, New DEF OpenBackup, BackupFile, Created, FreeInodes, Used
  <1>7. CASE CopyBackup
    BY <1>7 DEF CopyBackup, CopiedText
  <1>8. CASE RenameBackup
    BY <1>8 DEF RenameBackup, Freed, Used
  <1>9. CASE RenameTarget
    BY <1>9 DEF RenameTarget, Renamed, Saved, Freed, Used
  <1>10. CASE FailWrite
    BY <1>10 DEF FailWrite, WithoutFiles, NotSaved, Freed, Used
  <1>11. CASE BeginSave
    BY <1>11, New DEF BeginSave, Created, FreeInodes, Used
  <1>12. CASE BeginFails
    BY <1>12 DEF BeginFails
  <1>13. CASE AnswerBegin
    BY <1>13 DEF AnswerBegin
  <1>14. CASE CallCommit
    BY <1>14 DEF CallCommit
  <1>15. CASE Verify
    BY <1>15 DEF Verify, Verdict, FingerprintEqual
  <1>16. CASE UnlinkBackup
    BY <1>16 DEF UnlinkBackup, Freed, Used
  <1>17. CASE MoveToBackup
    BY <1>17 DEF MoveToBackup, Moved
  <1>18. CASE CommitRename
    BY <1>18 DEF CommitRename, Renamed, Freed, Used
  <1>19. CASE CommitRenameFails
    BY <1>19 DEF CommitRenameFails, Freed, Used
  <1>20. CASE Reopen
    BY <1>20 DEF Reopen, Freed, Used
  <1>21. CASE CallFails
    BY <1>21 DEF CallFails
  <1>22. CASE Answer
    BY <1>22 DEF Answer, Saved, NotSaved, Freed, Used
  <1>23. CASE ForeignWrite
    BY <1>23 DEF ForeignWrite
  <1>24. CASE ForeignReplace
    BY <1>24, New DEF ForeignReplace, FreeInodes, Used
  <1>25. CASE EditorDies
    BY <1>25 DEF EditorDies
  <1>26. CASE BrokerEnds
    BY <1>26 DEF BrokerEnds, WithoutTemp, Freed, Used
  <1>27. CASE PowerLoss
    BY <1>27 DEF PowerLoss, Freed, Used
  <1>30. CASE SyncDirectory
    BY <1>30 DEF SyncDirectory, Directory, Freed, Used
  <1>31. CASE WriteBack
    BY <1>31 DEF WriteBack, Directory, Freed, Used
  <1>32. CASE BothDie
    BY <1>32 DEF BothDie
  <1>28. CASE Restart
    BY <1>28 DEF Restart, WithoutFiles, Freed, Used
  <1>29. CASE UNCHANGED vars
    BY <1>29 DEF vars
  <1>33. QED
    BY <1>1, <1>2, <1>3, <1>4, <1>5, <1>6, <1>7, <1>8, <1>9, <1>10, <1>11, <1>12, <1>13,
      <1>14, <1>15, <1>16, <1>17, <1>18, <1>19, <1>20, <1>21, <1>22, <1>23, <1>24, <1>25,
      <1>26, <1>27, <1>28, <1>29, <1>30, <1>31, <1>32 DEF Next, EditorStep, BrokerStep, Begin

\* The modified flag is cleared only when the document has become the target, and the
\* timer is stopped only with it.
LEMMA FlagStep == ASSUME Places, NothingLost, KeptIsDoc, Scheduled, [Next]_vars
                   PROVE  (KeptIsDoc /\ Scheduled)'
  <1> USE DEF Places, TypeOK, Positions, Privileged, NothingLost, Holds, Keeper, KeptIsDoc, Scheduled,
      Writing, windows, storage, broker
  <1>1. CASE \E t \in Texts : Edit(t)
    BY <1>1 DEF Edit
  <1>2. CASE \E n \in {"target", "backup"} : OpenOther(n)
    BY <1>2 DEF OpenOther
  <1>3. CASE \E p \in launch.plans : BeginWrite(p)
    BY <1>3 DEF BeginWrite
  <1>4. CASE \E p \in launch.plans : CallBegin(p)
    BY <1>4 DEF CallBegin
  <1>5. CASE WriteData
    BY <1>5 DEF WriteData
  <1>6. CASE OpenBackup
    BY <1>6 DEF OpenBackup
  <1>7. CASE CopyBackup
    BY <1>7 DEF CopyBackup
  <1>8. CASE RenameBackup
    BY <1>8 DEF RenameBackup
  <1>9. CASE RenameTarget
    BY <1>9 DEF RenameTarget, Saved
  <1>10. CASE FailWrite
    BY <1>10 DEF FailWrite, NotSaved
  <1>11. CASE BeginSave
    BY <1>11 DEF BeginSave
  <1>12. CASE BeginFails
    BY <1>12 DEF BeginFails
  <1>13. CASE AnswerBegin
    BY <1>13 DEF AnswerBegin
  <1>14. CASE CallCommit
    BY <1>14 DEF CallCommit
  <1>15. CASE Verify
    BY <1>15 DEF Verify
  <1>16. CASE UnlinkBackup
    BY <1>16 DEF UnlinkBackup
  <1>17. CASE MoveToBackup
    BY <1>17 DEF MoveToBackup
  <1>18. CASE CommitRename
    BY <1>18 DEF CommitRename
  <1>19. CASE CommitRenameFails
    BY <1>19 DEF CommitRenameFails, TargetThere
  <1>20. CASE Reopen
    BY <1>20 DEF Reopen
  <1>21. CASE CallFails
    BY <1>21 DEF CallFails
  <1>22. CASE Answer
    BY <1>22 DEF Answer, Saved, NotSaved
  <1>23. CASE ForeignWrite
    BY <1>23 DEF ForeignWrite
  <1>24. CASE ForeignReplace
    BY <1>24 DEF ForeignReplace
  <1>25. CASE EditorDies
    BY <1>25 DEF EditorDies
  <1>26. CASE BrokerEnds
    BY <1>26 DEF BrokerEnds
  <1>27. CASE PowerLoss
    BY <1>27 DEF PowerLoss
  <1>30. CASE SyncDirectory
    BY <1>30 DEF SyncDirectory
  <1>31. CASE WriteBack
    BY <1>31 DEF WriteBack
  <1>32. CASE BothDie
    BY <1>32 DEF BothDie
  <1>28. CASE Restart
    BY <1>28 DEF Restart
  <1>29. CASE UNCHANGED vars
    BY <1>29 DEF vars
  <1>33. QED
    BY <1>1, <1>2, <1>3, <1>4, <1>5, <1>6, <1>7, <1>8, <1>9, <1>10, <1>11, <1>12, <1>13,
      <1>14, <1>15, <1>16, <1>17, <1>18, <1>19, <1>20, <1>21, <1>22, <1>23, <1>24, <1>25,
      <1>26, <1>27, <1>28, <1>29, <1>30, <1>31, <1>32 DEF Next, EditorStep, BrokerStep, Begin

\* A launch begins with the file as it is on the disk.
LEMMA Initially == Init => IInv
  <1> USE SaveAssumption DEF Init, Names
  <1>1. ASSUME Init PROVE TypeOK
    <2>1. launch \in Launches
      BY <1>1
    <2>2. name \in [Names -> Inodes \cup {None}]
      BY <1>1
    <2>3. data \in [Inodes -> Contents]
      BY <1>1 DEF Contents
    <2>4. {modified, timer, fresh, open, unseen, late} \subseteq BOOLEAN
      BY <1>1
    <2>5. QED
      BY <1>1, <2>1, <2>2, <2>3, <2>4 DEF TypeOK, EditorPoints, BrokerPoints
  <1>2. Init => Positions /\ Apart /\ TargetThere /\ TempThere /\ NoLitter
    BY DEF Positions, Apart, TargetThere, TempThere, NoLitter, Writing, Privileged
  <1>3. Init => TempWhole /\ MovedWhole /\ NothingLost /\ KeptIsDoc /\ Scheduled
    BY DEF TempWhole, MovedWhole, NothingLost, Holds, Keeper, KeptIsDoc, Scheduled
  <1>4. QED
    BY <1>1, <1>2, <1>3 DEF IInv, Places

\* The inductive invariant holds in every reachable state, whatever fails.
THEOREM Invariance == Spec => []IInv
  <1>1. IInv /\ [Next]_vars => IInv'
    BY PlacesStep, ContentStep, FlagStep DEF IInv
  <1>2. QED
    BY Initially, <1>1, PTL DEF Spec
-----------------------------------------------------------------------------
(* What follows from it. *)

\* Every reachable state is well typed: in particular no step of
\* writeDocumentToPath() or of the broker works on a name that is not there.
THEOREM TypeCorrect == Spec => []TypeOK
  <1>1. IInv => TypeOK
    BY DEF IInv, Places
  <1>2. QED
    BY Invariance, <1>1, PTL

\* The version last saved survives every failure of a call and the death of
\* either process: finishWrite and commitSave() never leave the target's name
\* without it, except for the broker's backup between two renames.  A power loss
\* brings back the version last written back, and that one is whole.
THEOREM LastVersionSurvives == Spec => []NothingLost
  <1>1. IInv => NothingLost
    BY DEF IInv
  <1>2. QED
    BY Invariance, <1>1, PTL

\* A document shown as unmodified is on the disk, a modified one has its
\* autosave timer set, also after any number of failed saves.
THEOREM DiskOrTimer == Spec => []SavedOrScheduled
  <1>1. IInv => SavedOrScheduled
    BY DEF IInv, Places, TypeOK, NothingLost, Holds, Keeper, KeptIsDoc, Scheduled, SavedOrScheduled
  <1>2. QED
    BY Invariance, <1>1, PTL

\* failWrite, abortSave and clearSaveTransaction() together remove every
\* temporary file of a save that is over.
THEOREM NothingLeftBehind == Spec => []NoLitter
  <1>1. IInv => NoLitter
    BY DEF IInv, Places
  <1>2. QED
    BY Invariance, <1>1, PTL

\* No step of a save writes to the inode of an open document: a new file has an
\* inode of its own, and the text and the copy go to temporary files.
THEOREM MappedStays == Spec => MappedIsUntouched
  <1> DEFINE Mapped == ({mapDoc, mapOther} \cap {mapDoc', mapOther'}) \ {None}
             Kept == \A i \in Mapped : data'[i] # data[i] => data'[i] = Foreign
  <1>1. ASSUME Places, [Next]_vars PROVE Kept
    <2> USE <1>1, SaveAssumption DEF Places, TypeOK, windows, storage, broker
    <2>1. Mapped \subseteq Inodes /\ Mapped \subseteq Used /\ Mapped \subseteq Used'
      BY DEF Used
    <2>2. ASSUME Freed PROVE Kept
      BY <2>1, <2>2 DEF Freed
    <2>3. ASSUME NEW n \in Names, Created(n) PROVE Kept
      BY <2>1, <2>3, New DEF Created, FreeInodes
    <2>4. CASE WriteData
      BY <2>4 DEF WriteData, WritesAll, Apart, TempThere, Writing
    <2>5. CASE CopyBackup
      BY <2>5 DEF CopyBackup, Apart, TempThere
    <2>6. CASE ForeignWrite
      BY <2>6 DEF ForeignWrite
    <2>7. CASE ForeignReplace
      BY <2>7, <2>1, New DEF ForeignReplace, FreeInodes
    <2>8. CASE UNCHANGED vars
      BY <2>8 DEF vars
    <2>9. CASE OpenBackup \/ BeginSave \/ \E p \in launch.plans : BeginWrite(p)
      BY <2>9, <2>3 DEF OpenBackup, BackupFile, BeginSave, BeginWrite, Names
    <2>10. CASE \/ RenameBackup \/ RenameTarget \/ FailWrite \/ UnlinkBackup \/ CommitRename \/ Reopen
                \/ Answer \/ BrokerEnds \/ Restart \/ (\E n \in {"target", "backup"} : OpenOther(n))
                \/ CommitRenameFails \/ SyncDirectory \/ WriteBack \/ PowerLoss
      BY <2>10, <2>2 DEF RenameBackup, RenameTarget, FailWrite, UnlinkBackup, CommitRename, Reopen,
         Answer, BrokerEnds, Restart, OpenOther, CommitRenameFails, SyncDirectory, WriteBack, PowerLoss
    <2>11. CASE \/ BeginFails \/ AnswerBegin \/ CallCommit \/ Verify \/ MoveToBackup
                \/ CallFails \/ EditorDies \/ BothDie \/ (\E t \in Texts : Edit(t))
                \/ \E p \in launch.plans : CallBegin(p)
      BY <2>11 DEF BeginFails, AnswerBegin, CallCommit, Verify, MoveToBackup,
         CallFails, EditorDies, BothDie, Edit, CallBegin
    <2>12. QED
      BY <2>4, <2>5, <2>6, <2>7, <2>8, <2>9, <2>10, <2>11 DEF Next, EditorStep, BrokerStep, Begin
  <1>2. IInv /\ [Next]_vars => [Kept]_vars
    BY <1>1 DEF IInv
  <1>3. QED
    BY Invariance, <1>2, PTL DEF Spec, MappedIsUntouched
-----------------------------------------------------------------------------
(* Backups and concurrent changes.                                           *)

\* The broker's fingerprint is of the file it holds open.  As long as nobody
\* else has changed the target since the save began, that file is the target
\* of a running privileged save, and from the copy to the rename the backup is
\* what the target holds.
BackupReady ==
    /\ baseline = source
    /\ Privileged /\ ~late /\ (pc \in Writing \/ step = "granted") => name["target"] = source
    /\ pc = "brename" /\ ~late => data[name["btemp"]] = kept
    /\ plan = "copy" /\ ~late /\ (pc = "commit" \/ step \in {"verify", "rename"})
         => name["backup"] # None /\ data[name["backup"]] = kept

\* Every step keeps that.
LEMMA BackupReadyStep ==
  ASSUME IInv, BackupReady, [Next]_vars PROVE BackupReady'
  <1> USE SaveAssumption DEF IInv, Places, TypeOK, Positions, Apart, TargetThere, TempThere, Names,
      Writing, Privileged, windows, storage, broker, BackupReady
  <1>1. CASE CopyBackup
    BY <1>1 DEF CopyBackup, CopiedText, NothingLost, Holds, Keeper
  <1>2. CASE RenameBackup
    BY <1>2 DEF RenameBackup, Freed, Used
  <1>3. CASE WriteData
    BY <1>3 DEF WriteData
  <1>4. CASE OpenBackup \/ RenameTarget \/ FailWrite
    BY <1>4 DEF OpenBackup, BackupFile, Created, RenameTarget, FailWrite
  <1>5. CASE ForeignWrite \/ ForeignReplace
    BY <1>5 DEF ForeignWrite, ForeignReplace
  <1>6. CASE (\E t \in Texts : Edit(t)) \/ Begin
    BY <1>6 DEF Edit, Begin, BeginWrite, CallBegin
  <1>7. CASE \E n \in {"target", "backup"} : OpenOther(n)
    BY <1>7 DEF OpenOther
  <1>8. CASE BeginSave
    BY <1>8 DEF BeginSave, Created, FingerprintEqual
  <1>9. CASE BeginFails \/ AnswerBegin \/ CallCommit \/ Verify
    BY <1>9 DEF BeginFails, AnswerBegin, CallCommit, Verify
  <1>10. CASE UnlinkBackup \/ MoveToBackup
    BY <1>10 DEF UnlinkBackup, MoveToBackup
  <1>11. CASE CommitRename \/ CommitRenameFails \/ SyncDirectory \/ Reopen \/ CallFails \/ Answer
    BY <1>11 DEF CommitRename, CommitRenameFails, SyncDirectory, Reopen, CallFails, Answer
  <1>12. CASE WriteBack
    BY <1>12 DEF WriteBack, Freed, Used
  <1>13. CASE EditorDies \/ BothDie \/ BrokerEnds \/ PowerLoss \/ Restart
    BY <1>13 DEF EditorDies, BothDie, BrokerEnds, PowerLoss, Restart
  <1>14. CASE UNCHANGED vars
    BY <1>14 DEF vars
  <1>15. QED
    BY <1>1, <1>2, <1>3, <1>4, <1>5, <1>6, <1>7, <1>8, <1>9, <1>10, <1>11, <1>12, <1>13, <1>14
       DEF Next, EditorStep, BrokerStep

\* A save with a backup replaces the target only when the backup holds it:
\* finishWrite renames the copy first, commitSave() moves the target itself.
\* Only what others do during the save can be missing from it.
THEOREM BackupComesFirst == Spec => BackupIsPrevious
  <1> DEFINE Replaced == name["temp"] # None /\ name["temp"] = name'["target"] /\ plan # "off"
             Backed == \/ name["backup"] # None /\ data[name["backup"]] = kept
                       \/ late /\ (plan = "copy" \/ name["target"] # None)
  <1>1. Init => BackupReady
    BY DEF Init, BackupReady, Writing
  <1>2. ASSUME IInv, BackupReady, [Next]_vars, Replaced PROVE Backed
    <2> USE <1>2, SaveAssumption DEF IInv, Places, TypeOK, Positions, Apart, Names, Privileged
    <2>1. name'["target"] # name["target"]
      OBVIOUS
    <2>2. CASE RenameTarget
      BY <2>2 DEF RenameTarget, BackupReady
    <2>3. CASE CommitRename
      BY <2>3 DEF CommitRename, NothingLost, Holds, Keeper, TargetThere, BackupReady
    <2>4. CASE ForeignReplace
      BY <2>4, New DEF ForeignReplace, FreeInodes, Used
    <2>5. CASE MoveToBackup \/ CommitRenameFails
      BY <2>5 DEF MoveToBackup, Moved, CommitRenameFails
    <2>6. CASE PowerLoss
      BY <2>6 DEF PowerLoss
    <2>7. CASE \/ OpenBackup \/ RenameBackup \/ FailWrite \/ BeginSave \/ UnlinkBackup \/ Answer
               \/ BrokerEnds \/ Restart \/ Begin
      BY <2>1, <2>7 DEF OpenBackup, BackupFile, Created, RenameBackup, FailWrite, WithoutFiles, BeginSave,
         UnlinkBackup, Answer, BrokerEnds, WithoutTemp, Restart, Begin, BeginWrite, CallBegin
    <2>8. QED
      BY <2>1, <2>2, <2>3, <2>4, <2>5, <2>6, <2>7 DEF Next, EditorStep, BrokerStep, Edit, OpenOther,
         WriteData, CopyBackup, BeginFails, AnswerBegin, CallCommit, Verify, SyncDirectory, Reopen,
         CallFails, ForeignWrite, EditorDies, BothDie, WriteBack, vars
  <1>3. IInv /\ BackupReady /\ [Next]_vars => BackupReady'
    BY BackupReadyStep
  <1>4. IInv /\ BackupReady /\ [Next]_vars => [Replaced => Backed]_vars
    BY <1>2
  <1>5. QED
    BY Invariance, <1>1, <1>3, <1>4, PTL DEF Spec, BackupIsPrevious

\* A change by others since the beginning of a privileged save shows in the
\* fingerprint until it is compared for the last time.
ChangeShows ==
    /\ late /\ Privileged /\ plan # "copy"
    /\ pc \in Writing \cup {"begin"} \/ step \in {"begin", "granted", "verify"}
    => ~FingerprintEqual

\* Every step keeps that: no step of a running save takes a new fingerprint,
\* except for the copy of a backup.
LEMMA ChangeShowsStep ==
  ASSUME IInv, ChangeShows, [Next]_vars PROVE ChangeShows'
  <1> USE SaveAssumption DEF IInv, Places, TypeOK, Positions, Privileged, Writing, windows, storage,
      broker, ChangeShows, FingerprintEqual
  <1>1. CASE ForeignWrite
    BY <1>1 DEF ForeignWrite
  <1>2. CASE ForeignReplace
    BY <1>2, New DEF ForeignReplace, FreeInodes, Used
  <1>3. CASE OpenBackup
    BY <1>3 DEF OpenBackup
  <1>4. CASE WriteData \/ RenameTarget \/ CallCommit \/ FailWrite
    BY <1>4 DEF WriteData, RenameTarget, CallCommit, FailWrite
  <1>5. CASE CopyBackup \/ RenameBackup
    BY <1>5 DEF CopyBackup, RenameBackup
  <1>6. CASE \/ (\E t \in Texts : Edit(t)) \/ (\E n \in {"target", "backup"} : OpenOther(n)) \/ Begin
    BY <1>6 DEF Edit, OpenOther, Begin, BeginWrite, CallBegin
  <1>7. CASE \/ BeginSave \/ BeginFails \/ AnswerBegin \/ Verify \/ UnlinkBackup \/ MoveToBackup
    BY <1>7 DEF BeginSave, Created, BeginFails, AnswerBegin, Verify, UnlinkBackup, MoveToBackup
  <1>8. CASE CommitRename \/ CommitRenameFails \/ SyncDirectory \/ Reopen \/ CallFails \/ Answer
    BY <1>8 DEF CommitRename, CommitRenameFails, SyncDirectory, Reopen, CallFails, Answer
  <1>9. CASE EditorDies \/ BothDie \/ BrokerEnds \/ WriteBack \/ PowerLoss \/ Restart
    BY <1>9 DEF EditorDies, BothDie, BrokerEnds, WriteBack, PowerLoss, Restart
  <1>10. CASE UNCHANGED vars
    BY <1>10 DEF vars
  <1>11. QED
    BY <1>1, <1>2, <1>3, <1>4, <1>5, <1>6, <1>7, <1>8, <1>9, <1>10 DEF Next, EditorStep, BrokerStep

\* commitSave() does not go on when another program has changed the file since
\* beginSave() was asked for, whatever else happened in between.
THEOREM ChangesAreNoticed == Spec => ConcurrentChangeIsRejected
  <1> DEFINE Commits == step = "verify" /\ step' \in {"unlink", "rename"} /\ plan # "copy"
  <1>1. Init => ChangeShows
    BY DEF Init, ChangeShows
  <1>2. ASSUME IInv, ChangeShows, [Next]_vars, Commits PROVE ~late
    <2> USE <1>2 DEF IInv, Places, Positions
    <2>1. Verify
      BY DEF Next, EditorStep, BrokerStep, Begin, Edit, OpenOther, BeginWrite, CallBegin, WriteData,
         OpenBackup, CopyBackup, RenameBackup, RenameTarget, CallCommit, FailWrite, BeginSave, BeginFails,
         AnswerBegin, UnlinkBackup, MoveToBackup, CommitRename, CommitRenameFails, SyncDirectory, Reopen,
         CallFails, Answer, ForeignWrite, ForeignReplace, EditorDies, BothDie, BrokerEnds, WriteBack,
         PowerLoss, Restart, broker, vars
    <2>2. FingerprintEqual
      BY <2>1 DEF Verify, Verdict
    <2>3. QED
      BY <2>2 DEF ChangeShows
  <1>3. IInv /\ ChangeShows /\ [Next]_vars => ChangeShows'
    BY ChangeShowsStep
  <1>4. IInv /\ ChangeShows /\ [Next]_vars => [Commits => ~late]_vars
    BY <1>2
  <1>5. QED
    BY Invariance, <1>1, <1>3, <1>4, PTL DEF Spec, ConcurrentChangeIsRejected
=============================================================================
