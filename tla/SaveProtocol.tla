---------------------------- MODULE SaveProtocol ----------------------------
(***************************************************************************)
(* Saving a document: writeDocumentToPath() with its temporary file, the   *)
(* backup and the rename, and the privileged file broker, a process of its *)
(* own that holds the descriptor and the fingerprint of the file and does  *)
(* the same for a sudo launch.  Every system call that changes the         *)
(* directory is a step; each may fail, the editor may die at any point,    *)
(* the power may go, and other programs may write or replace the file.     *)
(*                                                                         *)
(* A name of the directory stands for an inode.  The fingerprint (inode,   *)
(* size, mtime, ctime) is the inode it was taken of and whether that inode *)
(* is unchanged since; renaming changes the ctime.  A text is a value.     *)
(* The names on the disk lag behind the directory: a rename is lost with   *)
(* the power until the directory is written back.  The file system writes  *)
(* back in the order of the calls; contents are safe after fsync(), those  *)
(* that others write at once.                                              *)
(* Left out: permissions, symbolic links, Save As and the normalisation of *)
(* line ends; a save of a new file has no target and no backup.            *)
(***************************************************************************)
EXTENDS Naturals, FiniteSets

CONSTANTS
    Inodes,
    Texts,        \* versions of the document
    Foreign,      \* what another program writes
    Partial,      \* a file that is not completely written
    None,
    Launches      \* how the editor may be launched and what may happen:
                  \* privileged: by sudo, the path is one of the broker's
                  \* plans: backup "off", by "copy" or by the "broker"
                  \* events: another "window" loads the file or its backup,
                  \* "others" write or replace the file, the "editor" or
                  \* the broker dies, the "power" goes

ASSUME SaveAssumption ==
    /\ Texts # {} /\ {Foreign, Partial} \cap Texts = {} /\ Foreign # Partial
    /\ None \notin Inodes /\ Inodes # {}
    /\ Launches \subseteq [privileged : BOOLEAN, plans : SUBSET {"off", "copy", "broker"},
                            events : SUBSET {"window", "others", "editor", "power"}]
    /\ \A l \in Launches : "broker" \in l.plans => l.privileged

VARIABLES
    launch,    \* how the editor was launched
    name,      \* the directory: target, backup, temp, btemp
    data,      \* contents of the inodes
    doc,       \* the document in the editor
    modified,  \* isDocumentModified
    timer,     \* mAutosaveTimer is set
    pc,        \* where writeDocumentToPath is; "idle" or "dead"
    plan,      \* the backup of the running save
    mapDoc,    \* inode that the document maps
    mapOther,  \* inode that a document in another window maps
    source,    \* sourceDescriptor of the broker
    baseline,  \* the inode of the broker's fingerprint
    fresh,     \* that inode is unchanged since
    step,      \* where the broker is; "ended" after a disconnect, "dead"
    open,      \* the broker has a transaction
    unseen,    \* others changed the file since this document was loaded or saved
    late,      \* others changed the file since this save began
    kept,      \* the version last saved, by the editor or by others
    disk,      \* the target and the backup in the directory as last written back
    durable    \* kept, at that time

vars == <<launch, name, data, doc, modified, timer, pc, plan, mapDoc, mapOther, source,
          baseline, fresh, step, open, unseen, late, kept, disk, durable>>
broker == <<source, baseline, fresh, step, open>>
windows == <<launch, mapDoc, mapOther>>
storage == <<disk, durable>>

Privileged == launch.privileged
Events == launch.events

Contents == Texts \cup {Foreign, Partial}
EditorPoints == {"idle", "begin", "write", "bopen", "bcopy", "brename", "commit", "wait", "dead"}
BrokerPoints == {"idle", "begin", "granted", "refused", "verify", "unlink", "move", "rename",
                 "sync", "reopen", "done", "failed", "ended", "dead"}

TypeOK ==
    /\ launch \in Launches
    /\ name \in [{"target", "backup", "temp", "btemp"} -> Inodes \cup {None}]
    /\ data \in [Inodes -> Contents]
    /\ doc \in Texts \cup {Foreign}
    /\ {modified, timer, fresh, open, unseen, late} \subseteq BOOLEAN
    /\ pc \in EditorPoints /\ step \in BrokerPoints
    /\ plan \in {"off", "copy", "broker"}
    /\ {mapDoc, source, baseline} \subseteq Inodes /\ mapOther \in Inodes \cup {None}
    /\ {kept, durable} \subseteq Texts \cup {Foreign}
    /\ disk \in [{"target", "backup"} -> Inodes \cup {None}]
-----------------------------------------------------------------------------
Used == {name[n] : n \in DOMAIN name} \cup {disk[n] : n \in DOMAIN disk} \cup {mapDoc, mapOther}
          \cup (IF Privileged THEN {source, baseline} ELSE {})
FreeInodes == Inodes \ Used
\* free inodes are alike, it does not matter which is taken
NewInode == CHOOSE i \in FreeInodes : TRUE

\* An inode without a name, a mapping or a descriptor is gone.
Freed == data' = [i \in Inodes |-> IF i \in Used' THEN data[i] ELSE Partial]

\* the names that a save leaves behind
Directory == [n \in {"target", "backup"} |-> name[n]]

\* where the version last saved is, in a directory
Keeper(dir) == IF dir["target"] # None THEN dir["target"] ELSE dir["backup"]

FingerprintEqual == name["target"] = baseline /\ fresh

\* a new file under the name n, by mkstemp or O_EXCL
Created(n) ==
    /\ FreeInodes # {}
    /\ name' = [name EXCEPT ![n] = NewInode]
    /\ data' = [data EXCEPT ![NewInode] = Partial]

Init ==
    \E t \in Texts : LET i == CHOOSE j \in Inodes : TRUE IN
        /\ launch \in Launches
        /\ name = [n \in {"target", "backup", "temp", "btemp"} |-> IF n = "target" THEN i ELSE None]
        /\ data = [j \in Inodes |-> IF j = i THEN t ELSE Partial]
        /\ doc = t /\ kept = t /\ durable = t
        /\ disk = [n \in {"target", "backup"} |-> IF n = "target" THEN i ELSE None]
        /\ modified = FALSE /\ timer = FALSE /\ pc = "idle" /\ plan = "off"
        /\ mapDoc = i /\ mapOther = None
        /\ source = i /\ baseline = i /\ fresh = TRUE /\ step = "idle" /\ open = FALSE
        /\ unseen = FALSE /\ late = FALSE

\* an edit; updateAutosaveState
Edit(t) ==
    /\ pc = "idle"
    /\ t # doc
    /\ doc' = t /\ modified' = TRUE /\ timer' = TRUE
    /\ UNCHANGED <<name, data, pc, plan, windows, storage, broker, unseen, late, kept>>

\* Another window loads the target or the backup.  The broker takes the
\* fingerprint of what it holds whenever it opens the file for reading.
OpenOther(n) ==
    /\ "window" \in Events
    /\ pc = "idle" /\ name[n] # None
    /\ \/ /\ mapOther' = name[n]
          /\ UNCHANGED broker
       \/ /\ Privileged /\ n = "target"
          /\ mapOther' = source /\ baseline' = source /\ fresh' = TRUE
          /\ UNCHANGED <<source, step, open>>
    /\ UNCHANGED <<launch, storage, name, doc, modified, timer, pc, plan, mapDoc, unseen, late, kept>>
    /\ Freed
-----------------------------------------------------------------------------
(* writeDocumentToPath. *)

\* mkstemp next to the target
BeginWrite(p) ==
    /\ pc = "idle" /\ ~Privileged
    /\ name["target"] # None
    /\ Created("temp")
    /\ pc' = "write" /\ plan' = p /\ late' = FALSE
    /\ UNCHANGED <<doc, modified, timer, windows, storage, broker, unseen, kept>>

\* the request; the editor waits for the file to write to
CallBegin(p) ==
    /\ pc = "idle" /\ Privileged /\ step = "idle"
    /\ name["target"] # None
    /\ pc' = "begin" /\ plan' = p /\ step' = "begin" /\ late' = FALSE
    /\ UNCHANGED <<name, data, doc, modified, timer, windows, storage, source, baseline, fresh, open, unseen, kept>>

\* Mutant: a write that fails is taken for a complete one.
WritesSome == data' = data
WritesAll == data' = [data EXCEPT ![name["temp"]] = doc]

\* write, fsync, close
WriteData ==
    /\ pc = "write"
    /\ WritesAll
    /\ pc' = IF plan = "copy" THEN "bopen" ELSE "commit"
    /\ UNCHANGED <<name, doc, modified, timer, plan, windows, storage, broker, unseen, late, kept>>

\* Mutant: the old backup is written over.
OverBackup == IF name["backup"] # None
              THEN /\ name' = [name EXCEPT !["btemp"] = name["backup"]]
                   /\ data' = [data EXCEPT ![name["backup"]] = Partial]
              ELSE Created("btemp")
\* the backup is written to a new inode
BackupFile == Created("btemp")

OpenBackup ==
    /\ pc = "bopen"
    /\ BackupFile
    /\ IF Privileged THEN baseline' = source /\ fresh' = TRUE ELSE UNCHANGED <<baseline, fresh>>
    /\ pc' = "bcopy"
    /\ UNCHANGED <<doc, modified, timer, plan, windows, storage, source, step, open, unseen, late, kept>>

\* Mutant: the backup is a copy of the new text.
CopiesNew == data[name["temp"]]
CopiedText == data[IF Privileged THEN source ELSE name["target"]]

\* read, write, fsync; if others write meanwhile the copy may be mixed
CopyBackup ==
    /\ pc = "bcopy"
    /\ \E v \in {CopiedText} \cup (IF late THEN {Partial} ELSE {}) :
           data' = [data EXCEPT ![name["btemp"]] = v]
    /\ pc' = "brename"
    /\ UNCHANGED <<name, doc, modified, timer, plan, windows, storage, broker, unseen, late, kept>>

RenameBackup ==
    /\ pc = "brename"
    /\ name' = [name EXCEPT !["backup"] = name["btemp"], !["btemp"] = None]
    /\ pc' = "commit"
    /\ UNCHANGED <<doc, modified, timer, plan, windows, storage, broker, unseen, late, kept>>
    /\ Freed

\* rename() replaces the target in one step
Renamed == [name EXCEPT !["target"] = name["temp"], !["temp"] = None]

\* setDocumentModified(false) and, with nothing modified, no timer
Saved == modified' = FALSE /\ timer' = FALSE

RenameTarget ==
    /\ pc = "commit" /\ ~Privileged
    /\ name' = Renamed
    /\ kept' = doc /\ unseen' = FALSE
    /\ Saved
    /\ pc' = "idle"
    /\ UNCHANGED <<doc, plan, windows, storage, broker, late>>
    /\ Freed

\* Mutant: a failed save leaves its temporary files.
KeepsFiles == name
\* failWrite: the temporary files are removed, the broker's by abortSave
WithoutFiles == [name EXCEPT !["temp"] = None, !["btemp"] = None]

\* Mutant: a failed save clears the modified flag as well.
ClearsModified == modified' = FALSE /\ UNCHANGED timer
NotSaved == UNCHANGED <<modified, timer>>

FailWrite ==
    /\ pc \in {"write", "bopen", "bcopy", "brename", "commit"}
    /\ name' = WithoutFiles
    /\ NotSaved
    /\ open' = FALSE /\ pc' = "idle"
    /\ UNCHANGED <<doc, plan, windows, storage, source, baseline, fresh, step, unseen, late, kept>>
    /\ Freed
-----------------------------------------------------------------------------
(* The broker: beginSave and commitSave; the editor waits for the answers. *)

BeginSave ==
    /\ step = "begin" /\ FingerprintEqual
    /\ Created("temp")
    /\ step' = "granted" /\ open' = TRUE
    /\ UNCHANGED <<doc, modified, timer, pc, plan, windows, storage, source, baseline, fresh, unseen, late, kept>>

\* the file changed, or the new file cannot be created
BeginFails ==
    /\ step = "begin"
    /\ step' = "refused"
    /\ UNCHANGED <<name, data, doc, modified, timer, pc, plan, windows, storage, source, baseline, fresh, open, unseen, late, kept>>

\* The answer to beginSave.  When it cannot be sent the broker returns at once,
\* past clearSaveTransaction.
AnswerBegin ==
    /\ step \in {"granted", "refused"}
    /\ step' = IF pc = "begin" THEN "idle" ELSE "dead"
    /\ pc' = IF pc # "begin" THEN pc ELSE IF step = "granted" THEN "write" ELSE "idle"
    /\ open' = (open /\ pc = "begin")
    /\ UNCHANGED <<name, data, doc, modified, timer, plan, windows, storage, source, baseline, fresh, unseen, late, kept>>

CallCommit ==
    /\ pc = "commit" /\ Privileged
    /\ pc' = "wait" /\ step' = "verify"
    /\ UNCHANGED <<name, data, doc, modified, timer, plan, windows, storage, source, baseline, fresh, open, unseen, late, kept>>

\* Mutant: the fingerprint is not compared again.
NotCompared == "ok"
Verdict == IF FingerprintEqual THEN "ok" ELSE "changed"

Verify ==
    /\ step = "verify"
    /\ step' = IF Verdict = "ok" THEN IF plan = "broker" THEN "unlink" ELSE "rename" ELSE "failed"
    /\ UNCHANGED <<name, data, doc, modified, timer, pc, plan, windows, storage, source, baseline, fresh, open, unseen, late, kept>>

UnlinkBackup ==
    /\ step = "unlink"
    /\ name' = [name EXCEPT !["backup"] = None]
    /\ step' = "move"
    /\ UNCHANGED <<doc, modified, timer, pc, plan, windows, storage, source, baseline, fresh, open, unseen, late, kept>>
    /\ Freed

\* Mutant: the backup is dropped once more before the new file is in place.
DropsTarget == [name EXCEPT !["target"] = None]
Moved == [name EXCEPT !["backup"] = name["target"], !["target"] = None]

MoveToBackup ==
    /\ step = "move"
    /\ name' = Moved
    /\ fresh' = (fresh /\ name["target"] # baseline)
    /\ step' = "rename"
    /\ UNCHANGED <<data, doc, modified, timer, pc, plan, windows, storage, source, baseline, open, unseen, late, kept>>

CommitRename ==
    /\ step = "rename"
    /\ name' = Renamed
    /\ kept' = doc /\ unseen' = FALSE
    /\ step' = "sync"
    /\ UNCHANGED <<doc, modified, timer, pc, plan, windows, storage, source, baseline, fresh, open, late>>
    /\ Freed

\* a failed rename moves the backup back, unless that fails too; what others
\* have put in the place of the target is replaced
CommitRenameFails ==
    /\ step = "rename"
    /\ \/ UNCHANGED <<name, fresh, kept>>
       \/ /\ plan = "broker"
          /\ name' = [name EXCEPT !["target"] = name["backup"], !["backup"] = None]
          /\ fresh' = (fresh /\ name["backup"] # baseline)
          /\ kept' = data[name["backup"]]
    /\ step' = "failed"
    /\ UNCHANGED <<doc, modified, timer, pc, plan, windows, storage, source, baseline, open, unseen, late>>
    /\ Freed

\* fsync of the directory; that it failed is ignored
SyncDirectory ==
    /\ step = "sync"
    /\ \/ UNCHANGED storage
       \/ disk' = Directory /\ durable' = kept
    /\ step' = "reopen"
    /\ UNCHANGED <<name, doc, modified, timer, pc, plan, windows, source, baseline, fresh, open, unseen, late, kept>>
    /\ Freed

Reopen ==
    /\ step = "reopen"
    /\ source' = name["target"] /\ baseline' = name["target"] /\ fresh' = TRUE
    /\ step' = "done"
    /\ UNCHANGED <<name, doc, modified, timer, pc, plan, windows, storage, open, unseen, late, kept>>
    /\ Freed

CallFails ==
    /\ step \in {"verify", "unlink", "move", "reopen"}
    /\ step' = "failed"
    /\ UNCHANGED <<name, data, doc, modified, timer, pc, plan, windows, storage, source, baseline, fresh, open, unseen, late, kept>>

\* clearSaveTransaction, the answer, and what the editor does with it
Answer ==
    /\ step \in {"done", "failed"}
    /\ step' = "idle" /\ open' = FALSE
    /\ name' = IF step = "failed" THEN [name EXCEPT !["temp"] = None] ELSE name
    /\ IF pc = "wait" THEN /\ pc' = "idle"
                           /\ IF step = "done" THEN Saved ELSE NotSaved
       ELSE UNCHANGED <<pc, modified, timer>>
    /\ UNCHANGED <<doc, plan, windows, storage, source, baseline, fresh, unseen, late, kept>>
    /\ Freed
-----------------------------------------------------------------------------
(* Others, who rewrite or replace the file, failures of whole processes, the *)
(* file system, and a new start.                                             *)

ForeignWrite ==
    /\ "others" \in Events /\ name["target"] # None
    /\ data' = [data EXCEPT ![name["target"]] = Foreign]
    /\ fresh' = (fresh /\ name["target"] # baseline)
    /\ unseen' = TRUE /\ late' = TRUE /\ kept' = Foreign
    /\ durable' = IF Keeper(disk) = name["target"] THEN Foreign ELSE durable
    /\ UNCHANGED <<disk, name, doc, modified, timer, pc, plan, windows, source, baseline, step, open>>

\* by a rename, also between the two renames of the broker
ForeignReplace ==
    /\ "others" \in Events
    /\ fresh' = (fresh /\ name["target"] # baseline)
    /\ unseen' = TRUE /\ late' = TRUE /\ kept' = Foreign
    /\ UNCHANGED <<doc, modified, timer, pc, plan, windows, storage, source, baseline, step, open>>
    /\ FreeInodes # {}
    /\ LET i == NewInode IN
        /\ name' = [name EXCEPT !["target"] = i]
        /\ data' = [j \in Inodes |-> IF j = i THEN Foreign ELSE IF j \in Used' THEN data[j] ELSE Partial]

EditorDies ==
    /\ "editor" \in Events /\ pc # "dead"
    /\ pc' = "dead"
    /\ UNCHANGED <<name, data, doc, modified, timer, plan, windows, storage, broker, unseen, late, kept>>

WithoutTemp == [name EXCEPT !["temp"] = None]

\* serveBroker after the client's end of the channel is gone
BrokerEnds ==
    /\ Privileged /\ pc = "dead" /\ step = "idle"
    /\ name' = IF open THEN WithoutTemp ELSE name
    /\ open' = FALSE /\ step' = "ended"
    /\ UNCHANGED <<doc, modified, timer, pc, plan, windows, storage, source, baseline, fresh, unseen, late, kept>>
    /\ Freed

\* the file system writes the directory back when it likes
WriteBack ==
    /\ "power" \in Events /\ <<disk, durable>> # <<Directory, kept>>
    /\ disk' = Directory /\ durable' = kept
    /\ UNCHANGED <<name, doc, modified, timer, pc, plan, windows, broker, unseen, late, kept>>
    /\ Freed

\* what is not written back is undone
PowerLoss ==
    /\ "power" \in Events /\ ~(pc = "dead" /\ step = "dead" /\ disk = Directory)
    /\ pc' = "dead" /\ step' = "dead" /\ open' = FALSE
    /\ name' = [n \in DOMAIN name |-> IF n \in DOMAIN disk THEN disk[n] ELSE None]
    /\ kept' = durable
    /\ UNCHANGED <<doc, modified, timer, plan, windows, storage, source, baseline, fresh, unseen, late>>
    /\ Freed

\* the broker dies, and the editor with it: PR_SET_PDEATHSIG
BothDie ==
    /\ "editor" \in Events /\ Privileged /\ step \notin {"ended", "dead"}
    /\ pc' = "dead" /\ step' = "dead" /\ open' = FALSE
    /\ UNCHANGED <<name, data, doc, modified, timer, plan, windows, storage, source, baseline, fresh, unseen, late, kept>>

\* a new launch loads the file; files left behind have names of their own
Restart ==
    /\ pc = "dead" /\ (Privileged => step \in {"ended", "dead"})
    /\ name["target"] # None
    /\ doc' = data[name["target"]] /\ modified' = FALSE /\ timer' = FALSE
    /\ name' = WithoutFiles
    /\ pc' = "idle" /\ plan' = "off" /\ step' = "idle" /\ open' = FALSE
    /\ source' = name["target"] /\ baseline' = name["target"] /\ fresh' = TRUE
    /\ mapDoc' = name["target"] /\ mapOther' = None
    /\ unseen' = FALSE /\ late' = FALSE
    /\ UNCHANGED <<launch, kept, storage>>
    /\ Freed

EditorStep == WriteData \/ OpenBackup \/ CopyBackup \/ RenameBackup \/ RenameTarget \/ CallCommit
BrokerStep == BeginSave \/ AnswerBegin \/ Verify \/ UnlinkBackup \/ MoveToBackup \/ CommitRename
              \/ SyncDirectory \/ Reopen
Begin == \E p \in launch.plans : BeginWrite(p) \/ CallBegin(p)

Next ==
    \/ \E t \in Texts : Edit(t)
    \/ \E n \in {"target", "backup"} : OpenOther(n)
    \/ Begin
    \/ EditorStep \/ FailWrite
    \/ BrokerStep \/ BeginFails \/ CommitRenameFails \/ CallFails \/ Answer
    \/ ForeignWrite \/ ForeignReplace
    \/ EditorDies \/ BothDie \/ BrokerEnds \/ WriteBack \/ PowerLoss \/ Restart

Spec == Init /\ [][Next]_vars

-----------------------------------------------------------------------------
\* a directory has version v, whole
Holds(dir, v) ==
    /\ Keeper(dir) # None /\ data[Keeper(dir)] = v
    /\ dir["target"] = None => Privileged

\* The version last saved is never lost: the target holds it whole, or, between
\* the two renames of the broker and never without it, the backup does, whatever
\* call fails and wherever the editor or the broker dies.  A power loss takes
\* back the renames that are not written back, because the editor never syncs
\* the directory and the broker ignores that it failed to; but what is then
\* under the names is a version that was saved, and whole.
NothingLost == Holds(name, kept) /\ Holds(disk, durable)

\* A document that is not modified is on the disk as it is in the editor, and
\* for a modified one the autosave timer stays set, however often a save fails;
\* whether it then saves is for the configured periods to say.
SavedOrScheduled ==
    /\ pc = "idle" /\ ~modified /\ ~unseen /\ name["target"] # None => data[name["target"]] = doc
    /\ modified /\ pc # "dead" => timer

\* When a save is over, however it ended, its temporary files are gone.  The
\* broker knows of the one it has created until it is renamed or removed, and
\* removes it before it ends, wherever the editor went; only a broker that was
\* killed or could not send its answer leaves one behind.
NoLitter ==
    /\ pc = "idle" => name["temp"] = None /\ name["btemp"] = None
    /\ Privileged /\ step # "dead" /\ name["temp"] # None => open

\* No step of a save writes to an inode that an open document maps.
MappedIsUntouched ==
    [][\A i \in ({mapDoc, mapOther} \cap {mapDoc', mapOther'}) \ {None} : data'[i] # data[i] => data'[i] = Foreign]_vars

\* A save with a backup replaces nothing that is not in the backup, unless other
\* programs change the file during the save: beside a copy at any time, with the
\* broker's own backup only if they put a file in place of the one moved away.
BackupIsPrevious ==
    [][name["temp"] # None /\ name["temp"] = name'["target"] /\ plan # "off"
       => \/ name["backup"] # None /\ data[name["backup"]] = kept
          \/ late /\ (plan = "copy" \/ name["target"] # None)]_vars

\* A file that others change between the beginning of a privileged save and its
\* commit is not replaced: the new content is not committed.  Only the copy of a
\* backup, which opens the file through the broker, renews the fingerprint.
ConcurrentChangeIsRejected ==
    [][step = "verify" /\ step' \in {"unlink", "rename"} /\ plan # "copy" => ~late]_vars
=============================================================================
