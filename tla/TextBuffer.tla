----------------------------- MODULE TextBuffer -----------------------------
(***************************************************************************)
(* One document of the editor: MRTextBufferModel with its undo and redo    *)
(* stacks, the commit path of MRFileEditor (applyStagedTransaction,        *)
(* syncAfterCommittedDocument), loading and saving, macros that run on a   *)
(* worker and commit their staged transaction later, and the Replace All   *)
(* dialog with its checkpoint.                                             *)
(*                                                                         *)
(* Texts are opaque: TextDocument shows that a snapshot is as good as a    *)
(* text.  The modified flag is compared with the text that was last        *)
(* loaded or saved.  A macro that clears FILE_CHANGED is left out.         *)
(*                                                                         *)
(* A modal dialog keeps the user out, but not the timers: the idle loop    *)
(* of the dialog saves the document when autosave is due and runs macros   *)
(* (scheduled, delayed, pre-save) on the UI thread.  So edits, undo, redo, *)
(* loads, saves and commits are possible while Replace All is open.        *)
(***************************************************************************)
EXTENDS Integers, Sequences

CONSTANTS
    Text, Empty,   \* the texts, and the empty one
    Cursor, Home,  \* cursor positions with their selection and block, and offset 0
    Scene,         \* what else macroCommitConflictMarker() compares: file name, insert
                   \* mode, indent level, globals, last search, options, marks, links,
                   \* number and place of the windows
    Job,           \* macros running on workers
    MaxVersion,    \* bound on the version
    MaxDepth       \* bound on the depth of a stack

ASSUME BufferAssumption ==
    /\ Empty \in Text
    /\ Home \in Cursor
    /\ Scene # {}
    /\ MaxVersion \in Nat \ {0} /\ MaxDepth \in Nat

VARIABLES
    text, version, cursor, modified,
    scene,
    undoStack, redoStack,   \* Seq(Record), the top is the last
    saved,                  \* the text last loaded or saved
    job,                    \* [Job -> JobRecord]
    dialog,                 \* the checkpoint of the Replace All dialog; text, modified
                            \* and result are history: before and after the replacement,
                            \* saved and travelled too: since then saved, undone or redone
    undone                  \* history: steps undone since the last mutation

document == <<text, version, cursor, modified>>
vars == <<document, scene, undoStack, redoStack, saved, job, dialog, undone>>

\* CustomUndoRecord
Record == [text : Text, version : 0..MaxVersion, cursor : Cursor, modified : BOOLEAN]

\* a staged job with its conflict snapshot; history: the text its macro works
\* on, that another file, or the same one anew, was loaded meanwhile, and that
\* the transaction last committed was applied to another text
JobRecord == [state : {"idle", "running"}, version : Nat, cursor : Cursor, scene : Scene,
              modified : BOOLEAN, base : Text, loaded : BOOLEAN, stale : BOOLEAN]

\* MultiFileReplaceCheckpoint; same: the document has the checkpoint's documentId
Dialog == [open : BOOLEAN, replaced : BOOLEAN, depth : Nat, version : Nat, same : BOOLEAN,
           text : Text, modified : BOOLEAN, result : Text, saved : BOOLEAN, travelled : BOOLEAN]

TypeOK ==
    /\ text \in Text /\ saved \in Text /\ cursor \in Cursor /\ scene \in Scene
    /\ version \in 0..MaxVersion
    /\ modified \in BOOLEAN
    /\ undoStack \in Seq(Record) /\ redoStack \in Seq(Record)
    /\ job \in [Job -> JobRecord]
    /\ dialog \in Dialog
    /\ undone \in Nat
-----------------------------------------------------------------------------
\* pushUndoSnapshot(), and the record undo() and redo() save
Now == [text |-> text, version |-> version, cursor |-> cursor, modified |-> modified]

Top(stack) == stack[Len(stack)]
Pushed(stack, r) == Append(stack, r)
Below(stack) == SubSeq(stack, 1, Len(stack) - 1)

NoDialog == [open |-> FALSE, replaced |-> FALSE, depth |-> 0, version |-> 0, same |-> FALSE,
             text |-> Empty, modified |-> FALSE, result |-> Empty,
             saved |-> FALSE, travelled |-> FALSE]

AnyScene == CHOOSE s \in Scene : TRUE

IdleJob == [state |-> "idle", version |-> 0, cursor |-> Home, scene |-> AnyScene,
            modified |-> FALSE, base |-> Empty, loaded |-> FALSE, stale |-> FALSE]

Init ==
    /\ text = Empty /\ version = 0 /\ cursor = Home /\ modified = FALSE
    /\ scene = AnyScene
    /\ undoStack = <<>> /\ redoStack = <<>>
    /\ saved = Empty
    /\ job = [j \in Job |-> IdleJob]
    /\ dialog = NoDialog
    /\ undone = 0

\* Mutant: the redo stack outlives a new edit.
RedoKept(t, c) ==
    /\ version < MaxVersion /\ Len(undoStack) < MaxDepth
    /\ text' = t /\ version' = version + 1 /\ cursor' = c /\ modified' = TRUE
    /\ undoStack' = Pushed(undoStack, Now)
    /\ UNCHANGED redoStack
    /\ undone' = 0

\* applyStagedTransaction() and replaceRangesAndCollapse() when the transaction
\* is applied: the undo record is pushed, the redo stack cleared, the cursor
\* and the modified flag are set by syncAfterCommittedDocument()
Applied(t, c) ==
    /\ version < MaxVersion /\ Len(undoStack) < MaxDepth
    /\ text' = t /\ version' = version + 1 /\ cursor' = c /\ modified' = TRUE
    /\ undoStack' = Pushed(undoStack, Now)
    /\ redoStack' = <<>>
    /\ undone' = 0

\* the same when it is not: the record is pushed and popped again
NotApplied ==
    /\ redoStack' = <<>>
    /\ UNCHANGED <<text, version, modified, undoStack, undone>>
-----------------------------------------------------------------------------
(***************************************************************************)
(* What the user does, and macros on the UI thread.                        *)
(***************************************************************************)

\* an editing command; one that inserts nothing into an empty text is not applied
Edit(t, c) ==
    /\ text # Empty \/ t # Empty
    /\ Applied(t, c)
    /\ UNCHANGED <<scene, saved, job, dialog>>

\* an editing command that changes nothing
EditNothing == NotApplied /\ UNCHANGED <<cursor, scene, saved, job, dialog>>

\* handleEvent() of MREditWindow: typing replaces a marked block, which is two
\* commits of which the second one's undo record is popped
ReplaceBlock(t, c) ==
    /\ ~dialog.open
    /\ text # Empty
    /\ version + 1 < MaxVersion /\ Len(undoStack) < MaxDepth
    /\ text' = t /\ version' = version + 2 /\ cursor' = c /\ modified' = TRUE
    /\ undoStack' = Pushed(undoStack, Now)
    /\ redoStack' = <<>>
    /\ undone' = 0
    /\ UNCHANGED <<scene, saved, job, dialog>>

\* moving, selecting, searching, marking, changing an option, opening or moving
\* a window: the text stays
LookAround(c, s) ==
    /\ <<c, s>> # <<cursor, scene>>
    /\ cursor' = c /\ scene' = s
    /\ UNCHANGED <<text, version, modified, undoStack, redoStack, saved, job, dialog, undone>>

\* FILE_CHANGED := 1 in a macro: setDocumentModified(true)
MarkModified ==
    /\ modified' = TRUE
    /\ UNCHANGED <<text, version, cursor, scene, undoStack, redoStack, saved, job, dialog, undone>>

\* Mutant: markSaved() leaves the records alone.
RecordsForgotten(stack) == stack

\* markSaved() on the records of a stack
Unsaved(stack) == [i \in 1..Len(stack) |-> [stack[i] EXCEPT !.modified = TRUE]]

\* saveInPlace(), saveAsWithPrompt(), which may set a new file name, and
\* autosaveIfDue(), also in the idle loop of a dialog, once the file is written;
\* if it is not, nothing changes.  The edits of a pre-save macro come before.
Save ==
    /\ saved' = text
    /\ modified' = FALSE
    /\ scene' \in Scene
    /\ undoStack' = Unsaved(undoStack)
    /\ redoStack' = Unsaved(redoStack)
    /\ dialog' = [dialog EXCEPT !.saved = dialog.replaced]
    /\ UNCHANGED <<text, version, cursor, job, undone>>

\* a running job has outlived the document it was started on
Outlived(j) == [job[j] EXCEPT !.loaded = job[j].state = "running"]

\* loadMappedFile(): a document of its own, whose version is 1
Load(t) ==
    /\ text' = t /\ saved' = t /\ version' = 1 /\ cursor' = Home /\ modified' = FALSE
    /\ scene' \in Scene
    /\ undoStack' = <<>> /\ redoStack' = <<>> /\ undone' = 0
    /\ job' = [j \in Job |-> Outlived(j)]
    /\ dialog' = [dialog EXCEPT !.same = FALSE]

\* replaceBufferData(), which does nothing but clear the redo stack when the
\* text is the same
Reload(t) ==
    /\ UNCHANGED <<scene, job, dialog>>
    /\ \/ /\ t = text /\ NotApplied /\ UNCHANGED <<cursor, saved>>
       \/ /\ t # text /\ version < MaxVersion
          /\ text' = t /\ saved' = t /\ version' = version + 1
          /\ cursor' = Home /\ modified' = FALSE
          /\ undoStack' = <<>> /\ redoStack' = <<>> /\ undone' = 0
-----------------------------------------------------------------------------
(***************************************************************************)
(* Undo and redo.                                                          *)
(***************************************************************************)

\* restoreFromSnapshot() with the rest of a record
Restored(r) ==
    /\ text' = r.text
    /\ version' = IF r.text = Empty THEN version ELSE r.version
    /\ cursor' = r.cursor
    /\ modified' = r.modified

\* history: undo or redo since the replacement
Travelled == dialog' = [dialog EXCEPT !.travelled = dialog.replaced]

\* Mutant: the record for redo is taken after the document was restored.
UndoneFirst ==
    /\ undoStack # <<>>
    /\ Restored(Top(undoStack))
    /\ redoStack' = Pushed(redoStack, Top(undoStack))
    /\ undoStack' = Below(undoStack)
    /\ undone' = undone + 1
    /\ Travelled
    /\ UNCHANGED <<scene, saved, job>>

\* undo(), cmUndo
Undo ==
    /\ undoStack # <<>>
    /\ redoStack' = Pushed(redoStack, Now)
    /\ Restored(Top(undoStack))
    /\ undoStack' = Below(undoStack)
    /\ undone' = undone + 1
    /\ Travelled
    /\ UNCHANGED <<scene, saved, job>>

\* redo(), cmMrEditRedo
Redo ==
    /\ redoStack # <<>>
    /\ undoStack' = Pushed(undoStack, Now)
    /\ Restored(Top(redoStack))
    /\ redoStack' = Below(redoStack)
    /\ undone' = undone - 1
    /\ Travelled
    /\ UNCHANGED <<scene, saved, job>>
-----------------------------------------------------------------------------
(***************************************************************************)
(* Macros on a worker, and the Replace All dialog.                         *)
(***************************************************************************)

\* what captureMacroStagedExecutionInput() and captureMacroCommitConflictSnapshot() keep
Started == [state |-> "running", version |-> version, cursor |-> cursor, scene |-> scene,
            modified |-> modified, base |-> text, loaded |-> FALSE, stale |-> FALSE]

\* a macro is handed to a worker
StartJob(j) ==
    /\ job[j].state = "idle"
    /\ job' = [job EXCEPT ![j] = Started]
    /\ UNCHANGED <<document, scene, undoStack, redoStack, saved, dialog, undone>>

\* macroCommitConflictMarker() and the version check before it
Conflict(j) ==
    \/ job[j].version # version
    \/ job[j].cursor # cursor
    \/ job[j].scene # scene
    \/ job[j].modified # modified

\* releaseMacroTask() after a commit
Committed(j) == [IdleJob EXCEPT !.stale = ~job[j].loaded /\ text # job[j].base]

\* handleCoprocessorResult() for a staged payload, from the pump: the event
\* loop of a dialog pumps too
CommitJob(j, t, c) ==
    /\ job[j].state = "running"
    /\ ~Conflict(j)
    /\ Applied(t, c)
    /\ scene' \in Scene
    /\ job' = [job EXCEPT ![j] = Committed(j)]
    /\ UNCHANGED <<saved, dialog>>

\* the macro has not changed the text; its block and the rest are adopted
CommitNothing(j, c) ==
    /\ job[j].state = "running"
    /\ ~Conflict(j)
    /\ NotApplied
    /\ cursor' = c
    /\ scene' \in Scene
    /\ job' = [job EXCEPT ![j] = IdleJob]
    /\ UNCHANGED <<saved, dialog>>

RejectJob(j) ==
    /\ job[j].state = "running"
    /\ Conflict(j)
    /\ job' = [job EXCEPT ![j] = IdleJob]
    /\ UNCHANGED <<document, scene, undoStack, redoStack, saved, dialog, undone>>

\* replaceAllSessionMatchesInFile(), with the checkpoint it makes and the last
\* search it sets
ReplaceAll(t, c) ==
    /\ ~dialog.open
    /\ text # Empty \/ t # Empty
    /\ Applied(t, c)
    /\ scene' \in Scene
    /\ dialog' = [open |-> TRUE, replaced |-> TRUE, depth |-> Len(undoStack),
                  version |-> version + 1, same |-> TRUE,
                  text |-> text, modified |-> modified, result |-> t,
                  saved |-> FALSE, travelled |-> FALSE]
    /\ UNCHANGED <<saved, job>>

\* Mutant: the version is not looked at.
OnlyTheDepth == dialog.same /\ Len(undoStack) > dialog.depth

\* validateSessionFileReplaceCheckpoint()
CheckpointHolds == dialog.same /\ dialog.version = version /\ Len(undoStack) = dialog.depth + 1

\* revertSessionFileReplacements(), revertUndoSuffix()
Revert ==
    /\ dialog.open /\ dialog.replaced
    /\ CheckpointHolds
    /\ Restored(undoStack[dialog.depth + 1])
    /\ undoStack' = SubSeq(undoStack, 1, dialog.depth)
    /\ redoStack' = <<>>
    /\ dialog' = [NoDialog EXCEPT !.open = TRUE, !.depth = dialog.depth, !.version = version',
                                  !.same = TRUE]
    /\ undone' = 0
    /\ UNCHANGED <<scene, saved, job>>

\* the dialog ends: completed, aborted, reverted, or failed because an editor
\* has changed
EndDialog ==
    /\ dialog.open
    /\ dialog' = NoDialog
    /\ UNCHANGED <<document, scene, undoStack, redoStack, saved, job, undone>>
-----------------------------------------------------------------------------
Next ==
    \/ \E t \in Text, c \in Cursor : Edit(t, c) \/ ReplaceBlock(t, c)
    \/ \E c \in Cursor, s \in Scene : LookAround(c, s)
    \/ \E t \in Text : Load(t) \/ Reload(t)
    \/ EditNothing \/ MarkModified \/ Save \/ Undo \/ Redo \/ Revert \/ EndDialog
    \/ \E j \in Job : \/ StartJob(j) \/ RejectJob(j)
                      \/ \E c \in Cursor : CommitNothing(j, c)
                      \/ \E t \in Text, c \in Cursor : CommitJob(j, t, c)
    \/ \E t \in Text, c \in Cursor : ReplaceAll(t, c)

Spec == Init /\ [][Next]_vars
-----------------------------------------------------------------------------
(***************************************************************************)
(* Properties.                                                             *)
(***************************************************************************)

\* The editor closes a document without asking, and skips autosave, when it is
\* not modified: then its text must be the one last loaded or saved, however
\* saves, undo, redo, reverts and late commits were mixed.
UnmodifiedMeansSaved == modified \/ text = saved

\* what undo and redo travel along: each text with its modified flag
Milestone(r) == <<r.text, r.modified>>
Timeline ==
    LET n == Len(undoStack)
        m == Len(redoStack)
    IN  [i \in 1..(n + 1 + m) |->
           IF i <= n THEN Milestone(undoStack[i])
           ELSE IF i = n + 1 THEN Milestone(Now) ELSE Milestone(redoStack[n + m + 2 - i])]

\* Undo and redo move along one timeline and rewrite nothing of it: k times
\* undo and k times redo give the text and its modified flag back.
UndoRedoTravel == [][Undo \/ Redo => Timeline' = Timeline]_vars

\* Reverting Replace All takes back the replacement and nothing else: it
\* finds the text the replacement made, not one that an edit or a late commit
\* made of it, and gives back the text from before.  The modified flag comes
\* back too, unless autosave has written the replaced text meanwhile: then the
\* document is modified again.  Macros that undo or redo while the dialog is
\* open are excepted: they can bring the version and the depth back.
RevertRestores ==
    [][dialog.replaced /\ ~dialog.travelled /\ dialog'.open /\ ~dialog'.replaced
       => /\ text = dialog.result
          /\ text' = dialog.text
          /\ modified' = (dialog.modified \/ dialog.saved)]_vars

\* coprocessor-runtime-contract.md: results carry enough metadata for the
\* consumer to reject stale adoption.  A staged macro is then committed only on
\* the text it was computed from, even if only edits, undo and redo and no
\* other load of the file came in between.
StagedOnItsOwnText == \A j \in Job : ~job[j].stale

\* The manual: Redo reapplies a step that was undone, a new mutation
\* establishes a new forward history.  Every step undone since the last
\* mutation can then be redone.
UndoneCanBeRedone == Len(redoStack) = undone
=============================================================================
