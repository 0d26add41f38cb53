# Verification of mr in TLA+

mr is a text editor for the terminal: a piece-table document model, an undo
history, a macro language whose macros may run on worker threads, and a
"coprocessor" that runs background work and delivers its results to the UI
thread. This directory models the parts of it whose correctness depends on
order, interleaving and sharing. TLC checks the models on small instances, TLAPS
proves the most important invariants for every value of the constants.

Module names, definitions and actions keep the names of the code. `PROJECT.json`
maps every definition to the lines it stands for.

## Inventory of the system

| component | state | operations | what is hard |
|---|---|---|---|
| coprocessor runtime (`coprocessor/MRCoprocessor*.cpp`) | lanes with a queue, a stop flag and a thread; cancel flags by task id; result queue; external sources; telemetry | submit, register and unregister workers and sources, cancel, pump, reap, shutdown | one UI thread and any number of workers; condition variables; raw pointers across critical sections |
| result dispatch (`MRCoprocessorDispatch.cpp`) | none of its own | adopt or reject a result for a window, dialog, source or macro | results arrive after the state they were computed from has changed |
| piece table (`piecetable/MRTextDocument.cpp`) | original buffer, add buffer, piece list, length, version | transactions, whole-text replacement, snapshot, restore | copy-on-write between undo records, worker snapshots and macro copies |
| line index (`piecetable/MRTextDocumentLineIndex.cpp`) | checkpoints, edited line starts, scan reservations | lazy scan, shift or invalidate on edits, adopt packets of workers | CR LF at an edit boundary; late packets |
| text buffer (`ui/MRTextBufferModel.hpp`) | document, cursor, modified flag, undo and redo stacks | push, undo, redo, mark saved, revert a suffix | the modified flag of old records; version numbers that come back |
| editor commit, load, save (`ui/MRFileEditor/`) | caches derived from the document | staged transactions, load, save, autosave | partial failure of a save; late commits |
| Replace All (`app/router/...MultiFile*`) | a checkpoint per document | replace, cancel, revert | the pump, the timers and autosave run inside the modal dialog |
| macro jobs (`mrmac/MRMacroRunner.cpp`) | a captured input and a conflict snapshot | start, edit a private copy, commit or conflict | staleness of the captured state |
| derived state (`derivedstate/`) | fold, syntax and mini-map caches | warm up, invalidate, adopt | stale results |
| runtime scheduler (`app/MRRuntimeScheduler.cpp`) | consumers with deadlines and active sessions | register, pump, start, finish | starts outside the mutex |
| keymap (`keymap/`) | profiles, trie, pending tokens | rebuild, resolve | failed rebuild half way |
| GDB session, privileged broker, update | a request and answer protocol each | send, receive, stop | lost or late answers, restarts |
| diff, outline, settings, dialogs, compiler | mostly sequential | | |

Components interact in three ways. The UI thread calls the coprocessor and
receives results from its own pump, through `handleCoprocessorResult`. Workers
receive snapshots or copies of a document, never the document. The version of a
document, with the cursor and the modified flag, decides whether a result may
still be adopted.

What makes the parts correct: every task is answered once and can be cancelled
until then; no thread outlives its lane; a snapshot never changes; the piece
table cannot be told from a string; a document shown as unmodified is on disk;
undo and redo lose nothing; a revert takes back its own work only.

## Modules

| module | what it is |
|---|---|
| `Coprocessor` | lanes, workers, UI calls, result queue, external sources, shutdown |
| `CoprocessorInv` | the inductive invariant of the coprocessor, in four layers of named parts |
| `CoprocessorProofs`, `CoprocessorResultProofs` | proofs of its first three layers, and of the fourth, about results |
| `TextValues` | abstract specification: each owner of a document has a text and a version |
| `TextDocument` | the piece table with shared cells; shown to implement `TextValues` |
| `TextDocumentProofs` | proofs that snapshots do not change, that pieces fit and that the piece table implements `TextValues` |
| `TextBuffer` | history, modified flag, save and load, staged macros, Replace All |
| `TextBufferProofs` | proofs about the buffer |
| `LineIndex` | the line index of a document, its ledger of scans and the warmup that fills it |
| `LineIndexProofs` | its inductive invariant, and proofs of all its invariants |
| `SaveProtocol`, `SaveProtocolProofs` | writing a file with backup and temporary file, and the privileged broker |
| `RuntimeScheduler`, `RuntimeSchedulerProofs` | timers and closures of macros, the pump, sessions, nested dialogs |
| `SchedulerLocks` | the three mutexes around the scheduler |
| `Keymap`, `KeymapProofs` | profiles, batches, the trie and the resolver of key sequences |
| `MC...` | the instances for TLC |

### Coprocessor

An action is one critical section or one atomic store of one thread. The UI
thread's position is `ui`; each worker's is `wpc`. The only mutexes that are
visible are the ones held across several steps: a lane's mutex between the wait
predicate and the sleep (`presleep`), and `externalMutex` during
`unregisterExternalSource`. `home` says which container owns a `LaneState`, so
that "destroyed" is a state one can ask about. `BeginSubmit`, `Reap`, `Join`,
`StartOneShot`, `PushOneShot` are the steps of `submit`; `OpenSource`,
`PushExternal`, `MarkRunning` those of opening a source; `StopLane`,
`CancelLane`, `NotifyLane`, `RetireLane` those of retiring a lane;
`Shutdown` up to `ShutdownEnd` those of shutdown. A worker goes `Boot`,
`PopRequest`, `CallTask` or `SkipTask`, `PostChunk`, `TaskReturns`, `NoteFinal`,
`EnqueueFinal`, `ForgetTask`, `Exit`, `Die`, or sleeps through `PredicateFalse`
and `Sleep`. Tasks are abstracted to four kinds: `fold` (the pump prefers it),
`process` and `extern` (they stream chunks and block), and `bounded`. `chunks`,
`delivered` and `discarded` are history variables.

### TextDocument

A `shared_ptr` is a cell; two owners share a buffer when they hold the same
cell, and `unique()` is the absence of another owner. `Splice`, `SetText` and
`Commit` form a transaction, `Exchange` is a replacement of the whole text that
has no intermediate state, `Take`, `Restore` and `Drop` are the life of a
snapshot or a copy, `CopySplice` is a macro editing its copy on a worker.
`SplitAt`, `Erased`, `Inserted` and `MergedAt` are the piece operations as
functions on sequences. The refinement mapping gives each owner the text its
pieces spell; `TextValues` knows no pieces and no cells.

### TextBuffer

Texts are opaque here, which `TextDocument` justifies. `Applied` is
`applyStagedTransaction` when it changes something and `NotApplied` when it does
not; the actions of the user, of macros and of the dialog are built from them.
`Restored` keeps the version when the restored text is empty, as the code does.
`saved` is the content last loaded or written. A job keeps what
`macroCommitConflictMarker` compares at its commit: version, cursor with
selection and block, modified flag, and as one value, `scene`, the rest (file
name, insert mode, globals, last search, marks, windows); `LookAround` changes
what is not the text.
The Replace All dialog keeps the user out, not the timers: its event loop
handles `cmTimerExpired`, where autosave fires (`MRFileEditorEvents.cpp:235`), runs
scheduled macros and pumps results. So `Save`, `Edit`, `Undo`, `Redo`, `Load`
and the commits of jobs stay possible while it is open; only typing over a
block is the user's alone. `dialog.saved`, `dialog.travelled`, `loaded` and
`stale` are history. Macros that clear FILE_CHANGED are left out.

### LineIndex

The text is a sequence over an ordinary character, CR and LF, since what a line
end is depends on its neighbours. `doc` has the exact index (`starts`), the lazy
one (`checks`, `off`, `line`, `total`, `complete`) and the ledger (`packets`,
`reserved`, `nextId`). The index is a function of the document record:
`Inserted` and `Erased` shift or cut it off as the code does (an erasure longer
than `ProbeLimit` is not looked at), `Snapshot` compacts
an exact index, `Restored` brings an old one back, `Complete` finishes it.
`Reserve` and `Adopt` are the two halves of the ledger. `warm` is the editor's
`LineIndexWarmupState` and `flight` what the coprocessor has not delivered;
`Scheduled`, `CancelWarmup`, `ClearTask` and `Applied` are functions from
(document, warmup, flight) to the same, because every handler of the editor is a
sequence of them within one event. A scan is computed from the text at its
submission, which `TextDocument` and its proof of snapshot isolation justify.
`torn` is a history variable, see below.

### SaveProtocol

Names of the directory stand for inodes and every system call that changes the
directory is an action, so that the process, or the machine, can stop between
any two. `pc` is the editor's position in `writeDocumentToPath`, `step` the
broker's. The editor writes the temporary file (`WriteData`), then either makes
the backup and renames (`CopyBackup`, `RenameBackup`, `RenameTarget`) or asks
the broker, which compares its fingerprint (`Verify`), moves the target to the
backup and renames. A fingerprint is an inode and whether it is unchanged.
`launch` says how the editor was started and what else may happen. Autosave and
its timer are part of the editor's actions.

A rename is in the directory at once and on the disk later. `name` is the
directory, `disk` what of it was written back last, and `durable` the version
that was the last one then. The file system writes back when it likes
(`WriteBack`); the editor never asks it to, the broker does after its rename
(`SyncDirectory`) and ignores a failure. `PowerLoss` goes back to `disk`. Two
things are assumed of the file system: it writes back in the order of the calls,
as a journal does, and a file that was fsynced keeps its content. `BothDie` is
the death of the broker, which takes the editor along (PR_SET_PDEATHSIG), and
`EditorDies` that of the editor alone. Other programs may write and replace the
file at every moment, beside a direct save, during a copy, and between the two
renames of the broker, when there is no file to replace.

### RuntimeScheduler and SchedulerLocks

`registered`, `due` and `active` are what the scheduler keeps per consumer,
`frames` is the call stack of nested pumps: a macro started by a pump may open a
dialog, whose event loop handles the same timer event. `session` has the macro
executions: on the UI thread, yielded on DELAY, on a worker, ended and not yet
delivered. `TimerExpired` is the pump up to the unlock, `StartOnUi`,
`StartOnWorker` and `StartFails` are the three ways to start what it collected,
`PumpReturns` sets the timer. `nested` is a history variable. The scheduler's
data are guarded by one mutex and only the order of locks can go wrong there;
`SchedulerLocks` has that order, the mutexes and nothing else.

### Keymap

`trie` is the set of inserted paths and says whether the last rebuild was
complete; `Insert` adds one binding and finds collisions the way the code does,
`Build` stops at the first. Its loop, and that of the dialog's canonicalization,
are the recursive functions `Built` and `Kept` over the number of bindings
handled. `profiles` and `active` are the configured settings, `staging` the
batch of KEYMAP_ macros, `pending` the keys typed so far. Each KEYMAP_ procedure
is an action, inside and outside of a batch, and so are the two setters, the
flush and every key. The dialog's draft, which may have several profiles, is
applied in one action (`ApplyDraft`: `runMacroSourceText`, no batch). Saving it
(`saveKeymapDraftToConfiguredState`) runs the written file as a macro, which is
a batch: `BeginBatch`, `KeymapReset`, `KeymapProfile` and so on, `EndBatch`.
Startup mode is there at the beginning or never: its only guard is in
`applySettingsSourceViaVm`, which the program calls once, when it starts, right
after the settings were reset.

## Runs

| run | instance | what it shows |
|---|---|---|
| `CoprocessorStreams` | 2 lanes, one of them kept or the reader of a source, 2 tasks, 1 chunk, fold tasks beside a streaming reader; 0.9 million states | `TypeOK`, `CancelReachesEveryTask`, `StopReachesEveryTask`, `AnsweredOnce`, `FinalAfterChunks`, `TelemetryExact`, `FinishedSourceIsErased`, `NoDanglingLane` |
| `CoprocessorProgress` | 2 lanes, 2 tasks, 1 source, fair | `StoppingCompletes`, `BoundedTaskIsAnswered` |
| `CoprocessorChannelIds` | a window with buffer id 1 beside source 1 | violation of `CreditedToOwnReader` |
| `TextDocument` | 3 owners, 4 cells, texts up to 3 characters, transactions of up to 3 operations | `PiecesFit` (with the types), `SnapshotsFrozen`, `ImplementsValues` |
| `TextBuffer` | 2 texts, 1 cursor, 2 scenes, 1 job, 4 versions, stacks of 2 | `TypeOK`, `UnmodifiedMeansSaved`, `UndoRedoTravel`, `RevertRestores` |
| `TextBufferStale` | 3 texts, 2 cursors, 2 scenes, 1 job, 4 versions, stacks of 2 | violation of `StagedOnItsOwnText` |
| `TextBufferRedo` | 3 texts, 1 cursor, 1 scene, 4 versions | violation of `UndoneCanBeRedone` |
| `LineIndex` | an empty document and a file of 3 characters, spans of 1, 2 scans at a time, 2 documents, 2 versions, erasures of 1 looked at | `TypeOK`, `LineNumbersRight`, `ScansAreCurrent`, `ReservationsOwned`, `WarmupGoesOn` |
| `Save` | the editor alone and with the broker, with copied backups, the broker's or none, 5 inodes, 2 texts; the power goes, or others interfere | `TypeOK`, `NothingLost`, `SavedOrScheduled`, `NoLitter`, `MappedIsUntouched`, `BackupIsPrevious`, `ConcurrentChangeIsRejected` |
| `RuntimeScheduler` | a timer of a window and a closure, 2 nested pumps, 4 sessions, worker jobs | `TypeOK`, `BlockedByLive`, `TimerCovers`, `NoTimerWithoutWindow`, `NoOverlap` |
| `SchedulerLockOrder` | one worker, one dialog | violation of `RegistrationArrives` |
| `Keymap` | 2 profiles, 1 context, sequences of 1 to 2 keys, 2 bindings | `TypeOK`, `PendingIsPrefix`, `PrefixFree`, `DraftIsAccepted`, `ChangeIsProjected`, `BatchIsApplied` |

Bounds. Two lanes and two tasks are enough for a cancelled lane beside a busy
one, and a kept lane with two tasks for one running and one queued. One chunk is
enough for a chunk behind or before a result. The state constraint
`KeptOrSource` stops behaviours that have both a kept worker and a source, which
meet in the result queue only. The piece table needs a text of three characters
to split a piece in its middle, an add buffer of two to have two spans that may
or may not continue each other, three operations to erase across a border made
by two earlier ones, and three owners so that two share a cell a third no longer
has. `MaxDepth` 2 and `MaxVersion` 3 allow a replacement over an edit, a block
typed over, and undo and edit with a version that returns; an empty text and
another one are enough for a version that has two texts, and the stale run has a
third. `TextBuffer` is explored under the view `Read`, which leaves out the
history that only `TypeOK` and the stale and redo runs look at. Two scenes are
enough for one that differs from a job's. An erasure limit of 1 lets erasures be
on both sides of it. The line index needs three characters for a CR LF pair with
something before it, spans of one so that a pair is split between two scans, two
scans so that one can come before the one it continues, and an undo followed by
an edit for a version that returns; a checkpoint per line (`Stride` 1) makes
every edit meet checkpoints. Five inodes are a target, a backup, a temporary
file and two that are mapped by windows, held by the broker, on the disk only or
put in place by others; a launch has either the power or other programs among
its events, which keeps the run small and is no assumption of the theorems. Two
levels of pumps are the first where a macro runs below a pump, and two consumers
let one started macro remove or replace another that is due. Sequences of one
and two keys give a binding and one that it is a prefix of, and two bindings a
collision. Each bound is a constant and appears in a guard.

Deadlock is checked where the system must go on. After `shutdown` the
coprocessor stutters on purpose (`Terminated`). `LineIndex`
and `Save` stop when a bound is used up or, in `Save`, when the last version is
nowhere under the target's name and there is nothing to start from; they are
checked with CHECK_DEADLOCK FALSE.

Symmetry is used for characters, owners other than the document, texts other
than the empty one, inodes and versions of a file; no property of liveness is
checked under symmetry.

### Fairness

`FairSpec` assumes weak fairness of the UI thread's steps within a call
(`UiStep`), of the event loop's pump (`UiPump`) and of every worker's own steps.
A thread that can run is scheduled, and the idle handler of the application
calls the pump. The user's calls (`UiCall`), the input of a blocked reader
(`PostChunk`, `TaskInputEnds`) are not assumed to happen. A blocked reader does
poll its cancel flag, so it returns once the flag is set.

## Proofs

| theorem | module | statement |
|---|---|---|
| `TypeCorrect` | `CoprocessorProofs` | `TypeOK` always holds |
| `CancelReaches` | `CoprocessorProofs` | `CancelReachesEveryTask`: a queued or running task has a cancel flag |
| `StopReaches` | `CoprocessorProofs` | `StopReachesEveryTask`: a stopped lane has told all its tasks |
| `NoDangling` | `CoprocessorProofs` | `NoDanglingLane`: no destroyed lane is referred to |
| `EveryTaskAnsweredOnce` | `CoprocessorResultProofs` | `AnsweredOnce` |
| `ChunksBeforeResult` | `CoprocessorResultProofs` | `FinalAfterChunks` |
| `TelemetryCounts` | `CoprocessorResultProofs` | `TelemetryExact` |
| `FinishedSourcesGo` | `CoprocessorResultProofs` | `FinishedSourceIsErased` |
| `SnapshotIsolation` | `TextDocumentProofs` | `SnapshotsFrozen` |
| `PiecesAlwaysFit` | `TextDocumentProofs` | `PiecesFit` |
| `PieceTableImplementsValues` | `TextDocumentProofs` | `ImplementsValues`: `Spec` refines `TextValues` |
| `TypeCorrect` | `TextBufferProofs` | `TypeOK` of the buffer |
| `NothingLost` | `TextBufferProofs` | `UnmodifiedMeansSaved` |
| `RevertIsExact` | `TextBufferProofs` | `RevertRestores` |
| `HistoryKept` | `TextBufferProofs` | `UndoRedoTravel` |
| `TypeCorrect` | `SaveProtocolProofs` | `TypeOK` |
| `LastVersionSurvives` | `SaveProtocolProofs` | `NothingLost` |
| `DiskOrTimer` | `SaveProtocolProofs` | `SavedOrScheduled` |
| `NothingLeftBehind` | `SaveProtocolProofs` | `NoLitter` |
| `MappedStays` | `SaveProtocolProofs` | `MappedIsUntouched` |
| `BackupComesFirst` | `SaveProtocolProofs` | `BackupIsPrevious` |
| `ChangesAreNoticed` | `SaveProtocolProofs` | `ConcurrentChangeIsRejected` |
| `TypeCorrect` | `RuntimeSchedulerProofs` | `TypeOK` |
| `BlockedByOwnSession` | `RuntimeSchedulerProofs` | `BlockedByLive` |
| `TimerIsArmed` | `RuntimeSchedulerProofs` | `TimerCovers` |
| `TimersDieWithWindows` | `RuntimeSchedulerProofs` | `NoTimerWithoutWindow` |
| `SessionsDoNotOverlap` | `RuntimeSchedulerProofs` | `NoOverlap` |
| `TypeCorrect` | `KeymapProofs` | `TypeOK` |
| `KeysAreNotSwallowed` | `KeymapProofs` | `PendingIsPrefix` |
| `NoHiddenTerminal` | `KeymapProofs` | `PrefixFree` |
| `DialogCanCommit` | `KeymapProofs` | `DraftIsAccepted` |
| `ChangesAreProjected` | `KeymapProofs` | `ChangeIsProjected` |
| `BatchesAreWhole` | `KeymapProofs` | `BatchIsApplied` |
| `TypeCorrect` | `LineIndexProofs` | `TypeOK`: indexes and ledger lie inside the text |
| `LinesRight` | `LineIndexProofs` | `LineNumbersRight` |
| `ScansCurrent` | `LineIndexProofs` | `ScansAreCurrent` |
| `Owners` | `LineIndexProofs` | `ReservationsOwned` |
| `GoesOn` | `LineIndexProofs` | `WarmupGoesOn` |

Every theorem is about `Spec` and every value of the constants that the
module's ASSUME allows.

The coprocessor's argument (`CoprocessorInv`): the cancel flag of a task is found
because the ids handed out only grow, a task is in at most one place, and a
worker forgets a task only after its result has been queued. That needs to know
where every task is, so the invariant says that queued and held tasks have ids
already handed out, that they are distinct across lanes, that `current` names
the held task whenever the worker is between popping and finishing, and that
one-shot lanes hold at most one task. For dangling lanes the invariant relates
`home`, `wpc` and the UI thread's position: a lane the UI thread has in hand is
owned by a container, and only a lane whose thread has ended is destroyed.
It assumes only `BoundsAssumption`: the bounds are natural numbers.

Results are the fourth layer. `AnsweredOnce` is a sum of cardinalities; the
inductive form is `Ledger`, which says for each task which of the five places it
is in, and the sum follows from it by counting. It rests on the third layer: a
task is in one queue or one hand only. `FinalAfterChunks` needs to know that
whatever is in the queue belongs to a task whose final result is still to come
(`ResultOrder`), or a chunk could follow the delivery of its result.
`TelemetryExact` is inductive on its own, one cardinality at a time.
`FinishedSourceIsErased` needs `KnownSources`: ids of sources are not used
again, so a late result cannot meet a new source of the same number.

The piece table's argument: a step writes at most one add cell and one piece
cell, and each is either the writer's alone or not owned by anybody. The
invariant `Shape` says that owners hold cells; that an unused cell exists
follows from `DocumentAssumption` (more cells than owners) by counting.

That the pieces are right is shown on lists first, without a state. `Ends` is a
recursive function, so its equations come from the least length for which no such
function exists (`EndsSteps`), and so do those of `FlattenSeq` (`FlattenSteps`).
`Spells` says which character of which buffer is at each place of a text;
pieces that fit spell one text, the one that `TextOf` computes (`TextIsSpelled`,
`OneText`). Every edit of a list exchanges a part of it for other pieces, and if
those spell x, the list then spells x in the place of that part's text
(`ExchangedPieces`): splitting and merging exchange pieces for others with the
same text, erasing for none, inserting none for one. `SeamAt` marks a piece that
merely continues its neighbour: splitting makes a seam only at its offset, so
after erasing or inserting the only seams are at the place of the edit, and there
`mergeAdjacentPiecesAt` removes them (`MergedKeeps`). Together: the pieces
after a splice are in order and spell the spliced text (`SplicedKeeps`).
The inductive invariant of the machine, `DocInv`, says this of every living
owner. That owners other than the writer keep their texts is what the isolation
argument provides; so one writer's text changes as `TextValues` says, and
`DocStep` maps each action to the one of the same name.

The buffer's argument: `UnmodifiedMeansSaved` is not inductive, as undo restores
whatever flag its record carries. The strengthening says the same of every
record on both stacks: a record that is not modified holds the saved text.
Saving changes `saved`, and it is `markSaved` rewriting all records that keeps
this true. `RevertRestores` needs `Checkpoint`: as long as the document is the same
and nothing was undone or redone, either the version has moved on, and then it
only grows, or the text is the one the replacement made, its record lies at the
depth the dialog remembers, and that record has the text from before and its
flag, which a save has set. A macro's undo could bring version and depth back
with another text, hence `travelled`.

Saving: `NothingLost` is kept by the renames because what is renamed is whole.
So the invariant says which names are set at each position of editor and broker
(`Positions`, `TargetThere`, `TempThere`), that no two names, mappings and
descriptors that matter share an inode (`Apart`), and that the temporary file is
the document from the end of the writing on (`TempWhole`). `SavedOrScheduled`
needs `KeptIsDoc`: an unmodified document is what was last committed.
`NothingLost` says the same of the directory on the disk, which a power loss
brings back; `disk` and `durable` change together, so that what was written back
was whole then, and inodes that only the disk refers to are in `Apart`. What a
failed rename of the broker moves back must be whole too, although others may
have put a file there meanwhile (`MovedWhole`). `BackupComesFirst` adds
`BackupReady`: from the end of the copy to the commit the backup has the version
last saved, or others have changed the file during this save; a backup that the
broker made by moving the target has it by `NothingLost`. `ChangesAreNoticed`
adds `ChangeShows`: after a change by others the fingerprint differs, until the
file is opened for a copy.

The scheduler: `TimerCovers` is not inductive, because within a pump the timer is
not set. `TimerSet` says that a worker's registration is still to be delivered,
or the timer covers every consumer, or a pump is under way whose `wake`, which it
will set the timer to, does. `BlockedByLive` needs the frames: a pump that runs a
macro on the UI thread has a session that is in state "ui" and no other pump's,
and what it may still record is registered. `NoOverlap` needs `OnePump`: without
nesting there is one pump, and what it collected had no session. The earliest
time of a set is its least element, which `WFMin` provides.

The keymap: bindings are inserted one after the other, so what a trie holds after
n bindings is shown by taking the least n for which it does not hold
(`LeastNumber`) - the library's induction principle takes an operator the provers
cannot instantiate, a least counterexample is a set and can be stated. `Sound`
says that nodes are closed under prefixes and that no terminal is above another,
and holds also after a collision; `Exact` says that, as long as nothing failed,
the terminals are the bindings handled so far and every node leads to one. From
the two `Decide` equals the reference (`BuildDecides`). `Clear` is what
canonicalization establishes, no binding above or below another, and such
bindings are built without a collision (`ClearIsBuilt`). The inductive invariant
of the machine is then small: types, a sound trie and `PendingIsPrefix`.

The line index: lines are counted by cardinalities of sets of line ends, so the
first half of `LineIndexProofs` is about texts. `Within` of adjoining spans adds
up; cutting a text or putting one in changes the line ends before the edit not
at all, moves those behind it, and makes or unmakes one only where a CR and an
LF meet, which is what `torn` remembers. The loops of `Reserve` and `Joined` are
functions over rounds; what holds after each round is shown by taking the first
one after which it does not, as for the trie. With these the functions that
rebuild an index (`Inserted`, `Erased`, `Restored`, `Extended`, `Complete`) keep
it right.

`Inv` has a part for each thing that none of the five invariants says. `Right`
says of each checkpoint that it is at a line end with the number of that line; the
invariant only speaks of the answers. The same must hold of all documents on the
stacks of undo and redo (`Kept`), as they come back with their index, and a torn
one stays torn. `Ledger` says that pending packets are scans of the present text,
and that packets and reservations overlap neither themselves nor each other;
`Behind` that none reaches into the indexed prefix, so that joining them counts
nothing twice. `Linked` ties a task to its scan and its reservation. Reservation ids
restart after an edit and task ids come from elsewhere, so neither names the
other: the scan of a task has its id, is not cancelled, and is of the span with
the task's reservation id in the present text. `Going` says that a warmup with work
left has a task. `Stacked` is why a scan of another text is never adopted: along
the undos, the document and the redos versions grow, strictly between texts that
are not empty. An undo or redo to a text therefore brings another version, which
cancels the tasks, or starts from an empty text, which has none; one to an empty
text may keep the version, but its lines are known at once, which cancels the
tasks too. `Inv` was an invariant of the instance of TLC before it was
proved for every length, stride and number of edits.

Model-checked only: liveness (`StoppingCompletes`, `BoundedTaskIsAnswered`), as the
prover has no fairness rules, and the order of the three mutexes of
`SchedulerLocks`, whose run ends in a finding. Every invariant and every action
property of a passing run is also a theorem.

## Findings

1. `CoprocessorChannelIds`: chunks are attributed by a number shared by window
   buffer ids and source ids, so the output of a command is booked on an
   unrelated source.
2. `TextBufferStale`: edit an empty document, start a staged macro, save, undo.
   Undo to the empty text keeps the version, and the record's modified flag was
   set by the save, so version, cursor, flag, file name and all else that the
   conflict check compares are as at the start, and the macro is committed on a
   text it never saw. An undo to another text brings its old version back, and a
   further edit the macro's. Commits after a load are not counted.
3. `TextBufferRedo`: a command that changes nothing clears the redo stack.
4. `SchedulerLockOrder`: the pump takes the scheduler's mutex and then the VM's
   execution mutex, a macro on a worker that registers a closure takes them in
   the other order.

`PROJECT.json` quotes the sentence of the documentation each of them contradicts.

### What the properties leave aside

Some properties carry a condition, because without it the code does not keep
them. Each was met while modelling and is named here.

- `LineNumbersRight` holds until an edit joins or splits a CR LF pair (`torn`).
  Inserting inside a pair shifts the lazy index (`MRTextDocument.cpp:763`),
  inserting an LF behind a CR, or erasing what is between the two, keeps a
  checkpoint between them (`invalidateLazyLineIndexFrom` keeps one at the edit's
  offset); the exact index looks at the inserted text only.
- `WarmupGoesOn` asks for a scan only if something is left to scan: an erasure
  can leave an index that covers the text and is not marked complete.
- `NoOverlap` holds until a dialog of a scheduled macro pumps the scheduler
  itself: the active session of the consumer is recorded only after its macro
  has returned (`MRRuntimeScheduler.cpp:400`). A consumer removed after it was
  collected is started all the same, without a record.
- `pumpForegroundMacroDelays` holds `pendingForegroundMacrosMutex` while the
  resumed macro runs (`MRMacroRunner.cpp:549`); a dialog in that macro takes it
  again on the same thread.
- `RevertRestores` excepts macros that undo or redo while the Replace All dialog is
  open: as many edits as undos bring version and depth back with another text,
  and `validateSessionFileReplaceCheckpoint` compares no more than these. If
  autosave has written the replaced text, `markSaved` has set the record's flag
  and the reverted document is modified, which is right.
- `NothingLost` does not say that a save survives a power loss. The editor never
  fsyncs the directory (`MRFileEditorSave.cpp:294-303`), and the broker ignores
  that it could not (`MRPrivilegedFileBroker.cpp:475`); what survives is a
  whole version saved before.
- `BackupIsPrevious` excepts what others do during a save. The editor copies the
  target and renames later, and nothing compares the two; the broker compares
  before it moves the target, and a file put in its place before the second
  rename is overwritten and is in no backup (`MRPrivilegedFileBroker.cpp:461-467`).
- A profile whose activation fails leaves the bindings inserted before the
  collision in the trie (`MRKeymapTrie.cpp:19`); no property speaks of it beyond
  `PrefixFree`. A batch that is refused stays staged and is flushed with the next
  one (`MRVMSettings.cpp:41`); `BatchIsApplied` is about what was staged when a
  batch is accepted, leftovers included.
- KEYMAP_RESET in a batch does not reset what the batch has staged
  (`MRVMConfigurationProcedures.cpp:127`); no property speaks of it.
- `NoLitter` excludes a broker whose answer to BeginSave could not be sent:
  it returns without `clearSaveTransaction` (`MRPrivilegedFileBroker.cpp:552`).
- A privileged save is compared with the fingerprint taken last; OpenReadOnly
  takes a new one (`:520`), also for the backup copy that the editor makes
  itself, and a failed rename that was undone changes the ctime without a new
  one (`:469`). `ConcurrentChangeIsRejected` is about backups made by the broker
  or none (`plan # "copy"`).

## Plan

Done: the coprocessor, the piece table with its abstract specification, the
buffer with jobs and Replace All, the line index and its warmup, saving, the
scheduler, the keymap; theorems about all of them. Next:

1. Adoption of fold, syntax and mini-map results, the GDB session, the
   multi-file session of Replace All, deferred playback.
2. `MyersDiff` as a function checked against the shortest edit script.

## Not modelled

Drawing, dialogs, layout, settings tables and the vendored Turbo Vision have no
protocol of their own. The macro compiler and its virtual machine are a large
sequential interpreter; here a macro is an arbitrary edit. Statistics of the
telemetry beyond its counters, process groups and signals of external commands
are left out. Memory is modelled as far as ownership goes; the races of
`shared_ptr::unique()` with a concurrent release are covered in one direction,
as `Drop` may happen between any two steps. In `LineIndex` a document belongs to
one editor: two editors that share one, or go on with copies of the same id
(`shareContentStateFrom`, `detachContentStateCopy`), are not covered. Estimates
of line numbers are left out. `SaveProtocol` leaves out permissions, symbolic
links, Save As and the normalisation of line ends.
