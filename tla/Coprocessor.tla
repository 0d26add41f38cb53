---------------------------- MODULE Coprocessor ----------------------------
(***************************************************************************)
(* The coprocessor of mr: the threads that run background work for the     *)
(* editor, and the queue through which their results reach the UI thread.  *)
(*                                                                         *)
(* Every public operation except post() is called from one thread, the UI  *)
(* thread; it is modelled by the program counter ui.  Every LaneState owns *)
(* one worker thread, modelled by wpc.  A step is what one thread does     *)
(* between two points at which another thread can interfere: one critical  *)
(* section of a mutex, or one store to an atomic.  The mutexes themselves  *)
(* are not variables, with two exceptions that matter: a worker at         *)
(* "presleep" holds its lane's mutex (it has evaluated the wait predicate  *)
(* and is not yet asleep), and the UI thread holds externalMutex while it  *)
(* unregisters a source.                                                   *)
(***************************************************************************)
EXTENDS Naturals, Sequences, FiniteSets

CONSTANTS
    MaxWorkers,   \* bound on nextWorkerOrdinal
    MaxTasks,     \* bound on nextTaskId
    MaxKept,      \* bound on the workers registerWorker() creates
    MaxSources,   \* bound on nextExternalSourceId
    MaxChunks,    \* bound on the chunks one task streams
    OneShotKinds, \* the kinds of task submit() is called with
    ChannelIds    \* the channel ids (window buffer ids) of one-shot tasks

ASSUME BoundsAssumption ==
    /\ MaxWorkers \in Nat
    /\ MaxTasks \in Nat
    /\ MaxKept \in Nat
    /\ MaxSources \in Nat
    /\ MaxChunks \in Nat
    /\ OneShotKinds \subseteq {"fold", "bounded", "process"} /\ OneShotKinds # {}
    /\ ChannelIds \subseteq Nat /\ ChannelIds # {}

Lane   == 1..MaxWorkers
Task   == 1..MaxTasks
Source == 1..MaxSources

None == 0   \* no lane, no task, no source: the code's nullptr and id 0

(***************************************************************************)
(* What a task is, as far as control depends on it: "fold" is the kind     *)
(* pumpFor() prefers, "process" (an external command) and "extern" (the    *)
(* reader of an external source) stream chunks and block until their input *)
(* ends or their cancel flag is set, "bounded" is every other package.     *)
(***************************************************************************)
Kind == {"fold", "bounded", "process", "extern"}

(***************************************************************************)
(* Which container owns a LaneState: the vectors workers and               *)
(* retiringWorkers, an external source, a local vector of lanes to be      *)
(* joined, or nobody any more (destroyed).                                 *)
(***************************************************************************)
Home == {"none", "workers", "retiring", "external", "joining", "gone"}

Mode == {"oneshot", "kept", "extern"}

Life == {"Created", "Assigned", "Idle", "Queued", "Running", "ResultReady",
         "Stopping", "Finished"}

WorkerPc == {"none", "boot", "wait", "presleep", "asleep", "start", "run", "chunk",
             "post", "enqueue", "forget", "exit", "retired", "dead"}

UiPc == {"idle", "pump", "reap", "join", "start", "push", "mark",
         "stop", "cancel", "notify", "retire",
         "flagall", "sdloop", "clear", "sdjoin",
         "drain", "sdend", "down"}

VARIABLES
    home, mode, stop, queue, current, life,  \* per LaneState
    wpc, held,                               \* per worker thread: where it is, its request
    nextWorkerOrdinal, nextTaskId, nextExternalSourceId,
    kind, channel,                           \* per task: TaskInfo.kind, documentId
    cancelFlag, taskCancelFlags,             \* the flags, and the ids still in the map
    results,                                 \* the result queue
    shuttingDown,
    live, srcLane, srcTask, srcRunning,      \* externalSources
    credited,                                \* tasks whose chunks a source has counted
    tQueued, tActive, tResult,               \* telemetry counters
    ui, uiRet, uiNext, uiLane, uiTask, uiSrc, stopSet, drain,
    chunks, delivered, discarded             \* history: chunks posted, finals handled,
                                             \* tasks dropped by cancelPending

laneVars == <<home, mode, stop, queue, current, life, wpc, held>>
idVars   == <<nextWorkerOrdinal, nextTaskId, nextExternalSourceId>>
taskVars == <<kind, channel>>
flagVars == <<cancelFlag, taskCancelFlags>>
srcVars  == <<live, srcLane, srcTask, srcRunning, credited>>
telVars  == <<tQueued, tActive, tResult>>
uiVars   == <<ui, uiRet, uiNext, uiLane, uiTask, uiSrc, stopSet, drain>>
histVars == <<chunks, delivered, discarded>>
vars == <<laneVars, idVars, taskVars, flagVars, results, shuttingDown,
          srcVars, telVars, uiVars, histVars>>

Result == [task : Task, final : BOOLEAN]

TypeOK ==
    /\ home \in [Lane -> Home]
    /\ mode \in [Lane -> Mode]
    /\ stop \in [Lane -> BOOLEAN]
    /\ queue \in [Lane -> Seq(Task)]
    /\ current \in [Lane -> Task \cup {None}]
    /\ life \in [Lane -> Life]
    /\ wpc \in [Lane -> WorkerPc]
    /\ held \in [Lane -> Task \cup {None}]
    /\ nextWorkerOrdinal \in 1..(MaxWorkers + 1)
    /\ nextTaskId \in 1..(MaxTasks + 1)
    /\ nextExternalSourceId \in 1..(MaxSources + 1)
    /\ kind \in [Task -> Kind]
    /\ channel \in [Task -> Nat]
    /\ cancelFlag \in [Task -> BOOLEAN]
    /\ taskCancelFlags \in SUBSET Task
    /\ results \in Seq(Result)
    /\ shuttingDown \in BOOLEAN
    /\ live \in SUBSET Source
    /\ srcLane \in [Source -> Lane \cup {None}]
    /\ srcTask \in [Source -> Task \cup {None}]
    /\ srcRunning \in [Source -> BOOLEAN]
    /\ credited \in [Source -> SUBSET Task]
    /\ tQueued \in Nat /\ tActive \in Nat /\ tResult \in Nat
    /\ ui \in UiPc
    /\ uiRet \in {"idle", "pump"}
    /\ uiNext \in {"idle", "start"}
    /\ uiLane \in Lane \cup {None}
    /\ uiTask \in Task \cup {None}
    /\ uiSrc \in Source \cup {None}
    /\ stopSet \in SUBSET Lane
    /\ drain \in BOOLEAN
    /\ chunks \in [Task -> 0..MaxChunks]
    /\ delivered \in SUBSET Task
    /\ discarded \in SUBSET Task
-----------------------------------------------------------------------------
(***************************************************************************)
(* Helpers.                                                                *)
(***************************************************************************)

\* notify on the condition variables of the lanes in S
Woken(S) == [l \in Lane |-> IF l \in S /\ wpc[l] = "asleep" THEN "wait" ELSE wpc[l]]

LaneUnlocked(l) == wpc[l] # "presleep"

ExternalMutexFree == ~(ui \in {"cancel", "notify", "retire"} /\ uiSrc # None)

Elements(s) == {s[i] : i \in 1..Len(s)}

\* Mutant: one decrement for several tasks or results.
DecOnce(count, n) == IF count >= 1 THEN count - 1 ELSE 0

\* n times the counters' decrement: if (count != 0) --count
Dec(count, n) == IF count >= n THEN count - n ELSE 0

Blocking(t) == kind[t] \in {"process", "extern"}

Owned == {l \in Lane : home[l] \in {"workers", "retiring", "external"}}

\* the lanes cancelTask() notifies
Notifiable == {l \in Lane : home[l] \in {"workers", "external"}}

\* currentTask after task t was queued
CurrentWith(l, t) == IF life[l] = "Running" THEN current[l] ELSE t

\* Mutant: requestLaneStop() does not tell the running task.
OnlyQueued(l) == Elements(queue[l])

\* the tasks whose flags requestLaneStop() sets
Doomed(l) == Elements(queue[l]) \cup {current[l]}

\* popNextRequestLocked(): what is left of the queue
Popped(l) == Tail(queue[l])

\* Mutant: the predicate looks at the stop flag only.
StopOnly(l) == stop[l]

\* the predicate of cv.wait()
WaitPredicate(l) == stop[l] \/ queue[l] # <<>>

\* Mutant: the newest result instead of the first of the priority kind.
NewestIndex == Len(results)

\* the result pumpFor(budget, FoldWarmup) takes first
PriorityIndex ==
    LET folds == {i \in 1..Len(results) : kind[results[i].task] = "fold"}
    IN  IF folds = {} THEN 1 ELSE CHOOSE i \in folds : \A j \in folds : i <= j

\* Mutant: pop_front() although another result was selected.
WithoutFront(s, i) == Tail(s)

\* results.erase(selected)
WithoutIndex(s, i) == SubSeq(s, 1, i - 1) \o SubSeq(s, i + 1, Len(s))

\* Mutant: the handler leaves a finished source registered.
NeverUnregistered(r) == FALSE

\* handleCoprocessorResult() unregisters the source whose reader has finished
EndsSource(r) == r.final /\ kind[r.task] = "extern" /\ channel[r.task] \in live

\* Mutant: every flag is dropped with the first finished task.
ForgetAll(t) == {}

\* forgetTask()
Forgotten(t) == taskCancelFlags \ {t}

\* Mutant: a result without a task id is not given its request's.
Unstamped(l) == [task |-> None, final |-> TRUE]

\* the result of the task in the hands of l's worker
FinalResult(l) == [task |-> held[l], final |-> TRUE]

Init ==
    /\ home = [l \in Lane |-> "none"]
    /\ mode = [l \in Lane |-> "oneshot"]
    /\ stop = [l \in Lane |-> FALSE]
    /\ queue = [l \in Lane |-> <<>>]
    /\ current = [l \in Lane |-> None]
    /\ life = [l \in Lane |-> "Created"]
    /\ wpc = [l \in Lane |-> "none"]
    /\ held = [l \in Lane |-> None]
    /\ nextWorkerOrdinal = 1 /\ nextTaskId = 1 /\ nextExternalSourceId = 1
    /\ kind = [t \in Task |-> "bounded"]
    /\ channel = [t \in Task |-> None]
    /\ cancelFlag = [t \in Task |-> FALSE]
    /\ taskCancelFlags = {}
    /\ results = <<>>
    /\ shuttingDown = FALSE
    /\ live = {}
    /\ srcLane = [s \in Source |-> None]
    /\ srcTask = [s \in Source |-> None]
    /\ srcRunning = [s \in Source |-> FALSE]
    /\ credited = [s \in Source |-> {}]
    /\ tQueued = 0 /\ tActive = 0 /\ tResult = 0
    /\ ui = "idle" /\ uiRet = "idle" /\ uiNext = "idle"
    /\ uiLane = None /\ uiTask = None /\ uiSrc = None
    /\ stopSet = {} /\ drain = FALSE
    /\ chunks = [t \in Task |-> 0]
    /\ delivered = {} /\ discarded = {}
-----------------------------------------------------------------------------
(***************************************************************************)
(* The UI thread: submitting work.                                         *)
(***************************************************************************)

\* startLane() for a new LaneState of mode m owned by h
StartLane(m, h) ==
    LET l == nextWorkerOrdinal
    IN  /\ l \in Lane
        /\ home' = [home EXCEPT ![l] = h]
        /\ mode' = [mode EXCEPT ![l] = m]
        /\ stop' = [stop EXCEPT ![l] = FALSE]
        /\ life' = [life EXCEPT ![l] = "Created"]
        /\ wpc' = [wpc EXCEPT ![l] = "boot"]
        /\ nextWorkerOrdinal' = l + 1
        /\ UNCHANGED <<queue, current, held>>

\* submit(), submitPacket(): submitOneShot() starts by reaping.  A result
\* handler may submit too, between two results of a pump.
BeginSubmit ==
    /\ ui \in {"idle", "pump"}
    /\ nextWorkerOrdinal \in Lane
    /\ nextTaskId \in Task
    /\ ui' = "reap"
    /\ uiRet' = ui
    /\ uiNext' = "start"
    /\ UNCHANGED <<laneVars, idVars, taskVars, flagVars, results, shuttingDown,
                   srcVars, telVars, uiLane, uiTask, uiSrc, stopSet, drain, histVars>>

StartOneShot ==
    /\ ui = "start"
    /\ StartLane("oneshot", "workers")
    /\ uiLane' = nextWorkerOrdinal
    /\ ui' = "push"
    /\ UNCHANGED <<nextTaskId, nextExternalSourceId, taskVars, flagVars, results,
                   shuttingDown, srcVars, telVars, uiRet, uiNext, uiTask, uiSrc,
                   stopSet, drain, histVars>>

\* submitToLaneState(): the flag is registered, the request pushed under the
\* lane's mutex, the worker notified.
Push(k, c) ==
    LET t == nextTaskId
        l == uiLane
    IN  /\ ui = "push"
        /\ t \in Task /\ l \in Lane
        /\ LaneUnlocked(l)
        /\ k \in Kind
        /\ nextTaskId' = t + 1
        /\ kind' = [kind EXCEPT ![t] = k]
        /\ channel' = [channel EXCEPT ![t] = c]
        /\ cancelFlag' = [cancelFlag EXCEPT ![t] = FALSE]
        /\ taskCancelFlags' = taskCancelFlags \cup {t}
        /\ queue' = [queue EXCEPT ![l] = Append(@, t)]
        /\ life' = [life EXCEPT ![l] = IF @ = "Running" THEN @ ELSE "Queued"]
        /\ current' = [current EXCEPT ![l] = CurrentWith(l, t)]
        /\ tQueued' = tQueued + 1
        /\ wpc' = Woken({l})
        /\ uiLane' = None
        /\ IF mode[l] = "extern"
           THEN ui' = "mark" /\ uiTask' = t /\ UNCHANGED uiRet
           ELSE ui' = uiRet /\ uiRet' = "idle" /\ UNCHANGED uiTask
        /\ UNCHANGED <<home, mode, stop, held, nextWorkerOrdinal, nextExternalSourceId,
                       results, shuttingDown, srcVars, tActive, tResult,
                       uiNext, uiSrc, stopSet, drain, histVars>>

PushOneShot ==
    /\ uiLane \in Lane /\ mode[uiLane] = "oneshot"
    /\ \E k \in OneShotKinds : \E c \in IF k = "process" THEN ChannelIds ELSE {None} :
          Push(k, c)

PushKept == uiLane \in Lane /\ mode[uiLane] = "kept" /\ Push("bounded", None)

PushExternal == uiLane \in Lane /\ mode[uiLane] = "extern" /\ Push("extern", uiSrc)

RegisterWorker ==
    /\ ui = "idle"
    /\ Cardinality({l \in Lane : mode[l] = "kept"}) < MaxKept
    /\ StartLane("kept", "workers")
    /\ UNCHANGED <<nextTaskId, nextExternalSourceId, taskVars, flagVars, results,
                   shuttingDown, srcVars, telVars, uiVars, histVars>>

SubmitWorker(l) ==
    /\ ui = "idle"
    /\ home[l] = "workers" /\ mode[l] = "kept"
    /\ nextTaskId \in Task
    /\ uiLane' = l
    /\ uiRet' = ui
    /\ ui' = "push"
    /\ UNCHANGED <<laneVars, idVars, taskVars, flagVars, results, shuttingDown,
                   srcVars, telVars, uiNext, uiTask, uiSrc, stopSet, drain, histVars>>

\* registerExternalSource() followed by the first section of submitExternal(),
\* as startLogViewerWindow() and MRGdbSession::start() call them.
OpenSource ==
    LET s == nextExternalSourceId
    IN  /\ ui = "idle"
        /\ s \in Source
        /\ nextTaskId \in Task
        /\ StartLane("extern", "external")
        /\ nextExternalSourceId' = s + 1
        /\ live' = live \cup {s}
        /\ srcLane' = [srcLane EXCEPT ![s] = nextWorkerOrdinal]
        /\ srcTask' = [srcTask EXCEPT ![s] = None]
        /\ srcRunning' = [srcRunning EXCEPT ![s] = FALSE]
        /\ uiLane' = nextWorkerOrdinal
        /\ uiSrc' = s
        /\ uiRet' = ui
        /\ ui' = "push"
        /\ UNCHANGED <<nextTaskId, taskVars, flagVars, results, shuttingDown, credited,
                       telVars, uiNext, uiTask, stopSet, drain, histVars>>

\* the last section of submitExternal(); the worker may already have finished
MarkRunning ==
    /\ ui = "mark"
    /\ uiSrc \in Source
    /\ srcTask' = [srcTask EXCEPT ![uiSrc] = IF uiSrc \in live THEN uiTask ELSE @]
    /\ srcRunning' = [srcRunning EXCEPT ![uiSrc] = IF uiSrc \in live THEN TRUE ELSE @]
    /\ ui' = uiRet
    /\ uiSrc' = None
    /\ uiTask' = None
    /\ UNCHANGED <<laneVars, idVars, taskVars, flagVars, results, shuttingDown, live,
                   srcLane, credited, telVars, uiRet, uiNext, uiLane, stopSet,
                   drain, histVars>>
-----------------------------------------------------------------------------
(***************************************************************************)
(* The UI thread: cancelling and stopping.                                 *)
(***************************************************************************)

\* cancelTask() once the id was found in the map
SetFlagAndNotify(t) ==
    /\ cancelFlag' = [cancelFlag EXCEPT ![t] = TRUE]
    /\ wpc' = Woken(Notifiable)

CancelTask(t) ==
    /\ ui \in {"idle", "pump"}
    /\ t \in taskCancelFlags
    /\ SetFlagAndNotify(t)
    /\ UNCHANGED <<home, mode, stop, queue, current, life, held, idVars, taskVars,
                   taskCancelFlags, results, shuttingDown, srcVars, telVars, uiVars,
                   histVars>>

\* unregisterExternalSource() up to the call of requestLaneStop(); it begins
\* with cancelExternalSource()
EnterUnregister(s, ret) ==
    /\ IF srcTask[s] \in taskCancelFlags
       THEN SetFlagAndNotify(srcTask[s])
       ELSE UNCHANGED <<cancelFlag, wpc>>
    /\ uiLane' = srcLane[s]
    /\ uiSrc' = s
    /\ uiRet' = ret
    /\ ui' = "stop"

\* MRGdbSession::stop()
CloseSource(s) ==
    /\ ui = "idle"
    /\ s \in live
    /\ EnterUnregister(s, "idle")
    /\ UNCHANGED <<home, mode, stop, queue, current, life, held, idVars, taskVars,
                   taskCancelFlags, results, shuttingDown, srcVars, telVars, uiNext,
                   uiTask, stopSet, drain, histVars>>

UnregisterWorker(l) ==
    /\ ui = "idle"
    /\ home[l] = "workers" /\ mode[l] = "kept"
    /\ uiLane' = l
    /\ uiRet' = ui
    /\ ui' = "stop"
    /\ UNCHANGED <<laneVars, idVars, taskVars, flagVars, results, shuttingDown,
                   srcVars, telVars, uiNext, uiTask, uiSrc, stopSet, drain, histVars>>

\* requestLaneStop(), first store: without the lane's mutex
StopLane ==
    /\ ui = "stop"
    /\ stop' = [stop EXCEPT ![uiLane] = TRUE]
    /\ ui' = "cancel"
    /\ UNCHANGED <<home, mode, queue, current, life, wpc, held, idVars, taskVars, flagVars,
                   results, shuttingDown, srcVars, telVars, uiRet, uiNext, uiLane, uiTask,
                   uiSrc, stopSet, drain, histVars>>

\* requestLaneStop(): flags of the current and the queued tasks, under the
\* lane's mutex; then markLaneStopping()
CancelLane ==
    /\ ui = "cancel"
    /\ LaneUnlocked(uiLane)
    /\ cancelFlag' = [t \in Task |-> t \in Doomed(uiLane) \/ cancelFlag[t]]
    /\ life' = [life EXCEPT ![uiLane] = IF @ = "Finished" THEN @ ELSE "Stopping"]
    /\ ui' = "notify"
    /\ UNCHANGED <<home, mode, stop, queue, current, wpc, held, idVars, taskVars,
                   taskCancelFlags, results, shuttingDown, srcVars, telVars, uiRet,
                   uiNext, uiLane, uiTask, uiSrc, stopSet, drain, histVars>>

\* requestLaneStop(), cv.notify_all()
NotifyLane ==
    /\ ui = "notify"
    /\ wpc' = Woken({uiLane})
    /\ ui' = IF shuttingDown THEN "clear" ELSE "retire"
    /\ UNCHANGED <<home, mode, stop, queue, current, life, held, idVars, taskVars, flagVars,
                   results, shuttingDown, srcVars, telVars, uiRet, uiNext, uiLane, uiTask,
                   uiSrc, stopSet, drain, histVars>>

\* the stopped lane moves to retiringWorkers, its source (if any) is erased
RetireLane ==
    /\ ui = "retire"
    /\ home' = [home EXCEPT ![uiLane] = "retiring"]
    /\ live' = live \ {uiSrc}
    /\ uiSrc' = None
    /\ uiLane' = None
    /\ ui' = uiRet
    /\ uiRet' = "idle"
    /\ UNCHANGED <<mode, stop, queue, current, life, wpc, held, idVars, taskVars, flagVars,
                   results, shuttingDown, srcLane, srcTask, srcRunning, credited, telVars,
                   uiNext, uiTask, stopSet, drain, histVars>>
-----------------------------------------------------------------------------
(***************************************************************************)
(* The UI thread: results.                                                 *)
(***************************************************************************)

\* One turn of the loop of pump() and pumpFor(): a result is taken, the
\* handler runs, its disposition is recorded.
PumpOne(i) ==
    LET r == results[i]
    IN  /\ ui \in {"idle", "pump"}
        /\ results # <<>>
        /\ i \in {1} \cup (IF ui = "idle" THEN {PriorityIndex} ELSE {})
        /\ results' = WithoutIndex(results, i)
        /\ tResult' = Dec(tResult, 1)
        /\ delivered' = IF r.final THEN delivered \cup {r.task} ELSE delivered
        /\ IF EndsSource(r)
           THEN EnterUnregister(channel[r.task], "pump")
           ELSE /\ ui' = "pump"
                /\ UNCHANGED <<cancelFlag, wpc, uiLane, uiSrc, uiRet>>
        /\ UNCHANGED <<home, mode, stop, queue, current, life, held, idVars, taskVars,
                       taskCancelFlags, shuttingDown, srcVars, tQueued, tActive, uiNext,
                       uiTask, stopSet, drain, chunks, discarded>>

\* the end of pump(): budget used or queue empty, then reapRetiredWorkers()
PumpEnd ==
    /\ ui = "pump" \/ (ui = "idle" /\ results = <<>>)
    /\ ui' = "reap"
    /\ uiNext' = "idle"
    /\ UNCHANGED <<laneVars, idVars, taskVars, flagVars, results, shuttingDown,
                   srcVars, telVars, uiRet, uiLane, uiTask, uiSrc, stopSet, drain, histVars>>

\* reapRetiredWorkers(): take the lanes whose thread has set retired ...
Reap ==
    /\ ui = "reap"
    /\ home' = [l \in Lane |->
                  IF home[l] \in {"workers", "retiring"} /\ wpc[l] \in {"retired", "dead"}
                  THEN "joining" ELSE home[l]]
    /\ ui' = "join"
    /\ UNCHANGED <<mode, stop, queue, current, life, wpc, held, idVars, taskVars, flagVars,
                   results, shuttingDown, srcVars, telVars, uiRet, uiNext, uiLane, uiTask,
                   uiSrc, stopSet, drain, histVars>>

\* Mutant: the lanes are destroyed without joining their threads.
NotJoined == TRUE

\* worker.join() has returned for all of them
Joined == \A l \in Lane : home[l] = "joining" => wpc[l] = "dead"

DestroyJoined == home' = [l \in Lane |-> IF home[l] = "joining" THEN "gone" ELSE home[l]]

\* ... join them and destroy them
Join ==
    /\ ui = "join"
    /\ Joined
    /\ DestroyJoined
    /\ ui' = uiNext
    /\ uiNext' = "idle"
    /\ UNCHANGED <<mode, stop, queue, current, life, wpc, held, idVars, taskVars, flagVars,
                   results, shuttingDown, srcVars, telVars, uiRet, uiLane, uiTask,
                   uiSrc, stopSet, drain, histVars>>
-----------------------------------------------------------------------------
(***************************************************************************)
(* The UI thread: shutdown(drainResults).                                  *)
(***************************************************************************)

Shutdown ==
    /\ ui = "idle"
    /\ shuttingDown' = TRUE
    /\ drain' \in BOOLEAN
    /\ ui' = "flagall"
    /\ UNCHANGED <<laneVars, idVars, taskVars, flagVars, results, srcVars, telVars,
                   uiRet, uiNext, uiLane, uiTask, uiSrc, stopSet, histVars>>

\* cancelPending(): every registered flag, then the list of lanes to stop
CancelPendingFlags ==
    /\ ui = "flagall"
    /\ cancelFlag' = [t \in Task |-> t \in taskCancelFlags \/ cancelFlag[t]]
    /\ stopSet' = Owned
    /\ ui' = "sdloop"
    /\ UNCHANGED <<laneVars, idVars, taskVars, taskCancelFlags, results, shuttingDown,
                   srcVars, telVars, uiRet, uiNext, uiLane, uiTask, uiSrc, drain, histVars>>

CancelPendingNext(l) ==
    /\ ui = "sdloop"
    /\ l \in stopSet
    /\ stopSet' = stopSet \ {l}
    /\ uiLane' = l
    /\ ui' = "stop"
    /\ UNCHANGED <<laneVars, idVars, taskVars, flagVars, results, shuttingDown, srcVars,
                   telVars, uiRet, uiNext, uiTask, uiSrc, drain, histVars>>

\* cancelPending() after requestLaneStop(): the lane's queue is discarded
ClearLane ==
    LET cleared == Elements(queue[uiLane])
    IN  /\ ui = "clear"
        /\ LaneUnlocked(uiLane)
        /\ queue' = [queue EXCEPT ![uiLane] = <<>>]
        /\ discarded' = discarded \cup cleared
        /\ taskCancelFlags' = taskCancelFlags \ cleared
        /\ tQueued' = Dec(tQueued, Len(queue[uiLane]))
        /\ wpc' = Woken({uiLane})
        /\ uiLane' = None
        /\ ui' = "sdloop"
        /\ UNCHANGED <<home, mode, stop, current, life, held, idVars, taskVars, cancelFlag,
                       results, shuttingDown, srcVars, tActive, tResult, uiRet, uiNext,
                       uiTask, uiSrc, stopSet, drain, chunks, delivered>>

ShutdownMove ==
    /\ ui = "sdloop"
    /\ stopSet = {}
    /\ home' = [l \in Lane |-> IF l \in Owned THEN "joining" ELSE home[l]]
    /\ live' = {}
    /\ ui' = "sdjoin"
    /\ UNCHANGED <<mode, stop, queue, current, life, wpc, held, idVars, taskVars, flagVars,
                   results, shuttingDown, srcLane, srcTask, srcRunning, credited, telVars,
                   uiRet, uiNext, uiLane, uiTask, uiSrc, stopSet, drain, histVars>>

ShutdownJoin ==
    /\ ui = "sdjoin"
    /\ Joined
    /\ DestroyJoined
    /\ ui' = IF drain THEN "drain" ELSE "sdend"
    /\ UNCHANGED <<mode, stop, queue, current, life, wpc, held, idVars, taskVars, flagVars,
                   results, shuttingDown, srcVars, telVars, uiRet, uiNext, uiLane, uiTask,
                   uiSrc, stopSet, drain, histVars>>

\* while (pump(64) != 0): no source and no worker is left for it to act on
DrainOne ==
    /\ ui = "drain"
    /\ results # <<>>
    /\ results' = Tail(results)
    /\ tResult' = Dec(tResult, 1)
    /\ delivered' = IF Head(results).final THEN delivered \cup {Head(results).task}
                    ELSE delivered
    /\ UNCHANGED <<laneVars, idVars, taskVars, flagVars, shuttingDown, srcVars, tQueued,
                   tActive, uiVars, chunks, discarded>>

DrainEnd ==
    /\ ui = "drain"
    /\ results = <<>>
    /\ ui' = "sdend"
    /\ UNCHANGED <<laneVars, idVars, taskVars, flagVars, results, shuttingDown, srcVars,
                   telVars, uiRet, uiNext, uiLane, uiTask, uiSrc, stopSet, drain, histVars>>

\* results nobody will handle are discarded, the handler and the flags dropped
ShutdownEnd ==
    /\ ui = "sdend"
    /\ discarded' = discarded \cup {r.task : r \in {x \in Elements(results) : x.final}}
    /\ tResult' = Dec(tResult, Len(results))
    /\ results' = <<>>
    /\ taskCancelFlags' = {}
    /\ ui' = "down"
    /\ UNCHANGED <<laneVars, idVars, taskVars, cancelFlag, shuttingDown, srcVars, tQueued,
                   tActive, uiRet, uiNext, uiLane, uiTask, uiSrc, stopSet, drain, chunks,
                   delivered>>
-----------------------------------------------------------------------------
(***************************************************************************)
(* The worker thread of lane l: workerLoop().                              *)
(***************************************************************************)

\* everything a worker step leaves alone
WorkerFrame == UNCHANGED <<home, mode, stop, idVars, taskVars, cancelFlag, shuttingDown,
                           uiVars, delivered, discarded>>

Boot(l) ==
    /\ wpc[l] = "boot"
    /\ life' = [life EXCEPT ![l] = IF queue[l] = <<>> THEN "Idle" ELSE "Assigned"]
    /\ wpc' = [wpc EXCEPT ![l] = "wait"]
    /\ WorkerFrame
    /\ UNCHANGED <<queue, current, held, taskCancelFlags, results, srcVars, telVars, chunks>>

\* the wait predicate holds and there is a request: popNextRequestLocked()
PopRequest(l) ==
    /\ wpc[l] = "wait"
    /\ queue[l] # <<>>
    /\ held' = [held EXCEPT ![l] = Head(queue[l])]
    /\ current' = [current EXCEPT ![l] = Head(queue[l])]
    /\ queue' = [queue EXCEPT ![l] = Popped(l)]
    /\ life' = [life EXCEPT ![l] = "Running"]
    /\ wpc' = [wpc EXCEPT ![l] = "start"]
    /\ WorkerFrame
    /\ UNCHANGED <<taskCancelFlags, results, srcVars, telVars, chunks>>

\* Mutant: the worker goes back to its wait instead of leaving the loop.
StaysInLoop(l) ==
    /\ wpc[l] = "wait"
    /\ queue[l] = <<>> /\ stop[l]
    /\ UNCHANGED vars

\* stop requested and nothing queued: the loop is left
LeaveLoop(l) ==
    /\ wpc[l] = "wait"
    /\ queue[l] = <<>> /\ stop[l]
    /\ wpc' = [wpc EXCEPT ![l] = "exit"]
    /\ WorkerFrame
    /\ UNCHANGED <<queue, current, life, held, taskCancelFlags, results, srcVars, telVars, chunks>>

\* the predicate was evaluated to FALSE; the mutex is still held
PredicateFalse(l) ==
    /\ wpc[l] = "wait"
    /\ ~WaitPredicate(l)
    /\ wpc' = [wpc EXCEPT ![l] = "presleep"]
    /\ WorkerFrame
    /\ UNCHANGED <<queue, current, life, held, taskCancelFlags, results, srcVars, telVars, chunks>>

\* cv.wait() releases the mutex and sleeps, atomically
Sleep(l) ==
    /\ wpc[l] = "presleep"
    /\ wpc' = [wpc EXCEPT ![l] = "asleep"]
    /\ WorkerFrame
    /\ UNCHANGED <<queue, current, life, held, taskCancelFlags, results, srcVars, telVars, chunks>>

\* the request's result is ready: the lane is updated under its mutex
ResultReady(l) ==
    /\ life' = [life EXCEPT ![l] = "ResultReady"]
    /\ current' = [current EXCEPT ![l] = held[l]]
    /\ wpc' = [wpc EXCEPT ![l] = "post"]

\* stopped or cancelled before the task function was called
SkipTask(l) ==
    /\ wpc[l] = "start"
    /\ stop[l] \/ cancelFlag[held[l]]
    /\ tQueued' = Dec(tQueued, 1)
    /\ tActive' = tActive + 1
    /\ ResultReady(l)
    /\ WorkerFrame
    /\ UNCHANGED <<queue, held, taskCancelFlags, results, srcVars, tResult, chunks>>

CallTask(l) ==
    /\ wpc[l] = "start"
    /\ ~stop[l] /\ ~cancelFlag[held[l]]
    /\ tQueued' = Dec(tQueued, 1)
    /\ tActive' = tActive + 1
    /\ wpc' = [wpc EXCEPT ![l] = "run"]
    /\ WorkerFrame
    /\ UNCHANGED <<queue, current, life, held, taskCancelFlags, results, srcVars, tResult, chunks>>

\* post() of a chunk from inside a task function.  enqueueResult() records it
\* and tells the source with its channel id (noteExternalResult()) ...
PostChunk(l) ==
    LET t == held[l]
        s == channel[t]
    IN  /\ wpc[l] = "run"
        /\ Blocking(t)
        /\ chunks[t] < MaxChunks
        /\ s = None \/ ExternalMutexFree
        /\ srcRunning' = [x \in Source |-> IF x = s /\ x \in live THEN TRUE ELSE srcRunning[x]]
        /\ credited' = [x \in Source |-> IF x = s /\ x \in live THEN credited[x] \cup {t}
                                          ELSE credited[x]]
        /\ tResult' = tResult + 1
        /\ chunks' = [chunks EXCEPT ![t] = @ + 1]
        /\ wpc' = [wpc EXCEPT ![l] = "chunk"]
        /\ WorkerFrame
        /\ UNCHANGED <<queue, current, life, held, taskCancelFlags, results, live, srcLane,
                       srcTask, tQueued, tActive>>

\* ... and then pushes it
EnqueueChunk(l) ==
    /\ wpc[l] = "chunk"
    /\ results' = Append(results, [task |-> held[l], final |-> FALSE])
    /\ wpc' = [wpc EXCEPT ![l] = "run"]
    /\ WorkerFrame
    /\ UNCHANGED <<queue, current, life, held, taskCancelFlags, srcVars, telVars, chunks>>

\* the task function returns: because its work is bounded or its flag is set ...
TaskReturns(l) ==
    /\ wpc[l] = "run"
    /\ ~Blocking(held[l]) \/ cancelFlag[held[l]]
    /\ ResultReady(l)
    /\ WorkerFrame
    /\ UNCHANGED <<queue, held, taskCancelFlags, results, srcVars, telVars, chunks>>

\* ... or because its input ended or failed by itself
TaskInputEnds(l) ==
    /\ wpc[l] = "run"
    /\ Blocking(held[l]) /\ ~cancelFlag[held[l]]
    /\ ResultReady(l)
    /\ WorkerFrame
    /\ UNCHANGED <<queue, held, taskCancelFlags, results, srcVars, telVars, chunks>>

\* enqueueResult() of the task's own result: recorded; noteExternalResult()
\* clears the source whose reader has finished ...
NoteFinal(l) ==
    LET t == held[l]
        s == channel[t]
        Ended(x) == kind[t] = "extern" /\ x = s /\ x \in live
    IN  /\ wpc[l] = "post"
        /\ s = None \/ ExternalMutexFree
        /\ srcRunning' = [x \in Source |-> IF Ended(x) THEN FALSE ELSE srcRunning[x]]
        /\ srcTask' = [x \in Source |-> IF Ended(x) THEN None ELSE srcTask[x]]
        /\ tActive' = Dec(tActive, 1)
        /\ tResult' = tResult + 1
        /\ wpc' = [wpc EXCEPT ![l] = "enqueue"]
        /\ WorkerFrame
        /\ UNCHANGED <<queue, current, life, held, taskCancelFlags, results, live, srcLane,
                       credited, tQueued, chunks>>

\* ... and pushed
EnqueueFinal(l) ==
    /\ wpc[l] = "enqueue"
    /\ results' = Append(results, FinalResult(l))
    /\ wpc' = [wpc EXCEPT ![l] = "forget"]
    /\ WorkerFrame
    /\ UNCHANGED <<queue, current, life, held, taskCancelFlags, srcVars, telVars, chunks>>

\* forgetTask(); a one-shot worker leaves the loop, another becomes idle
ForgetTask(l) ==
    /\ wpc[l] = "forget"
    /\ taskCancelFlags' = Forgotten(held[l])
    /\ held' = [held EXCEPT ![l] = None]
    /\ wpc' = [wpc EXCEPT ![l] = IF mode[l] = "oneshot" THEN "exit" ELSE "wait"]
    /\ life' = [life EXCEPT ![l] =
                  IF mode[l] # "oneshot" /\ @ = "ResultReady" /\ queue[l] = <<>>
                  THEN "Idle" ELSE @]
    /\ WorkerFrame
    /\ UNCHANGED <<queue, current, results, srcVars, telVars, chunks>>

\* lane.retired = true
Exit(l) ==
    /\ wpc[l] = "exit"
    /\ life' = [life EXCEPT ![l] = "Finished"]
    /\ wpc' = [wpc EXCEPT ![l] = "retired"]
    /\ WorkerFrame
    /\ UNCHANGED <<queue, current, held, taskCancelFlags, results, srcVars, telVars, chunks>>

\* the thread function returns
Die(l) ==
    /\ wpc[l] = "retired"
    /\ wpc' = [wpc EXCEPT ![l] = "dead"]
    /\ WorkerFrame
    /\ UNCHANGED <<queue, current, life, held, taskCancelFlags, results, srcVars, telVars, chunks>>
-----------------------------------------------------------------------------
UiCall == BeginSubmit \/ RegisterWorker \/ OpenSource \/ Shutdown
          \/ (\E l \in Lane : SubmitWorker(l) \/ UnregisterWorker(l))
          \/ (\E t \in Task : CancelTask(t))
          \/ (\E s \in Source : CloseSource(s))

UiPump == (\E i \in 1..Len(results) : PumpOne(i)) \/ PumpEnd

UiStep == StartOneShot \/ PushOneShot \/ PushKept \/ PushExternal \/ MarkRunning
          \/ StopLane \/ CancelLane \/ NotifyLane \/ RetireLane
          \/ Reap \/ Join
          \/ CancelPendingFlags \/ (\E l \in Lane : CancelPendingNext(l)) \/ ClearLane
          \/ ShutdownMove \/ ShutdownJoin \/ DrainOne \/ DrainEnd \/ ShutdownEnd

WorkerStep(l) == Boot(l) \/ PopRequest(l) \/ LeaveLoop(l) \/ PredicateFalse(l) \/ Sleep(l)
                 \/ SkipTask(l) \/ CallTask(l) \/ EnqueueChunk(l) \/ TaskReturns(l)
                 \/ NoteFinal(l) \/ EnqueueFinal(l) \/ ForgetTask(l) \/ Exit(l) \/ Die(l)

\* what depends on the outside world, and is never promised
WorkerInput(l) == PostChunk(l) \/ TaskInputEnds(l)

\* the process ends after shutdown
Terminated == ui = "down" /\ UNCHANGED vars

Next == UiCall \/ UiPump \/ UiStep \/ (\E l \in Lane : WorkerStep(l) \/ WorkerInput(l))
        \/ Terminated

\* Every thread runs; a call the UI thread has entered goes on; the event loop
\* pumps again and again.  Nothing is assumed of users, processes and sources.
Fairness ==
    /\ WF_vars(UiStep)
    /\ WF_vars(UiPump)
    /\ \A l \in Lane : WF_vars(WorkerStep(l))

Spec == Init /\ [][Next]_vars

FairSpec == Spec /\ Fairness
-----------------------------------------------------------------------------
(***************************************************************************)
(* Properties.                                                             *)
(***************************************************************************)

\* the task l's worker has popped and whose result it has not yet pushed
InHand(l) == IF wpc[l] \in {"start", "run", "chunk", "post", "enqueue"} THEN {held[l]} ELSE {}

\* A task that waits in a lane or is being worked on has its flag in
\* taskCancelFlags, so that cancelTask(), cancelExternalSource() and
\* cancelPending() reach it: forgetTask() never runs too early.
CancelReachesEveryTask ==
    \A l \in Lane : Elements(queue[l]) \cup InHand(l) \subseteq taskCancelFlags

\* the tasks of l whose function may still be called or is running
Unreturned(l) == Elements(queue[l])
                 \cup (IF wpc[l] \in {"start", "run", "chunk"} THEN {held[l]} ELSE {})

\* Once requestLaneStop() has passed its critical section, the flag of every
\* task the lane may still call or is running is set, whichever step the worker
\* was at when the stop was requested: a blocked task function learns of the
\* stop, so the join that follows cannot wait for a task nobody told.
StopReachesEveryTask ==
    \A l \in Lane : stop[l] /\ ~(ui = "cancel" /\ uiLane = l)
                      => \A t \in Unreturned(l) : cancelFlag[t]

FinalIndices(t) == {i \in 1..Len(results) : results[i] = [task |-> t, final |-> TRUE]}

\* Every submitted task is answered exactly once: it is queued, or in the hands
\* of one worker, or its one result is in the queue, or the handler has had that
\* result, or shutdown discarded it - and never two of these.
AnsweredOnce ==
    \A t \in 1..(nextTaskId - 1) :
       Cardinality({l \in Lane : t \in Elements(queue[l])})
       + Cardinality({l \in Lane : t \in InHand(l)})
       + Cardinality(FinalIndices(t))
       + (IF t \in delivered THEN 1 ELSE 0)
       + (IF t \in discarded THEN 1 ELSE 0) = 1

\* A task's result is handled after all its chunks, although the pump prefers
\* fold results: behind a result, and after its delivery, nothing of its task is
\* left in the queue.
FinalAfterChunks ==
    /\ \A i, j \in 1..Len(results) :
          i < j /\ results[i].final => results[j].task # results[i].task
    /\ \A i \in 1..Len(results) : results[i].task \notin delivered

\* The telemetry counters, whose decrements saturate at zero and would hide an
\* imbalance, count what is really queued, running and pending.
TelemetryExact ==
    /\ tQueued = Cardinality({p \in Lane \X Task : p[2] <= Len(queue[p[1]])})
                 + Cardinality({l \in Lane : wpc[l] = "start"})
    /\ tActive = Cardinality({l \in Lane : wpc[l] \in {"run", "chunk", "post"}})
    /\ tResult = Len(results) + Cardinality({l \in Lane : wpc[l] \in {"chunk", "enqueue"}})

\* When the handler has had the result of a source's reader, the source is gone
\* or being unregistered: the running flag and the task id that submitExternal()
\* may have written after the reader finished never outlive that.
FinishedSourceIsErased ==
    \A t \in delivered : kind[t] = "extern" =>
       \/ channel[t] \notin live
       \/ uiSrc = channel[t] /\ ui \in {"stop", "cancel", "notify", "retire"}

\* The raw LaneState pointers the UI thread holds across its critical sections
\* (submitExternal(), cancelPending()), and the one each thread runs on, point
\* to a LaneState that has not been destroyed.
NoDanglingLane ==
    /\ \A l \in Lane : home[l] = "gone" => wpc[l] = "dead"
    /\ ui \in {"push", "stop", "cancel", "notify", "retire", "clear"}
         => uiLane \in Owned
    /\ stopSet \subseteq Owned

\* What a source has counted was read by its own reader.
CreditedToOwnReader ==
    \A s \in Source : \A t \in credited[s] : kind[t] = "extern"

\* shutdown() comes to its end, and a lane that was asked to stop is joined and
\* destroyed: no join waits for ever, whatever the workers were doing when they
\* were told to stop.
StoppingCompletes ==
    /\ shuttingDown ~> ui = "down"
    /\ \A l \in Lane : home[l] = "retiring" ~> home[l] = "gone"

\* A bounded task is answered: its result reaches the handler or is discarded by
\* shutdown.
BoundedTaskIsAnswered ==
    \A t \in Task : (t < nextTaskId /\ ~Blocking(t)) ~> t \in delivered \cup discarded
============================================================================
