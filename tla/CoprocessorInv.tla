--------------------------- MODULE CoprocessorInv ---------------------------
(***************************************************************************)
(* The inductive invariant of the coprocessor, in four layers: types, the  *)
(* ownership of lanes, the whereabouts of tasks, and those of results.     *)
(* Each layer is inductive given the ones before it.  CoprocessorProofs    *)
(* proves that of the first three and CoprocessorResultProofs of the       *)
(* fourth, and that they imply the safety properties of Coprocessor.       *)
(***************************************************************************)
EXTENDS Coprocessor
-----------------------------------------------------------------------------
(***************************************************************************)
(* Layer 1: types.                                                         *)
(***************************************************************************)

\* where a worker has a request in its hands, not yet forgotten
HoldingPc == {"start", "run", "chunk", "post", "enqueue", "forget"}

\* A worker between popping a request and forgetting it holds a task.
HeldTask == \A l \in Lane : wpc[l] \in HoldingPc => held[l] \in Task

\* While the UI thread works on a lane it points to one.
UiLaneValid ==
    ui \in {"push", "stop", "cancel", "notify", "retire", "clear"} => uiLane \in Lane

\* A registered source owns a lane.
SourceLaneValid == \A s \in live : srcLane[s] \in Lane

TypeInv == TypeOK /\ HeldTask /\ UiLaneValid /\ SourceLaneValid
-----------------------------------------------------------------------------
(***************************************************************************)
(* Layer 2: who owns a lane, and who may still use it.                     *)
(***************************************************************************)

\* Ordinals that were not given out belong to no lane.
FreshLanes == \A l \in Lane : l >= nextWorkerOrdinal => home[l] = "none" /\ ~stop[l]

\* A lane has a thread from its creation on, and is destroyed after its thread.
ThreadOfLane ==
    \A l \in Lane : /\ home[l] = "none" <=> wpc[l] = "none"
                    /\ home[l] = "gone" => wpc[l] = "dead"

\* shuttingDown and the place of the UI thread agree.
ShutdownPhase ==
    /\ ui \in {"idle", "pump", "reap", "join", "start", "push", "mark", "retire"}
         => ~shuttingDown
    /\ ui \in {"flagall", "sdloop", "clear", "sdjoin", "drain", "sdend", "down"}
         => shuttingDown
    /\ stopSet # {} => shuttingDown /\ ui \in {"sdloop", "stop", "cancel", "notify", "clear"}
    /\ stopSet \subseteq Owned

\* A lane that was told to stop is out of the reach of submit calls.
StoppedLanes ==
    /\ \A l \in Lane : stop[l] => \/ home[l] \in {"retiring", "joining", "gone"}
                                  \/ shuttingDown
                                  \/ uiLane = l /\ ui \in {"cancel", "notify", "retire"}
    /\ ui \in {"cancel", "notify", "retire", "clear"} => stop[uiLane]

\* A lane kept for several tasks leaves its loop only when told to.
KeptLanes ==
    \A l \in Lane : mode[l] # "oneshot" /\ wpc[l] \in {"exit", "retired", "dead"} => stop[l]

\* The lane the UI thread works on is owned by the coprocessor; the one it
\* submits to is running, and a one-shot lane gets one task.
UiLaneOwned ==
    /\ ui \in {"push", "stop", "cancel", "notify", "retire", "clear"} => uiLane \in Owned
    /\ ui = "push" => home[uiLane] \in {"workers", "external"}

\* A registered source owns its lane alone, until the UI thread retires both.
SourceLanes ==
    /\ \A s \in live : home[srcLane[s]] = "external"
    /\ \A s1, s2 \in live : srcLane[s1] = srcLane[s2] => s1 = s2
    /\ ui \in {"idle", "pump", "reap", "join", "start"} \/ shuttingDown => uiSrc = None
    /\ ui = "push" /\ mode[uiLane] # "extern" => uiSrc = None
    /\ ui \in {"stop", "cancel", "notify", "retire"} /\ ~shuttingDown
         => \/ uiSrc = None /\ home[uiLane] = "workers"
            \/ uiSrc \in live /\ srcLane[uiSrc] = uiLane

\* From the last join of shutdown() on, no thread is left.
NoThreadLeft ==
    /\ ui = "sdjoin" => \A l \in Lane : home[l] \in {"none", "joining", "gone"}
    /\ ui \in {"drain", "sdend", "down"} => \A l \in Lane : wpc[l] \in {"none", "dead"}

LaneInv == FreshLanes /\ ThreadOfLane /\ ShutdownPhase /\ StoppedLanes /\ KeptLanes
           /\ UiLaneOwned /\ SourceLanes /\ NoThreadLeft
-----------------------------------------------------------------------------
(***************************************************************************)
(* Layer 3: where a task is.                                               *)
(***************************************************************************)

\* t waits in lane l or is in the hands of its worker
Has(l, t) == t \in Elements(queue[l]) \/ (wpc[l] \in HoldingPc /\ held[l] = t)

\* Ids that were not given out are nowhere.
KnownTasks == \A l \in Lane, t \in Task : Has(l, t) => t < nextTaskId

Distinct(s) == \A i, j \in 1..Len(s) : s[i] = s[j] => i = j

\* A task is in one place only.
OnePlace ==
    /\ \A l, m \in Lane, t \in Task : Has(l, t) /\ Has(m, t) => l = m
    /\ \A l \in Lane : wpc[l] \in HoldingPc => held[l] \notin Elements(queue[l])
    /\ \A l \in Lane : Distinct(queue[l])

\* A thread that has left its loop leaves no request behind.
NothingLeftBehind ==
    \A l \in Lane : wpc[l] \in {"none", "exit", "retired", "dead"} => queue[l] = <<>>

\* A one-shot lane gets its one request before its thread can leave.
OneShotLanes ==
    \A l \in Lane : mode[l] = "oneshot" =>
       /\ Len(queue[l]) <= 1
       /\ wpc[l] \in HoldingPc => queue[l] = <<>>
       /\ ui = "push" /\ uiLane = l
            => queue[l] = <<>> /\ wpc[l] \in {"boot", "wait", "presleep", "asleep"}

\* currentTask is the task being run, so that requestLaneStop() reaches it.
CurrentIsHeld ==
    \A l \in Lane : wpc[l] \in {"start", "run", "chunk"}
                      => current[l] = held[l] /\ (life[l] = "Running" \/ stop[l])

TaskInv == KnownTasks /\ OnePlace /\ NothingLeftBehind /\ OneShotLanes /\ CurrentIsHeld
           /\ CancelReachesEveryTask /\ StopReachesEveryTask

\* the part of the types the third layer needs
TaskTypes ==
    /\ mode \in [Lane -> Mode] /\ stop \in [Lane -> BOOLEAN] /\ queue \in [Lane -> Seq(Task)]
    /\ current \in [Lane -> Task \cup {None}] /\ life \in [Lane -> Life]
    /\ wpc \in [Lane -> WorkerPc] /\ held \in [Lane -> Task \cup {None}]
    /\ nextTaskId \in 1..(MaxTasks + 1) /\ cancelFlag \in [Task -> BOOLEAN]
    /\ taskCancelFlags \subseteq Task /\ uiRet \in {"idle", "pump"}
    /\ uiNext \in {"idle", "start"} /\ UiLaneValid /\ HeldTask

IndInv == TypeInv /\ LaneInv /\ TaskInv
-----------------------------------------------------------------------------
(***************************************************************************)
(* Layer 4: where a result is.                                             *)
(***************************************************************************)

Waits(t) == \E l \in Lane : t \in Elements(queue[l])
InWork(t) == \E l \in Lane : t \in InHand(l)
Posted(t) == \E i \in 1..Len(results) : results[i].final /\ results[i].task = t

\* A task was given an id exactly when it is waiting, in work, posted, delivered
\* or discarded, and it is only one of these (Layer 3: not waiting and in work).
Ledger ==
    \A t \in Task :
       /\ t < nextTaskId <=> Waits(t) \/ InWork(t) \/ Posted(t) \/ t \in delivered \/ t \in discarded
       /\ Waits(t) \/ InWork(t) => ~Posted(t)
       /\ Waits(t) \/ InWork(t) \/ Posted(t) => t \notin delivered \cup discarded
       /\ t \notin delivered \cap discarded

\* Behind a final result nothing of its task follows; what is in the queue belongs
\* to a task whose final result is still to be handled.
ResultOrder ==
    /\ \A i, j \in 1..Len(results) : i < j /\ results[i].final => results[j].task # results[i].task
    /\ \A i \in 1..Len(results) : InWork(results[i].task) \/ Posted(results[i].task)

\* Source ids are not used again, and the end of shutdown() leaves none.
KnownSources ==
    /\ ui \in {"sdjoin", "drain", "sdend", "down"} => live = {}
    /\ \A s \in live \cup {uiSrc} : s < nextExternalSourceId
    /\ \A t \in Task : t < nextTaskId /\ kind[t] = "extern" => channel[t] < nextExternalSourceId

ResultInv == Ledger /\ ResultOrder /\ KnownSources /\ FinishedSourceIsErased /\ TelemetryExact
============================================================================
