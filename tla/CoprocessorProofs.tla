------------------------- MODULE CoprocessorProofs -------------------------
(***************************************************************************)
(* What the coprocessor guarantees for any number of workers, tasks,       *)
(* sources and chunks, proved with TLAPS.  The inductive invariant is the  *)
(* one of CoprocessorInv, taken layer by layer.                            *)
(***************************************************************************)
EXTENDS CoprocessorInv, SequenceTheorems, TLAPS
-----------------------------------------------------------------------------
(***************************************************************************)
(* Layer 1.                                                                *)
(***************************************************************************)

\* The initial state is well typed.
LEMMA TypeInit == Init => TypeInv
  <1> SUFFICES ASSUME Init PROVE TypeInv
    OBVIOUS
  <1> USE BoundsAssumption DEF Init
  <1>1. /\ home \in [Lane -> Home]
        /\ mode \in [Lane -> Mode]
        /\ stop \in [Lane -> BOOLEAN]
        /\ life \in [Lane -> Life]
        /\ wpc \in [Lane -> WorkerPc]
    BY DEF Home, Mode, Life, WorkerPc
  <1>2. /\ queue \in [Lane -> Seq(Task)]
        /\ current \in [Lane -> Task \cup {None}]
        /\ held \in [Lane -> Task \cup {None}]
    OBVIOUS
  <1>3. /\ nextWorkerOrdinal \in 1..(MaxWorkers + 1)
        /\ nextTaskId \in 1..(MaxTasks + 1)
        /\ nextExternalSourceId \in 1..(MaxSources + 1)
    OBVIOUS
  <1>4. /\ kind \in [Task -> Kind]
        /\ channel \in [Task -> Nat]
        /\ cancelFlag \in [Task -> BOOLEAN]
        /\ chunks \in [Task -> 0..MaxChunks]
    BY DEF Kind, None
  <1>5. /\ taskCancelFlags \in SUBSET Task
        /\ results \in Seq(Result)
        /\ live \in SUBSET Source
        /\ stopSet \in SUBSET Lane
        /\ delivered \in SUBSET Task
        /\ discarded \in SUBSET Task
    OBVIOUS
  <1>6. shuttingDown \in BOOLEAN /\ drain \in BOOLEAN
    BY Zenon
  <1>7. /\ srcLane \in [Source -> Lane \cup {None}]
        /\ srcTask \in [Source -> Task \cup {None}]
        /\ srcRunning \in [Source -> BOOLEAN]
        /\ credited \in [Source -> SUBSET Task]
    OBVIOUS
  <1>8. /\ tQueued \in Nat /\ tActive \in Nat /\ tResult \in Nat
        /\ ui \in UiPc
        /\ uiRet \in {"idle", "pump"}
        /\ uiNext \in {"idle", "start"}
        /\ uiLane \in Lane \cup {None}
        /\ uiTask \in Task \cup {None}
        /\ uiSrc \in Source \cup {None}
    BY DEF UiPc
  <1>9. TypeOK
    BY <1>1, <1>2, <1>3, <1>4, <1>5, <1>6, <1>7, <1>8 DEF TypeOK
  <1>10. HeldTask /\ UiLaneValid /\ SourceLaneValid
    BY DEF HeldTask, HoldingPc, UiLaneValid, SourceLaneValid
  <1>11. QED
    BY <1>9, <1>10 DEF TypeInv

\* submitToLaneState() keeps the types.
LEMMA TypePush ==
  ASSUME TypeInv, NEW k \in Kind, NEW c \in Nat, Push(k, c)
  PROVE  TypeInv'
  <1> USE BoundsAssumption DEF TypeInv, TypeOK, HeldTask, HoldingPc, UiLaneValid,
      SourceLaneValid, laneVars, idVars, taskVars, flagVars, srcVars, telVars, uiVars, histVars
  <1>1. uiLane \in Lane /\ nextTaskId \in Task
    BY DEF Push
  <1>2. nextTaskId' \in 1..(MaxTasks + 1)
    BY DEF Push, Task
  <1>3. /\ kind' \in [Task -> Kind]
        /\ channel' \in [Task -> Nat]
        /\ cancelFlag' \in [Task -> BOOLEAN]
        /\ taskCancelFlags' \in SUBSET Task
    BY <1>1 DEF Push
  <1>4. /\ queue' \in [Lane -> Seq(Task)]
        /\ life' \in [Lane -> Life]
        /\ current' \in [Lane -> Task \cup {None}]
    BY <1>1 DEF Push, CurrentWith, Life
  <1>5. wpc' \in [Lane -> WorkerPc] /\ HeldTask'
    BY DEF Push, Woken, WorkerPc
  <1>6. /\ ui' \in {"mark", "idle", "pump"}
        /\ uiLane' = None
        /\ uiRet' \in {"idle", "pump"}
        /\ uiTask' \in Task \cup {None}
        /\ tQueued' \in Nat
    BY <1>1 DEF Push
  <1>7. UNCHANGED <<home, mode, stop, held, nextWorkerOrdinal, nextExternalSourceId,
                    results, shuttingDown, srcVars, tActive, tResult,
                    uiNext, uiSrc, stopSet, drain, histVars>>
    BY DEF Push
  <1>8. QED
    BY <1>2, <1>3, <1>4, <1>5, <1>6, <1>7 DEF UiPc

\* What unregisterExternalSource() writes before it stops the lane.
LEMMA EnterUnregisterTypes ==
  ASSUME TypeInv, NEW s \in live, NEW r \in {"idle", "pump"}, EnterUnregister(s, r)
  PROVE  /\ cancelFlag' \in [Task -> BOOLEAN]
         /\ wpc' \in [Lane -> WorkerPc]
         /\ uiLane' \in Lane
         /\ uiSrc' \in Source
         /\ uiRet' \in {"idle", "pump"}
         /\ ui' = "stop"
         /\ \A l \in Lane : wpc'[l] = wpc[l] \/ wpc'[l] = "wait"
  <1>1. /\ wpc' \in [Lane -> WorkerPc]
        /\ \A l \in Lane : wpc'[l] = wpc[l] \/ wpc'[l] = "wait"
    BY DEF TypeInv, TypeOK, EnterUnregister, SetFlagAndNotify, Woken, WorkerPc
  <1>2. cancelFlag' \in [Task -> BOOLEAN]
    BY DEF TypeInv, TypeOK, EnterUnregister, SetFlagAndNotify
  <1>3. uiLane' \in Lane /\ uiSrc' \in Source
    BY DEF TypeInv, TypeOK, SourceLaneValid, EnterUnregister
  <1>4. uiRet' \in {"idle", "pump"} /\ ui' = "stop"
    BY DEF EnterUnregister
  <1> QED
    BY <1>1, <1>2, <1>3, <1>4

\* registerExternalSource() and submitExternal() keep the types.
LEMMA TypeOpenSource == ASSUME TypeInv, OpenSource PROVE TypeInv'
  <1> USE BoundsAssumption DEF TypeInv, TypeOK, HeldTask, HoldingPc, UiLaneValid,
      SourceLaneValid, laneVars, idVars, taskVars, flagVars, srcVars, telVars, uiVars, histVars
  <1>1. StartLane("extern", "external")
    BY DEF OpenSource
  <1>2. /\ home' \in [Lane -> Home]
        /\ mode' \in [Lane -> Mode]
        /\ stop' \in [Lane -> BOOLEAN]
        /\ life' \in [Lane -> Life]
        /\ wpc' \in [Lane -> WorkerPc]
        /\ nextWorkerOrdinal' \in 1..(MaxWorkers + 1)
        /\ nextWorkerOrdinal \in Lane
        /\ UNCHANGED <<queue, current, held>>
        /\ HeldTask'
    BY <1>1 DEF StartLane, Home, Mode, Life, WorkerPc, Lane
  <1>3. /\ live' \subseteq Source
        /\ srcLane' \in [Source -> Lane \cup {None}]
        /\ SourceLaneValid'
        /\ nextExternalSourceId' \in 1..(MaxSources + 1)
        /\ uiSrc' \in Source
        /\ uiLane' \in Lane
    BY <1>2, SMTT(30) DEF OpenSource, Source
  <1>4. QED
    BY <1>2, <1>3 DEF OpenSource, UiPc

\* One turn of the pump loop keeps the types.
LEMMA TypePumpOne ==
  ASSUME TypeInv, NEW i \in 1..Len(results), PumpOne(i) PROVE TypeInv'
  <1> USE BoundsAssumption DEF TypeInv, TypeOK, HeldTask, HoldingPc, UiLaneValid,
      SourceLaneValid, laneVars, idVars, taskVars, flagVars, srcVars, telVars, uiVars, histVars
  <1>1. results' \in Seq(Result)
    BY DEF PumpOne, WithoutIndex
  <1>2. results[i] \in Result
    OBVIOUS
  <1>3. delivered' \in SUBSET Task
    BY <1>2 DEF PumpOne, Result
  <1>4. tResult' \in Nat
    BY DEF PumpOne, Dec
  <1>5. UNCHANGED <<home, mode, stop, queue, current, life, held, idVars, taskVars,
                    taskCancelFlags, shuttingDown, srcVars, tQueued, tActive, uiNext,
                    uiTask, stopSet, drain, chunks, discarded>>
    BY DEF PumpOne
  <1>6. CASE EndsSource(results[i])
    <2>1. channel[results[i].task] \in live /\ EnterUnregister(channel[results[i].task], "pump")
      BY <1>6 DEF PumpOne, EndsSource
    <2>2. QED
      BY <1>1, <1>3, <1>4, <1>5, <2>1, EnterUnregisterTypes DEF UiPc
  <1>7. CASE ~EndsSource(results[i])
    <2>1. ui' = "pump" /\ UNCHANGED <<cancelFlag, wpc, uiLane, uiSrc, uiRet>>
      BY <1>7 DEF PumpOne
    <2>2. QED
      BY <1>1, <1>3, <1>4, <1>5, <2>1 DEF UiPc
  <1>8. QED
    BY <1>6, <1>7

\* The post() of a chunk keeps the types.
LEMMA TypePostChunk == ASSUME TypeInv, NEW l \in Lane, PostChunk(l) PROVE TypeInv'
  <1> USE BoundsAssumption DEF TypeInv, TypeOK, HeldTask, HoldingPc, UiLaneValid,
      SourceLaneValid, laneVars, idVars, taskVars, flagVars, srcVars, telVars, uiVars, histVars
  <1>1. held[l] \in Task
    BY DEF PostChunk
  <1>2. chunks' \in [Task -> 0..MaxChunks]
    BY <1>1 DEF PostChunk
  <1>3. credited' \in [Source -> SUBSET Task]
    BY <1>1 DEF PostChunk
  <1>4. srcRunning' \in [Source -> BOOLEAN]
    BY DEF PostChunk
  <1>5. wpc' \in [Lane -> WorkerPc] /\ HeldTask' /\ tResult' \in Nat
    BY DEF PostChunk, WorkerPc
  <1>6. WorkerFrame /\ UNCHANGED <<queue, current, life, held, taskCancelFlags, results, live,
                                   srcLane, srcTask, tQueued, tActive>>
    BY DEF PostChunk
  <1>7. QED
    BY <1>2, <1>3, <1>4, <1>5, <1>6 DEF WorkerFrame

\* The recording of a final result keeps the types.
LEMMA TypeNoteFinal == ASSUME TypeInv, NEW l \in Lane, NoteFinal(l) PROVE TypeInv'
  <1> USE BoundsAssumption DEF TypeInv, TypeOK, HeldTask, HoldingPc, UiLaneValid,
      SourceLaneValid, laneVars, idVars, taskVars, flagVars, srcVars, telVars, uiVars, histVars
  <1>1. srcTask' \in [Source -> Task \cup {None}]
    BY DEF NoteFinal
  <1>2. srcRunning' \in [Source -> BOOLEAN]
    BY DEF NoteFinal
  <1>3. wpc' \in [Lane -> WorkerPc] /\ HeldTask'
    BY DEF NoteFinal, WorkerPc
  <1>4. tActive' \in Nat /\ tResult' \in Nat
    BY DEF NoteFinal, Dec
  <1>5. WorkerFrame /\ UNCHANGED <<queue, current, life, held, taskCancelFlags, results, live,
                                   srcLane, credited, tQueued, chunks>>
    BY DEF NoteFinal
  <1>6. QED
    BY <1>1, <1>2, <1>3, <1>4, <1>5 DEF WorkerFrame

\* The results shutdown() handles or discards keep the types.
LEMMA TypeDrain == ASSUME TypeInv, DrainOne \/ ShutdownEnd PROVE TypeInv'
  <1> USE BoundsAssumption DEF TypeInv, TypeOK, HeldTask, HoldingPc, UiLaneValid,
      SourceLaneValid, laneVars, idVars, taskVars, flagVars, srcVars, telVars, uiVars, histVars
  <1>1. CASE DrainOne
    <2>1. results' \in Seq(Result) /\ Head(results) \in Result
      BY <1>1 DEF DrainOne
    <2>2. delivered' \in SUBSET Task
      BY <1>1, <2>1 DEF DrainOne, Result
    <2>3. tResult' \in Nat
      BY <1>1 DEF DrainOne, Dec
    <2>4. QED
      BY <1>1, <2>1, <2>2, <2>3 DEF DrainOne
  <1>2. CASE ShutdownEnd
    <2>1. results' \in Seq(Result) /\ taskCancelFlags' \in SUBSET Task
      BY <1>2 DEF ShutdownEnd
    <2>2. Elements(results) \subseteq Result
      BY SMTT(30) DEF Elements
    <2>3. discarded' \in SUBSET Task
      BY <1>2, <2>2, SMTT(30) DEF ShutdownEnd, Result
    <2>4. tResult' \in Nat
      BY <1>2 DEF ShutdownEnd, Dec
    <2>5. QED
      BY <1>2, <2>1, <2>3, <2>4 DEF ShutdownEnd, UiPc
  <1>3. QED
    BY <1>1, <1>2

\* Every step keeps the types.
LEMMA TypeStep == TypeInv /\ [Next]_vars => TypeInv'
  <1> SUFFICES ASSUME TypeInv, [Next]_vars PROVE TypeInv'
    OBVIOUS
  <1> USE BoundsAssumption DEF TypeInv, TypeOK, HeldTask, HoldingPc, UiLaneValid,
      SourceLaneValid, laneVars, idVars, taskVars, flagVars, srcVars, telVars, uiVars, histVars
  <1>1. CASE BeginSubmit
    BY <1>1 DEF BeginSubmit, UiPc
  <1>2. CASE StartOneShot
    BY <1>2, SMTT(30) DEF StartOneShot, StartLane, UiPc, Home, Mode, Life, WorkerPc, Lane
  <1>3. ASSUME NEW l \in Lane, SubmitWorker(l) PROVE TypeInv'
    BY <1>3 DEF SubmitWorker, UiPc
  <1>4. CASE MarkRunning
    BY <1>4 DEF MarkRunning, UiPc
  <1>5. ASSUME NEW t \in Task, CancelTask(t) PROVE TypeInv'
    BY <1>5 DEF CancelTask, SetFlagAndNotify, Woken, WorkerPc
  <1>6. ASSUME NEW l \in Lane, UnregisterWorker(l) PROVE TypeInv'
    BY <1>6 DEF UnregisterWorker, UiPc
  <1>7. CASE StopLane
    BY <1>7 DEF StopLane, UiPc
  <1>8. CASE CancelLane
    BY <1>8 DEF CancelLane, Life, UiPc
  <1>9. CASE NotifyLane
    BY <1>9 DEF NotifyLane, Woken, UiPc, WorkerPc
  <1>10. CASE RetireLane
    BY <1>10 DEF RetireLane, Home, UiPc
  <1>11. CASE PumpEnd
    BY <1>11 DEF PumpEnd, UiPc
  <1>12. CASE Reap
    BY <1>12 DEF Reap, UiPc, Home
  <1>13. CASE Join
    BY <1>13 DEF Join, DestroyJoined, UiPc, Home
  <1>14. CASE Shutdown
    BY <1>14 DEF Shutdown, UiPc
  <1>15. CASE CancelPendingFlags
    BY <1>15 DEF CancelPendingFlags, Owned, UiPc
  <1>16. ASSUME NEW l \in Lane, CancelPendingNext(l) PROVE TypeInv'
    BY <1>16 DEF CancelPendingNext, UiPc
  <1>17. CASE ClearLane
    BY <1>17 DEF ClearLane, Elements, Dec, Woken, WorkerPc, UiPc
  <1>18. CASE ShutdownMove
    BY <1>18 DEF ShutdownMove, Owned, UiPc, Home
  <1>19. CASE ShutdownJoin
    BY <1>19 DEF ShutdownJoin, DestroyJoined, UiPc, Home
  <1>20. CASE DrainEnd
    BY <1>20 DEF DrainEnd, UiPc
  <1>21. ASSUME NEW l \in Lane, Boot(l) PROVE TypeInv'
    BY <1>21 DEF Boot, WorkerFrame, Life, WorkerPc
  <1>22. ASSUME NEW l \in Lane, PopRequest(l) PROVE TypeInv'
    BY <1>22, SMTT(30) DEF PopRequest, WorkerFrame, Popped, Life, WorkerPc
  <1>23. ASSUME NEW l \in Lane, LeaveLoop(l) PROVE TypeInv'
    BY <1>23 DEF LeaveLoop, WorkerFrame, WorkerPc
  <1>24. ASSUME NEW l \in Lane, PredicateFalse(l) PROVE TypeInv'
    BY <1>24 DEF PredicateFalse, WorkerFrame, WorkerPc
  <1>25. ASSUME NEW l \in Lane, Sleep(l) PROVE TypeInv'
    BY <1>25 DEF Sleep, WorkerFrame, WorkerPc
  <1>26. ASSUME NEW l \in Lane, SkipTask(l) PROVE TypeInv'
    BY <1>26, SMTT(30) DEF SkipTask, WorkerFrame, ResultReady, Dec, Life, WorkerPc
  <1>27. ASSUME NEW l \in Lane, CallTask(l) PROVE TypeInv'
    BY <1>27 DEF CallTask, WorkerFrame, Dec, WorkerPc
  <1>28. ASSUME NEW l \in Lane, EnqueueChunk(l) PROVE TypeInv'
    BY <1>28 DEF EnqueueChunk, WorkerFrame, WorkerPc, Result
  <1>29. ASSUME NEW l \in Lane, TaskReturns(l) PROVE TypeInv'
    BY <1>29, SMTT(30) DEF TaskReturns, WorkerFrame, ResultReady, Life, WorkerPc
  <1>30. ASSUME NEW l \in Lane, TaskInputEnds(l) PROVE TypeInv'
    BY <1>30, SMTT(30) DEF TaskInputEnds, WorkerFrame, ResultReady, Life, WorkerPc
  <1>31. ASSUME NEW l \in Lane, EnqueueFinal(l) PROVE TypeInv'
    BY <1>31 DEF EnqueueFinal, WorkerFrame, FinalResult, WorkerPc, Result
  <1>32. ASSUME NEW l \in Lane, ForgetTask(l) PROVE TypeInv'
    BY <1>32 DEF ForgetTask, WorkerFrame, Forgotten, Life, WorkerPc
  <1>33. ASSUME NEW l \in Lane, Exit(l) PROVE TypeInv'
    BY <1>33 DEF Exit, WorkerFrame, Life, WorkerPc
  <1>34. ASSUME NEW l \in Lane, Die(l) PROVE TypeInv'
    BY <1>34 DEF Die, WorkerFrame, WorkerPc
  <1>35. CASE PushOneShot
    <2>1. PICK k \in Kind, c \in Nat : Push(k, c)
      BY <1>35 DEF PushOneShot, Kind, None
    <2>2. QED
      BY <2>1, TypePush
  <1>36. CASE PushKept
    BY <1>36, TypePush DEF PushKept, Kind, None
  <1>37. CASE PushExternal
    <2>1. uiSrc \in Nat
      BY DEF Source, None
    <2>2. "extern" \in Kind /\ Push("extern", uiSrc)
      BY <1>37 DEF PushExternal, Kind
    <2>3. QED
      BY <2>1, <2>2, TypePush
  <1>38. CASE RegisterWorker
    <2>1. /\ ui = "idle"
          /\ StartLane("kept", "workers")
          /\ UNCHANGED <<nextTaskId, nextExternalSourceId, taskVars, flagVars, results,
                         shuttingDown, srcVars, telVars, uiVars, histVars>>
      BY <1>38 DEF RegisterWorker
    <2>2. QED
      BY <2>1 DEF StartLane, Home, Mode, Life, WorkerPc, Lane
  <1>39. ASSUME NEW s \in Source, CloseSource(s) PROVE TypeInv'
    <2>1. s \in live /\ EnterUnregister(s, "idle")
      BY <1>39 DEF CloseSource
    <2>2. QED
      BY <1>39, <2>1, EnterUnregisterTypes DEF CloseSource, UiPc
  <1>40. CASE UNCHANGED vars
    BY <1>40 DEF vars
  <1>41. QED
    BY <1>1, <1>2, <1>3, <1>4, <1>5, <1>6, <1>7, <1>8, <1>9, <1>10, <1>11, <1>12, <1>13,
       <1>14, <1>15, <1>16, <1>17, <1>18, <1>19, <1>20, <1>21, <1>22, <1>23, <1>24, <1>25,
       <1>26, <1>27, <1>28, <1>29, <1>30, <1>31, <1>32, <1>33, <1>34, <1>35, <1>36, <1>37,
       <1>38, <1>39, <1>40, TypeOpenSource, TypePumpOne, TypePostChunk, TypeNoteFinal,
       TypeDrain
    DEF Next, UiCall, UiPump, UiStep, WorkerStep, WorkerInput, Terminated

\* Type correctness of the coprocessor: the worker threads, the queues and the
\* UI thread's place in a call always hold values of their types.
THEOREM TypeCorrect == Spec => []TypeOK
  <1>1. Spec => []TypeInv
    BY TypeInit, TypeStep, PTL DEF Spec
  <1>2. TypeInv => TypeOK
    BY DEF TypeInv
  <1>3. QED
    BY <1>1, <1>2, PTL

-----------------------------------------------------------------------------
(***************************************************************************)
(* Layer 2.                                                                *)
(***************************************************************************)

\* In the initial state there are no lanes.
LEMMA LaneInit == Init => LaneInv
  BY DEF Init, LaneInv, FreshLanes, ThreadOfLane, ShutdownPhase, StoppedLanes, KeptLanes,
     UiLaneOwned, SourceLanes, NoThreadLeft, Owned

\* Every step keeps the ownership of lanes.
LEMMA LaneStep == TypeInv /\ LaneInv /\ [Next]_vars => LaneInv'
  <1> SUFFICES ASSUME TypeInv, LaneInv, [Next]_vars PROVE LaneInv'
    OBVIOUS
  <1>t. /\ home \in [Lane -> Home] /\ mode \in [Lane -> Mode] /\ stop \in [Lane -> BOOLEAN]
        /\ wpc \in [Lane -> WorkerPc] /\ nextWorkerOrdinal \in 1..(MaxWorkers + 1)
        /\ live \subseteq Source /\ srcLane \in [Source -> Lane \cup {None}]
        /\ uiRet \in {"idle", "pump"} /\ uiNext \in {"idle", "start"}
        /\ UiLaneValid /\ SourceLaneValid /\ stopSet \subseteq Lane
    BY DEF TypeInv, TypeOK
  <1> USE BoundsAssumption, <1>t DEF LaneInv, FreshLanes, ThreadOfLane, ShutdownPhase,
      StoppedLanes, KeptLanes, UiLaneOwned, SourceLanes, NoThreadLeft, Owned,
      UiLaneValid, SourceLaneValid, laneVars, idVars, srcVars, uiVars
  <1>1. CASE BeginSubmit
    BY <1>1 DEF BeginSubmit
  <1>2. CASE StartOneShot
    BY <1>2 DEF StartOneShot, StartLane
  <1>3. CASE PushOneShot
    BY <1>3 DEF PushOneShot, Push, Woken
  <1>4. CASE PushKept
    BY <1>4 DEF PushKept, Push, Woken
  <1>5. CASE PushExternal
    BY <1>5 DEF PushExternal, Push, Woken
  <1>6. CASE RegisterWorker
    BY <1>6 DEF RegisterWorker, StartLane
  <1>7. ASSUME NEW l \in Lane, SubmitWorker(l) PROVE LaneInv'
    BY <1>7 DEF SubmitWorker
  <1>8. CASE OpenSource
    BY <1>8 DEF OpenSource, StartLane
  <1>9. CASE MarkRunning
    BY <1>9 DEF MarkRunning
  <1>10. ASSUME NEW t \in Task, CancelTask(t) PROVE LaneInv'
    BY <1>10 DEF CancelTask, SetFlagAndNotify, Woken
  <1>11. ASSUME NEW s \in Source, CloseSource(s) PROVE LaneInv'
    BY <1>11 DEF CloseSource, EnterUnregister, SetFlagAndNotify, Woken
  <1>12. ASSUME NEW l \in Lane, UnregisterWorker(l) PROVE LaneInv'
    BY <1>12 DEF UnregisterWorker
  <1>13. CASE StopLane
    BY <1>13 DEF StopLane
  <1>14. CASE CancelLane
    BY <1>14 DEF CancelLane
  <1>15. CASE NotifyLane
    <2>1. CASE shuttingDown
      BY <1>15, <2>1 DEF NotifyLane, Woken
    <2>2. CASE ~shuttingDown
      BY <1>15, <2>2 DEF NotifyLane, Woken
    <2>3. QED
      BY <2>1, <2>2
  <1>16. CASE RetireLane
    BY <1>16 DEF RetireLane
  <1>17. CASE PumpEnd
    BY <1>17 DEF PumpEnd
  <1>18. CASE Reap
    BY <1>18 DEF Reap
  <1>19. CASE Join
    BY <1>19 DEF Join, Joined, DestroyJoined
  <1>20. CASE Shutdown
    BY <1>20 DEF Shutdown
  <1>21. CASE CancelPendingFlags
    BY <1>21 DEF CancelPendingFlags
  <1>22. ASSUME NEW l \in Lane, CancelPendingNext(l) PROVE LaneInv'
    BY <1>22 DEF CancelPendingNext
  <1>23. CASE ClearLane
    BY <1>23 DEF ClearLane, Woken
  <1>24. CASE ShutdownMove
    BY <1>24 DEF ShutdownMove, Home
  <1>25. CASE ShutdownJoin
    BY <1>25 DEF ShutdownJoin, Joined, DestroyJoined
  <1>26. CASE DrainOne
    BY <1>26 DEF DrainOne
  <1>27. CASE DrainEnd
    BY <1>27 DEF DrainEnd
  <1>28. CASE ShutdownEnd
    BY <1>28 DEF ShutdownEnd
  <1>29. ASSUME NEW l \in Lane, Boot(l) PROVE LaneInv'
    BY <1>29 DEF Boot, WorkerFrame
  <1>30. ASSUME NEW l \in Lane, PopRequest(l) PROVE LaneInv'
    BY <1>30 DEF PopRequest, WorkerFrame
  <1>31. ASSUME NEW l \in Lane, LeaveLoop(l) PROVE LaneInv'
    BY <1>31 DEF LeaveLoop, WorkerFrame
  <1>32. ASSUME NEW l \in Lane, PredicateFalse(l) PROVE LaneInv'
    BY <1>32 DEF PredicateFalse, WorkerFrame
  <1>33. ASSUME NEW l \in Lane, Sleep(l) PROVE LaneInv'
    BY <1>33 DEF Sleep, WorkerFrame
  <1>34. ASSUME NEW l \in Lane, SkipTask(l) PROVE LaneInv'
    BY <1>34 DEF SkipTask, WorkerFrame, ResultReady
  <1>35. ASSUME NEW l \in Lane, CallTask(l) PROVE LaneInv'
    BY <1>35 DEF CallTask, WorkerFrame
  <1>36. ASSUME NEW l \in Lane, PostChunk(l) PROVE LaneInv'
    BY <1>36 DEF PostChunk, WorkerFrame
  <1>37. ASSUME NEW l \in Lane, EnqueueChunk(l) PROVE LaneInv'
    BY <1>37 DEF EnqueueChunk, WorkerFrame
  <1>38. ASSUME NEW l \in Lane, TaskReturns(l) PROVE LaneInv'
    BY <1>38 DEF TaskReturns, WorkerFrame, ResultReady
  <1>39. ASSUME NEW l \in Lane, TaskInputEnds(l) PROVE LaneInv'
    BY <1>39 DEF TaskInputEnds, WorkerFrame, ResultReady
  <1>40. ASSUME NEW l \in Lane, NoteFinal(l) PROVE LaneInv'
    BY <1>40 DEF NoteFinal, WorkerFrame
  <1>41. ASSUME NEW l \in Lane, EnqueueFinal(l) PROVE LaneInv'
    BY <1>41 DEF EnqueueFinal, WorkerFrame
  <1>42. ASSUME NEW l \in Lane, ForgetTask(l) PROVE LaneInv'
    BY <1>42 DEF ForgetTask, WorkerFrame
  <1>43. ASSUME NEW l \in Lane, Exit(l) PROVE LaneInv'
    BY <1>43 DEF Exit, WorkerFrame
  <1>44. ASSUME NEW l \in Lane, Die(l) PROVE LaneInv'
    BY <1>44 DEF Die, WorkerFrame
  <1>45. ASSUME NEW i \in 1..Len(results), PumpOne(i) PROVE LaneInv'
    BY <1>45 DEF PumpOne, EnterUnregister, SetFlagAndNotify, Woken, EndsSource
  <1>46. CASE UNCHANGED vars
    BY <1>46 DEF vars
  <1>47. QED
    BY <1>1, <1>2, <1>3, <1>4, <1>5, <1>6, <1>7, <1>8, <1>9, <1>10, <1>11, <1>12, <1>13,
       <1>14, <1>15, <1>16, <1>17, <1>18, <1>19, <1>20, <1>21, <1>22, <1>23, <1>24, <1>25,
       <1>26, <1>27, <1>28, <1>29, <1>30, <1>31, <1>32, <1>33, <1>34, <1>35, <1>36, <1>37,
       <1>38, <1>39, <1>40, <1>41, <1>42, <1>43, <1>44, <1>45, <1>46
    DEF Next, UiCall, UiPump, UiStep, WorkerStep, WorkerInput, Terminated

-----------------------------------------------------------------------------
(***************************************************************************)
(* Layer 3.                                                                *)
(***************************************************************************)

\* What push_back() adds to a queue.
LEMMA ElementsAppend ==
  ASSUME NEW S, NEW s \in Seq(S), NEW x \in S
  PROVE  Elements(Append(s, x)) = Elements(s) \cup {x}
  BY DEF Elements

\* What popNextRequestLocked() takes from a queue.
LEMMA ElementsTail ==
  ASSUME NEW S, NEW s \in Seq(S), s # <<>>
  PROVE  /\ Head(s) \in S /\ Tail(s) \in Seq(S)
         /\ Elements(s) = {Head(s)} \cup Elements(Tail(s))
  BY SMTT(30) DEF Elements

\* In the initial state there are no tasks.
LEMMA TaskInit == Init => TaskInv
  BY DEF Init, TaskInv, KnownTasks, OnePlace, NothingLeftBehind, OneShotLanes, CurrentIsHeld,
     CancelReachesEveryTask, StopReachesEveryTask, Has, HoldingPc, InHand, Unreturned, Elements, Distinct

\* A new request keeps the requests of a queue distinct.
LEMMA DistinctAppend ==
  ASSUME NEW S, NEW s \in Seq(S), NEW x \in S, Distinct(s), x \notin Elements(s)
  PROVE  Distinct(Append(s, x))
  BY DEF Distinct, Elements

\* A popped request is not queued a second time.
LEMMA DistinctTail ==
  ASSUME NEW S, NEW s \in Seq(S), s # <<>>, Distinct(s)
  PROVE  Distinct(Tail(s)) /\ Head(s) \notin Elements(Tail(s))
  BY DEF Distinct, Elements

\* A step that sets flags and wakes sleeping workers moves no task.
LEMMA TaskWake ==
  ASSUME TypeInv, TaskInv, ui # "cancel", ui' # "push",
         UNCHANGED <<queue, held, current, life, stop, mode, nextTaskId, taskCancelFlags>>,
         \A t \in Task : cancelFlag[t] => cancelFlag'[t],
         wpc' = wpc \/ (\E S \in SUBSET Lane : wpc' = Woken(S))
  PROVE TaskInv'
  <1>t. TaskTypes BY DEF TypeInv, TypeOK, TaskTypes
  <1>1. \A l \in Lane : wpc'[l] = wpc[l] \/ (wpc[l] = "asleep" /\ wpc'[l] = "wait")
    BY <1>t DEF Woken, TaskTypes
  <1>2. (KnownTasks /\ OnePlace)'
    BY <1>1, <1>t DEF TaskInv, KnownTasks, OnePlace, Has, HoldingPc
  <1>3. (NothingLeftBehind /\ OneShotLanes /\ CurrentIsHeld)'
    BY <1>1, <1>t DEF TaskInv, NothingLeftBehind, OneShotLanes, CurrentIsHeld, HoldingPc
  <1>4. CancelReachesEveryTask'
    BY <1>1, <1>t DEF TaskInv, CancelReachesEveryTask, InHand
  <1>5. \A l \in Lane : Unreturned(l)' \subseteq Unreturned(l) /\ Unreturned(l) \subseteq Task
    BY <1>1, <1>t DEF Unreturned, TaskTypes, HeldTask, HoldingPc, Elements
  <1>6. StopReachesEveryTask'
    BY <1>5, <1>t DEF TaskInv, StopReachesEveryTask, TaskTypes
  <1>7. QED
    BY <1>2, <1>3, <1>4, <1>6 DEF TaskInv

\* submitToLaneState(): the new task goes to one lane, which will serve it.
LEMMA TaskPush ==
  ASSUME TypeInv, LaneInv, TaskInv, NEW k, NEW c, Push(k, c) PROVE TaskInv'
  <1>t. TaskTypes /\ uiLane \in Lane /\ nextTaskId \in Task
     BY DEF TypeInv, TypeOK, TaskTypes, Push
  <1> DEFINE t == nextTaskId
  <1>1. ~stop[uiLane]
     BY DEF Push, LaneInv, StoppedLanes, UiLaneOwned, ShutdownPhase
  <1>2. wpc[uiLane] \notin {"none", "exit", "retired", "dead"}
     BY <1>1, <1>t DEF Push, LaneInv, KeptLanes, UiLaneOwned, ThreadOfLane, TaskInv, OneShotLanes
  <1>3. /\ \A l \in Lane \ {uiLane} : queue'[l] = queue[l]
        /\ queue'[uiLane] = Append(queue[uiLane], t)
        /\ \A l \in Lane \ {uiLane} : Elements(queue'[l]) = Elements(queue[l])
        /\ Elements(queue'[uiLane]) = Elements(queue[uiLane]) \cup {t}
     <2>1. queue' = [queue EXCEPT ![uiLane] = Append(queue[uiLane], t)]
       BY DEF Push
     <2>2. Elements(Append(queue[uiLane], t)) = Elements(queue[uiLane]) \cup {t}
       BY <1>t, ElementsAppend DEF TaskTypes
     <2>3. QED
       BY <1>t, <2>1, <2>2 DEF TaskTypes
  <1>4. /\ UNCHANGED <<held, stop, mode>> /\ nextTaskId' = t + 1
        /\ \A l \in Lane : wpc'[l] = wpc[l] \/ (wpc[l] = "asleep" /\ wpc'[l] = "wait")
        /\ ui' # "push" /\ ui' # "cancel" /\ ui # "cancel"
        /\ taskCancelFlags' = taskCancelFlags \cup {t}
        /\ cancelFlag' = [cancelFlag EXCEPT ![t] = FALSE]
     BY <1>t DEF Push, Woken, TaskTypes
  <1>5. \A l \in Lane : Elements(queue[l]) \subseteq Task
     BY <1>t DEF Elements, TaskTypes
  <1>6. \A l \in Lane : ~Has(l, t)
     BY <1>t DEF TaskInv, KnownTasks, TaskTypes
  <1>7. \A l \in Lane : \A x \in Task : Has(l, x)' <=> Has(l, x) \/ (l = uiLane /\ x = t)
     BY <1>3, <1>4, <1>5 DEF Has, HoldingPc
  <1>8. KnownTasks'
     BY <1>7, <1>4, <1>t DEF KnownTasks, TaskInv, TaskTypes
  <1>9. OnePlace'
    <2>1. (\A l, m \in Lane, x \in Task : Has(l, x) /\ Has(m, x) => l = m)'
       BY <1>7, <1>6 DEF TaskInv, OnePlace
    <2>2. (\A l \in Lane : wpc[l] \in HoldingPc => held[l] \notin Elements(queue[l]))'
       BY <1>3, <1>4, <1>6 DEF TaskInv, OnePlace, HoldingPc, Has
    <2>3. (\A l \in Lane : Distinct(queue[l]))'
       <3>1. t \notin Elements(queue[uiLane])
         BY <1>6, <1>t DEF Has
       <3>2. Distinct(queue'[uiLane])
         BY <1>t, <1>3, <3>1, DistinctAppend DEF TaskInv, OnePlace, TaskTypes
       <3>4. QED
         BY <1>3, <3>2 DEF TaskInv, OnePlace
    <2>4. QED
      BY <2>1, <2>2, <2>3 DEF OnePlace
  <1>10. NothingLeftBehind'
    BY <1>2, <1>3, <1>4 DEF NothingLeftBehind, TaskInv
  <1>11. OneShotLanes'
    <2>1. mode[uiLane] = "oneshot"
            => queue[uiLane] = <<>> /\ wpc[uiLane] \in {"boot", "wait", "presleep", "asleep"}
      BY <1>t DEF TaskInv, OneShotLanes, Push
    <2>2. mode[uiLane] = "oneshot" => Len(queue'[uiLane]) = 1
      BY <2>1, <1>3, <1>t
    <2>3. QED
      BY <2>1, <2>2, <1>3, <1>4, <1>t DEF OneShotLanes, TaskInv, HoldingPc
  <1>12. CurrentIsHeld'
    BY <1>1, <1>4, <1>t DEF CurrentIsHeld, TaskInv, Push, CurrentWith, TaskTypes
  <1>13. CancelReachesEveryTask'
    BY <1>3, <1>4 DEF CancelReachesEveryTask, TaskInv, InHand
  <1>14. StopReachesEveryTask'
    <2> SUFFICES ASSUME NEW l \in Lane, stop[l], NEW x \in Unreturned(l)' PROVE cancelFlag'[x]
      BY <1>4 DEF StopReachesEveryTask
    <2>1. l # uiLane BY <1>1
    <2>2. x \in Unreturned(l) /\ x \in Task
      BY <2>1, <1>3, <1>4, <1>5, <1>t DEF Unreturned, TaskTypes, HeldTask, HoldingPc
    <2>3. x # t
      BY <2>2, <1>6 DEF Unreturned, Has, HoldingPc
    <2>4. cancelFlag[x]
      BY <2>2, <1>4 DEF TaskInv, StopReachesEveryTask
    <2>5. QED
      BY <2>2, <2>3, <2>4, <1>4, <1>t DEF TaskTypes
  <1>15. QED
    BY <1>8, <1>9, <1>10, <1>11, <1>12, <1>13, <1>14 DEF TaskInv

\* popNextRequestLocked(): a task moves from the queue into the worker's hands.
LEMMA TaskPop ==
  ASSUME TypeInv, LaneInv, TaskInv, NEW l \in Lane, PopRequest(l) PROVE TaskInv'
  <1>t. TaskTypes BY DEF TypeInv, TypeOK, TaskTypes
  <1> DEFINE t == Head(queue[l])
  <1>1. /\ t \in Task /\ Elements(queue[l]) = {t} \cup Elements(Tail(queue[l]))
        /\ Distinct(Tail(queue[l])) /\ t \notin Elements(Tail(queue[l]))
     <2>1. queue[l] \in Seq(Task) /\ queue[l] # <<>> /\ Distinct(queue[l])
       BY <1>t DEF TaskTypes, PopRequest, TaskInv, OnePlace
     <2>2. QED
       BY <2>1, ElementsTail, DistinctTail
  <1>2. /\ held' = [held EXCEPT ![l] = t] /\ current' = [current EXCEPT ![l] = t]
        /\ queue' = [queue EXCEPT ![l] = Tail(queue[l])] /\ life' = [life EXCEPT ![l] = "Running"]
        /\ wpc' = [wpc EXCEPT ![l] = "start"] /\ wpc[l] = "wait"
        /\ UNCHANGED <<taskCancelFlags, cancelFlag, nextTaskId, mode, stop, ui, uiLane>>
     BY DEF PopRequest, Popped, WorkerFrame, idVars, uiVars
  <1>3. \A m \in Lane : \A x \in Task : Has(m, x)' <=> Has(m, x)
     BY <1>1, <1>2, <1>t DEF Has, HoldingPc, TaskTypes
  <1>4. KnownTasks'
     BY <1>2, <1>3 DEF TaskInv, KnownTasks
  <1>5. OnePlace'
     <2>1. (\A k, m \in Lane, x \in Task : Has(k, x) /\ Has(m, x) => k = m)'
       BY <1>3 DEF TaskInv, OnePlace
     <2>2. (\A m \in Lane : wpc[m] \in HoldingPc => held[m] \notin Elements(queue[m]))'
       BY <1>1, <1>2, <1>t DEF TaskInv, OnePlace, TaskTypes, HoldingPc
     <2>3. (\A m \in Lane : Distinct(queue[m]))'
       BY <1>1, <1>2, <1>t DEF TaskInv, OnePlace, TaskTypes
     <2>4. QED
       BY <2>1, <2>2, <2>3 DEF OnePlace
  <1>6. NothingLeftBehind'
     BY <1>2, <1>t DEF TaskInv, NothingLeftBehind, TaskTypes
  <1>7. OneShotLanes'
     <2>1. mode[l] = "oneshot" => Tail(queue[l]) = <<>> /\ ~(ui = "push" /\ uiLane = l)
       BY <1>t DEF TaskInv, OneShotLanes, TaskTypes, PopRequest
     <2>2. QED
       BY <2>1, <1>2, <1>t DEF TaskInv, OneShotLanes, TaskTypes, HoldingPc
  <1>8. CurrentIsHeld'
     BY <1>2, <1>t DEF TaskInv, CurrentIsHeld, TaskTypes
  <1>9. CancelReachesEveryTask'
     BY <1>1, <1>2, <1>t DEF TaskInv, CancelReachesEveryTask, InHand, TaskTypes
  <1>10. StopReachesEveryTask'
     <2>1. \A m \in Lane : Unreturned(m)' \subseteq Unreturned(m)
       BY <1>1, <1>2, <1>t DEF Unreturned, TaskTypes
     <2>2. QED
       BY <2>1, <1>2 DEF TaskInv, StopReachesEveryTask
  <1>11. QED
    BY <1>4, <1>5, <1>6, <1>7, <1>8, <1>9, <1>10 DEF TaskInv

\* cancelPending(): the discarded requests are nowhere else.
LEMMA TaskClear ==
  ASSUME TypeInv, LaneInv, TaskInv, ClearLane PROVE TaskInv'
  <1>t. TaskTypes /\ uiLane \in Lane BY DEF TypeInv, TypeOK, TaskTypes, ClearLane, UiLaneValid
  <1>1. /\ queue' = [queue EXCEPT ![uiLane] = <<>>]
        /\ taskCancelFlags' = taskCancelFlags \ Elements(queue[uiLane])
        /\ \A l \in Lane : wpc'[l] = wpc[l] \/ (wpc[l] = "asleep" /\ wpc'[l] = "wait")
        /\ ui' = "sdloop" /\ ui = "clear"
        /\ UNCHANGED <<held, current, life, stop, mode, nextTaskId, cancelFlag>>
    BY <1>t DEF ClearLane, Woken, TaskTypes, idVars
  <1>2. \A l \in Lane : /\ queue'[l] = IF l = uiLane THEN <<>> ELSE queue[l]
                        /\ Elements(queue'[l]) = IF l = uiLane THEN {} ELSE Elements(queue[l])
    BY <1>1, <1>t DEF TaskTypes, Elements
  <1>3. \A l \in Lane, x \in Task : Has(l, x)' => Has(l, x)
    BY <1>1, <1>2 DEF Has, HoldingPc
  <1>4. KnownTasks'
    BY <1>1, <1>3 DEF TaskInv, KnownTasks
  <1>5. OnePlace'
    <2>1. Distinct(<<>>) BY DEF Distinct
    <2>2. QED
      BY <1>1, <1>2, <1>3, <2>1 DEF TaskInv, OnePlace, HoldingPc
  <1>6. (NothingLeftBehind /\ CurrentIsHeld)'
    BY <1>1, <1>2 DEF TaskInv, NothingLeftBehind, CurrentIsHeld
  <1>7. OneShotLanes'
    BY <1>1, <1>2 DEF TaskInv, OneShotLanes, HoldingPc
  <1>8. CancelReachesEveryTask'
    <2> SUFFICES ASSUME NEW l \in Lane, NEW x \in (Elements(queue[l]) \cup InHand(l))'
                 PROVE  x \in taskCancelFlags'
      BY DEF CancelReachesEveryTask
    <2>1. x \in Elements(queue[l]) \cup InHand(l)
      BY <1>1, <1>2 DEF InHand
    <2>2. x \in taskCancelFlags /\ x \in Task
      BY <2>1, <1>t DEF TaskInv, CancelReachesEveryTask, TaskTypes
    <2>3. Has(l, x)
      BY <2>1 DEF Has, InHand, HoldingPc
    <2>4. x \notin Elements(queue[uiLane])
      <3>1. CASE l = uiLane
        <4>1. x \in InHand(l)
          BY <3>1, <1>1, <1>2 DEF InHand
        <4>2. QED
          BY <3>1, <4>1 DEF InHand, TaskInv, OnePlace, HoldingPc
      <3>2. CASE l # uiLane
        BY <3>2, <2>2, <2>3, <1>t DEF Has, TaskInv, OnePlace
      <3>3. QED
        BY <3>1, <3>2
    <2>5. QED
      BY <1>1, <2>2, <2>4
  <1>9. StopReachesEveryTask'
     <2>1. \A m \in Lane : Unreturned(m)' \subseteq Unreturned(m)
       BY <1>1, <1>2 DEF Unreturned
     <2>2. QED
       BY <2>1, <1>1 DEF TaskInv, StopReachesEveryTask
  <1>10. QED
    BY <1>4, <1>5, <1>6, <1>7, <1>8, <1>9 DEF TaskInv

\* startLane() for a one-shot worker: the new lane has no task yet.
LEMMA TaskStart ==
  ASSUME TypeInv, LaneInv, TaskInv, StartOneShot PROVE TaskInv'
  <1>t. TaskTypes BY DEF TypeInv, TypeOK, TaskTypes
  <1> DEFINE l == nextWorkerOrdinal
  <1>1. /\ l \in Lane /\ wpc[l] = "none" /\ queue[l] = <<>>
    BY DEF StartOneShot, StartLane, LaneInv, FreshLanes, ThreadOfLane, TaskInv,
       NothingLeftBehind, TypeInv, TypeOK
  <1>2. /\ wpc' = [wpc EXCEPT ![l] = "boot"]
        /\ stop' = [stop EXCEPT ![l] = FALSE]
        /\ mode' = [mode EXCEPT ![l] = "oneshot"]
        /\ life' = [life EXCEPT ![l] = "Created"]
        /\ uiLane' = l /\ ui' = "push" /\ ui = "start"
        /\ UNCHANGED <<queue, current, held, nextTaskId, cancelFlag, taskCancelFlags>>
    BY DEF StartOneShot, StartLane, flagVars
  <1>3. (KnownTasks /\ OnePlace)'
    BY <1>1, <1>2, <1>t DEF TaskInv, KnownTasks, OnePlace, Has, HoldingPc, TaskTypes
  <1>4. (NothingLeftBehind /\ OneShotLanes /\ CurrentIsHeld)'
    BY <1>1, <1>2, <1>t DEF TaskInv, NothingLeftBehind, OneShotLanes, CurrentIsHeld, HoldingPc,
       TaskTypes
  <1>5. CancelReachesEveryTask'
    BY <1>1, <1>2, <1>t DEF TaskInv, CancelReachesEveryTask, InHand, TaskTypes
  <1>6. StopReachesEveryTask'
    BY <1>1, <1>2, <1>t DEF TaskInv, StopReachesEveryTask, Unreturned, TaskTypes
  <1>7. QED
    BY <1>3, <1>4, <1>5, <1>6 DEF TaskInv

\* A worker leaves its loop only when nothing is queued or will be.
LEMMA TaskLeave ==
  ASSUME TypeInv, LaneInv, TaskInv, NEW l \in Lane, LeaveLoop(l) PROVE TaskInv'
  <1>t. TaskTypes BY DEF TypeInv, TypeOK, TaskTypes
  <1>1. ~(ui = "push" /\ uiLane = l)
    BY DEF LeaveLoop, LaneInv, StoppedLanes, UiLaneOwned, ShutdownPhase
  <1>2. QED
    BY <1>1, <1>t DEF LeaveLoop, WorkerFrame, idVars, uiVars, TaskTypes, TaskInv, KnownTasks,
       OnePlace, NothingLeftBehind,
      OneShotLanes, CurrentIsHeld, CancelReachesEveryTask, StopReachesEveryTask, Has, HoldingPc,
      InHand, Unreturned

\* A task that was cancelled before it ran stays in the worker's hands.
LEMMA TaskSkip ==
  ASSUME TypeInv, LaneInv, TaskInv, NEW l \in Lane, SkipTask(l) PROVE TaskInv'
  <1>t. TaskTypes BY DEF TypeInv, TypeOK, TaskTypes
  <1>1. wpc[l] = "start" /\ ResultReady(l) /\ WorkerFrame
    /\ UNCHANGED <<queue, held, taskCancelFlags, results, srcVars, tResult, chunks>>
    BY DEF SkipTask
  <1>2. QED
    BY <1>1, <1>t DEF ResultReady, WorkerFrame, idVars, uiVars, TaskTypes, TaskInv, KnownTasks,
       OnePlace, NothingLeftBehind,
      OneShotLanes, CurrentIsHeld, CancelReachesEveryTask, StopReachesEveryTask, Has, HoldingPc,
      InHand, Unreturned

\* requestLaneStop(): queue and currentTask cover everything that may still run.
LEMMA TaskCancelLane ==
  ASSUME TypeInv, LaneInv, TaskInv, CancelLane PROVE TaskInv'
  <1>t. TaskTypes /\ uiLane \in Lane BY DEF TypeInv, TypeOK, TaskTypes, CancelLane, UiLaneValid
  <1>1. stop[uiLane] BY DEF CancelLane, LaneInv, StoppedLanes
  <1>2. /\ cancelFlag' = [t \in Task |-> t \in Doomed(uiLane) \/ cancelFlag[t]]
        /\ UNCHANGED <<home, mode, stop, queue, current, wpc, held, nextTaskId, taskCancelFlags, uiLane>>
        /\ \A l \in Lane : l # uiLane => life'[l] = life[l]
        /\ ui' = "notify"
    BY <1>t DEF CancelLane, idVars, TaskTypes
  <1>3. (KnownTasks /\ OnePlace /\ NothingLeftBehind /\ CancelReachesEveryTask)'
    BY <1>2 DEF TaskInv, KnownTasks, OnePlace, NothingLeftBehind, CancelReachesEveryTask, Has,
       InHand
  <1>4. (OneShotLanes /\ CurrentIsHeld)'
    BY <1>1, <1>2 DEF TaskInv, OneShotLanes, CurrentIsHeld
  <1>5. StopReachesEveryTask'
    <2>1. \A l \in Lane : Unreturned(l)' = Unreturned(l) /\ Unreturned(l) \subseteq Task
      BY <1>2, <1>t DEF Unreturned, TaskTypes, HeldTask, HoldingPc, Elements
    <2>2. Unreturned(uiLane) \subseteq Doomed(uiLane)
      BY <1>t DEF Unreturned, Doomed, TaskInv, CurrentIsHeld
    <2>3. QED
      BY <1>2, <2>1, <2>2, <1>t DEF TaskInv, StopReachesEveryTask
  <1>6. QED
    BY <1>3, <1>4, <1>5 DEF TaskInv

\* shutdown() drops the flags when no thread is left.
LEMMA TaskShutdownEnd ==
  ASSUME TypeInv, LaneInv, TaskInv, ShutdownEnd PROVE TaskInv'
  <1>t. TaskTypes BY DEF TypeInv, TypeOK, TaskTypes
  <1>1. \A l \in Lane : wpc[l] \in {"none", "dead"} /\ queue[l] = <<>>
    BY DEF ShutdownEnd, LaneInv, NoThreadLeft, TaskInv, NothingLeftBehind
  <1>2. UNCHANGED laneVars /\ UNCHANGED idVars /\ UNCHANGED cancelFlag /\ ui' = "down"
    BY DEF ShutdownEnd
  <1>3. QED
    BY <1>1, <1>2, <1>t, SMTT(30) DEF laneVars, idVars, TaskTypes, TaskInv, KnownTasks, OnePlace,
       NothingLeftBehind,
      OneShotLanes, CurrentIsHeld, CancelReachesEveryTask, StopReachesEveryTask, Has, HoldingPc,
      InHand, Unreturned, Elements

\* unregisterExternalSource() cancels the reader and moves no task.
LEMMA TaskClose ==
  ASSUME TypeInv, LaneInv, TaskInv, NEW s, NEW r, ui \in {"idle", "pump"}, EnterUnregister(s, r),
     UNCHANGED <<queue, held, current, life, stop, mode, nextTaskId, taskCancelFlags>> PROVE TaskInv'
  <1>t. TaskTypes BY DEF TypeInv, TypeOK, TaskTypes
  <1>1. \A t \in Task : cancelFlag[t] => cancelFlag'[t]
    BY <1>t DEF EnterUnregister, SetFlagAndNotify, TaskTypes
  <1>2. wpc' = wpc \/ (\E S \in SUBSET Lane : wpc' = Woken(S))
    <2>1. Notifiable \in SUBSET Lane BY DEF Notifiable
    <2>2. QED
      BY <2>1 DEF EnterUnregister, SetFlagAndNotify
  <1>3. ui # "cancel" /\ ui' # "push"
    BY DEF EnterUnregister
  <1>4. QED
    BY <1>1, <1>2, <1>3, TaskWake

\* One turn of the pump loop moves no task.
LEMMA TaskPump ==
  ASSUME TypeInv, LaneInv, TaskInv, NEW i \in 1..Len(results), PumpOne(i) PROVE TaskInv'
  <1>1. /\ UNCHANGED <<queue, held, current, life, stop, mode, nextTaskId, taskCancelFlags>>
        /\ ui \in {"idle", "pump"}
    BY DEF PumpOne, idVars
  <1>2. CASE EndsSource(results[i])
    <2>1. EnterUnregister(channel[results[i].task], "pump")
      BY <1>2 DEF PumpOne
    <2>2. QED
      BY <2>1, <1>1, TaskClose
  <1>3. CASE ~EndsSource(results[i])
    <2>1. ui' = "pump" /\ UNCHANGED <<cancelFlag, wpc>>
      BY <1>3 DEF PumpOne
    <2>2. QED
      BY <2>1, <1>1, TaskWake
  <1>4. QED
    BY <1>2, <1>3

\* Every step keeps the tasks in their places.
LEMMA TaskStep == TypeInv /\ LaneInv /\ TaskInv /\ [Next]_vars => TaskInv'
  <1> SUFFICES ASSUME TypeInv, LaneInv, TaskInv, [Next]_vars PROVE TaskInv'
    OBVIOUS
  <1>1. CASE PushOneShot \/ PushKept \/ PushExternal
    BY <1>1, TaskPush DEF PushOneShot, PushKept, PushExternal
  <1>2. ASSUME NEW s \in Source, CloseSource(s) PROVE TaskInv'
    BY <1>2, TaskClose DEF CloseSource, idVars
  <1>3. TaskTypes
    BY DEF TypeInv, TypeOK, TaskTypes
  <1> USE BoundsAssumption, <1>3 DEF TaskInv, TaskTypes, KnownTasks, OnePlace, NothingLeftBehind,
      OneShotLanes, CurrentIsHeld, CancelReachesEveryTask, StopReachesEveryTask, Has, HoldingPc,
      InHand, Unreturned, UiLaneValid, HeldTask, laneVars, idVars, flagVars, uiVars
  <1>4. CASE BeginSubmit
    BY <1>4 DEF BeginSubmit
  <1>5. CASE RegisterWorker
    BY <1>5 DEF RegisterWorker, StartLane
  <1>6. ASSUME NEW l \in Lane, SubmitWorker(l) PROVE TaskInv'
    BY <1>6 DEF SubmitWorker
  <1>7. CASE OpenSource
    BY <1>7 DEF OpenSource, StartLane
  <1>8. CASE MarkRunning
    BY <1>8 DEF MarkRunning
  <1>9. ASSUME NEW t \in Task, CancelTask(t) PROVE TaskInv'
    BY <1>9 DEF CancelTask, SetFlagAndNotify, Woken
  <1>10. ASSUME NEW l \in Lane, UnregisterWorker(l) PROVE TaskInv'
    BY <1>10 DEF UnregisterWorker
  <1>11. CASE StopLane
    BY <1>11 DEF StopLane
  <1>12. CASE NotifyLane
    BY <1>12 DEF NotifyLane, Woken
  <1>13. CASE RetireLane
    BY <1>13 DEF RetireLane
  <1>14. CASE PumpEnd
    BY <1>14 DEF PumpEnd
  <1>15. CASE Reap
    BY <1>15 DEF Reap
  <1>16. CASE Join
    BY <1>16 DEF Join, DestroyJoined
  <1>17. CASE Shutdown
    BY <1>17 DEF Shutdown
  <1>18. CASE CancelPendingFlags
    BY <1>18 DEF CancelPendingFlags
  <1>19. ASSUME NEW l \in Lane, CancelPendingNext(l) PROVE TaskInv'
    BY <1>19 DEF CancelPendingNext
  <1>20. CASE ShutdownMove
    BY <1>20 DEF ShutdownMove
  <1>21. CASE ShutdownJoin
    BY <1>21 DEF ShutdownJoin, DestroyJoined
  <1>22. CASE DrainOne
    BY <1>22 DEF DrainOne
  <1>23. CASE DrainEnd
    BY <1>23 DEF DrainEnd
  <1>24. ASSUME NEW l \in Lane, Boot(l) PROVE TaskInv'
    BY <1>24 DEF Boot, WorkerFrame
  <1>25. ASSUME NEW l \in Lane, PredicateFalse(l) PROVE TaskInv'
    BY <1>25 DEF PredicateFalse, WorkerFrame, WaitPredicate
  <1>26. ASSUME NEW l \in Lane, Sleep(l) PROVE TaskInv'
    BY <1>26 DEF Sleep, WorkerFrame
  <1>27. ASSUME NEW l \in Lane, CallTask(l) PROVE TaskInv'
    BY <1>27 DEF CallTask, WorkerFrame
  <1>28. ASSUME NEW l \in Lane, PostChunk(l) PROVE TaskInv'
    BY <1>28 DEF PostChunk, WorkerFrame
  <1>29. ASSUME NEW l \in Lane, EnqueueChunk(l) PROVE TaskInv'
    BY <1>29 DEF EnqueueChunk, WorkerFrame
  <1>30. ASSUME NEW l \in Lane, TaskReturns(l) PROVE TaskInv'
    BY <1>30 DEF TaskReturns, WorkerFrame, ResultReady
  <1>31. ASSUME NEW l \in Lane, TaskInputEnds(l) PROVE TaskInv'
    BY <1>31 DEF TaskInputEnds, WorkerFrame, ResultReady
  <1>32. ASSUME NEW l \in Lane, NoteFinal(l) PROVE TaskInv'
    BY <1>32 DEF NoteFinal, WorkerFrame
  <1>33. ASSUME NEW l \in Lane, EnqueueFinal(l) PROVE TaskInv'
    BY <1>33 DEF EnqueueFinal, WorkerFrame
  <1>34. ASSUME NEW l \in Lane, ForgetTask(l) PROVE TaskInv'
    BY <1>34 DEF ForgetTask, WorkerFrame, Forgotten
  <1>35. ASSUME NEW l \in Lane, Exit(l) PROVE TaskInv'
    BY <1>35, SMTT(30) DEF Exit, WorkerFrame
  <1>36. ASSUME NEW l \in Lane, Die(l) PROVE TaskInv'
    BY <1>36 DEF Die, WorkerFrame
  <1>37. CASE UNCHANGED vars
    BY <1>37 DEF vars
  <1>38. QED
    BY <1>1, <1>2, <1>4, <1>5, <1>6, <1>7, <1>8, <1>9, <1>10, <1>11, <1>12, <1>13, <1>14,
       <1>15, <1>16, <1>17, <1>18, <1>19, <1>20, <1>21, <1>22, <1>23, <1>24, <1>25, <1>26,
       <1>27, <1>28, <1>29, <1>30, <1>31, <1>32, <1>33, <1>34, <1>35, <1>36, <1>37,
       TaskStart, TaskPop, TaskClear, TaskLeave, TaskSkip, TaskCancelLane, TaskShutdownEnd,
       TaskPump
    DEF Next, UiCall, UiPump, UiStep, WorkerStep, WorkerInput, Terminated

-----------------------------------------------------------------------------
(***************************************************************************)
(* The theorems.                                                           *)
(***************************************************************************)

\* The three layers together are an invariant of the coprocessor.
THEOREM Invariance == Spec => []IndInv
  <1>1. Init => IndInv
    BY TypeInit, LaneInit, TaskInit DEF IndInv
  <1>2. IndInv /\ [Next]_vars => IndInv'
    BY TypeStep, LaneStep, TaskStep DEF IndInv
  <1>3. QED
    BY <1>1, <1>2, PTL DEF Spec

\* cancelTask(), cancelExternalSource() and cancelPending() find the flag of every
\* task that waits or is being worked on.
THEOREM CancelReaches == Spec => []CancelReachesEveryTask
  <1>1. IndInv => CancelReachesEveryTask
    BY DEF IndInv, TaskInv
  <1>2. QED
    BY <1>1, Invariance, PTL

\* requestLaneStop() tells every task its lane may still call or is running,
\* wherever the worker was when it was called.
THEOREM StopReaches == Spec => []StopReachesEveryTask
  <1>1. IndInv => StopReachesEveryTask
    BY DEF IndInv, TaskInv
  <1>2. QED
    BY <1>1, Invariance, PTL

\* No LaneState is destroyed while its thread lives or the UI thread points to it.
THEOREM NoDangling == Spec => []NoDanglingLane
  <1>1. IndInv => NoDanglingLane
    BY DEF IndInv, LaneInv, ThreadOfLane, UiLaneOwned, ShutdownPhase, NoDanglingLane
  <1>2. QED
    BY <1>1, Invariance, PTL
============================================================================
