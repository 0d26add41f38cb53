-------------------------- MODULE RuntimeScheduler --------------------------
(***************************************************************************)
(* The runtime scheduler: the timers of modeless macro windows and the     *)
(* ticking closures of loaded macro files (scheduled consumers), the UI    *)
(* timer that wakes the scheduler, pumpRuntimeScheduler() with the list of *)
(* due consumers it collects and then starts one by one, and the execution *)
(* sessions it starts, on the UI thread, yielded on DELAY or on a worker.  *)
(*                                                                         *)
(* A macro on the UI thread may open a dialog; the dialog's event loop     *)
(* serves timers, results and closing windows while the pump that started  *)
(* the macro is still on the stack: `frames' is that stack.  Points in     *)
(* time are counted down to 0.  A consumer registered again has a new id:  *)
(* the lists of older pumps then name a consumer that no longer exists.    *)
(* Left out: event records and logging, debugger sessions, and the locks   *)
(* (module SchedulerLocks).                                                *)
(***************************************************************************)
EXTENDS Integers, Sequences, FiniteSets

CONSTANTS
    Timers,     \* timers of modeless windows (MMP_TIMER_START)
    Closures,   \* closures with DEF_TICK
    Windows,    \* modeless windows
    OwnerOf,    \* the window of each timer
    Interval,   \* intervalMs of each consumer
    Sessions,   \* execution sessions; an id is used again once it is forgotten
    MaxDepth,   \* bound on nested pumps
    None

Keys == Timers \cup Closures

ASSUME SchedulerAssumption ==
    /\ Timers \cap Closures = {}
    /\ OwnerOf \in [Timers -> Windows]
    /\ Interval \in [Keys -> Nat \ {0}]
    /\ MaxDepth \in Nat \ {0}
    /\ None \notin Keys \cup Sessions \cup Nat

VARIABLES
    open,       \* the open modeless windows
    registered, \* the registered consumers
    due,        \* countdown of nextDueMs; 0 when due or not set
    active,     \* activeSessionId of each consumer, or None
    nextPump,   \* countdown of nextPumpMs; 0 when unset or past
    timer,      \* countdown of runtimeSchedulerTimer, or None
    session,    \* execution sessions: state and the consumer they run for
    job,        \* a macro job of the user on a worker
    frames,     \* pumps on the stack of the UI thread, innermost last
    nested      \* history: a pump has begun in the event loop of a dialog

vars == <<open, registered, due, active, nextPump, timer, session, job, frames, nested>>

\* due: collected and not yet started; live: those whose consumer id still
\* exists; key, run: the callback running on the UI thread and its session
Frame == [due : SUBSET Keys, live : SUBSET Keys, wake : Nat \cup {None},
          key : Keys \cup {None}, run : Sessions \cup {None}, modal : BOOLEAN]

TypeOK ==
    /\ open \subseteq Windows /\ registered \subseteq Keys
    /\ due \in [Keys -> Nat]
    /\ active \in [Keys -> Sessions \cup {None}]
    /\ nextPump \in Nat
    /\ timer \in Nat \cup {None}
    /\ session \in [Sessions -> [state : {"free", "queued", "ran", "ui", "yielded"},
                                 key : Keys \cup {None}]]
    /\ job \in {"idle", "running", "done"}
    /\ frames \in Seq(Frame)
    /\ nested \in BOOLEAN
-----------------------------------------------------------------------------
Top == frames[Len(frames)]
WithTop(f) == [frames EXCEPT ![Len(frames)] = f]

\* The event loop runs: of the application, or of a dialog a macro opened.
UiFree == frames # <<>> => Top.modal

\* A macro may be running on the UI thread (in a dialog's loop, a resumed one).
MacroRuns == frames # <<>> => Top.key # None

\* Mutant: a time in the past wraps around instead of being due.
Wraps(n) == IF n = None THEN n ELSE n - 1
Before(n) == IF n = None \/ n = 0 THEN n ELSE n - 1
AtLeastOne(n) == IF n = 0 THEN 1 ELSE n
Earliest(S) == CHOOSE n \in S : \A m \in S : n <= m

Forgotten == [state |-> "free", key |-> None]
Free == {s \in Sessions : session[s].state = "free"}

Init ==
    /\ open = {} /\ registered = {}
    /\ due = [k \in Keys |-> 0]
    /\ active = [k \in Keys |-> None]
    /\ nextPump = 0 /\ timer = None
    /\ session = [s \in Sessions |-> Forgotten]
    /\ job = "idle"
    /\ frames = <<>> /\ nested = FALSE

Tick ==
    /\ due' = [k \in Keys |-> Before(due[k])]
    /\ nextPump' = Before(nextPump)
    /\ timer' = Before(timer)
    /\ frames' = [i \in DOMAIN frames |-> [frames[i] EXCEPT !.wake = Before(@)]]
    /\ UNCHANGED <<open, registered, active, session, job, nested>>
-----------------------------------------------------------------------------
\* cmMrRuntimeScheduleChanged: killTimer and setTimer(1)
Armed == 1

\* registering and removing store nextPumpMs 0
PumpNow == 0

\* The ids of the consumers of K exist no more.
Gone(K) == frames' = [i \in DOMAIN frames |-> [frames[i] EXCEPT !.live = @ \ K]]

\* removeRuntimeScheduledConsumersLocked and, with register, the replacement
Reset(K) ==
    /\ due' = [k \in Keys |-> IF k \in K THEN 0 ELSE due[k]]
    /\ active' = [k \in Keys |-> IF k \in K THEN None ELSE active[k]]
    /\ nextPump' = PumpNow
    /\ Gone(K)

OpenWindow(w) ==
    /\ MacroRuns
    /\ w \notin open
    /\ open' = open \cup {w}
    /\ UNCHANGED <<registered, due, active, nextPump, timer, session, job, frames, nested>>

\* MMP_TIMER_START
TimerStart(k) ==
    /\ MacroRuns
    /\ OwnerOf[k] \in open
    /\ Reset({k})
    /\ registered' = registered \cup {k}
    /\ timer' = Armed
    /\ UNCHANGED <<open, session, job, nested>>

\* MMP_TIMER_STOP, and the unloading of a macro file with a closure
Stop(k) ==
    /\ MacroRuns
    /\ k \in registered
    /\ Reset({k})
    /\ registered' = registered \ {k}
    /\ timer' = Armed
    /\ UNCHANGED <<open, session, job, nested>>

LoadClosure(k) ==
    /\ MacroRuns
    /\ Reset({k})
    /\ registered' = registered \cup {k}
    /\ timer' = Armed
    /\ UNCHANGED <<open, session, job, nested>>

\* Mutant: closing a window leaves its timers registered.
KeepsTimers(w) == {}
Owned(w) == {k \in Timers : OwnerOf[k] = w}

\* Mutant: the sessions of a closing window go without an observed result.
NotObserved(S) == active
\* publishMacroExecutionResult: the scheduler's listener finds the consumer
\* whose activeSessionId the result names
Observed(S) == [k \in Keys |-> IF active[k] \in S THEN None ELSE active[k]]

\* MRMacroModelessWindow::close: the consumers first, then the yielded sessions
CloseWindow(w) ==
    /\ UiFree
    /\ w \in open
    /\ open' = open \ {w}
    /\ Reset(registered \cap Owned(w))
    /\ registered' = registered \ Owned(w)
    /\ timer' = Armed
    /\ session' = [s \in Sessions |-> IF session[s].state = "yielded" /\ session[s].key \in Owned(w)
                                      THEN Forgotten ELSE session[s]]
    /\ UNCHANGED <<job, nested>>
-----------------------------------------------------------------------------
(* Workers.  A macro holds the VM's execution mutex while it runs, so its   *)
(* run is one step for the UI thread, which needs that mutex for each of    *)
(* the steps above.                                                         *)

SubmitJob ==
    /\ MacroRuns
    /\ job = "idle"
    /\ job' = "running"
    /\ UNCHANGED <<open, registered, due, active, nextPump, timer, session, frames, nested>>

\* What RUN_MACRO does to the scheduler on a worker: nothing, or it compiles an
\* evicted file with a closure again, or unloads one that is marked DUMP.
\* scheduleRuntimeTimerSource() returns early there.
WorkerLoads ==
    \/ UNCHANGED <<registered, due, active, nextPump, frames>>
    \/ \E k \in Closures : Reset({k}) /\ registered' = registered \cup {k}
    \/ \E k \in registered \cap Closures : Reset({k}) /\ registered' = registered \ {k}

JobRuns ==
    /\ job = "running"
    /\ job' = "done"
    /\ WorkerLoads
    /\ UNCHANGED <<open, timer, session, nested>>

WorkerRuns(s) ==
    /\ session[s].state = "queued"
    /\ session' = [session EXCEPT ![s].state = "ran"]
    /\ WorkerLoads
    /\ UNCHANGED <<open, timer, job, nested>>

\* Mutant: only the results of scheduled sessions arm the timer.
NotArmed == timer
\* handleCoprocessorResult: every MacroJob result arms the timer
ArmedByResult == Armed

DeliverJob ==
    /\ UiFree
    /\ job = "done"
    /\ job' = "idle"
    /\ timer' = ArmedByResult
    /\ UNCHANGED <<open, registered, due, active, nextPump, session, frames, nested>>

Deliver(s) ==
    /\ UiFree
    /\ session[s].state = "ran"
    /\ timer' = ArmedByResult
    /\ active' = Observed({s})
    /\ session' = [session EXCEPT ![s] = Forgotten]
    /\ UNCHANGED <<open, registered, due, nextPump, job, frames, nested>>

\* pumpForegroundMacroDelays, for a session that runs to its end
ResumeDelay(s) ==
    /\ UiFree
    /\ session[s].state = "yielded"
    /\ active' = Observed({s})
    /\ session' = [session EXCEPT ![s] = Forgotten]
    /\ UNCHANGED <<open, registered, due, nextPump, timer, job, frames, nested>>
-----------------------------------------------------------------------------
(* The pump. *)

\* Mutant: the tick of a consumer whose session still runs is not skipped.
NeverSkipped(K) == K
Startable(K) == {k \in K : active[k] = None}

Frozen(wake) == [due |-> {}, live |-> {}, wake |-> wake, key |-> None, run |-> None, modal |-> FALSE]

\* The bound on sessions: every collected consumer can be given one.
Pending == UNION {frames[i].due \X {i} : i \in DOMAIN frames}
EnoughSessions == Cardinality(Free) >= Cardinality(Pending) + Cardinality(Keys)

\* cmTimerExpired up to the point where pumpRuntimeScheduler releases its mutex
TimerExpired ==
    /\ UiFree
    /\ timer = 0
    /\ Len(frames) < MaxDepth /\ EnoughSessions
    /\ timer' = None
    /\ nested' = (nested \/ frames # <<>>)
    /\ \/ /\ registered = {}
          /\ nextPump' = 0
          /\ frames' = Append(frames, Frozen(None))
          /\ UNCHANGED due
       \/ /\ registered # {} /\ nextPump > 0
          /\ frames' = Append(frames, Frozen(nextPump))
          /\ UNCHANGED <<due, nextPump>>
       \/ /\ registered # {} /\ nextPump = 0
          /\ LET K == {k \in registered : due[k] = 0}
             IN  /\ due' = [k \in Keys |-> IF k \in K THEN Interval[k] ELSE due[k]]
                 /\ nextPump' = Earliest({due'[k] : k \in registered})
                 /\ frames' = Append(frames, [Frozen(nextPump') EXCEPT !.due = Startable(K),
                                                                       !.live = Startable(K)])
    /\ UNCHANGED <<open, registered, active, session, job>>

MayStart(k) == frames # <<>> /\ Top.key = None /\ k \in Top.due

\* recordRuntimeScheduledConsumerStartResult: silent when the consumer is gone
Recorded(k, live, s) == active' = IF k \in live THEN [active EXCEPT ![k] = s] ELSE active

\* a window's timer, or a closure while no editor window is active
StartOnUi(k) ==
    /\ MayStart(k)
    /\ \E s \in Free :
        /\ session' = [session EXCEPT ![s] = [state |-> "ui", key |-> k]]
        /\ frames' = WithTop([Top EXCEPT !.due = @ \ {k}, !.key = k, !.run = s])
    /\ UNCHANGED <<open, registered, due, active, nextPump, timer, job, nested>>

\* a closure whose launcher is staged on a worker
StartOnWorker(k) ==
    /\ MayStart(k) /\ k \in Closures
    /\ \E s \in Free :
        /\ session' = [session EXCEPT ![s] = [state |-> "queued", key |-> k]]
        /\ Recorded(k, Top.live, s)
    /\ frames' = WithTop([Top EXCEPT !.due = @ \ {k}])
    /\ UNCHANGED <<open, registered, due, nextPump, timer, job, nested>>

\* the launcher does not compile, or there is no worker
StartFails(k) ==
    /\ MayStart(k)
    /\ frames' = WithTop([Top EXCEPT !.due = @ \ {k}])
    /\ UNCHANGED <<open, registered, due, active, nextPump, timer, session, job, nested>>

UiMacroEnds ==
    /\ frames # <<>> /\ Top.key # None /\ ~Top.modal
    /\ Recorded(Top.key, Top.live, None)
    /\ session' = [session EXCEPT ![Top.run] = Forgotten]
    /\ frames' = WithTop([Top EXCEPT !.key = None, !.run = None])
    /\ UNCHANGED <<open, registered, due, nextPump, timer, job, nested>>

UiMacroYields ==
    /\ frames # <<>> /\ Top.key # None /\ ~Top.modal
    /\ Recorded(Top.key, Top.live, Top.run)
    /\ session' = [session EXCEPT ![Top.run].state = "yielded"]
    /\ frames' = WithTop([Top EXCEPT !.key = None, !.run = None])
    /\ UNCHANGED <<open, registered, due, nextPump, timer, job, nested>>

\* a dialog with an event loop of its own
OpenModal ==
    /\ frames # <<>> /\ Top.key # None /\ ~Top.modal
    /\ frames' = WithTop([Top EXCEPT !.modal = TRUE])
    /\ UNCHANGED <<open, registered, due, active, nextPump, timer, session, job, nested>>

CloseModal ==
    /\ frames # <<>> /\ Top.modal
    /\ frames' = WithTop([Top EXCEPT !.modal = FALSE])
    /\ UNCHANGED <<open, registered, due, active, nextPump, timer, session, job, nested>>

Rearmed(wake) == IF timer = None /\ wake # None THEN AtLeastOne(wake) ELSE timer

PumpReturns ==
    /\ frames # <<>> /\ Top.key = None /\ Top.due = {}
    /\ timer' = Rearmed(Top.wake)
    /\ frames' = SubSeq(frames, 1, Len(frames) - 1)
    /\ UNCHANGED <<open, registered, due, active, nextPump, session, job, nested>>

UserOrMacro ==
    \/ \E w \in Windows : OpenWindow(w) \/ CloseWindow(w)
    \/ \E k \in Timers : TimerStart(k)
    \/ \E k \in Closures : LoadClosure(k)
    \/ \E k \in Keys : Stop(k)
    \/ SubmitJob \/ OpenModal

Start(k) == StartOnUi(k) \/ StartOnWorker(k) \/ StartFails(k)
Finish == UiMacroEnds \/ UiMacroYields

Next ==
    \/ UserOrMacro
    \/ Tick \/ TimerExpired \/ CloseModal \/ PumpReturns \/ Finish
    \/ \E k \in Keys : Start(k)
    \/ JobRuns \/ DeliverJob
    \/ \E s \in Sessions : WorkerRuns(s) \/ Deliver(s) \/ ResumeDelay(s)

Spec == Init /\ [][Next]_vars

-----------------------------------------------------------------------------
Live == {"queued", "ran", "yielded"}

\* A consumer is blocked only by a session of its own that has not ended:
\* activeSessionId is cleared by every way a session can end, so the skip
\* policy never skips for ever (noteRuntimeSchedulerExecutionSessionChanged).
BlockedByLive ==
    \A k \in registered : active[k] # None =>
        /\ session[active[k]].state \in Live
        /\ session[active[k]].key = k

\* Outside a pump the UI timer is armed no later than the earliest consumer is
\* due, and the early return of pumpRuntimeScheduler never hides a due one;
\* only a registration by a worker whose result is not yet delivered may wait.
TimerCovers ==
    /\ \A k \in registered : nextPump <= due[k]
    /\ \/ frames # <<>> \/ job = "done"
       \/ \E s \in Sessions : session[s].state = "ran"
       \/ \A k \in registered : timer # None /\ timer <= AtLeastOne(due[k])

\* A timer never outlives its window, whatever macros run and dialogs are open
\* while the window closes (MMP_TIMER_START checks the window, close() removes).
NoTimerWithoutWindow == \A k \in registered \cap Timers : OwnerOf[k] \in open

\* the sessions started for the consumer as it is registered now
Running(k) == ({active[k]} \ {None})
    \cup {frames[i].run : i \in {j \in DOMAIN frames : frames[j].key = k /\ k \in frames[j].live}}

\* The only overrun policy is skip: the sessions of a registered consumer do
\* not overlap, wherever they run and however they yield; until a dialog of a
\* scheduled macro serves the timer itself.
NoOverlap == ~nested => \A k \in registered : Cardinality(Running(k)) <= 1
=============================================================================
