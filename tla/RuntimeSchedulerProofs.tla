----------------------- MODULE RuntimeSchedulerProofs -----------------------
(***************************************************************************)
(* What the scheduler guarantees for any timers, closures, windows and     *)
(* sessions and any depth of nested pumps, proved with TLAPS: a consumer   *)
(* is blocked by a live session of its own only, the UI timer covers every *)
(* consumer, a timer does not outlive its window, and sessions of a        *)
(* consumer do not overlap until a pump is nested.                         *)
(***************************************************************************)
EXTENDS RuntimeScheduler, FiniteSetTheorems, SequenceTheorems, NaturalsInduction,
        WellFoundedInduction, TLAPS
-----------------------------------------------------------------------------
\* A pump that runs a macro on the UI thread has its session, which is no other
\* pump's; what it may still record is registered.
FrameOk(f, S) ==
    /\ f.key # None <=> f.run # None
    /\ f.key # None => S[f.run].state = "ui" /\ S[f.run].key = f.key
    /\ f.key \notin f.due

Frames ==
    /\ \A i \in DOMAIN frames : FrameOk(frames[i], session) /\ frames[i].live \subseteq registered
    /\ \A i, j \in DOMAIN frames : i # j /\ frames[i].run # None => frames[i].run # frames[j].run

\* An active session is live, belongs to its consumer, and the consumer is
\* registered.
Blocked ==
    \A k \in Keys : active[k] # None =>
        k \in registered /\ session[active[k]].state \in Live /\ session[active[k]].key = k

\* nextPumpMs is never later than the earliest consumer.
PumpCovers == \A k \in registered : nextPump <= due[k]

\* A worker has registered something and its result is still to come.
Late == job = "done" \/ \E s \in Sessions : session[s].state = "ran"

TimerCoversAll == \A k \in registered : timer # None /\ timer <= AtLeastOne(due[k])

\* Within a pump the timer is not set, and the innermost pump will set it.
WakeCovers ==
    /\ frames # <<>> /\ timer = None
    /\ \A k \in registered : Top.wake # None /\ Top.wake <= due[k]

TimerSet == Late \/ TimerCoversAll \/ WakeCovers

\* Without nesting there is one pump, and what it starts had no session.
OnePump ==
    ~nested => /\ Len(frames) <= 1
               /\ \A i \in DOMAIN frames : \A k \in frames[i].live :
                     k \in frames[i].due \/ k = frames[i].key => active[k] = None

IInv == TypeOK /\ Frames /\ Blocked /\ PumpCovers /\ TimerSet /\ NoTimerWithoutWindow /\ OnePump
-----------------------------------------------------------------------------
(* Frames, times and the earliest of them. *)

\* A function on 1..n is a sequence of length n.
LEMMA FunctionIsSeq ==
  ASSUME NEW S, NEW n \in Nat, NEW f \in [1..n -> S]
  PROVE  f \in Seq(S) /\ Len(f) = n /\ DOMAIN f = 1..n
  OBVIOUS

\* A sequence without its end.
LEMMA PrefixIsSeq ==
  ASSUME NEW S, NEW s \in Seq(S), NEW n \in Nat, n < Len(s)
  PROVE  /\ SubSeq(s, 1, n) \in Seq(S) /\ Len(SubSeq(s, 1, n)) = n
         /\ \A i \in 1..n : SubSeq(s, 1, n)[i] = s[i]
  OBVIOUS

\* The earliest of some points in time is one of them and no later than any.
LEMMA EarliestIsLeast ==
  ASSUME NEW S, S \subseteq Nat, S # {}
  PROVE  Earliest(S) \in S /\ \A m \in S : Earliest(S) <= m
<1> DEFINE Less == {p \in Nat \X Nat : p[1] < p[2]}
<1>1. IsWellFoundedOn(Less, Nat)
  BY NatLessThanWellFounded DEF OpToRel
<1>2. \A x, y \in Nat : y < x => <<y, x>> \in Less
  OBVIOUS
<1>3. PICK x \in S : \A y \in S : ~(<<y, x>> \in Less)
  <2> HIDE DEF Less
  <2> QED
    BY <1>1, WFMin
<1>4. \A y \in S : x <= y
  <2> HIDE DEF Less
  <2>1. \A y \in S : ~(y < x)
    BY <1>2, <1>3, Zenon
  <2> QED
    BY <2>1
<1> QED
  BY <1>4 DEF Earliest

\* Counting down keeps a time a time, and the order of two times.
LEMMA Countdown ==
  /\ \A n \in Nat : Before(n) \in Nat /\ AtLeastOne(n) \in Nat /\ AtLeastOne(n) >= 1
  /\ \A n \in Nat \cup {None} : Before(n) \in Nat \cup {None} /\ (Before(n) = None <=> n = None)
  /\ \A m, n \in Nat : m <= n => Before(m) <= Before(n) /\ AtLeastOne(m) <= AtLeastOne(n)
  /\ \A m, n \in Nat : m <= AtLeastOne(n) => Before(m) <= AtLeastOne(Before(n))
  BY SchedulerAssumption DEF Before, AtLeastOne

\* The pumps on the stack, and the innermost.
LEMMA Stack ==
  ASSUME TypeOK
  PROVE  /\ Len(frames) \in Nat
         /\ DOMAIN frames = 1..Len(frames)
         /\ \A i \in DOMAIN frames : frames[i] \in Frame
         /\ frames # <<>> => Len(frames) \in DOMAIN frames /\ Top \in Frame
  BY DEF TypeOK, Top

\* Removing consumers leaves every pump as it is but for the consumers it may
\* still record.
LEMMA GoneShape ==
  ASSUME TypeOK, NEW K, Gone(K)
  PROVE  /\ frames' \in Seq(Frame) /\ Len(frames') = Len(frames) /\ DOMAIN frames' = DOMAIN frames
         /\ \A i \in DOMAIN frames : frames'[i] = [frames[i] EXCEPT !.live = @ \ K]
         /\ \A i \in DOMAIN frames : frames'[i] \in Frame
<1>1. \A i \in DOMAIN frames : [frames[i] EXCEPT !.live = @ \ K] \in Frame
  BY Stack DEF Frame
<1>2. frames' \in [1..Len(frames) -> Frame]
  BY <1>1, Stack DEF Gone
<1> QED
  BY <1>1, <1>2, Stack, FunctionIsSeq DEF Gone

\* The clock counts down what every pump will arm the timer with.
LEMMA TickShape ==
  ASSUME TypeOK, Tick
  PROVE  /\ frames' \in Seq(Frame) /\ Len(frames') = Len(frames) /\ DOMAIN frames' = DOMAIN frames
         /\ \A i \in DOMAIN frames : frames'[i] = [frames[i] EXCEPT !.wake = Before(@)]
         /\ \A i \in DOMAIN frames : frames'[i] \in Frame
<1>1. \A i \in DOMAIN frames : [frames[i] EXCEPT !.wake = Before(@)] \in Frame
  BY Stack, Countdown DEF Frame
<1>2. frames' \in [1..Len(frames) -> Frame]
  BY <1>1, Stack DEF Tick
<1> QED
  BY <1>1, <1>2, Stack, FunctionIsSeq DEF Tick

\* A step of the innermost pump.
LEMMA TopShape ==
  ASSUME TypeOK, frames # <<>>, NEW f \in Frame, frames' = WithTop(f)
  PROVE  /\ frames' \in Seq(Frame) /\ Len(frames') = Len(frames) /\ DOMAIN frames' = DOMAIN frames
         /\ frames' # <<>> /\ Top' = f
         /\ \A i \in DOMAIN frames : frames'[i] = IF i = Len(frames) THEN f ELSE frames[i]
<1>1. frames' \in [1..Len(frames) -> Frame]
  BY Stack DEF WithTop
<1>2. frames' \in Seq(Frame) /\ Len(frames') = Len(frames) /\ DOMAIN frames' = DOMAIN frames
  BY <1>1, Stack, FunctionIsSeq
<1>3. \A i \in DOMAIN frames : frames'[i] = IF i = Len(frames) THEN f ELSE frames[i]
  BY Stack DEF WithTop
<1>4. frames' # <<>> /\ Top' = f
  BY <1>2, <1>3, Stack DEF Top
<1> QED
  BY <1>2, <1>3, <1>4

\* A new pump.
LEMMA PushShape ==
  ASSUME TypeOK, NEW f \in Frame, frames' = Append(frames, f)
  PROVE  /\ frames' \in Seq(Frame) /\ Len(frames') = Len(frames) + 1 /\ DOMAIN frames' = 1..(Len(frames) + 1)
         /\ frames' # <<>> /\ Top' = f
         /\ frames'[Len(frames) + 1] = f
         /\ \A i \in DOMAIN frames : frames'[i] = frames[i]
  BY Stack DEF Top, TypeOK

\* The innermost pump returns.
LEMMA PopShape ==
  ASSUME TypeOK, frames # <<>>, frames' = SubSeq(frames, 1, Len(frames) - 1)
  PROVE  /\ frames' \in Seq(Frame) /\ Len(frames') = Len(frames) - 1 /\ DOMAIN frames' = 1..(Len(frames) - 1)
         /\ \A i \in DOMAIN frames' : i \in DOMAIN frames /\ frames'[i] = frames[i]
<1>1. Len(frames) - 1 \in Nat /\ Len(frames) - 1 < Len(frames) /\ frames \in Seq(Frame)
  BY Stack DEF TypeOK
<1>2. /\ frames' \in Seq(Frame) /\ Len(frames') = Len(frames) - 1
      /\ \A i \in 1..(Len(frames) - 1) : frames'[i] = frames[i]
  BY <1>1, PrefixIsSeq, Zenon
<1> QED
  BY <1>1, <1>2, Stack
-----------------------------------------------------------------------------
(* The steps. *)

\* Registering or removing consumers, on whatever thread.
LEMMA ResetShape ==
  ASSUME TypeOK, NEW K, Reset(K)
  PROVE  /\ due' \in [Keys -> Nat] /\ active' \in [Keys -> Sessions \cup {None}] /\ nextPump' = 0
         /\ frames' \in Seq(Frame) /\ DOMAIN active' = Keys
         /\ \A k \in Keys : active'[k] = IF k \in K THEN None ELSE active[k]
  BY GoneShape DEF Reset, PumpNow, TypeOK

\* What a macro on a worker does to the consumers.
LEMMA WorkerLoadsShape ==
  ASSUME TypeOK, WorkerLoads
  PROVE  /\ registered' \subseteq Keys /\ due' \in [Keys -> Nat] /\ active' \in [Keys -> Sessions \cup {None}]
         /\ nextPump' \in Nat /\ frames' \in Seq(Frame)
<1>1. CASE UNCHANGED <<registered, due, active, nextPump, frames>>
  BY <1>1 DEF TypeOK
<1>2. ASSUME NEW k \in Closures, Reset({k}), registered' \subseteq registered \cup {k}
      PROVE  /\ registered' \subseteq Keys /\ due' \in [Keys -> Nat] /\ active' \in [Keys -> Sessions \cup {None}]
             /\ nextPump' \in Nat /\ frames' \in Seq(Frame)
  BY <1>2, ResetShape DEF TypeOK, Keys
<1> QED
  BY <1>1, <1>2 DEF WorkerLoads

\* The third way a pump begins: it collects the due consumers.
Collects ==
    /\ registered # {} /\ nextPump = 0
    /\ LET K == {k \in registered : due[k] = 0}
       IN  /\ due' = [k \in Keys |-> IF k \in K THEN Interval[k] ELSE due[k]]
           /\ nextPump' = Earliest({due'[k] : k \in registered})
           /\ frames' = Append(frames, [Frozen(nextPump') EXCEPT !.due = Startable(K), !.live = Startable(K)])

\* Then nextPumpMs is the earliest of the new due times.
LEMMA CollectShape ==
  ASSUME TypeOK, Collects
  PROVE  due' \in [Keys -> Nat] /\ nextPump' \in Nat /\ \A k \in registered : nextPump' <= due'[k]
<1>1. due' \in [Keys -> Nat]
  BY SchedulerAssumption DEF Collects, TypeOK
<1> DEFINE D == {due'[k] : k \in registered}
<1>2. D \subseteq Nat /\ D # {}
  <2>1. PICK k \in registered : TRUE
    BY DEF Collects
  <2>2. D # {}
    BY <2>1
  <2>3. D \subseteq Nat
    BY <1>1 DEF TypeOK
  <2> QED
    BY <2>2, <2>3
<1>3. nextPump' = Earliest(D)
  BY DEF Collects
<1>4. Earliest(D) \in D /\ \A m \in D : Earliest(D) <= m
  BY <1>2, EarliestIsLeast
<1> QED
  BY <1>1, <1>2, <1>3, <1>4

\* A pump that runs a callback has its consumer and its session.
LEMMA TopRuns ==
  ASSUME TypeOK, Frames, frames # <<>>, Top.key # None
  PROVE  Top.key \in Keys /\ Top.run \in Sessions /\ session[Top.run].state = "ui" /\ session[Top.run].key = Top.key
  BY Stack DEF Frames, FrameOk, Frame, Top

\* Every step keeps the types.
LEMMA TypeStep ==
  ASSUME TypeOK, Frames, [Next]_vars
  PROVE  TypeOK'
<1>1. ASSUME NEW w \in Windows, OpenWindow(w)  PROVE TypeOK'
  BY <1>1 DEF OpenWindow, TypeOK
<1>2. ASSUME NEW w \in Windows, CloseWindow(w)  PROVE TypeOK'
  <2>1. Forgotten \in [state : {"free", "queued", "ran", "ui", "yielded"}, key : Keys \cup {None}]
    BY DEF Forgotten
  <2>2. session' \in [Sessions -> [state : {"free", "queued", "ran", "ui", "yielded"}, key : Keys \cup {None}]]
    BY <1>2, <2>1 DEF CloseWindow, TypeOK
  <2> QED
    BY <1>2, <2>2, ResetShape DEF CloseWindow, TypeOK, Armed
<1>3. ASSUME NEW k \in Timers, TimerStart(k)  PROVE TypeOK'
  BY <1>3, ResetShape DEF TimerStart, TypeOK, Armed, Keys
<1>4. ASSUME NEW k \in Closures, LoadClosure(k)  PROVE TypeOK'
  BY <1>4, ResetShape DEF LoadClosure, TypeOK, Armed, Keys
<1>5. ASSUME NEW k \in Keys, Stop(k)  PROVE TypeOK'
  BY <1>5, ResetShape DEF Stop, TypeOK, Armed, Keys
<1>6. CASE \/ SubmitJob \/ DeliverJob
  BY <1>6 DEF SubmitJob, DeliverJob, TypeOK, ArmedByResult, Armed
<1>7. CASE OpenModal
  <2>1. [Top EXCEPT !.modal = TRUE] \in Frame
    BY <1>7, Stack DEF OpenModal, Frame
  <2> QED
    BY <1>7, <2>1, TopShape DEF OpenModal, TypeOK
<1>8. CASE Tick
  BY <1>8, TickShape, Countdown DEF Tick, TypeOK
<1>9. CASE TimerExpired
  <2>1. \A w \in Nat \cup {None} : Frozen(w) \in Frame
    BY DEF Frozen, Frame
  <2>2. CASE registered = {} /\ nextPump' = 0 /\ frames' = Append(frames, Frozen(None)) /\ UNCHANGED due
    BY <1>9, <2>1, <2>2, PushShape DEF TimerExpired, TypeOK
  <2>3. CASE nextPump > 0 /\ frames' = Append(frames, Frozen(nextPump)) /\ UNCHANGED <<due, nextPump>>
    <3>1. Frozen(nextPump) \in Frame
      BY <2>1 DEF TypeOK
    <3> QED
      BY <1>9, <3>1, <2>3, PushShape DEF TimerExpired, TypeOK
  <2>4. CASE Collects
    <3> DEFINE K == {k \in registered : due[k] = 0}
               f == [Frozen(nextPump') EXCEPT !.due = Startable(K), !.live = Startable(K)]
    <3>1. due' \in [Keys -> Nat] /\ nextPump' \in Nat
      BY <2>4, CollectShape
    <3>2. f \in Frame
      BY <3>1 DEF Frozen, Frame, Startable, TypeOK
    <3>3. frames' \in Seq(Frame)
      BY <2>4, <3>2, PushShape DEF Collects
    <3> QED
      BY <1>9, <3>1, <3>3 DEF TimerExpired, TypeOK
  <2> QED
    BY <1>9, <2>2, <2>3, <2>4 DEF TimerExpired, Collects
<1>10. CASE CloseModal
  <2>1. [Top EXCEPT !.modal = FALSE] \in Frame
    BY <1>10, Stack DEF CloseModal, Frame
  <2> QED
    BY <1>10, <2>1, TopShape DEF CloseModal, TypeOK
<1>11. CASE PumpReturns
  <2>1. timer' \in Nat \cup {None}
    BY <1>11, Stack, Countdown DEF PumpReturns, Rearmed, TypeOK, Frame
  <2> QED
    BY <1>11, <2>1, PopShape DEF PumpReturns, TypeOK
<1>12. CASE UiMacroEnds
  <2>1. Top.key \in Keys /\ Top.run \in Sessions
    BY <1>12, TopRuns DEF UiMacroEnds
  <2>2. [Top EXCEPT !.key = None, !.run = None] \in Frame
    BY <1>12, Stack DEF UiMacroEnds, Frame
  <2>3. active' \in [Keys -> Sessions \cup {None}]
    BY <1>12, <2>1 DEF UiMacroEnds, Recorded, TypeOK
  <2>4. session' \in [Sessions -> [state : {"free", "queued", "ran", "ui", "yielded"}, key : Keys \cup {None}]]
    BY <1>12, <2>1 DEF UiMacroEnds, Forgotten, TypeOK
  <2> QED
    BY <1>12, <2>2, <2>3, <2>4, TopShape DEF UiMacroEnds, TypeOK
<1>13. CASE UiMacroYields
  <2>1. Top.key \in Keys /\ Top.run \in Sessions
    BY <1>13, TopRuns DEF UiMacroYields
  <2>2. [Top EXCEPT !.key = None, !.run = None] \in Frame
    BY <1>13, Stack DEF UiMacroYields, Frame
  <2>3. active' \in [Keys -> Sessions \cup {None}]
    BY <1>13, <2>1 DEF UiMacroYields, Recorded, TypeOK
  <2>4. session' \in [Sessions -> [state : {"free", "queued", "ran", "ui", "yielded"}, key : Keys \cup {None}]]
    BY <1>13, <2>1 DEF UiMacroYields, Forgotten, TypeOK
  <2> QED
    BY <1>13, <2>2, <2>3, <2>4, TopShape DEF UiMacroYields, TypeOK
<1>14. ASSUME NEW k \in Keys, StartOnUi(k)  PROVE TypeOK'
  <2>1. PICK s \in Free : /\ session' = [session EXCEPT ![s] = [state |-> "ui", key |-> k]]
                          /\ frames' = WithTop([Top EXCEPT !.due = @ \ {k}, !.key = k, !.run = s])
    BY <1>14 DEF StartOnUi
  <2>2. frames # <<>> /\ [Top EXCEPT !.due = @ \ {k}, !.key = k, !.run = s] \in Frame
    BY <1>14, Stack DEF StartOnUi, MayStart, Frame, Free
  <2>3. session' \in [Sessions -> [state : {"free", "queued", "ran", "ui", "yielded"}, key : Keys \cup {None}]]
    BY <2>1 DEF Free, TypeOK
  <2> QED
    BY <1>14, <2>1, <2>2, <2>3, TopShape DEF StartOnUi, TypeOK
<1>15. ASSUME NEW k \in Keys, StartOnWorker(k)  PROVE TypeOK'
  <2>1. frames # <<>> /\ [Top EXCEPT !.due = @ \ {k}] \in Frame
    BY <1>15, Stack DEF StartOnWorker, MayStart, Frame
  <2>2. PICK s \in Free : session' = [session EXCEPT ![s] = [state |-> "queued", key |-> k]] /\ Recorded(k, Top.live, s)
    BY <1>15 DEF StartOnWorker
  <2>3. active' \in [Keys -> Sessions \cup {None}]
    BY <2>2 DEF Recorded, Free, TypeOK
  <2>4. session' \in [Sessions -> [state : {"free", "queued", "ran", "ui", "yielded"}, key : Keys \cup {None}]]
    BY <2>2 DEF Free, TypeOK
  <2> QED
    BY <1>15, <2>1, <2>3, <2>4, TopShape DEF StartOnWorker, TypeOK
<1>16. ASSUME NEW k \in Keys, StartFails(k)  PROVE TypeOK'
  <2>1. frames # <<>> /\ [Top EXCEPT !.due = @ \ {k}] \in Frame
    BY <1>16, Stack DEF StartFails, MayStart, Frame
  <2> QED
    BY <1>16, <2>1, TopShape DEF StartFails, TypeOK
<1>17. CASE JobRuns
  <2>1. /\ registered' \subseteq Keys /\ due' \in [Keys -> Nat] /\ active' \in [Keys -> Sessions \cup {None}]
        /\ nextPump' \in Nat /\ frames' \in Seq(Frame)
    BY <1>17, WorkerLoadsShape DEF JobRuns
  <2> QED
    BY <1>17, <2>1 DEF JobRuns, TypeOK
<1>18. ASSUME NEW s \in Sessions, WorkerRuns(s)  PROVE TypeOK'
  <2>1. /\ registered' \subseteq Keys /\ due' \in [Keys -> Nat] /\ active' \in [Keys -> Sessions \cup {None}]
        /\ nextPump' \in Nat /\ frames' \in Seq(Frame)
    BY <1>18, WorkerLoadsShape DEF WorkerRuns
  <2> QED
    BY <1>18, <2>1 DEF WorkerRuns, TypeOK
<1>19. ASSUME NEW s \in Sessions, Deliver(s)  PROVE TypeOK'
  BY <1>19 DEF Deliver, TypeOK, Observed, Forgotten, ArmedByResult, Armed
<1>20. ASSUME NEW s \in Sessions, ResumeDelay(s)  PROVE TypeOK'
  BY <1>20 DEF ResumeDelay, TypeOK, Observed, Forgotten, ArmedByResult, Armed
<1>21. CASE UNCHANGED vars
  BY <1>21 DEF vars, TypeOK
<1> QED
  BY <1>1, <1>2, <1>3, <1>4, <1>5, <1>6, <1>7, <1>8, <1>9, <1>10, <1>11, <1>12, <1>13, <1>14, <1>15, <1>16, <1>17, <1>18, <1>19, <1>20, <1>21 DEF Next, UserOrMacro, Start, Finish

\* Removing consumers keeps the stack sound as long as no session of the UI
\* thread changes.
LEMMA GoneKeepsFrames ==
  ASSUME TypeOK, Frames, NEW K, Gone(K), registered \ K \subseteq registered',
         \A s \in Sessions : session[s].state = "ui" => session'[s] = session[s]
  PROVE  Frames'
<1>1. ASSUME NEW i \in DOMAIN frames
      PROVE  /\ frames'[i].key = frames[i].key /\ frames'[i].run = frames[i].run
             /\ frames'[i].due = frames[i].due /\ frames'[i].live = frames[i].live \ K
             /\ frames[i].run \in Sessions \cup {None}
  <2>1. frames[i] \in Frame /\ frames'[i] = [frames[i] EXCEPT !.live = @ \ K]
    BY GoneShape, Stack
  <2> QED
    BY <2>1 DEF Frame
<1>2. DOMAIN frames' = DOMAIN frames
  BY GoneShape
<1>3. ASSUME NEW i \in DOMAIN frames'
      PROVE  FrameOk(frames'[i], session') /\ frames'[i].live \subseteq registered'
  BY <1>1, <1>2 DEF Frames, FrameOk
<1> QED
  BY <1>1, <1>2, <1>3 DEF Frames

\* A step of the innermost pump keeps the stack sound when its new state is, and
\* the sessions of the pumps below are left alone.
LEMMA TopKeepsFrames ==
  ASSUME TypeOK, Frames, NEW f \in Frame, frames # <<>>, frames' = WithTop(f), registered' = registered,
         FrameOk(f, session'), f.live = Top.live,
         \A i \in DOMAIN frames : i # Len(frames) /\ frames[i].run # None =>
             f.run # frames[i].run /\ session'[frames[i].run] = session[frames[i].run]
  PROVE  Frames'
<1>1. DOMAIN frames' = DOMAIN frames /\ \A i \in DOMAIN frames : frames'[i] = IF i = Len(frames) THEN f ELSE frames[i]
  BY TopShape
<1>2. ASSUME NEW i \in DOMAIN frames'
      PROVE  FrameOk(frames'[i], session') /\ frames'[i].live \subseteq registered'
  BY <1>1, Stack DEF Frames, FrameOk, Top
<1>3. ASSUME NEW i \in DOMAIN frames', NEW j \in DOMAIN frames', i # j, frames'[i].run # None
      PROVE  frames'[i].run # frames'[j].run
  BY <1>1, <1>3 DEF Frames
<1> QED
  BY <1>2, <1>3 DEF Frames

\* What a macro on a worker does keeps it sound, too.
LEMMA WorkerLoadsFrames ==
  ASSUME TypeOK, Frames, WorkerLoads, \A s \in Sessions : session[s].state = "ui" => session'[s] = session[s]
  PROVE  Frames'
<1>1. CASE UNCHANGED <<registered, due, active, nextPump, frames>>
  BY <1>1, Stack DEF Frames, FrameOk, Frame
<1>2. ASSUME NEW k \in Closures, Reset({k}), registered \ {k} \subseteq registered'
      PROVE  Frames'
  BY <1>2, GoneKeepsFrames DEF Reset
<1> QED
  BY <1>1, <1>2 DEF WorkerLoads

\* A pump begins with nothing running, and collects registered consumers only.
LEMMA PumpPushes ==
  ASSUME TypeOK, TypeOK', TimerExpired
  PROVE  \E f \in Frame : /\ frames' = Append(frames, f) /\ f.key = None /\ f.run = None
                          /\ f.due = f.live /\ f.live \subseteq {k \in registered : active[k] = None}
                          /\ registered # {} => f.wake = nextPump'
<1>1. \A w \in Nat \cup {None} : /\ Frozen(w) \in Frame /\ Frozen(w).key = None /\ Frozen(w).run = None
                                 /\ Frozen(w).due = {} /\ Frozen(w).live = {} /\ Frozen(w).wake = w
  BY DEF Frozen, Frame
<1>2. CASE registered = {} /\ frames' = Append(frames, Frozen(None))
  BY <1>1, <1>2
<1>3. CASE frames' = Append(frames, Frozen(nextPump)) /\ UNCHANGED nextPump
  <2>1. nextPump \in Nat
    BY DEF TypeOK
  <2> QED
    BY <1>1, <1>3, <2>1
<1>4. CASE Collects
  <2> DEFINE K == {k \in registered : due[k] = 0}
             f == [Frozen(nextPump') EXCEPT !.due = Startable(K), !.live = Startable(K)]
  <2>1. nextPump' \in Nat /\ Startable(K) \subseteq Keys
    BY DEF TypeOK, Startable
  <2>2. f \in Frame /\ f.key = None /\ f.run = None /\ f.due = f.live /\ f.live = Startable(K) /\ f.wake = nextPump'
    BY <2>1 DEF Frozen, Frame
  <2>3. frames' = Append(frames, f)
    BY <1>4 DEF Collects
  <2>4. Startable(K) \subseteq {k \in registered : active[k] = None}
    BY DEF Startable
  <2> HIDE DEF f
  <2> QED
    BY <2>2, <2>3, <2>4
<1> QED
  BY <1>2, <1>3, <1>4 DEF TimerExpired, Collects

\* Every step keeps the stack sound.
LEMMA FramesStep ==
  ASSUME TypeOK, TypeOK', Frames, [Next]_vars
  PROVE  Frames'
<1>1. CASE \/ \E w \in Windows : OpenWindow(w)
           \/ SubmitJob \/ DeliverJob
  BY <1>1 DEF OpenWindow, SubmitJob, DeliverJob, Frames
<1>2. ASSUME NEW w \in Windows, CloseWindow(w)  PROVE Frames'
  <2>1. Gone(registered \cap Owned(w)) /\ registered \ (registered \cap Owned(w)) \subseteq registered'
    BY <1>2 DEF CloseWindow, Reset
  <2>2. \A s \in Sessions : session[s].state = "ui" => session'[s] = session[s]
    BY <1>2 DEF CloseWindow, Forgotten
  <2> QED
    BY <2>1, <2>2, GoneKeepsFrames
<1>3. CASE \/ \E k \in Timers : TimerStart(k)
           \/ \E k \in Closures : LoadClosure(k)
           \/ \E k \in Keys : Stop(k)
  BY <1>3, GoneKeepsFrames DEF TimerStart, LoadClosure, Stop, Reset
<1>4. CASE OpenModal
  <2> DEFINE f == [Top EXCEPT !.modal = TRUE]
  <2>1. f \in Frame /\ f.live = Top.live /\ f.run = Top.run /\ f.key = Top.key /\ f.due = Top.due /\ frames # <<>>
    BY <1>4, Stack DEF OpenModal, Frame
  <2>2. FrameOk(f, session')
    BY <1>4, <2>1, Stack DEF OpenModal, Frames, FrameOk, Top
  <2>3. \A i \in DOMAIN frames : i # Len(frames) /\ frames[i].run # None => f.run # frames[i].run
    BY <2>1, Stack DEF Frames, Top
  <2> QED
    BY <1>4, <2>1, <2>2, <2>3, TopKeepsFrames DEF OpenModal
<1>5. CASE Tick
  <2>1. ASSUME NEW i \in DOMAIN frames
        PROVE  /\ frames'[i].key = frames[i].key /\ frames'[i].run = frames[i].run
               /\ frames'[i].due = frames[i].due /\ frames'[i].live = frames[i].live
    BY <1>5, TickShape, Stack DEF Frame
  <2> QED
    BY <1>5, <2>1, TickShape DEF Tick, Frames, FrameOk
<1>6. CASE TimerExpired
  <2>1. PICK f \in Frame : frames' = Append(frames, f) /\ f.key = None /\ f.run = None /\ f.live \subseteq registered
    BY <1>6, PumpPushes
  <2>2. FrameOk(f, session')
    BY <2>1, SchedulerAssumption DEF FrameOk, Frame
  <2> QED
    BY <1>6, <2>1, <2>2, PushShape, Stack DEF TimerExpired, Frames, FrameOk
<1>7. CASE CloseModal
  <2> DEFINE f == [Top EXCEPT !.modal = FALSE]
  <2>1. f \in Frame /\ f.live = Top.live /\ f.run = Top.run /\ f.key = Top.key /\ f.due = Top.due /\ frames # <<>>
    BY <1>7, Stack DEF CloseModal, Frame
  <2>2. FrameOk(f, session')
    BY <1>7, <2>1, Stack DEF CloseModal, Frames, FrameOk, Top
  <2>3. \A i \in DOMAIN frames : i # Len(frames) /\ frames[i].run # None => f.run # frames[i].run
    BY <2>1, Stack DEF Frames, Top
  <2> QED
    BY <1>7, <2>1, <2>2, <2>3, TopKeepsFrames DEF CloseModal
<1>8. CASE PumpReturns
  BY <1>8, PopShape DEF PumpReturns, Frames, FrameOk
<1>9. CASE UiMacroEnds
  <2> DEFINE f == [Top EXCEPT !.key = None, !.run = None]
  <2>1. f \in Frame /\ f.live = Top.live /\ f.run = None /\ f.key = None /\ f.due = Top.due /\ frames # <<>>
    BY <1>9, Stack DEF UiMacroEnds, Frame
  <2>2. FrameOk(f, session')
    BY <2>1, SchedulerAssumption DEF FrameOk, Frame
  <2>3. \A t \in Sessions \ {Top.run} : session'[t] = session[t]
    BY <1>9 DEF UiMacroEnds, TypeOK
  <2>4. ASSUME NEW i \in DOMAIN frames, i # Len(frames), frames[i].run # None
        PROVE  f.run # frames[i].run /\ session'[frames[i].run] = session[frames[i].run]
    BY <2>1, <2>3, <2>4, Stack DEF Frames, Top, Frame
  <2> QED
    BY <1>9, <2>1, <2>2, <2>4, TopKeepsFrames DEF UiMacroEnds
<1>10. CASE UiMacroYields
  <2> DEFINE f == [Top EXCEPT !.key = None, !.run = None]
  <2>1. f \in Frame /\ f.live = Top.live /\ f.run = None /\ f.key = None /\ f.due = Top.due /\ frames # <<>>
    BY <1>10, Stack DEF UiMacroYields, Frame
  <2>2. FrameOk(f, session')
    BY <2>1, SchedulerAssumption DEF FrameOk, Frame
  <2>3. \A t \in Sessions \ {Top.run} : session'[t] = session[t]
    BY <1>10 DEF UiMacroYields, TypeOK
  <2>4. ASSUME NEW i \in DOMAIN frames, i # Len(frames), frames[i].run # None
        PROVE  f.run # frames[i].run /\ session'[frames[i].run] = session[frames[i].run]
    BY <2>1, <2>3, <2>4, Stack DEF Frames, Top, Frame
  <2> QED
    BY <1>10, <2>1, <2>2, <2>4, TopKeepsFrames DEF UiMacroYields
<1>11. ASSUME NEW k \in Keys, StartOnUi(k)  PROVE Frames'
  <2>1. PICK s \in Free : /\ session' = [session EXCEPT ![s] = [state |-> "ui", key |-> k]]
                          /\ frames' = WithTop([Top EXCEPT !.due = @ \ {k}, !.key = k, !.run = s])
    BY <1>11 DEF StartOnUi
  <2> DEFINE f == [Top EXCEPT !.due = @ \ {k}, !.key = k, !.run = s]
  <2>2. f \in Frame /\ f.live = Top.live /\ f.run = s /\ f.key = k /\ f.due = Top.due \ {k} /\ frames # <<>>
    BY <1>11, Stack DEF StartOnUi, MayStart, Frame, Free
  <2>3. s \in Sessions /\ session[s].state = "free" /\ session'[s].state = "ui" /\ session'[s].key = k
    BY <2>1 DEF Free, TypeOK
  <2>4. FrameOk(f, session')
    BY <2>2, <2>3, SchedulerAssumption DEF FrameOk
  <2>5. \A t \in Sessions : session[t].state = "ui" => t # s /\ session'[t] = session[t]
    BY <2>1, <2>3 DEF TypeOK
  <2>6. ASSUME NEW i \in DOMAIN frames, i # Len(frames), frames[i].run # None
        PROVE  f.run # frames[i].run /\ session'[frames[i].run] = session[frames[i].run]
    BY <2>2, <2>5, <2>6, Stack DEF Frames, FrameOk, Frame
  <2> QED
    BY <1>11, <2>1, <2>2, <2>4, <2>6, TopKeepsFrames DEF StartOnUi
<1>12. ASSUME NEW k \in Keys, StartOnWorker(k)  PROVE Frames'
  <2> DEFINE f == [Top EXCEPT !.due = @ \ {k}]
  <2>1. f \in Frame /\ f.live = Top.live /\ f.run = Top.run /\ f.key = Top.key /\ f.due = Top.due \ {k} /\ frames # <<>> /\ f.key = None
    BY <1>12, Stack DEF StartOnWorker, MayStart, Frame
  <2>2. PICK s \in Free : session' = [session EXCEPT ![s] = [state |-> "queued", key |-> k]]
    BY <1>12 DEF StartOnWorker
  <2>3. FrameOk(f, session')
    BY <1>12, <2>1, Stack DEF StartOnWorker, Frames, FrameOk, Top
  <2>4. \A t \in Sessions : session[t].state = "ui" => session'[t] = session[t]
    BY <2>2 DEF Free, TypeOK
  <2>5. ASSUME NEW i \in DOMAIN frames, i # Len(frames), frames[i].run # None
        PROVE  f.run # frames[i].run /\ session'[frames[i].run] = session[frames[i].run]
    BY <2>1, <2>4, <2>5, Stack DEF Frames, FrameOk, Top, Frame
  <2> QED
    BY <1>12, <2>1, <2>3, <2>5, TopKeepsFrames DEF StartOnWorker
<1>13. ASSUME NEW k \in Keys, StartFails(k)  PROVE Frames'
  <2> DEFINE f == [Top EXCEPT !.due = @ \ {k}]
  <2>1. f \in Frame /\ f.live = Top.live /\ f.run = Top.run /\ f.key = Top.key /\ f.due = Top.due \ {k} /\ frames # <<>>
    BY <1>13, Stack DEF StartFails, MayStart, Frame
  <2>2. FrameOk(f, session')
    BY <1>13, <2>1, Stack DEF StartFails, Frames, FrameOk, Top
  <2>3. \A i \in DOMAIN frames : i # Len(frames) /\ frames[i].run # None => f.run # frames[i].run
    BY <2>1, Stack DEF Frames, Top
  <2> QED
    BY <1>13, <2>1, <2>2, <2>3, TopKeepsFrames DEF StartFails
<1>14. CASE JobRuns
  BY <1>14, WorkerLoadsFrames DEF JobRuns
<1>15. ASSUME NEW s \in Sessions, WorkerRuns(s)  PROVE Frames'
  <2>1. \A t \in Sessions : session[t].state = "ui" => session'[t] = session[t]
    BY <1>15 DEF WorkerRuns, TypeOK
  <2> QED
    BY <1>15, <2>1, WorkerLoadsFrames DEF WorkerRuns
<1>16. ASSUME NEW s \in Sessions, Deliver(s)  PROVE Frames'
  <2>1. \A t \in Sessions : session[t].state = "ui" => session'[t] = session[t]
    BY <1>16 DEF Deliver, TypeOK
  <2> QED
    BY <1>16, <2>1, Stack DEF Deliver, Frames, FrameOk, Frame
<1>17. ASSUME NEW s \in Sessions, ResumeDelay(s)  PROVE Frames'
  <2>1. \A t \in Sessions : session[t].state = "ui" => session'[t] = session[t]
    BY <1>17 DEF ResumeDelay, TypeOK
  <2> QED
    BY <1>17, <2>1, Stack DEF ResumeDelay, Frames, FrameOk, Frame
<1>18. CASE UNCHANGED vars
  BY <1>18 DEF vars, Frames
<1> QED
  BY <1>1, <1>2, <1>3, <1>4, <1>5, <1>6, <1>7, <1>8, <1>9, <1>10, <1>11, <1>12, <1>13, <1>14, <1>15, <1>16, <1>17, <1>18 DEF Next, UserOrMacro, Start, Finish

\* Registering or removing consumers clears the sessions they had; those of the
\* others go on, as long as these sessions do.
LEMMA ResetBlocked ==
  ASSUME TypeOK, Blocked, NEW K, Reset(K), registered \ K \subseteq registered',
         \A k \in Keys \ K : active[k] # None =>
             session'[active[k]].state \in Live /\ session'[active[k]].key = session[active[k]].key
  PROVE  Blocked'
  BY ResetShape DEF Blocked

\* So does what a macro on a worker does.
LEMMA WorkerLoadsBlocked ==
  ASSUME TypeOK, Blocked, WorkerLoads,
         \A k \in Keys : active[k] # None =>
             session'[active[k]].state \in Live /\ session'[active[k]].key = session[active[k]].key
  PROVE  Blocked'
<1>1. CASE UNCHANGED <<registered, due, active, nextPump, frames>>
  BY <1>1 DEF Blocked
<1>2. ASSUME NEW k \in Closures, Reset({k}), registered \ {k} \subseteq registered'
      PROVE  Blocked'
  BY <1>2, ResetBlocked
<1> QED
  BY <1>1, <1>2 DEF WorkerLoads

\* Every step keeps a blocked consumer blocked by a session of its own.
LEMMA BlockedStep ==
  ASSUME TypeOK, Frames, Blocked, [Next]_vars
  PROVE  Blocked'
<1>1. CASE \/ \E w \in Windows : OpenWindow(w)
           \/ \E k \in Keys : StartFails(k)
           \/ SubmitJob \/ OpenModal \/ Tick \/ TimerExpired \/ CloseModal \/ PumpReturns \/ DeliverJob
  BY <1>1 DEF OpenWindow, SubmitJob, OpenModal, Tick, TimerExpired, CloseModal, PumpReturns, StartFails, DeliverJob, Blocked
<1>2. ASSUME NEW w \in Windows, CloseWindow(w)  PROVE Blocked'
  <2> DEFINE K == registered \cap Owned(w)
  <2>1. Reset(K) /\ registered \ K \subseteq registered'
    BY <1>2 DEF CloseWindow
  <2>2. ASSUME NEW k \in Keys \ K, active[k] # None
        PROVE  session'[active[k]] = session[active[k]]
    BY <1>2, <2>2 DEF CloseWindow, Blocked, TypeOK
  <2> QED
    BY <2>1, <2>2, ResetBlocked DEF Blocked
<1>3. CASE \/ \E k \in Timers : TimerStart(k)
           \/ \E k \in Closures : LoadClosure(k)
           \/ \E k \in Keys : Stop(k)
  BY <1>3, ResetBlocked DEF TimerStart, LoadClosure, Stop, Blocked
<1>4. CASE UiMacroEnds
  <2>1. Top.key \in Keys /\ Top.run \in Sessions /\ session[Top.run].state = "ui" /\ session[Top.run].key = Top.key
    BY <1>4, TopRuns DEF UiMacroEnds
  <2>2. ASSUME NEW l \in Keys, active[l] # None  PROVE session'[active[l]] = session[active[l]]
    BY <1>4, <2>1, <2>2 DEF UiMacroEnds, Blocked, TypeOK, Live
  <2>3. \A l \in Keys : active'[l] = IF l = Top.key /\ l \in Top.live THEN None ELSE active[l]
    BY <1>4, <2>1 DEF UiMacroEnds, Recorded, TypeOK
  <2> QED
    BY <1>4, <2>2, <2>3 DEF UiMacroEnds, Blocked
<1>5. CASE UiMacroYields
  <2>1. Top.key \in Keys /\ Top.run \in Sessions /\ session[Top.run].state = "ui" /\ session[Top.run].key = Top.key
    BY <1>5, TopRuns DEF UiMacroYields
  <2>2. ASSUME NEW l \in Keys, active[l] # None  PROVE session'[active[l]] = session[active[l]]
    BY <1>5, <2>1, <2>2 DEF UiMacroYields, Blocked, TypeOK, Live
  <2>3. \A l \in Keys : active'[l] = IF l = Top.key /\ l \in Top.live THEN Top.run ELSE active[l]
    BY <1>5, <2>1 DEF UiMacroYields, Recorded, TypeOK
  <2>4. session'[Top.run].state \in Live /\ session'[Top.run].key = Top.key /\ Top.live \subseteq registered
    BY <1>5, <2>1, Stack DEF UiMacroYields, TypeOK, Live, Frames, Top
  <2> QED
    BY <1>5, <2>2, <2>3, <2>4 DEF UiMacroYields, Blocked
<1>6. ASSUME NEW k \in Keys, StartOnUi(k)  PROVE Blocked'
  <2>1. PICK s \in Free : session' = [session EXCEPT ![s] = [state |-> "ui", key |-> k]]
    BY <1>6 DEF StartOnUi
  <2>2. ASSUME NEW l \in Keys, active[l] # None  PROVE session'[active[l]] = session[active[l]]
    BY <2>1, <2>2 DEF Blocked, TypeOK, Free, Live
  <2> QED
    BY <1>6, <2>2 DEF StartOnUi, Blocked
<1>7. ASSUME NEW k \in Keys, StartOnWorker(k)  PROVE Blocked'
  <2>1. PICK s \in Free : session' = [session EXCEPT ![s] = [state |-> "queued", key |-> k]] /\ Recorded(k, Top.live, s)
    BY <1>7 DEF StartOnWorker
  <2>2. ASSUME NEW l \in Keys, active[l] # None  PROVE session'[active[l]] = session[active[l]]
    BY <2>1, <2>2 DEF Blocked, TypeOK, Free, Live
  <2>3. session'[s].state \in Live /\ session'[s].key = k /\ Top.live \subseteq registered
    BY <1>7, <2>1, Stack DEF StartOnWorker, MayStart, TypeOK, Free, Live, Frames, Top
  <2>4. \A l \in Keys : active'[l] = IF l = k /\ k \in Top.live THEN s ELSE active[l]
    BY <2>1 DEF Recorded, TypeOK
  <2> QED
    BY <1>7, <2>2, <2>3, <2>4 DEF StartOnWorker, Blocked
<1>8. CASE JobRuns
  BY <1>8, WorkerLoadsBlocked DEF JobRuns, Blocked
<1>9. ASSUME NEW s \in Sessions, WorkerRuns(s)  PROVE Blocked'
  <2>1. ASSUME NEW k \in Keys, active[k] # None
        PROVE  session'[active[k]].state \in Live /\ session'[active[k]].key = session[active[k]].key
    BY <1>9, <2>1 DEF WorkerRuns, Blocked, TypeOK, Live
  <2> QED
    BY <1>9, <2>1, WorkerLoadsBlocked DEF WorkerRuns
<1>10. CASE \/ \E s \in Sessions : Deliver(s)
            \/ \E s \in Sessions : ResumeDelay(s)
  BY <1>10 DEF Deliver, ResumeDelay, Observed, Blocked, TypeOK
<1>11. CASE UNCHANGED vars
  BY <1>11 DEF vars, Blocked
<1> QED
  BY <1>1, <1>2, <1>3, <1>4, <1>5, <1>6, <1>7, <1>8, <1>9, <1>10, <1>11 DEF Next, UserOrMacro, Start, Finish

\* Every step keeps the timers within the life of their windows.
LEMMA WindowStep ==
  ASSUME NoTimerWithoutWindow, [Next]_vars
  PROVE  NoTimerWithoutWindow'
<1>1. CASE \/ \E w \in Windows : OpenWindow(w)
           \/ \E k \in Timers : TimerStart(k)
           \/ \E k \in Keys : Stop(k)
           \/ \E k \in Keys : StartOnUi(k)
           \/ \E k \in Keys : StartOnWorker(k)
           \/ \E k \in Keys : StartFails(k)
           \/ \E s \in Sessions : Deliver(s)
           \/ \E s \in Sessions : ResumeDelay(s)
           \/ SubmitJob \/ OpenModal \/ Tick \/ TimerExpired \/ CloseModal \/ PumpReturns \/ UiMacroEnds \/ UiMacroYields \/ DeliverJob
  BY <1>1 DEF OpenWindow, TimerStart, Stop, SubmitJob, OpenModal, Tick, TimerExpired, CloseModal, PumpReturns, UiMacroEnds, UiMacroYields, StartOnUi, StartOnWorker, StartFails, DeliverJob, Deliver, ResumeDelay, NoTimerWithoutWindow
<1>2. ASSUME NEW w \in Windows, CloseWindow(w)  PROVE NoTimerWithoutWindow'
  BY <1>2 DEF CloseWindow, Owned, NoTimerWithoutWindow
<1>3. ASSUME NEW k \in Closures, LoadClosure(k)  PROVE NoTimerWithoutWindow'
  BY <1>3, SchedulerAssumption DEF LoadClosure, NoTimerWithoutWindow
<1>4. CASE \/ \E s \in Sessions : WorkerRuns(s)
           \/ JobRuns
  BY <1>4, SchedulerAssumption DEF JobRuns, WorkerRuns, WorkerLoads, NoTimerWithoutWindow
<1>5. CASE UNCHANGED vars
  BY <1>5 DEF vars, NoTimerWithoutWindow
<1> QED
  BY <1>1, <1>2, <1>3, <1>4, <1>5 DEF Next, UserOrMacro, Start, Finish

\* Every step keeps nextPumpMs no later than the earliest consumer.
LEMMA PumpStep ==
  ASSUME TypeOK, TypeOK', PumpCovers, [Next]_vars
  PROVE  PumpCovers'
<1>1. CASE \/ \E w \in Windows : OpenWindow(w)
           \/ \E k \in Keys : StartOnUi(k)
           \/ \E k \in Keys : StartOnWorker(k)
           \/ \E k \in Keys : StartFails(k)
           \/ \E s \in Sessions : Deliver(s)
           \/ \E s \in Sessions : ResumeDelay(s)
           \/ SubmitJob \/ OpenModal \/ CloseModal \/ PumpReturns \/ UiMacroEnds \/ UiMacroYields \/ DeliverJob
  BY <1>1 DEF OpenWindow, SubmitJob, OpenModal, CloseModal, PumpReturns, UiMacroEnds, UiMacroYields, StartOnUi, StartOnWorker, StartFails, DeliverJob, Deliver, ResumeDelay, PumpCovers
<1>2. ASSUME NEW w \in Windows, CloseWindow(w)  PROVE PumpCovers'
  BY <1>2, ResetShape DEF CloseWindow, TypeOK, PumpCovers
<1>3. ASSUME NEW k \in Timers, TimerStart(k)  PROVE PumpCovers'
  BY <1>3, ResetShape DEF TimerStart, TypeOK, PumpCovers
<1>4. ASSUME NEW k \in Closures, LoadClosure(k)  PROVE PumpCovers'
  BY <1>4, ResetShape DEF LoadClosure, TypeOK, PumpCovers
<1>5. ASSUME NEW k \in Keys, Stop(k)  PROVE PumpCovers'
  BY <1>5, ResetShape DEF Stop, TypeOK, PumpCovers
<1>6. CASE Tick
  BY <1>6, Countdown DEF Tick, PumpCovers, TypeOK
<1>7. CASE TimerExpired
  <2>1. CASE Collects
    BY <1>7, <2>1, CollectShape DEF TimerExpired, PumpCovers
  <2>2. CASE registered = {} \/ UNCHANGED <<due, nextPump>>
    BY <1>7, <2>2 DEF TimerExpired, PumpCovers
  <2> QED
    BY <1>7, <2>1, <2>2 DEF TimerExpired, Collects
<1>8. CASE JobRuns
  <2>1. CASE UNCHANGED <<registered, due, nextPump>>
    BY <2>1 DEF PumpCovers
  <2>2. CASE nextPump' = 0
    BY <2>2 DEF PumpCovers, TypeOK
  <2> QED
    BY <1>8, <2>1, <2>2 DEF JobRuns, WorkerLoads, Reset, PumpNow
<1>9. ASSUME NEW s \in Sessions, WorkerRuns(s)  PROVE PumpCovers'
  <2>1. CASE UNCHANGED <<registered, due, nextPump>>
    BY <2>1 DEF PumpCovers
  <2>2. CASE nextPump' = 0
    BY <2>2 DEF PumpCovers, TypeOK
  <2> QED
    BY <1>9, <2>1, <2>2 DEF WorkerRuns, WorkerLoads, Reset, PumpNow
<1>10. CASE UNCHANGED vars
  BY <1>10 DEF vars, PumpCovers
<1> QED
  BY <1>1, <1>2, <1>3, <1>4, <1>5, <1>6, <1>7, <1>8, <1>9, <1>10 DEF Next, UserOrMacro, Start, Finish

\* A step of the innermost pump leaves what it will arm the timer with.
LEMMA TopKeepsTimer ==
  ASSUME TypeOK, TimerSet, frames # <<>>, NEW f \in Frame, frames' = WithTop(f), f.wake = Top.wake,
         UNCHANGED <<registered, due, timer>>, Late => Late'
  PROVE  TimerSet'
<1>1. frames' # <<>> /\ Top' = f
  BY TopShape
<1> QED
  BY <1>1 DEF TimerSet, TimerCoversAll, WakeCovers

\* A timer that expires at the next tick covers everything.
LEMMA ArmedCovers ==
  ASSUME TypeOK', timer' = 1
  PROVE  TimerSet'
<1>1. ASSUME NEW k \in registered'  PROVE timer' # None /\ timer' <= AtLeastOne(due'[k])
  <2>1. due'[k] \in Nat
    BY DEF TypeOK
  <2>2. AtLeastOne(due'[k]) \in Nat /\ AtLeastOne(due'[k]) >= 1
    BY <2>1, Countdown
  <2> QED
    BY <2>2, SchedulerAssumption
<1> QED
  BY <1>1 DEF TimerSet, TimerCoversAll, AtLeastOne

\* Every step keeps the timer set, or about to be set.
LEMMA TimerStep ==
  ASSUME TypeOK, TypeOK', Frames, PumpCovers', TimerSet, [Next]_vars
  PROVE  TimerSet'
<1>1. CASE \/ \E w \in Windows : OpenWindow(w)
           \/ SubmitJob
  BY <1>1 DEF OpenWindow, SubmitJob, TimerSet, TimerCoversAll, WakeCovers, Late, Top
<1>2. CASE \/ \E w \in Windows : CloseWindow(w)
           \/ \E k \in Timers : TimerStart(k)
           \/ \E k \in Closures : LoadClosure(k)
           \/ \E k \in Keys : Stop(k)
           \/ \E s \in Sessions : Deliver(s)
           \/ DeliverJob
  BY <1>2, ArmedCovers DEF CloseWindow, TimerStart, LoadClosure, Stop, DeliverJob, Deliver, Armed, ArmedByResult
<1>3. CASE OpenModal
  <2>1. frames # <<>> /\ [Top EXCEPT !.modal = TRUE] \in Frame /\ [Top EXCEPT !.modal = TRUE].wake = Top.wake
    BY <1>3, Stack DEF OpenModal, MayStart, Frame, Free
  <2>2. Late => Late'
    BY <1>3 DEF OpenModal, Late
  <2> QED
    BY <1>3, <2>1, <2>2, TopKeepsTimer DEF OpenModal
<1>4. CASE Tick
  <2>1. CASE Late
    BY <1>4, <2>1 DEF Tick, TimerSet, Late
  <2>2. CASE TimerCoversAll
    BY <1>4, <2>2, Countdown DEF Tick, TimerSet, TimerCoversAll, TypeOK
  <2>3. CASE WakeCovers
    <3>1. frames' # <<>> /\ Top'.wake = Before(Top.wake) /\ Top.wake \in Nat \cup {None}
      BY <1>4, <2>3, TickShape, Stack DEF WakeCovers, Top, Frame
    <3>2. timer' = None
      BY <1>4, <2>3 DEF Tick, WakeCovers, Before
    <3> QED
      BY <1>4, <2>3, <3>1, <3>2, Countdown DEF Tick, TimerSet, WakeCovers, TypeOK
  <2> QED
    BY <2>1, <2>2, <2>3 DEF TimerSet
<1>5. CASE TimerExpired
  <2>1. PICK f \in Frame : frames' = Append(frames, f) /\ (registered # {} => f.wake = nextPump')
    BY <1>5, PumpPushes
  <2>2. frames' # <<>> /\ Top' = f
    BY <2>1, PushShape
  <2>3. \A k \in registered' : f.wake # None /\ f.wake <= due'[k]
    BY <1>5, <2>1, SchedulerAssumption DEF TimerExpired, PumpCovers, TypeOK
  <2> QED
    BY <1>5, <2>2, <2>3 DEF TimerExpired, TimerSet, WakeCovers
<1>6. CASE CloseModal
  <2>1. frames # <<>> /\ [Top EXCEPT !.modal = FALSE] \in Frame /\ [Top EXCEPT !.modal = FALSE].wake = Top.wake
    BY <1>6, Stack DEF CloseModal, MayStart, Frame, Free
  <2>2. Late => Late'
    BY <1>6 DEF CloseModal, Late
  <2> QED
    BY <1>6, <2>1, <2>2, TopKeepsTimer DEF CloseModal
<1>7. CASE PumpReturns
  <2>1. CASE Late
    BY <1>7, <2>1 DEF PumpReturns, TimerSet, Late
  <2>2. CASE TimerCoversAll
    BY <1>7, <2>2 DEF PumpReturns, TimerSet, TimerCoversAll, Rearmed
  <2>3. CASE WakeCovers
    <3>1. Top.wake \in Nat \cup {None}
      BY <1>7, Stack DEF PumpReturns, Frame
    <3>2. ASSUME NEW k \in registered  PROVE timer' # None /\ timer' <= AtLeastOne(due[k])
      <4>1. Top.wake \in Nat /\ due[k] \in Nat /\ Top.wake <= due[k]
        BY <2>3, <3>1 DEF WakeCovers, TypeOK
      <4>2. timer' = AtLeastOne(Top.wake)
        BY <1>7, <2>3, <4>1, SchedulerAssumption DEF PumpReturns, Rearmed, WakeCovers
      <4> QED
        BY <4>1, <4>2, Countdown, SchedulerAssumption
    <3> QED
      BY <1>7, <3>2 DEF PumpReturns, TimerSet, TimerCoversAll
  <2> QED
    BY <2>1, <2>2, <2>3 DEF TimerSet
<1>8. CASE UiMacroEnds
  <2>1. frames # <<>> /\ [Top EXCEPT !.key = None, !.run = None] \in Frame /\ [Top EXCEPT !.key = None, !.run = None].wake = Top.wake
    BY <1>8, Stack DEF UiMacroEnds, MayStart, Frame, Free
  <2>2. Late => Late'
    BY <1>8, TopRuns DEF UiMacroEnds, Late, TypeOK
  <2> QED
    BY <1>8, <2>1, <2>2, TopKeepsTimer DEF UiMacroEnds
<1>9. CASE UiMacroYields
  <2>1. frames # <<>> /\ [Top EXCEPT !.key = None, !.run = None] \in Frame /\ [Top EXCEPT !.key = None, !.run = None].wake = Top.wake
    BY <1>9, Stack DEF UiMacroYields, MayStart, Frame, Free
  <2>2. Late => Late'
    BY <1>9, TopRuns DEF UiMacroYields, Late, TypeOK
  <2> QED
    BY <1>9, <2>1, <2>2, TopKeepsTimer DEF UiMacroYields
<1>10. ASSUME NEW k \in Keys, StartOnUi(k)  PROVE TimerSet'
  <2>0. PICK s \in Free : /\ session' = [session EXCEPT ![s] = [state |-> "ui", key |-> k]]
                          /\ frames' = WithTop([Top EXCEPT !.due = @ \ {k}, !.key = k, !.run = s])
    BY <1>10 DEF StartOnUi
  <2> DEFINE f == [Top EXCEPT !.due = @ \ {k}, !.key = k, !.run = s]
  <2>1. frames # <<>> /\ f \in Frame /\ f.wake = Top.wake
    BY <1>10, Stack DEF StartOnUi, MayStart, Frame, Free
  <2>2. Late => Late'
    BY <1>10, <2>0 DEF StartOnUi, Late, TypeOK, Free
  <2> QED
    BY <1>10, <2>0, <2>1, <2>2, TopKeepsTimer DEF StartOnUi
<1>11. ASSUME NEW k \in Keys, StartOnWorker(k)  PROVE TimerSet'
  <2>1. frames # <<>> /\ [Top EXCEPT !.due = @ \ {k}] \in Frame /\ [Top EXCEPT !.due = @ \ {k}].wake = Top.wake
    BY <1>11, Stack DEF StartOnWorker, MayStart, Frame, Free
  <2>2. Late => Late'
    BY <1>11 DEF StartOnWorker, Late, TypeOK, Free
  <2> QED
    BY <1>11, <2>1, <2>2, TopKeepsTimer DEF StartOnWorker
<1>12. ASSUME NEW k \in Keys, StartFails(k)  PROVE TimerSet'
  <2>1. frames # <<>> /\ [Top EXCEPT !.due = @ \ {k}] \in Frame /\ [Top EXCEPT !.due = @ \ {k}].wake = Top.wake
    BY <1>12, Stack DEF StartFails, MayStart, Frame, Free
  <2>2. Late => Late'
    BY <1>12 DEF StartFails, Late
  <2> QED
    BY <1>12, <2>1, <2>2, TopKeepsTimer DEF StartFails
<1>13. CASE JobRuns
  BY <1>13 DEF JobRuns, TimerSet, Late
<1>14. ASSUME NEW s \in Sessions, WorkerRuns(s)  PROVE TimerSet'
  BY <1>14 DEF WorkerRuns, TimerSet, Late, TypeOK
<1>15. ASSUME NEW s \in Sessions, ResumeDelay(s)  PROVE TimerSet'
  <2>1. Late => Late'
    BY <1>15 DEF ResumeDelay, Late, TypeOK
  <2> QED
    BY <1>15, <2>1 DEF ResumeDelay, TimerSet, TimerCoversAll, WakeCovers, Top
<1>16. CASE UNCHANGED vars
  BY <1>16 DEF vars, TimerSet, TimerCoversAll, WakeCovers, Late, Top
<1> QED
  BY <1>1, <1>2, <1>3, <1>4, <1>5, <1>6, <1>7, <1>8, <1>9, <1>10, <1>11, <1>12, <1>13, <1>14, <1>15, <1>16 DEF Next, UserOrMacro, Start, Finish

\* Removing consumers from the pump and clearing their sessions.
LEMMA ResetOnePump ==
  ASSUME TypeOK, OnePump, NEW K, Reset(K), UNCHANGED nested
  PROVE  OnePump'
<1>1. ASSUME NEW i \in DOMAIN frames
      PROVE  frames'[i].key = frames[i].key /\ frames'[i].due = frames[i].due /\ frames'[i].live = frames[i].live \ K
  <2>1. frames[i] \in Frame /\ frames'[i] = [frames[i] EXCEPT !.live = @ \ K]
    BY GoneShape, Stack DEF Reset
  <2> QED
    BY <2>1 DEF Frame
<1>2. \A i \in DOMAIN frames : frames[i].live \subseteq Keys
  BY Stack DEF Frame
<1>3. DOMAIN frames' = DOMAIN frames /\ Len(frames') = Len(frames)
  BY GoneShape DEF Reset
<1> QED
  BY <1>1, <1>2, <1>3, ResetShape DEF OnePump

\* A step of the only pump.
LEMMA TopOnePump ==
  ASSUME TypeOK, OnePump, frames # <<>>, NEW f \in Frame, frames' = WithTop(f), UNCHANGED nested,
         \A k \in f.live : k \in f.due \/ k = f.key =>
             active'[k] = active[k] /\ k \in Top.live /\ (k \in Top.due \/ k = Top.key)
  PROVE  OnePump'
<1>1. /\ Len(frames') = Len(frames) /\ DOMAIN frames' = DOMAIN frames
      /\ \A i \in DOMAIN frames : frames'[i] = IF i = Len(frames) THEN f ELSE frames[i]
  BY TopShape
<1>2. ~nested => DOMAIN frames = {Len(frames)} /\ frames[Len(frames)] = Top
  BY Stack DEF OnePump, Top
<1> QED
  BY <1>1, <1>2 DEF OnePump

\* Every step keeps what a pump has collected without a session, until a pump is nested.
LEMMA OnePumpStep ==
  ASSUME TypeOK, TypeOK', Frames, OnePump, [Next]_vars
  PROVE  OnePump'
<1>1. CASE \/ \E w \in Windows : OpenWindow(w)
           \/ SubmitJob \/ DeliverJob
  BY <1>1 DEF OpenWindow, SubmitJob, DeliverJob, OnePump
<1>2. CASE \/ \E w \in Windows : CloseWindow(w)
           \/ \E k \in Timers : TimerStart(k)
           \/ \E k \in Closures : LoadClosure(k)
           \/ \E k \in Keys : Stop(k)
  BY <1>2, ResetOnePump DEF CloseWindow, TimerStart, LoadClosure, Stop
<1>3. CASE OpenModal
  <2> DEFINE f == [Top EXCEPT !.modal = TRUE]
  <2>1. frames # <<>> /\ f \in Frame /\ f.live = Top.live /\ f.due = Top.due /\ f.key = Top.key
    BY <1>3, Stack DEF OpenModal, MayStart, Frame, Free
  <2>2. \A l \in f.live : l \in f.due \/ l = f.key => active'[l] = active[l] /\ l \in Top.live /\ (l \in Top.due \/ l = Top.key)
    BY <1>3, <2>1 DEF OpenModal
  <2> QED
    BY <1>3, <2>1, <2>2, TopOnePump DEF OpenModal
<1>4. CASE Tick
  <2>1. ASSUME NEW i \in DOMAIN frames
        PROVE  frames'[i].key = frames[i].key /\ frames'[i].due = frames[i].due /\ frames'[i].live = frames[i].live
    BY <1>4, TickShape, Stack DEF Frame
  <2> QED
    BY <1>4, <2>1, TickShape DEF Tick, OnePump
<1>5. CASE TimerExpired
  <2>1. PICK f \in Frame : /\ frames' = Append(frames, f) /\ f.key = None
                           /\ f.live \subseteq {k \in registered : active[k] = None}
    BY <1>5, PumpPushes
  <2>2. ~nested' => frames = <<>> /\ Len(frames) = 0
    BY <1>5, Stack DEF TimerExpired, TypeOK
  <2>3. Len(frames') = Len(frames) + 1 /\ DOMAIN frames' = 1..(Len(frames) + 1) /\ frames'[Len(frames) + 1] = f
    BY <2>1, PushShape
  <2> QED
    BY <1>5, <2>1, <2>2, <2>3 DEF TimerExpired, OnePump
<1>6. CASE CloseModal
  <2> DEFINE f == [Top EXCEPT !.modal = FALSE]
  <2>1. frames # <<>> /\ f \in Frame /\ f.live = Top.live /\ f.due = Top.due /\ f.key = Top.key
    BY <1>6, Stack DEF CloseModal, MayStart, Frame, Free
  <2>2. \A l \in f.live : l \in f.due \/ l = f.key => active'[l] = active[l] /\ l \in Top.live /\ (l \in Top.due \/ l = Top.key)
    BY <1>6, <2>1 DEF CloseModal
  <2> QED
    BY <1>6, <2>1, <2>2, TopOnePump DEF CloseModal
<1>7. CASE PumpReturns
  BY <1>7, PopShape, Stack DEF PumpReturns, OnePump
<1>8. CASE UiMacroEnds
  <2> DEFINE f == [Top EXCEPT !.key = None, !.run = None]
  <2>1. frames # <<>> /\ f \in Frame /\ f.live = Top.live /\ f.due = Top.due /\ f.key = None
    BY <1>8, Stack DEF UiMacroEnds, MayStart, Frame, Free
  <2>2. \A l \in f.live : l \in f.due \/ l = f.key => active'[l] = active[l] /\ l \in Top.live /\ (l \in Top.due \/ l = Top.key)
    BY <1>8, <2>1, TopRuns, Stack, SchedulerAssumption DEF UiMacroEnds, Recorded, TypeOK, Frame, Frames, FrameOk, Top
  <2> QED
    BY <1>8, <2>1, <2>2, TopOnePump DEF UiMacroEnds
<1>9. CASE UiMacroYields
  <2> DEFINE f == [Top EXCEPT !.key = None, !.run = None]
  <2>1. frames # <<>> /\ f \in Frame /\ f.live = Top.live /\ f.due = Top.due /\ f.key = None
    BY <1>9, Stack DEF UiMacroYields, MayStart, Frame, Free
  <2>2. \A l \in f.live : l \in f.due \/ l = f.key => active'[l] = active[l] /\ l \in Top.live /\ (l \in Top.due \/ l = Top.key)
    BY <1>9, <2>1, TopRuns, Stack, SchedulerAssumption DEF UiMacroYields, Recorded, TypeOK, Frame, Frames, FrameOk, Top
  <2> QED
    BY <1>9, <2>1, <2>2, TopOnePump DEF UiMacroYields
<1>10. ASSUME NEW k \in Keys, StartOnUi(k)  PROVE OnePump'
  <2>0. PICK s \in Free : frames' = WithTop([Top EXCEPT !.due = @ \ {k}, !.key = k, !.run = s])
    BY <1>10 DEF StartOnUi
  <2> DEFINE f == [Top EXCEPT !.due = @ \ {k}, !.key = k, !.run = s]
  <2>1. frames # <<>> /\ f \in Frame /\ f.live = Top.live /\ f.due = Top.due \ {k} /\ f.key = k
    BY <1>10, Stack DEF StartOnUi, MayStart, Frame, Free
  <2>2. \A l \in f.live : l \in f.due \/ l = f.key => active'[l] = active[l] /\ l \in Top.live /\ (l \in Top.due \/ l = Top.key)
    BY <1>10, <2>1 DEF StartOnUi, MayStart
  <2> QED
    BY <1>10, <2>0, <2>1, <2>2, TopOnePump DEF StartOnUi
<1>11. ASSUME NEW k \in Keys, StartOnWorker(k)  PROVE OnePump'
  <2> DEFINE f == [Top EXCEPT !.due = @ \ {k}]
  <2>1. frames # <<>> /\ f \in Frame /\ f.live = Top.live /\ f.due = Top.due \ {k} /\ f.key = Top.key
    BY <1>11, Stack DEF StartOnWorker, MayStart, Frame, Free
  <2>2. \A l \in f.live : l \in f.due \/ l = f.key => active'[l] = active[l] /\ l \in Top.live /\ (l \in Top.due \/ l = Top.key)
    BY <1>11, <2>1, SchedulerAssumption DEF StartOnWorker, MayStart, Recorded, TypeOK, Frame
  <2> QED
    BY <1>11, <2>1, <2>2, TopOnePump DEF StartOnWorker
<1>12. ASSUME NEW k \in Keys, StartFails(k)  PROVE OnePump'
  <2> DEFINE f == [Top EXCEPT !.due = @ \ {k}]
  <2>1. frames # <<>> /\ f \in Frame /\ f.live = Top.live /\ f.due = Top.due \ {k} /\ f.key = Top.key
    BY <1>12, Stack DEF StartFails, MayStart, Frame, Free
  <2>2. \A l \in f.live : l \in f.due \/ l = f.key => active'[l] = active[l] /\ l \in Top.live /\ (l \in Top.due \/ l = Top.key)
    BY <1>12, <2>1 DEF StartFails
  <2> QED
    BY <1>12, <2>1, <2>2, TopOnePump DEF StartFails
<1>13. CASE JobRuns
  <2>1. CASE UNCHANGED <<active, frames>>
    BY <1>13, <2>1 DEF JobRuns, OnePump
  <2>2. ASSUME NEW k \in Closures, Reset({k})  PROVE OnePump'
    BY <1>13, <2>2, ResetOnePump DEF JobRuns
  <2> QED
    BY <1>13, <2>1, <2>2 DEF JobRuns, WorkerLoads
<1>14. ASSUME NEW s \in Sessions, WorkerRuns(s)  PROVE OnePump'
  <2>1. CASE UNCHANGED <<active, frames>>
    BY <1>14, <2>1 DEF WorkerRuns, OnePump
  <2>2. ASSUME NEW k \in Closures, Reset({k})  PROVE OnePump'
    BY <1>14, <2>2, ResetOnePump DEF WorkerRuns
  <2> QED
    BY <1>14, <2>1, <2>2 DEF WorkerRuns, WorkerLoads
<1>15. CASE \/ \E s \in Sessions : Deliver(s)
            \/ \E s \in Sessions : ResumeDelay(s)
  BY <1>15, Stack DEF Deliver, ResumeDelay, Observed, OnePump, TypeOK, Frame
<1>16. CASE UNCHANGED vars
  BY <1>16 DEF vars, OnePump
<1> QED
  BY <1>1, <1>2, <1>3, <1>4, <1>5, <1>6, <1>7, <1>8, <1>9, <1>10, <1>11, <1>12, <1>13, <1>14, <1>15, <1>16 DEF Next, UserOrMacro, Start, Finish

-----------------------------------------------------------------------------
(* The theorems. *)

\* The invariant holds in the beginning and is kept by every step of the program.
THEOREM Invariance == Spec => []IInv
<1>1. Init => IInv
  <2> SUFFICES ASSUME Init  PROVE IInv
    OBVIOUS
  <2>1. TypeOK
    <3>1. frames \in Seq(Frame)
      BY EmptySeq DEF Init
    <3> QED
      BY <3>1 DEF Init, TypeOK, Forgotten
  <2>2. Frames /\ Blocked /\ PumpCovers /\ NoTimerWithoutWindow /\ OnePump
    BY DEF Init, Frames, Blocked, PumpCovers, NoTimerWithoutWindow, OnePump
  <2>3. TimerSet
    BY DEF Init, TimerSet, TimerCoversAll
  <2> QED
    BY <2>1, <2>2, <2>3 DEF IInv
<1>2. IInv /\ [Next]_vars => IInv'
  <2> SUFFICES ASSUME IInv, [Next]_vars  PROVE IInv'
    OBVIOUS
  <2>1. TypeOK' /\ Frames' /\ Blocked' /\ PumpCovers' /\ NoTimerWithoutWindow'
    BY TypeStep, FramesStep, BlockedStep, PumpStep, WindowStep DEF IInv
  <2>2. TimerSet' /\ OnePump'
    BY <2>1, TimerStep, OnePumpStep DEF IInv
  <2> QED
    BY <2>1, <2>2 DEF IInv
<1> QED
  BY <1>1, <1>2, PTL DEF Spec

\* Every variable keeps its type, for any number of consumers and sessions.
THEOREM TypeCorrect == Spec => []TypeOK
<1>1. IInv => TypeOK
  BY DEF IInv
<1> QED
  BY <1>1, Invariance, PTL

\* activeSessionId names a session of the consumer that has not ended: every way a
\* session can end clears it, so a consumer is not skipped for ever.
THEOREM BlockedByOwnSession == Spec => []BlockedByLive
<1>1. IInv => BlockedByLive
  BY DEF IInv, TypeOK, Blocked, BlockedByLive
<1> QED
  BY <1>1, Invariance, PTL

\* Outside a pump the UI timer expires no later than the earliest consumer is due,
\* and pumpRuntimeScheduler() returns early only when none is.
THEOREM TimerIsArmed == Spec => []TimerCovers
<1>1. IInv => TimerCovers
  BY DEF IInv, PumpCovers, TimerSet, Late, TimerCoversAll, WakeCovers, TimerCovers
<1> QED
  BY <1>1, Invariance, PTL

\* A registered timer has an open window, whatever runs while the window closes.
THEOREM TimersDieWithWindows == Spec => []NoTimerWithoutWindow
<1>1. IInv => NoTimerWithoutWindow
  BY DEF IInv
<1> QED
  BY <1>1, Invariance, PTL

\* Until a dialog of a scheduled macro serves the timer, a registered consumer has
\* one session at a time.
THEOREM SessionsDoNotOverlap == Spec => []NoOverlap
<1>1. IInv => NoOverlap
  <2> SUFFICES ASSUME IInv, ~nested, NEW k \in registered
               PROVE  Cardinality(Running(k)) <= 1
    BY DEF NoOverlap
  <2> DEFINE J == {j \in DOMAIN frames : frames[j].key = k /\ k \in frames[j].live}
  <2>1. Len(frames) <= 1 /\ (J # {} => active[k] = None)
    BY DEF IInv, OnePump
  <2>2. J \subseteq {1}
    BY <2>1, Stack DEF IInv
  <2>3. \E x : Running(k) \subseteq {x}
    <3>1. CASE J = {}
      BY <3>1 DEF Running
    <3>2. CASE J # {}
      BY <2>1, <2>2, <3>2 DEF Running
    <3> QED
      BY <3>1, <3>2
  <2>4. PICK x : Running(k) \subseteq {x}
    BY <2>3
  <2>5. Running(k) = {} \/ Running(k) = {x}
    BY <2>4
  <2> QED
    BY <2>5, FS_EmptySet, FS_Singleton
<1> QED
  BY <1>1, Invariance, PTL
=============================================================================
