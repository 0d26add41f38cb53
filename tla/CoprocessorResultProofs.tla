----------------------- MODULE CoprocessorResultProofs -----------------------
(***************************************************************************)
(* The fourth layer of the coprocessor's invariant, proved with TLAPS for  *)
(* any number of workers, tasks, sources and chunks: every task is         *)
(* answered exactly once, its result comes after its chunks, a finished    *)
(* source is erased, and the telemetry counts what there is.               *)
(***************************************************************************)
EXTENDS CoprocessorProofs, FiniteSetTheorems, FunctionTheorems
-----------------------------------------------------------------------------
\* A nonempty set of naturals has a least element.
LEMMA LeastNat ==
  ASSUME NEW S, S \subseteq Nat, S # {}
  PROVE  \E x \in S : \A y \in S : x <= y
<1> DEFINE Less == {p \in Nat \X Nat : p[1] < p[2]}
<1>1. IsWellFoundedOn(Less, Nat)
  BY NatLessThanWellFounded DEF OpToRel
<1>2. \A x, y \in Nat : y < x => <<y, x>> \in Less
  OBVIOUS
<1>3. PICK x \in S : \A y \in S : ~(<<y, x>> \in Less)
  <2> HIDE DEF Less
  <2> QED
    BY <1>1, WFMin
<1>4. \A y \in S : ~(y < x)
  <2> HIDE DEF Less
  <2> QED
    BY <1>2, <1>3, Zenon
<1> QED
  BY <1>4
-----------------------------------------------------------------------------
(***************************************************************************)
(* The places of a task.                                                   *)
(***************************************************************************)

\* What the fourth layer needs of the first.
LEMMA ResultTypes ==
  ASSUME TypeInv
  PROVE  /\ results \in Seq(Result) /\ Len(results) \in Nat
         /\ \A i \in 1..Len(results) : results[i] \in Result /\ results[i].task \in Task
         /\ queue \in [Lane -> Seq(Task)] /\ \A l \in Lane : Elements(queue[l]) \subseteq Task
         /\ \A l \in Lane : InHand(l) \subseteq Task
         /\ nextTaskId \in Nat /\ nextTaskId >= 1 /\ nextTaskId <= MaxTasks + 1 /\ Task \subseteq Nat
<1>1. results \in Seq(Result) /\ queue \in [Lane -> Seq(Task)] /\ nextTaskId \in 1..(MaxTasks + 1)
  BY DEF TypeInv, TypeOK
<1>2. \A i \in 1..Len(results) : results[i] \in Result /\ results[i].task \in Task
  <2>1. \A i \in 1..Len(results) : results[i] \in Result
    BY <1>1
  <2>2. \A r \in Result : r.task \in Task
    BY DEF Result
  <2> QED
    BY <2>1, <2>2
<1>3. \A l \in Lane : Elements(queue[l]) \subseteq Task
  BY <1>1 DEF Elements
<1>4. \A l \in Lane : InHand(l) \subseteq Task
  BY DEF TypeInv, HeldTask, InHand, HoldingPc
<1> QED
  BY <1>1, <1>2, <1>3, <1>4, BoundsAssumption DEF Task

\* A step that moves neither task nor result.
LEMMA LedgerQuiet ==
  ASSUME TypeInv, Ledger, ResultOrder, UNCHANGED <<queue, results, delivered, discarded, nextTaskId>>,
         \A l \in Lane : InHand(l)' = InHand(l)
  PROVE  Ledger' /\ ResultOrder'
<1>1. \A t \in Task : (Waits(t)' <=> Waits(t)) /\ (InWork(t)' <=> InWork(t)) /\ (Posted(t)' <=> Posted(t))
  BY DEF Waits, InWork, Posted
<1>2. Ledger'
  BY <1>1 DEF Ledger
<1>3. ResultOrder'
  BY <1>1, ResultTypes DEF ResultOrder
<1> QED
  BY <1>2, <1>3

\* A task that was not given out is nowhere.
LEMMA NewTaskIsNowhere ==
  ASSUME Ledger, nextTaskId \in Task, TypeInv
  PROVE  /\ ~Waits(nextTaskId) /\ ~InWork(nextTaskId) /\ ~Posted(nextTaskId)
         /\ nextTaskId \notin delivered /\ nextTaskId \notin discarded
  BY ResultTypes DEF Ledger

\* submitToLaneState(): the new task waits.
LEMMA LedgerPush ==
  ASSUME TypeInv, Ledger, ResultOrder, NEW k, NEW c, Push(k, c)
  PROVE  Ledger' /\ ResultOrder'
<1> DEFINE n == nextTaskId
<1>1. n \in Task /\ uiLane \in Lane /\ queue' = [queue EXCEPT ![uiLane] = Append(@, n)] /\ nextTaskId' = n + 1
      /\ UNCHANGED <<held, results, delivered, discarded>>
  BY DEF Push, histVars
<1>2. \A l \in Lane : InHand(l)' = InHand(l)
  BY <1>1 DEF Push, Woken, InHand, TypeInv, TypeOK
<1>3. \A l \in Lane : Elements(queue'[l]) = IF l = uiLane THEN Elements(queue[l]) \cup {n} ELSE Elements(queue[l])
  <2>1. \A l \in Lane : queue'[l] = IF l = uiLane THEN Append(queue[l], n) ELSE queue[l]
    BY <1>1, ResultTypes
  <2>2. \A l \in Lane : Elements(Append(queue[l], n)) = Elements(queue[l]) \cup {n}
    BY <1>1, ResultTypes, ElementsAppend
  <2> QED
    BY <2>1, <2>2
<1>4. \A t \in Task : /\ Waits(t)' <=> Waits(t) \/ t = n
                      /\ InWork(t)' <=> InWork(t)
                      /\ Posted(t)' <=> Posted(t)
  <2>1. \A t \in Task : Waits(t)' <=> Waits(t) \/ t = n
    <3> SUFFICES ASSUME NEW t \in Task  PROVE Waits(t)' <=> Waits(t) \/ t = n
      OBVIOUS
    <3> HIDE DEF n
    <3>1. ASSUME NEW l \in Lane, t \in Elements(queue'[l])  PROVE Waits(t) \/ t = n
      BY <1>3, <3>1 DEF Waits
    <3>2. ASSUME NEW l \in Lane, t \in Elements(queue[l])  PROVE Waits(t)'
      BY <1>3, <3>2 DEF Waits
    <3>3. n \in Elements(queue'[uiLane])
      <4>1. Elements(queue'[uiLane]) = Elements(queue[uiLane]) \cup {n}
        BY <1>1, <1>3, Zenon
      <4> QED
        BY <4>1, Zenon
    <3> QED
      BY <1>1, <3>1, <3>2, <3>3 DEF Waits
  <2>2. \A t \in Task : (InWork(t)' <=> InWork(t)) /\ (Posted(t)' <=> Posted(t))
    BY <1>1, <1>2 DEF InWork, Posted
  <2> QED
    BY <2>1, <2>2
<1>5. /\ ~Waits(n) /\ ~InWork(n) /\ ~Posted(n) /\ n \notin delivered /\ n \notin discarded
  BY <1>1, NewTaskIsNowhere
<1>6. Ledger'
  <2>1. \A t \in Task : t < nextTaskId' <=> t < n \/ t = n
    BY <1>1, ResultTypes
  <2> QED
    BY <1>1, <1>4, <1>5, <2>1 DEF Ledger
<1>7. ResultOrder'
  BY <1>1, <1>4, ResultTypes DEF ResultOrder
<1> QED
  BY <1>6, <1>7

\* popNextRequestLocked(): a waiting task is in work.
LEMMA LedgerPop ==
  ASSUME TypeInv, TypeInv', TaskInv, TaskInv', Ledger, ResultOrder, NEW l \in Lane, PopRequest(l)
  PROVE  Ledger' /\ ResultOrder'
<1> DEFINE h == Head(queue[l])
<1>1. /\ queue[l] # <<>> /\ queue' = [queue EXCEPT ![l] = Tail(queue[l])] /\ wpc[l] = "wait"
      /\ held' = [held EXCEPT ![l] = h] /\ wpc' = [wpc EXCEPT ![l] = "start"]
      /\ UNCHANGED <<results, delivered, discarded, nextTaskId>>
  BY DEF PopRequest, Popped, WorkerFrame, idVars
<1>2. /\ h \in Elements(queue[l]) /\ Elements(queue[l]) = Elements(Tail(queue[l])) \cup {h}
  BY <1>1, ResultTypes, ElementsTail
<1>3. \A m \in Lane : Elements(queue'[m]) = IF m = l THEN Elements(Tail(queue[l])) ELSE Elements(queue[m])
  BY <1>1, ResultTypes
<1>4. \A m \in Lane : InHand(m)' = IF m = l THEN {h} ELSE InHand(m)
  BY <1>1 DEF InHand, TypeInv, TypeOK
<1>5. InHand(l) = {} /\ h \notin Elements(Tail(queue[l]))
  <2>1. InHand(l) = {}
    BY <1>1 DEF InHand
  <2>2. wpc'[l] \in HoldingPc /\ held'[l] = h /\ queue'[l] = Tail(queue[l])
    BY <1>1, ResultTypes DEF HoldingPc, TypeInv, TypeOK
  <2> QED
    BY <2>1, <2>2 DEF TaskInv, OnePlace
<1>6. \A m \in Lane \ {l} : h \notin Elements(queue[m])
  <2>1. h \in Task /\ Has(l, h)
    BY <1>2, ResultTypes DEF Has
  <2> QED
    BY <2>1 DEF TaskInv, OnePlace, Has
<1>7. \A t \in Task : /\ Waits(t)' <=> Waits(t) /\ t # h
                      /\ InWork(t)' <=> InWork(t) \/ t = h
                      /\ Posted(t)' <=> Posted(t)
  <2>1. \A t \in Task : Waits(t)' <=> Waits(t) /\ t # h
    BY <1>2, <1>3, <1>5, <1>6 DEF Waits
  <2>2. \A t \in Task : InWork(t)' <=> InWork(t) \/ t = h
    BY <1>4, <1>5 DEF InWork
  <2>3. \A t \in Task : Posted(t)' <=> Posted(t)
    BY <1>1 DEF Posted
  <2> QED
    BY <2>1, <2>2, <2>3
<1>8. Waits(h) /\ h \in Task
  BY <1>2, ResultTypes DEF Waits
<1>9. Ledger'
  BY <1>1, <1>7, <1>8 DEF Ledger
<1>10. ResultOrder'
  BY <1>1, <1>7, <1>8, ResultTypes DEF ResultOrder
<1> QED
  BY <1>9, <1>10

\* cancelPending() discards what waits in a lane.
LEMMA LedgerClear ==
  ASSUME TypeInv, TaskInv, Ledger, ResultOrder, ClearLane
  PROVE  Ledger' /\ ResultOrder'
<1> DEFINE E == Elements(queue[uiLane])
<1>1. /\ uiLane \in Lane /\ queue' = [queue EXCEPT ![uiLane] = <<>>] /\ discarded' = discarded \cup E
      /\ wpc' = Woken({uiLane}) /\ UNCHANGED <<held, results, delivered, nextTaskId>>
  BY DEF ClearLane, idVars, TypeInv, UiLaneValid
<1>2. \A l \in Lane : InHand(l)' = InHand(l)
  BY <1>1 DEF Woken, InHand, TypeInv, TypeOK
<1>3. \A l \in Lane : Elements(queue'[l]) = IF l = uiLane THEN {} ELSE Elements(queue[l])
  BY <1>1, ResultTypes DEF Elements
<1>4. \A m \in Lane \ {uiLane} : E \cap Elements(queue[m]) = {}
  BY <1>1, ResultTypes DEF TaskInv, OnePlace, Has
<1>5. \A t \in Task : /\ Waits(t)' <=> Waits(t) /\ t \notin E
                      /\ t \in E => Waits(t)
                      /\ InWork(t)' <=> InWork(t)
                      /\ Posted(t)' <=> Posted(t)
  <2>1. \A t \in Task : t \in E => Waits(t)
    BY <1>1 DEF Waits
  <2>2. \A t \in Task : Waits(t)' <=> Waits(t) /\ t \notin E
    BY <1>1, <1>3, <1>4 DEF Waits
  <2>3. \A t \in Task : (InWork(t)' <=> InWork(t)) /\ (Posted(t)' <=> Posted(t))
    BY <1>1, <1>2 DEF InWork, Posted
  <2> QED
    BY <2>1, <2>2, <2>3
<1>6. \A t \in Task : t \in E => ~InWork(t)
  <2> SUFFICES ASSUME NEW t \in Task, t \in E, NEW m \in Lane, t \in InHand(m)
               PROVE  FALSE
    BY DEF InWork
  <2>1. wpc[m] \in HoldingPc /\ held[m] = t /\ Has(m, t) /\ Has(uiLane, t)
    BY DEF InHand, HoldingPc, Has
  <2> QED
    BY <1>1, <2>1 DEF TaskInv, OnePlace
<1>7. Ledger'
  BY <1>1, <1>5, <1>6 DEF Ledger
<1>8. ResultOrder'
  BY <1>1, <1>5, ResultTypes DEF ResultOrder
<1> QED
  BY <1>7, <1>8

\* A worker's post() puts a chunk or the result of the task in its hands at the
\* end of the queue.
LEMMA LedgerPost ==
  ASSUME TypeInv, TypeInv', TaskInv, Ledger, ResultOrder, NEW l \in Lane, EnqueueChunk(l) \/ EnqueueFinal(l)
  PROVE  Ledger' /\ ResultOrder'
<1> DEFINE t0 == held[l]
           n == Len(results)
<1>1. /\ wpc[l] \in {"chunk", "enqueue"} /\ t0 \in Task
      /\ UNCHANGED <<queue, held, delivered, discarded, nextTaskId>>
  BY DEF EnqueueChunk, EnqueueFinal, WorkerFrame, idVars, TypeInv, HeldTask, HoldingPc
<1>2. InHand(l) = {t0} /\ InWork(t0) /\ ~Posted(t0)
  BY <1>1 DEF InHand, InWork, Ledger
<1>3. PICK f \in BOOLEAN : /\ results' = Append(results, [task |-> t0, final |-> f])
                           /\ f <=> EnqueueFinal(l)
                           /\ wpc' = [wpc EXCEPT ![l] = IF f THEN "forget" ELSE "run"]
  <2>1. CASE EnqueueChunk(l)
    BY <2>1 DEF EnqueueChunk, EnqueueFinal
  <2>2. CASE EnqueueFinal(l)
    BY <2>2 DEF EnqueueFinal, FinalResult
  <2> QED
    BY <2>1, <2>2
<1>4. /\ n \in Nat /\ Len(results') = n + 1 /\ \A i \in 1..n : results'[i] = results[i]
      /\ results'[n + 1].task = t0 /\ (results'[n + 1].final <=> f)
  BY <1>3, ResultTypes
<1>5. \A m \in Lane : InHand(m)' = IF m = l /\ f THEN {} ELSE InHand(m)
  BY <1>1, <1>3 DEF InHand, TypeInv, TypeOK
<1>6. \A m \in Lane \ {l} : t0 \notin InHand(m)
  BY <1>1, <1>2 DEF InHand, TaskInv, OnePlace, Has, HoldingPc
<1>7. \A t \in Task : Waits(t)' <=> Waits(t)
  BY <1>1 DEF Waits
<1>8. \A t \in Task : InWork(t)' <=> InWork(t) /\ ~(f /\ t = t0)
  BY <1>2, <1>5, <1>6 DEF InWork
<1>9. \A t \in Task : Posted(t)' <=> Posted(t) \/ (f /\ t = t0)
  <2> HIDE DEF n, t0
  <2> SUFFICES ASSUME NEW t \in Task  PROVE Posted(t)' <=> Posted(t) \/ (f /\ t = t0)
    OBVIOUS
  <2>1. ASSUME NEW i \in 1..Len(results'), results'[i].final, results'[i].task = t
        PROVE  Posted(t) \/ (f /\ t = t0)
    <3>1. CASE i = n + 1
      BY <1>4, <2>1, <3>1
    <3>2. CASE i \in 1..n
      BY <1>4, <2>1, <3>2 DEF Posted, n
    <3> QED
      BY <1>4, <3>1, <3>2
  <2>2. ASSUME NEW i \in 1..n, results[i].final, results[i].task = t
        PROVE  Posted(t)'
    <3>1. i \in 1..Len(results') /\ results'[i] = results[i]
      BY <1>4
    <3> QED
      BY <2>2, <3>1 DEF Posted
  <2>3. ASSUME f, t = t0  PROVE Posted(t)'
    <3>1. n + 1 \in 1..Len(results') /\ results'[n + 1].final /\ results'[n + 1].task = t
      BY <1>4, <2>3
    <3> QED
      BY <3>1 DEF Posted
  <2>4. Posted(t)' => Posted(t) \/ (f /\ t = t0)
    BY <2>1 DEF Posted
  <2>5. Posted(t) => Posted(t)'
    BY <2>2 DEF Posted, n
  <2> QED
    BY <2>3, <2>4, <2>5
<1>12. ~Waits(t0)
  BY <1>1 DEF Waits, TaskInv, OnePlace, Has, HoldingPc
<1>10. Ledger'
  <2> HIDE DEF t0
  <2> SUFFICES ASSUME NEW t \in Task
               PROVE  /\ (t < nextTaskId <=> Waits(t) \/ InWork(t) \/ Posted(t) \/ t \in delivered \/ t \in discarded)'
                      /\ (Waits(t) \/ InWork(t) => ~Posted(t))'
                      /\ (Waits(t) \/ InWork(t) \/ Posted(t) => t \notin delivered \cup discarded)'
                      /\ (t \notin delivered \cap discarded)'
    BY DEF Ledger
  <2>1. ~Waits(t0)
    BY <1>2, <1>12
  <2> QED
    BY <1>1, <1>2, <1>7, <1>8, <1>9, <2>1 DEF Ledger
<1>11. ResultOrder'
  <2>1. ASSUME NEW i \in 1..Len(results'), NEW j \in 1..Len(results'), i < j, results'[i].final
        PROVE  results'[j].task # results'[i].task
    <3>1. i \in 1..n /\ results[i].final /\ results'[i] = results[i]
      BY <1>4, <2>1
    <3>2. CASE j \in 1..n
      BY <1>4, <2>1, <3>1, <3>2 DEF ResultOrder
    <3>3. CASE j = n + 1
      BY <1>2, <1>4, <3>1, <3>3 DEF Posted
    <3> QED
      BY <1>4, <3>2, <3>3
  <2>2. ASSUME NEW i \in 1..Len(results')
        PROVE  (InWork(results[i].task) \/ Posted(results[i].task))'
    <3>1. CASE i \in 1..n
      <4>1. results'[i].task \in Task /\ (InWork(results'[i].task) \/ Posted(results'[i].task))
        BY <1>4, <3>1, ResultTypes DEF ResultOrder
      <4> QED
        BY <4>1, <1>8, <1>9
    <3>2. CASE i = n + 1
      BY <1>1, <1>2, <1>4, <1>8, <1>9, <3>2
    <3> QED
      BY <1>4, <3>1, <3>2
  <2> QED
    BY <2>1, <2>2 DEF ResultOrder
<1> QED
  BY <1>10, <1>11

\* A result is taken out of the queue and given to the handler; nothing of its
\* task was in front of it.
LEMMA LedgerTake ==
  ASSUME TypeInv, Ledger, ResultOrder, NEW i \in 1..Len(results),
         \A j \in 1..Len(results) : j < i => results[j].task # results[i].task,
         Len(results') = Len(results) - 1,
         \A j \in 1..(Len(results) - 1) : results'[j] = results[IF j < i THEN j ELSE j + 1],
         delivered' = IF results[i].final THEN delivered \cup {results[i].task} ELSE delivered,
         UNCHANGED <<queue, discarded, nextTaskId>>,
         \A l \in Lane : InHand(l)' = InHand(l)
  PROVE  Ledger' /\ ResultOrder'
<1> DEFINE n == Len(results)
           r == results[i]
<1>1. n \in Nat /\ r.task \in Task
  BY ResultTypes
<1>2. \A t \in Task : (Waits(t)' <=> Waits(t)) /\ (InWork(t)' <=> InWork(t))
  BY DEF Waits, InWork
<1>3. ASSUME r.final  PROVE \A j \in 1..n : j # i => results[j].task # r.task
  BY <1>1, <1>3 DEF ResultOrder
<1>4. ASSUME NEW j \in 1..n, j # i
      PROVE  \E k \in 1..(n - 1) : results'[k] = results[j]
  <2>1. CASE j < i
    BY <1>1, <2>1
  <2>2. CASE j > i
    <3>1. j - 1 \in 1..(n - 1) /\ results'[j - 1] = results[IF j - 1 < i THEN j - 1 ELSE j - 1 + 1]
      BY <1>1, <2>2
    <3>2. results'[j - 1] = results[j]
      BY <1>1, <2>2, <3>1
    <3> QED
      BY <3>1, <3>2
  <2> QED
    BY <1>1, <1>4, <2>1, <2>2
<1>5. ASSUME NEW k \in 1..(n - 1)
      PROVE  \E j \in 1..n : j # i /\ results'[k] = results[j]
  BY <1>1
<1>6. \A t \in Task : Posted(t)' <=> Posted(t) /\ ~(r.final /\ t = r.task)
  <2>1. \A t : Posted(t)' <=> \E j \in 1..n : j # i /\ results[j].final /\ results[j].task = t
    <3> SUFFICES ASSUME NEW t  PROVE Posted(t)' <=> \E j \in 1..n : j # i /\ results[j].final /\ results[j].task = t
      OBVIOUS
    <3>1. ASSUME NEW k \in 1..(n - 1), results'[k].final, results'[k].task = t
          PROVE  \E j \in 1..n : j # i /\ results[j].final /\ results[j].task = t
      BY <1>5, <3>1
    <3>2. ASSUME NEW j \in 1..n, j # i, results[j].final, results[j].task = t
          PROVE  \E k \in 1..(n - 1) : results'[k].final /\ results'[k].task = t
      BY <1>4, <3>2
    <3> QED
      BY <3>1, <3>2 DEF Posted
  <2>2. \A t : Posted(t) <=> \E j \in 1..n : results[j].final /\ results[j].task = t
    BY DEF Posted
  <2> HIDE DEF n, r
  <2>3. \A t \in Task : (\E j \in 1..n : j # i /\ results[j].final /\ results[j].task = t)
                           <=> (\E j \in 1..n : results[j].final /\ results[j].task = t) /\ ~(r.final /\ t = r.task)
    BY <1>3 DEF r
  <2> QED
    BY <2>1, <2>2, <2>3
<1>7. r.final => Posted(r.task)
  BY DEF Posted
<1>8. Ledger'
  <2>1. \A t \in Task : t \in delivered' <=> t \in delivered \/ (r.final /\ t = r.task)
    OBVIOUS
  <2> QED
    BY <1>1, <1>2, <1>6, <1>7, <2>1 DEF Ledger
<1>9. ResultOrder'
  <2>1. ASSUME NEW a \in 1..Len(results'), NEW b \in 1..Len(results'), a < b, results'[a].final
        PROVE  results'[b].task # results'[a].task
    <3> DEFINE x == IF a < i THEN a ELSE a + 1
               y == IF b < i THEN b ELSE b + 1
    <3>1. x \in 1..n /\ y \in 1..n /\ x < y
      BY <1>1, <2>1
    <3>2. results'[a] = results[x] /\ results'[b] = results[y]
      OBVIOUS
    <3> QED
      BY <2>1, <3>1, <3>2 DEF ResultOrder
  <2>2. ASSUME NEW k \in 1..Len(results')
        PROVE  (InWork(results[k].task) \/ Posted(results[k].task))'
    <3>1. PICK j \in 1..n : j # i /\ results'[k] = results[j]
      BY <1>5
    <3>2. results[j].task \in Task /\ (InWork(results[j].task) \/ Posted(results[j].task))
      BY ResultTypes DEF ResultOrder
    <3>3. ~(r.final /\ results[j].task = r.task)
      BY <1>3, <3>1
    <3> QED
      BY <1>2, <1>6, <3>1, <3>2, <3>3
  <2> QED
    BY <2>1, <2>2 DEF ResultOrder
<1> QED
  BY <1>8, <1>9

\* results.erase(selected): what is left, in order.
LEMMA WithoutIndexShape ==
  ASSUME NEW S, NEW s \in Seq(S), NEW i \in 1..Len(s)
  PROVE  /\ Len(WithoutIndex(s, i)) = Len(s) - 1
         /\ \A j \in 1..(Len(s) - 1) : WithoutIndex(s, i)[j] = s[IF j < i THEN j ELSE j + 1]
<1> DEFINE a == SubSeq(s, 1, i - 1)
           b == SubSeq(s, i + 1, Len(s))
<1>1. a \in Seq(S) /\ Len(a) = i - 1 /\ \A j \in 1..(i - 1) : a[j] = s[j]
  OBVIOUS
<1>2. b \in Seq(S) /\ Len(b) = Len(s) - i /\ \A j \in 1..(Len(s) - i) : b[j] = s[i + j]
  OBVIOUS
<1>3. WithoutIndex(s, i) = a \o b
  BY DEF WithoutIndex
<1> HIDE DEF a, b
<1>4. /\ Len(a \o b) = Len(a) + Len(b)
      /\ \A j \in 1..(Len(a) + Len(b)) : (a \o b)[j] = IF j <= Len(a) THEN a[j] ELSE b[j - Len(a)]
  BY <1>1, <1>2, ConcatProperties, Zenon
<1>5. Len(s) \in Nat /\ Len(a) + Len(b) = Len(s) - 1
  BY <1>1, <1>2
<1>6. ASSUME NEW j \in 1..(Len(s) - 1)  PROVE (a \o b)[j] = s[IF j < i THEN j ELSE j + 1]
  <2>1. (a \o b)[j] = IF j <= Len(a) THEN a[j] ELSE b[j - Len(a)]
    BY <1>4, <1>5
  <2>2. CASE j < i
    BY <1>1, <2>1, <2>2
  <2>3. CASE ~(j < i)
    <3>1. j - (i - 1) \in 1..(Len(s) - i) /\ i + (j - (i - 1)) = j + 1 /\ ~(j <= Len(a))
      BY <1>1, <1>5, <2>3
    <3> QED
      BY <1>1, <1>2, <2>1, <2>3, <3>1
  <2> QED
    BY <2>2, <2>3
<1> QED
  BY <1>3, <1>4, <1>5, <1>6

\* What pump() and pumpFor() take has nothing of its task in front of it: it is the
\* first, or the first of its kind.
LEMMA FirstOfItsTask ==
  ASSUME TypeInv, results # <<>>, NEW i \in {1, PriorityIndex}
  PROVE  i \in 1..Len(results) /\ \A j \in 1..Len(results) : j < i => results[j].task # results[i].task
<1> DEFINE folds == {k \in 1..Len(results) : kind[results[k].task] = "fold"}
<1>1. Len(results) \in Nat /\ Len(results) >= 1
  BY ResultTypes
<1>2. CASE i = 1
  BY <1>1, <1>2
<1>3. CASE i = PriorityIndex /\ folds # {}
  <2>1. folds \subseteq Nat
    BY <1>1
  <2>2. \E k \in folds : \A j \in folds : k <= j
    BY <1>3, <2>1, LeastNat
  <2>3. i \in folds /\ \A j \in folds : i <= j
    BY <1>3, <2>2 DEF PriorityIndex
  <2> QED
    BY <1>1, <2>3
<1>4. CASE i = PriorityIndex /\ folds = {}
  BY <1>2, <1>4 DEF PriorityIndex
<1> QED
  BY <1>2, <1>3, <1>4

\* pump(), pumpFor() and the draining at shutdown.
LEMMA LedgerPump ==
  ASSUME TypeInv, Ledger, ResultOrder, NEW i \in 1..Len(results), PumpOne(i)
  PROVE  Ledger' /\ ResultOrder'
<1>1. i \in {1, PriorityIndex} /\ results # <<>>
  BY DEF PumpOne
<1>2. /\ Len(results') = Len(results) - 1
      /\ \A j \in 1..(Len(results) - 1) : results'[j] = results[IF j < i THEN j ELSE j + 1]
  BY ResultTypes, WithoutIndexShape DEF PumpOne
<1>3. UNCHANGED <<queue, held, discarded, nextTaskId>>
  BY DEF PumpOne, idVars
<1>4. \A l \in Lane : InHand(l)' = InHand(l)
  BY <1>3 DEF PumpOne, EnterUnregister, SetFlagAndNotify, Woken, InHand, TypeInv, TypeOK
<1>5. delivered' = IF results[i].final THEN delivered \cup {results[i].task} ELSE delivered
  BY DEF PumpOne
<1> QED
  BY <1>1, <1>2, <1>3, <1>4, <1>5, FirstOfItsTask, LedgerTake

\* The draining at shutdown takes the first.
LEMMA LedgerDrain ==
  ASSUME TypeInv, Ledger, ResultOrder, DrainOne
  PROVE  Ledger' /\ ResultOrder'
<1>1. /\ 1 \in 1..Len(results) /\ Head(results) = results[1]
      /\ Len(results') = Len(results) - 1
      /\ \A j \in 1..(Len(results) - 1) : results'[j] = results[IF j < 1 THEN j ELSE j + 1]
  BY ResultTypes DEF DrainOne
<1>2. UNCHANGED <<queue, held, wpc, discarded, nextTaskId>>
  BY DEF DrainOne, idVars, laneVars
<1>3. \A l \in Lane : InHand(l)' = InHand(l)
  BY <1>2 DEF InHand
<1>4. delivered' = IF results[1].final THEN delivered \cup {results[1].task} ELSE delivered
  BY <1>1 DEF DrainOne
<1>5. \A j \in 1..Len(results) : j < 1 => results[j].task # results[1].task
  BY ResultTypes
<1> QED
  BY <1>1, <1>2, <1>3, <1>4, <1>5, LedgerTake

\* The end of shutdown() discards the results that are left.
LEMMA LedgerShutdownEnd ==
  ASSUME TypeInv, LaneInv, TaskInv, Ledger, ResultOrder, ShutdownEnd
  PROVE  Ledger' /\ ResultOrder'
<1>1. /\ results' = <<>> /\ UNCHANGED <<queue, held, wpc, delivered, nextTaskId>>
      /\ discarded' = discarded \cup {r.task : r \in {x \in Elements(results) : x.final}}
  BY DEF ShutdownEnd, laneVars, idVars
<1>2. \A t \in Task : (Waits(t)' <=> Waits(t)) /\ (InWork(t)' <=> InWork(t)) /\ ~Posted(t)'
  BY <1>1 DEF Waits, InWork, InHand, Posted
<1>3. \A t : t \in discarded' <=> t \in discarded \/ Posted(t)
  BY <1>1 DEF Posted, Elements
<1>4. Ledger'
  BY <1>1, <1>2, <1>3 DEF Ledger
<1>5. ResultOrder'
  BY <1>1 DEF ResultOrder
<1> QED
  BY <1>4, <1>5

\* The calls of the UI thread that move no task and no result.
QuietUi ==
    \/ BeginSubmit \/ StartOneShot \/ RegisterWorker \/ OpenSource \/ MarkRunning \/ StopLane
    \/ CancelLane \/ NotifyLane \/ RetireLane \/ PumpEnd \/ Reap \/ Join \/ Shutdown
    \/ CancelPendingFlags \/ ShutdownMove \/ ShutdownJoin \/ DrainEnd
    \/ \E l \in Lane : SubmitWorker(l) \/ UnregisterWorker(l) \/ CancelPendingNext(l)
    \/ \E t \in Task : CancelTask(t)
    \/ \E s \in Source : CloseSource(s)
    \/ UNCHANGED vars

\* where a worker has nothing of a task, or no longer
OffPc == {"none", "boot", "wait", "presleep", "asleep", "forget", "exit", "retired", "dead"}

\* They move no worker that has a task in its hands, either.
LEMMA QuietUiShape ==
  ASSUME TypeInv, LaneInv, QuietUi
  PROVE  /\ UNCHANGED <<queue, held, results, delivered, discarded, nextTaskId, kind, channel, telVars>>
         /\ \A l \in Lane : wpc'[l] = wpc[l] \/ (wpc[l] \in OffPc /\ wpc'[l] \in OffPc)
<1> USE DEF idVars, laneVars, taskVars, histVars
<1>w. wpc \in [Lane -> WorkerPc]
  BY DEF TypeInv, TypeOK
<1>1. CASE BeginSubmit \/ MarkRunning \/ StopLane \/ CancelLane \/ RetireLane \/ PumpEnd
  BY <1>1 DEF BeginSubmit, MarkRunning, StopLane, CancelLane, RetireLane, PumpEnd
<1>2. CASE Reap \/ Join \/ Shutdown \/ CancelPendingFlags \/ ShutdownMove \/ ShutdownJoin \/ DrainEnd
  BY <1>2 DEF Reap, Join, Shutdown, CancelPendingFlags, ShutdownMove, ShutdownJoin, DrainEnd
<1>3. CASE StartOneShot \/ RegisterWorker \/ OpenSource
  <2>1. /\ UNCHANGED <<queue, held, results, delivered, discarded, nextTaskId, kind, channel, telVars>>
        /\ nextWorkerOrdinal \in Lane /\ wpc' = [wpc EXCEPT ![nextWorkerOrdinal] = "boot"]
    BY <1>3 DEF StartOneShot, RegisterWorker, OpenSource, StartLane
  <2>2. wpc[nextWorkerOrdinal] = "none"
    BY <2>1, BoundsAssumption DEF LaneInv, FreshLanes, ThreadOfLane, Lane
  <2> QED
    BY <1>w, <2>1, <2>2 DEF OffPc
<1>4. ASSUME NEW l \in Lane, SubmitWorker(l) \/ UnregisterWorker(l) \/ CancelPendingNext(l)
      PROVE  UNCHANGED <<queue, held, wpc, results, delivered, discarded, nextTaskId, kind, channel, telVars>>
  BY <1>4 DEF SubmitWorker, UnregisterWorker, CancelPendingNext
<1>5. ASSUME NEW S, wpc' = Woken(S)
      PROVE  \A l \in Lane : wpc'[l] = wpc[l] \/ (wpc[l] \in OffPc /\ wpc'[l] \in OffPc)
  BY <1>5 DEF Woken, OffPc
<1>6. CASE NotifyLane
  BY <1>5, <1>6 DEF NotifyLane
<1>7. ASSUME NEW t \in Task, CancelTask(t)
      PROVE  /\ UNCHANGED <<queue, held, results, delivered, discarded, nextTaskId, kind, channel, telVars>>
             /\ wpc' = Woken(Notifiable)
  BY <1>7 DEF CancelTask, SetFlagAndNotify
<1>8. ASSUME NEW s \in Source, CloseSource(s)
      PROVE  /\ UNCHANGED <<queue, held, results, delivered, discarded, nextTaskId, kind, channel, telVars>>
             /\ wpc' = wpc \/ wpc' = Woken(Notifiable)
  BY <1>8 DEF CloseSource, EnterUnregister, SetFlagAndNotify
<1>9. CASE UNCHANGED vars
  BY <1>9 DEF vars
<1> QED
  BY <1>1, <1>2, <1>3, <1>4, <1>5, <1>6, <1>7, <1>8, <1>9 DEF QuietUi

\* Every step keeps the ledger and the order of results.
LEMMA LedgerStep ==
  ASSUME TypeInv, TypeInv', LaneInv, TaskInv, TaskInv', Ledger, ResultOrder, [Next]_vars
  PROVE  Ledger' /\ ResultOrder'
<1>1. CASE QuietUi
  <2>1. \A l \in Lane : InHand(l)' = InHand(l)
    BY <1>1, QuietUiShape DEF InHand, OffPc
  <2> QED
    BY <1>1, <2>1, QuietUiShape, LedgerQuiet
<1>2. CASE PushOneShot \/ PushKept \/ PushExternal
  BY <1>2, LedgerPush DEF PushOneShot, PushKept, PushExternal
<1>3. ASSUME NEW l \in Lane, Boot(l) \/ LeaveLoop(l) \/ PredicateFalse(l) \/ Sleep(l) \/ Exit(l) \/ Die(l)
      PROVE  Ledger' /\ ResultOrder'
  <2>1. UNCHANGED <<queue, held, results, delivered, discarded, nextTaskId>>
    BY <1>3 DEF Boot, LeaveLoop, PredicateFalse, Sleep, Exit, Die, WorkerFrame, idVars
  <2> DEFINE Off == {"boot", "wait", "presleep", "asleep", "exit", "retired", "dead"}
  <2>2. wpc[l] \in Off /\ \E pc \in Off : wpc' = [wpc EXCEPT ![l] = pc]
    BY <1>3, Zenon DEF Boot, LeaveLoop, PredicateFalse, Sleep, Exit, Die
  <2>3. wpc \in [Lane -> WorkerPc]
    BY DEF TypeInv, TypeOK
  <2>4. \A m \in Lane : m # l => wpc'[m] = wpc[m]
    BY <2>2, <2>3
  <2>5. wpc'[l] \in Off
    BY <2>2, <2>3
  <2>6. \A m \in Lane : InHand(m)' = InHand(m)
    BY <2>1, <2>2, <2>4, <2>5 DEF InHand
  <2> QED
    BY <2>1, <2>6, LedgerQuiet
<1>4. ASSUME NEW l \in Lane, SkipTask(l) \/ CallTask(l) \/ TaskReturns(l) \/ TaskInputEnds(l)
      PROVE  Ledger' /\ ResultOrder'
  <2> DEFINE At == {"start", "run", "chunk", "post", "enqueue"}
  <2>1. UNCHANGED <<queue, held, results, delivered, discarded, nextTaskId>>
    BY <1>4 DEF SkipTask, CallTask, TaskReturns, TaskInputEnds, ResultReady, WorkerFrame, idVars
  <2>2. wpc[l] \in At /\ \E pc \in At : wpc' = [wpc EXCEPT ![l] = pc]
    BY <1>4, Zenon DEF SkipTask, CallTask, TaskReturns, TaskInputEnds, ResultReady
  <2>3. wpc \in [Lane -> WorkerPc]
    BY DEF TypeInv, TypeOK
  <2>4. \A m \in Lane : m # l => wpc'[m] = wpc[m]
    BY <2>2, <2>3
  <2>5. wpc'[l] \in At
    BY <2>2, <2>3
  <2>6. \A m \in Lane : InHand(m)' = InHand(m)
    BY <2>1, <2>2, <2>4, <2>5 DEF InHand
  <2> QED
    BY <2>1, <2>6, LedgerQuiet
<1>5. ASSUME NEW l \in Lane, PostChunk(l) \/ NoteFinal(l) \/ ForgetTask(l)
      PROVE  Ledger' /\ ResultOrder'
  <2>1. UNCHANGED <<queue, results, delivered, discarded, nextTaskId>>
    BY <1>5 DEF PostChunk, NoteFinal, ForgetTask, WorkerFrame, idVars
  <2>2. \A m \in Lane : InHand(m)' = InHand(m)
    <3>1. wpc \in [Lane -> WorkerPc] /\ held \in [Lane -> Task \cup {None}]
      BY DEF TypeInv, TypeOK
    <3>2. CASE PostChunk(l)
      BY <3>1, <3>2 DEF PostChunk, InHand
    <3>3. CASE NoteFinal(l)
      BY <3>1, <3>3 DEF NoteFinal, InHand
    <3>4. CASE ForgetTask(l)
      BY <3>1, <3>4 DEF ForgetTask, InHand
    <3> QED
      BY <1>5, <3>2, <3>3, <3>4
  <2> QED
    BY <2>1, <2>2, LedgerQuiet
<1> QED
  BY <1>1, <1>2, <1>3, <1>4, <1>5, LedgerPop, LedgerClear, LedgerPost, LedgerPump, LedgerDrain, LedgerShutdownEnd
  DEF Next, UiCall, UiPump, UiStep, WorkerStep, WorkerInput, Terminated, QuietUi

\* The ledger in numbers: one lane, one worker or one result for each task.
LEMMA LedgerCounts ==
  ASSUME TypeInv, TaskInv, Ledger, ResultOrder
  PROVE  AnsweredOnce
<1> SUFFICES ASSUME NEW t \in 1..(nextTaskId - 1)
             PROVE  Cardinality({l \in Lane : t \in Elements(queue[l])})
                    + Cardinality({l \in Lane : t \in InHand(l)})
                    + Cardinality(FinalIndices(t))
                    + (IF t \in delivered THEN 1 ELSE 0)
                    + (IF t \in discarded THEN 1 ELSE 0) = 1
  BY DEF AnsweredOnce
<1> DEFINE Q == {l \in Lane : t \in Elements(queue[l])}
           H == {l \in Lane : t \in InHand(l)}
           F == FinalIndices(t)
<1>1. t \in Task /\ t < nextTaskId
  BY ResultTypes, BoundsAssumption DEF Task
<1>2. \A S : (S = {} => Cardinality(S) = 0) /\ ((\E x : S = {x}) => Cardinality(S) = 1)
  BY FS_EmptySet, FS_Singleton
<1>3. \A l, m \in Lane : Has(l, t) /\ Has(m, t) => l = m
  BY <1>1 DEF TaskInv, OnePlace
<1>4. \A l \in Lane : l \in Q \/ l \in H => Has(l, t)
  BY DEF Has, InHand, HoldingPc
<1>s. ASSUME NEW S, \A x, y \in S : x = y  PROVE S = {} \/ \E x : S = {x}
  <2>1. ASSUME NEW x \in S  PROVE S = {x}
    BY <1>s, <2>1
  <2> QED
    BY <2>1
<1>5. Q = {} \/ \E x : Q = {x}
  <2>1. \A l, m \in Q : l = m
    BY <1>3, <1>4
  <2> HIDE DEF Q
  <2> QED
    BY <2>1, <1>s
<1>6. H = {} \/ \E x : H = {x}
  <2>1. \A l, m \in H : l = m
    BY <1>3, <1>4
  <2> HIDE DEF H
  <2> QED
    BY <2>1, <1>s
<1>7. \A i \in 1..Len(results) : i \in F <=> results[i].final /\ results[i].task = t
  <2>1. \A r \in Result : r = [task |-> t, final |-> TRUE] <=> r.final /\ r.task = t
    BY DEF Result
  <2> QED
    BY <2>1, ResultTypes DEF FinalIndices
<1>8. F = {} \/ \E x : F = {x}
  <2>1. F \subseteq 1..Len(results)
    BY DEF FinalIndices
  <2>2. \A i, j \in F : i = j
    BY <1>7, <2>1, ResultTypes DEF ResultOrder
  <2> HIDE DEF F
  <2> QED
    BY <2>2, <1>s
<1>9. (Q # {} <=> Waits(t)) /\ (H # {} <=> InWork(t)) /\ (F # {} <=> Posted(t))
  <2>1. (Q # {} <=> Waits(t)) /\ (H # {} <=> InWork(t))
    BY DEF Waits, InWork
  <2>2. F # {} <=> Posted(t)
    BY <1>7 DEF Posted, FinalIndices
  <2> QED
    BY <2>1, <2>2
<1>10. ~(Q # {} /\ H # {})
  <2> SUFFICES ASSUME NEW l \in Q, NEW m \in H  PROVE FALSE
    OBVIOUS
  <2>1. l = m
    BY <1>3, <1>4
  <2> QED
    BY <2>1 DEF TaskInv, OnePlace, InHand, HoldingPc
<1> HIDE DEF Q, H, F
<1>11. /\ Cardinality(Q) = IF Waits(t) THEN 1 ELSE 0
       /\ Cardinality(H) = IF InWork(t) THEN 1 ELSE 0
       /\ Cardinality(F) = IF Posted(t) THEN 1 ELSE 0
  BY <1>2, <1>5, <1>6, <1>8, <1>9
<1>12. ~(Waits(t) /\ InWork(t))
  BY <1>9, <1>10
<1> QED
  BY <1>1, <1>11, <1>12 DEF Ledger, Q, H, F
-----------------------------------------------------------------------------
(***************************************************************************)
(* Sources.                                                                *)
(***************************************************************************)

\* A step of a worker, or of the UI thread, that leaves the sources alone.
LEMMA SourcesQuiet ==
  ASSUME KnownSources, FinishedSourceIsErased,
         UNCHANGED <<live, uiSrc, nextExternalSourceId, nextTaskId, kind, channel, delivered>>,
         ui \in {"stop", "cancel", "notify", "retire"} /\ uiSrc # None => ui' \in {"stop", "cancel", "notify", "retire"},
         ui' \in {"sdjoin", "drain", "sdend", "down"} => ui \in {"sdjoin", "drain", "sdend", "down"},
         TypeInv
  PROVE  KnownSources' /\ FinishedSourceIsErased'
<1>1. KnownSources'
  BY DEF KnownSources
<1>2. None \notin live
  BY DEF TypeInv, TypeOK, Source, None
<1> QED
  BY <1>1, <1>2 DEF FinishedSourceIsErased

\* Every step keeps the ids of sources apart, and erases a source whose reader's
\* result was handled.
LEMMA SourcesStep ==
  ASSUME TypeInv, TypeInv', LaneInv, LaneInv', Ledger, KnownSources, FinishedSourceIsErased, [Next]_vars
  PROVE  KnownSources' /\ FinishedSourceIsErased'
<1>t. /\ live \subseteq Source /\ nextExternalSourceId \in 1..(MaxSources + 1) /\ uiSrc \in Source \cup {None}
      /\ Source \subseteq Nat /\ None \notin Source /\ None = 0 /\ nextTaskId \in 1..(MaxTasks + 1) /\ Task \subseteq Nat
      /\ uiRet \in {"idle", "pump"} /\ uiNext \in {"idle", "start"}
      /\ kind \in [Task -> Kind] /\ channel \in [Task -> Nat] /\ delivered \subseteq Task
  <2>1. /\ live \subseteq Source /\ nextExternalSourceId \in 1..(MaxSources + 1) /\ uiSrc \in Source \cup {None}
        /\ nextTaskId \in 1..(MaxTasks + 1) /\ kind \in [Task -> Kind] /\ channel \in [Task -> Nat] /\ delivered \subseteq Task
        /\ uiRet \in {"idle", "pump"} /\ uiNext \in {"idle", "start"}
    BY DEF TypeInv, TypeOK
  <2>2. Source \subseteq Nat /\ None \notin Source /\ None = 0 /\ Task \subseteq Nat
    BY BoundsAssumption DEF Source, None, Task
  <2> QED
    BY <2>1, <2>2
<1>d. \A t \in delivered : t < nextTaskId
  BY <1>t DEF Ledger
<1> USE DEF idVars, laneVars, taskVars, histVars, srcVars, uiVars
<1>1. CASE BeginSubmit \/ StartOneShot \/ RegisterWorker \/ StopLane \/ CancelLane \/ PumpEnd \/ Reap \/ Join
  <2>1. /\ UNCHANGED <<live, uiSrc, nextExternalSourceId, nextTaskId, kind, channel, delivered>>
        /\ ui \in {"stop", "cancel", "notify", "retire"} => ui' \in {"stop", "cancel", "notify", "retire"}
        /\ ui' \notin {"sdjoin", "drain", "sdend", "down"} \/ ui' = ui
    BY <1>t, <1>1 DEF BeginSubmit, StartOneShot, RegisterWorker, StartLane, StopLane, CancelLane, PumpEnd, Reap, Join
  <2> QED
    BY <2>1, SourcesQuiet
<1>2. CASE Shutdown \/ CancelPendingFlags \/ ShutdownJoin \/ DrainEnd \/ ClearLane \/ ShutdownEnd
  <2>1. /\ UNCHANGED <<live, uiSrc, nextExternalSourceId, nextTaskId, kind, channel, delivered>>
        /\ ui \notin {"stop", "cancel", "notify", "retire"}
        /\ ui' \in {"sdjoin", "drain", "sdend", "down"} => ui \in {"sdjoin", "drain", "sdend", "down"}
    BY <1>2 DEF Shutdown, CancelPendingFlags, ShutdownJoin, DrainEnd, ClearLane, ShutdownEnd
  <2> QED
    BY <2>1, SourcesQuiet
<1>3. CASE NotifyLane
  <2>1. UNCHANGED <<live, uiSrc, nextExternalSourceId, nextTaskId, kind, channel, delivered>>
    BY <1>3 DEF NotifyLane
  <2>2. (uiSrc # None => ui' = "retire") /\ ui' \in {"retire", "clear"}
    BY <1>3 DEF NotifyLane, LaneInv, SourceLanes
  <2> QED
    BY <2>1, <2>2, SourcesQuiet
<1>4. ASSUME NEW l \in Lane, SubmitWorker(l) \/ CancelPendingNext(l) \/ UnregisterWorker(l)
      PROVE  KnownSources' /\ FinishedSourceIsErased'
  <2>1. /\ UNCHANGED <<live, uiSrc, nextExternalSourceId, nextTaskId, kind, channel, delivered>>
        /\ ui \notin {"stop", "cancel", "notify", "retire"} /\ ui' \in {"push", "stop"}
    BY <1>4 DEF SubmitWorker, CancelPendingNext, UnregisterWorker
  <2> QED
    BY <2>1, SourcesQuiet
<1>5. ASSUME NEW t \in Task, CancelTask(t)
      PROVE  KnownSources' /\ FinishedSourceIsErased'
  BY <1>5, SourcesQuiet DEF CancelTask
<1>6. ASSUME NEW s \in Source, CloseSource(s)
      PROVE  KnownSources' /\ FinishedSourceIsErased'
  <2>1. s \in live /\ uiSrc' = s /\ ui' = "stop" /\ ui = "idle"
        /\ UNCHANGED <<live, nextExternalSourceId, nextTaskId, kind, channel, delivered>>
    BY <1>6 DEF CloseSource, EnterUnregister
  <2> QED
    BY <2>1 DEF KnownSources, FinishedSourceIsErased
<1>7. CASE MarkRunning
  <2>1. uiSrc' = None /\ ui = "mark" /\ ui' = uiRet /\ UNCHANGED <<live, nextExternalSourceId, nextTaskId, kind, channel, delivered>>
    BY <1>7 DEF MarkRunning
  <2> QED
    BY <1>t, <2>1 DEF KnownSources, FinishedSourceIsErased
<1>8. CASE RetireLane
  <2>1. uiSrc' = None /\ live' = live \ {uiSrc} /\ ui' = uiRet /\ UNCHANGED <<nextExternalSourceId, nextTaskId, kind, channel, delivered>>
    BY <1>8 DEF RetireLane
  <2> QED
    BY <1>t, <2>1 DEF KnownSources, FinishedSourceIsErased
<1>9. CASE ShutdownMove
  <2>1. live' = {} /\ UNCHANGED <<uiSrc, nextExternalSourceId, nextTaskId, kind, channel, delivered>>
    BY <1>9 DEF ShutdownMove
  <2> QED
    BY <2>1 DEF KnownSources, FinishedSourceIsErased
<1>10. CASE OpenSource
  <2>1. /\ nextExternalSourceId' = nextExternalSourceId + 1 /\ live' = live \cup {nextExternalSourceId}
        /\ uiSrc' = nextExternalSourceId /\ ui = "idle" /\ ui' = "push" /\ UNCHANGED <<nextTaskId, kind, channel, delivered>>
    BY <1>10 DEF OpenSource
  <2>2. KnownSources'
    BY <1>t, <2>1 DEF KnownSources
  <2>3. \A t \in delivered : kind[t] = "extern" => channel[t] # nextExternalSourceId
    BY <1>t, <1>d DEF KnownSources
  <2> QED
    BY <2>1, <2>2, <2>3 DEF FinishedSourceIsErased
<1>11. ASSUME NEW k, NEW c, Push(k, c), k = "extern" => c = uiSrc
       PROVE  KnownSources' /\ FinishedSourceIsErased'
  <2>1. /\ nextTaskId \in Task /\ nextTaskId' = nextTaskId + 1 /\ kind' = [kind EXCEPT ![nextTaskId] = k]
        /\ channel' = [channel EXCEPT ![nextTaskId] = c] /\ ui = "push" /\ ui' \in {"mark", "idle", "pump"}
        /\ UNCHANGED <<live, uiSrc, nextExternalSourceId, delivered>>
    BY <1>t, <1>11 DEF Push
  <2>2. \A t \in delivered : kind'[t] = kind[t] /\ channel'[t] = channel[t]
    BY <1>t, <1>d, <2>1
  <2>3. KnownSources'
    <3>1. \A s \in live' \cup {uiSrc'} : s < nextExternalSourceId'
      BY <2>1 DEF KnownSources
    <3>2. ASSUME NEW t \in Task, t < nextTaskId', kind'[t] = "extern"
          PROVE  channel'[t] < nextExternalSourceId'
      <4>1. CASE t = nextTaskId
        BY <1>t, <1>11, <2>1, <3>1, <3>2, <4>1
      <4>2. CASE t # nextTaskId
        <5>1. t < nextTaskId /\ kind'[t] = kind[t] /\ channel'[t] = channel[t]
          BY <1>t, <2>1, <3>2, <4>2
        <5> QED
          BY <2>1, <3>2, <5>1 DEF KnownSources
      <4> QED
        BY <4>1, <4>2
    <3> QED
      BY <2>1, <3>1, <3>2 DEF KnownSources
  <2> QED
    BY <2>1, <2>2, <2>3 DEF FinishedSourceIsErased
<1>12. CASE PushOneShot \/ PushKept \/ PushExternal
  <2>1. "extern" \notin OneShotKinds
    BY BoundsAssumption
  <2> QED
    BY <1>11, <1>12, <2>1 DEF PushOneShot, PushKept, PushExternal
<1>13. ASSUME NEW i \in 1..Len(results), PumpOne(i)
       PROVE  KnownSources' /\ FinishedSourceIsErased'
  <2> DEFINE r == results[i]
  <2>1. /\ UNCHANGED <<live, nextExternalSourceId, nextTaskId, kind, channel>> /\ ui \in {"idle", "pump"}
        /\ delivered' = IF r.final THEN delivered \cup {r.task} ELSE delivered
    BY <1>13 DEF PumpOne
  <2>2. \A t \in delivered : kind[t] = "extern" => channel[t] \notin live
    BY <2>1 DEF FinishedSourceIsErased
  <2>3. CASE EndsSource(r)
    <3>1. uiSrc' = channel[r.task] /\ ui' = "stop" /\ channel[r.task] \in live
      BY <1>13, <2>3 DEF PumpOne, EnterUnregister, EndsSource
    <3> QED
      BY <2>1, <2>2, <3>1 DEF KnownSources, FinishedSourceIsErased
  <2>4. CASE ~EndsSource(r)
    <3>1. uiSrc' = uiSrc /\ ui' = "pump"
      BY <1>13, <2>4 DEF PumpOne
    <3> QED
      BY <2>1, <2>2, <2>4, <3>1 DEF KnownSources, FinishedSourceIsErased, EndsSource
  <2> QED
    BY <2>3, <2>4
<1>14. CASE DrainOne
  <2>1. UNCHANGED <<live, uiSrc, nextExternalSourceId, nextTaskId, kind, channel>> /\ ui = "drain" /\ ui' = "drain"
    BY <1>14 DEF DrainOne
  <2>2. live = {}
    BY <2>1 DEF KnownSources
  <2> QED
    BY <2>1, <2>2 DEF KnownSources, FinishedSourceIsErased
<1>15. ASSUME NEW l \in Lane, WorkerStep(l) \/ WorkerInput(l)
       PROVE  KnownSources' /\ FinishedSourceIsErased'
  <2>1. WorkerFrame /\ UNCHANGED live
    BY <1>15 DEF WorkerStep, WorkerInput, Boot, PopRequest, LeaveLoop, PredicateFalse, Sleep, SkipTask, CallTask,
       EnqueueChunk, TaskReturns, NoteFinal, EnqueueFinal, ForgetTask, Exit, Die, PostChunk, TaskInputEnds
  <2> QED
    BY <2>1, SourcesQuiet DEF WorkerFrame
<1>16. CASE UNCHANGED vars
  BY <1>16, SourcesQuiet DEF vars
<1> QED
  BY <1>1, <1>2, <1>3, <1>4, <1>5, <1>6, <1>7, <1>8, <1>9, <1>10, <1>12, <1>13, <1>14, <1>15, <1>16
  DEF Next, UiCall, UiPump, UiStep, Terminated
-----------------------------------------------------------------------------
(***************************************************************************)
(* Telemetry.                                                              *)
(***************************************************************************)

\* the places in the queues, and the workers at one of the steps P
Waiting == {p \in Lane \X Task : p[2] <= Len(queue[p[1]])}
AtPc(P) == {l \in Lane : wpc[l] \in P}

ActivePc == {"run", "chunk", "post"}
PostingPc == {"chunk", "enqueue"}

Starting == AtPc({"start"})
Active == AtPc(ActivePc)
Posting == AtPc(PostingPc)

\* The counters, in these terms.
Counted ==
    /\ tQueued = Cardinality(Waiting) + Cardinality(Starting)
    /\ tActive = Cardinality(Active)
    /\ tResult = Len(results) + Cardinality(Posting)

\* It is the same to say it with the sets named above, before a step and after it.
LEMMA TelemetryForm ==
  (TelemetryExact <=> Counted) /\ (TelemetryExact' <=> Counted')
<1>1. {l \in Lane : wpc[l] = "start"} = Starting
  BY DEF AtPc, Starting
<1>2. {l \in Lane : wpc'[l] = "start"} = Starting'
  BY DEF AtPc, Starting
<1>3. TelemetryExact <=> Counted
  BY <1>1 DEF TelemetryExact, Counted, Waiting, AtPc, Active, Posting, ActivePc, PostingPc
<1>4. TelemetryExact' <=> Counted'
  BY <1>2 DEF TelemetryExact, Counted, Waiting, AtPc, Active, Posting, ActivePc, PostingPc
<1> QED
  BY <1>3, <1>4

\* There are finitely many workers and places.
LEMMA Finite ==
  /\ \A P : IsFiniteSet(AtPc(P)) /\ Cardinality(AtPc(P)) \in Nat
  /\ IsFiniteSet(Waiting) /\ Cardinality(Waiting) \in Nat
  /\ Cardinality(Starting) \in Nat /\ Cardinality(Active) \in Nat /\ Cardinality(Posting) \in Nat
<1>1. IsFiniteSet(Lane) /\ IsFiniteSet(Task)
  BY BoundsAssumption, FS_Interval DEF Lane, Task
<1>2. IsFiniteSet(Lane \X Task)
  BY <1>1, FS_Product
<1>3. \A P : AtPc(P) \in SUBSET Lane
  BY DEF AtPc
<1>4. Waiting \in SUBSET (Lane \X Task)
  BY DEF Waiting
<1> QED
  BY <1>1, <1>2, <1>3, <1>4, FS_Subset, FS_CardinalityType DEF Starting, Active, Posting

\* One worker goes on.
LEMMA OneWorkerMoves ==
  ASSUME TypeInv, NEW l \in Lane, NEW P, \A m \in Lane : m # l => wpc'[m] = wpc[m]
  PROVE  Cardinality(AtPc(P)') = Cardinality(AtPc(P)) + (IF wpc'[l] \in P THEN 1 ELSE 0)
                                                      - (IF wpc[l] \in P THEN 1 ELSE 0)
         /\ (wpc[l] \in P => Cardinality(AtPc(P)) >= 1)
<1>1. IsFiniteSet(AtPc(P)) /\ Cardinality(AtPc(P)) \in Nat
  BY Finite
<1>2. AtPc(P)' = IF wpc'[l] \in P THEN AtPc(P) \cup {l} ELSE AtPc(P) \ {l}
  BY DEF AtPc
<1>3. l \in AtPc(P) <=> wpc[l] \in P
  BY DEF AtPc
<1>4. wpc[l] \in P => Cardinality(AtPc(P)) # 0
  BY <1>1, <1>3, FS_EmptySet
<1>5. Cardinality(AtPc(P) \cup {l}) = IF l \in AtPc(P) THEN Cardinality(AtPc(P)) ELSE Cardinality(AtPc(P)) + 1
  BY <1>1, FS_AddElement
<1>6. Cardinality(AtPc(P) \ {l}) = IF l \in AtPc(P) THEN Cardinality(AtPc(P)) - 1 ELSE Cardinality(AtPc(P))
  BY <1>1, FS_RemoveElement
<1> QED
  BY <1>1, <1>2, <1>3, <1>4, <1>5, <1>6

\* The numbers from 1 to n are n.
LEMMA CountTo ==
  ASSUME NEW n \in Nat
  PROVE  IsFiniteSet(1..n) /\ Cardinality(1..n) = n
<1>1. IsFiniteSet(1..n) /\ Cardinality(1..n) = IF 1 > n THEN 0 ELSE n - 1 + 1
  BY FS_Interval
<1> QED
  BY <1>1

\* Tasks that are distinct are not more than there are task ids.
LEMMA DistinctIsShort ==
  ASSUME NEW s \in Seq(Task), Distinct(s)
  PROVE  Len(s) <= MaxTasks
<1> SUFFICES ASSUME ~(Len(s) <= MaxTasks)
             PROVE  FALSE
  OBVIOUS
<1>1. Len(s) \in Nat /\ s \in [1..Len(s) -> Task] /\ MaxTasks \in Nat
  BY BoundsAssumption
<1>2. Cardinality(Task) = MaxTasks /\ IsFiniteSet(Task)
  BY <1>1, CountTo DEF Task
<1>3. Cardinality(1..Len(s)) = Len(s) /\ IsFiniteSet(1..Len(s))
  BY <1>1, CountTo
<1>4. \E x, y \in 1..Len(s) : x # y /\ s[x] = s[y]
  <2>1. Cardinality(Task) < Cardinality(1..Len(s))
    BY <1>1, <1>2, <1>3
  <2> QED
    BY <1>1, <1>2, <1>3, <2>1, FS_PigeonHole
<1> QED
  BY <1>4 DEF Distinct

\* No lane queues more than there are task ids.
LEMMA QueuesAreShort ==
  ASSUME TypeInv, TaskInv
  PROVE  \A l \in Lane : Len(queue[l]) \in Nat /\ Len(queue[l]) <= MaxTasks
<1>1. \A l \in Lane : queue[l] \in Seq(Task) /\ Distinct(queue[l])
  BY ResultTypes DEF TaskInv, OnePlace
<1> QED
  BY <1>1, DistinctIsShort

\* A request is appended to the queue of lane l.
LEMMA WaitingMore ==
  ASSUME TypeInv, TypeInv', TaskInv', NEW l \in Lane, NEW t \in Task,
         queue' = [queue EXCEPT ![l] = Append(@, t)]
  PROVE  Cardinality(Waiting') = Cardinality(Waiting) + 1
<1> DEFINE n == Len(queue[l])
           w == <<l, n + 1>>
<1>1. n \in Nat /\ n + 1 <= MaxTasks /\ \A m \in Lane : Len(queue'[m]) = IF m = l THEN n + 1 ELSE Len(queue[m])
  <2>1. Len(queue'[l]) = n + 1 /\ n \in Nat /\ \A m \in Lane : m # l => queue'[m] = queue[m]
    BY ResultTypes
  <2>2. queue'[l] \in Seq(Task) /\ Distinct(queue'[l])
    BY DEF TypeInv, TypeOK, TaskInv, OnePlace
  <2>3. Len(queue'[l]) <= MaxTasks
    BY <2>2, DistinctIsShort
  <2> QED
    BY <2>1, <2>3
<1>2. w \in Lane \X Task /\ w \notin Waiting /\ w \in Waiting'
  BY <1>1, BoundsAssumption DEF Waiting, Task
<1>3. \A p \in Lane \X Task : p \in Waiting' <=> p \in Waiting \/ p = w
  <2> SUFFICES ASSUME NEW m \in Lane, NEW k \in Task
               PROVE  k <= Len(queue'[m]) <=> k <= Len(queue[m]) \/ (m = l /\ k = n + 1)
    BY DEF Waiting
  <2> QED
    BY <1>1, BoundsAssumption DEF Task
<1>4. Waiting' = Waiting \cup {w}
  BY <1>2, <1>3 DEF Waiting
<1> HIDE DEF w
<1> QED
  BY <1>2, <1>4, Finite, FS_AddElement

\* A request leaves the queue of lane l.
LEMMA WaitingLess ==
  ASSUME TypeInv, TaskInv, NEW l \in Lane, queue[l] # <<>>, queue' = [queue EXCEPT ![l] = Tail(queue[l])]
  PROVE  Cardinality(Waiting') = Cardinality(Waiting) - 1
<1> DEFINE n == Len(queue[l])
           w == <<l, n>>
<1>1. n \in Nat /\ n >= 1 /\ n <= MaxTasks /\ \A m \in Lane : Len(queue'[m]) = IF m = l THEN n - 1 ELSE Len(queue[m])
  <2>1. Len(queue'[l]) = n - 1 /\ n \in Nat /\ n >= 1 /\ \A m \in Lane : m # l => queue'[m] = queue[m]
    BY ResultTypes
  <2> QED
    BY <2>1, QueuesAreShort
<1>2. w \in Waiting
  BY <1>1, BoundsAssumption DEF Waiting, Task
<1>3. \A p \in Lane \X Task : p \in Waiting' <=> p \in Waiting /\ p # w
  <2> SUFFICES ASSUME NEW m \in Lane, NEW k \in Task
               PROVE  k <= Len(queue'[m]) <=> k <= Len(queue[m]) /\ ~(m = l /\ k = n)
    BY DEF Waiting
  <2> QED
    BY <1>1, BoundsAssumption DEF Task
<1>4. Waiting' = Waiting \ {w}
  BY <1>3 DEF Waiting
<1> HIDE DEF w
<1> QED
  BY <1>2, <1>4, Finite, FS_RemoveElement

\* The queue of lane l is discarded.
LEMMA WaitingCleared ==
  ASSUME TypeInv, TaskInv, NEW l \in Lane, queue' = [queue EXCEPT ![l] = <<>>]
  PROVE  Cardinality(Waiting') = Cardinality(Waiting) - Len(queue[l]) /\ Len(queue[l]) <= Cardinality(Waiting)
<1> DEFINE n == Len(queue[l])
           W == {l} \X (1..n)
<1>1. n \in Nat /\ n <= MaxTasks /\ \A m \in Lane : Len(queue'[m]) = IF m = l THEN 0 ELSE Len(queue[m])
  <2>1. queue'[l] = <<>> /\ n \in Nat /\ \A m \in Lane : m # l => queue'[m] = queue[m]
    BY ResultTypes
  <2> QED
    BY <2>1, QueuesAreShort
<1>2. W \subseteq Waiting
  <2> SUFFICES ASSUME NEW k \in 1..n  PROVE <<l, k>> \in Waiting
    OBVIOUS
  <2> QED
    BY <1>1, BoundsAssumption DEF Waiting, Task
<1>3. \A p \in Lane \X Task : p \in Waiting' <=> p \in Waiting /\ p \notin W
  <2> SUFFICES ASSUME NEW m \in Lane, NEW k \in Task
               PROVE  k <= Len(queue'[m]) <=> k <= Len(queue[m]) /\ ~(m = l /\ k \in 1..n)
    BY DEF Waiting
  <2> QED
    BY <1>1, BoundsAssumption DEF Task
<1>4. Waiting' = Waiting \ W
  BY <1>3 DEF Waiting
<1>5. Cardinality(W) = n
  <2>1. IsFiniteSet({l}) /\ Cardinality({l}) = 1 /\ IsFiniteSet(1..n) /\ Cardinality(1..n) = n
    BY <1>1, FS_Singleton, CountTo
  <2>2. Cardinality(W) = Cardinality({l}) * Cardinality(1..n)
    BY <2>1, FS_Product
  <2> QED
    BY <1>1, <2>1, <2>2
<1>6. Waiting \cap W = W
  BY <1>2
<1> HIDE DEF W
<1>7. Cardinality(Waiting') = Cardinality(Waiting) - Cardinality(W) /\ Cardinality(W) <= Cardinality(Waiting)
  <2>1. IsFiniteSet(Waiting) /\ Cardinality(Waiting) \in Nat
    BY Finite
  <2>2. Cardinality(Waiting \ W) = Cardinality(Waiting) - Cardinality(Waiting \cap W)
    BY <2>1, FS_Difference
  <2>3. Cardinality(W) <= Cardinality(Waiting)
    BY <1>2, <2>1, FS_Subset
  <2> QED
    BY <1>4, <1>6, <2>2, <2>3
<1> QED
  BY <1>5, <1>7

\* A worker goes from a step to the next: what that changes of the three counts.
LEMMA WorkerMoves ==
  ASSUME TypeInv, NEW l \in Lane, \A m \in Lane : m # l => wpc'[m] = wpc[m]
  PROVE  /\ Cardinality(Starting') = Cardinality(Starting) + (IF wpc'[l] = "start" THEN 1 ELSE 0)
                                                                         - (IF wpc[l] = "start" THEN 1 ELSE 0)
         /\ Cardinality(Active') = Cardinality(Active) + (IF wpc'[l] \in ActivePc THEN 1 ELSE 0)
                                                                       - (IF wpc[l] \in ActivePc THEN 1 ELSE 0)
         /\ Cardinality(Posting') = Cardinality(Posting) + (IF wpc'[l] \in PostingPc THEN 1 ELSE 0)
                                                                         - (IF wpc[l] \in PostingPc THEN 1 ELSE 0)
         /\ wpc[l] = "start" => Cardinality(Starting) >= 1
         /\ wpc[l] \in ActivePc => Cardinality(Active) >= 1
<1>1. /\ Cardinality(Starting') = Cardinality(Starting) + (IF wpc'[l] \in {"start"} THEN 1 ELSE 0)
                                                                      - (IF wpc[l] \in {"start"} THEN 1 ELSE 0)
      /\ wpc[l] \in {"start"} => Cardinality(Starting) >= 1
  BY OneWorkerMoves DEF Starting, Active, Posting
<1>2. /\ Cardinality(Active') = Cardinality(Active) + (IF wpc'[l] \in ActivePc THEN 1 ELSE 0)
                                                                    - (IF wpc[l] \in ActivePc THEN 1 ELSE 0)
      /\ wpc[l] \in ActivePc => Cardinality(Active) >= 1
  BY OneWorkerMoves DEF Starting, Active, Posting
<1>3. Cardinality(Posting') = Cardinality(Posting) + (IF wpc'[l] \in PostingPc THEN 1 ELSE 0)
                                                                   - (IF wpc[l] \in PostingPc THEN 1 ELSE 0)
  BY OneWorkerMoves DEF Starting, Active, Posting
<1>4. \A x : x \in {"start"} <=> x = "start"
  OBVIOUS
<1> QED
  BY <1>1, <1>2, <1>3, <1>4

\* What the counts become when it is known on which side of them the worker was and is.
LEMMA WorkerCounts ==
  ASSUME TypeInv, NEW l \in Lane, \A m \in Lane : m # l => wpc'[m] = wpc[m],
         wpc[l] # "start", wpc'[l] # "start"
  PROVE  /\ Cardinality(Starting') = Cardinality(Starting)
         /\ wpc[l] \in ActivePc /\ wpc'[l] \in ActivePc => Cardinality(Active') = Cardinality(Active)
         /\ wpc[l] \notin ActivePc /\ wpc'[l] \notin ActivePc => Cardinality(Active') = Cardinality(Active)
         /\ wpc[l] \in ActivePc /\ wpc'[l] \notin ActivePc
              => Cardinality(Active') = Cardinality(Active) - 1 /\ Cardinality(Active) >= 1
         /\ wpc[l] \notin PostingPc /\ wpc'[l] \notin PostingPc => Cardinality(Posting') = Cardinality(Posting)
         /\ wpc[l] \notin PostingPc /\ wpc'[l] \in PostingPc => Cardinality(Posting') = Cardinality(Posting) + 1
<1> DEFINE s == Cardinality(Starting)
           a == Cardinality(Active)
           p == Cardinality(Posting)
<1>1. s \in Nat /\ a \in Nat /\ p \in Nat
  BY Finite
<1>2. /\ Cardinality(Starting') = s + (IF wpc'[l] = "start" THEN 1 ELSE 0) - (IF wpc[l] = "start" THEN 1 ELSE 0)
      /\ Cardinality(Active') = a + (IF wpc'[l] \in ActivePc THEN 1 ELSE 0) - (IF wpc[l] \in ActivePc THEN 1 ELSE 0)
      /\ Cardinality(Posting') = p + (IF wpc'[l] \in PostingPc THEN 1 ELSE 0) - (IF wpc[l] \in PostingPc THEN 1 ELSE 0)
      /\ wpc[l] \in ActivePc => a >= 1
  BY WorkerMoves
<1> HIDE DEF s, a, p
<1>3. Cardinality(Starting') = s
  BY <1>1, <1>2
<1>4. /\ wpc[l] \in ActivePc /\ wpc'[l] \in ActivePc => Cardinality(Active') = a
      /\ wpc[l] \notin ActivePc /\ wpc'[l] \notin ActivePc => Cardinality(Active') = a
      /\ wpc[l] \in ActivePc /\ wpc'[l] \notin ActivePc => Cardinality(Active') = a - 1 /\ a >= 1
  BY <1>1, <1>2
<1>5. /\ wpc[l] \notin PostingPc /\ wpc'[l] \notin PostingPc => Cardinality(Posting') = p
      /\ wpc[l] \notin PostingPc /\ wpc'[l] \in PostingPc => Cardinality(Posting') = p + 1
  BY <1>1, <1>2
<1> QED
  BY <1>3, <1>4, <1>5, Zenon DEF s, a, p

\* The steps of the workers keep the counters exact.
LEMMA TelemetryWorker ==
  ASSUME TypeInv, TypeInv', TaskInv, Counted, NEW l \in Lane, WorkerStep(l) \/ WorkerInput(l)
  PROVE  Counted'
<1>w. wpc \in [Lane -> WorkerPc]
  BY DEF TypeInv, TypeOK
<1>n. /\ Cardinality(Waiting) \in Nat /\ Cardinality(Starting) \in Nat
      /\ Cardinality(Active) \in Nat /\ Cardinality(Posting) \in Nat /\ Len(results) \in Nat
  BY Finite, ResultTypes
<1>q. queue' = queue => Waiting' = Waiting
  BY DEF Waiting
<1>1. CASE Boot(l) \/ LeaveLoop(l) \/ PredicateFalse(l) \/ Sleep(l) \/ Exit(l) \/ Die(l)
  <2>1. UNCHANGED <<queue, results, telVars>>
    BY <1>1 DEF Boot, LeaveLoop, PredicateFalse, Sleep, Exit, Die
  <2>2. PICK p \in {"wait", "exit", "presleep", "asleep", "retired", "dead"} : wpc' = [wpc EXCEPT ![l] = p]
    BY <1>1 DEF Boot, LeaveLoop, PredicateFalse, Sleep, Exit, Die
  <2>3. wpc[l] \notin {"start", "run", "chunk", "post", "enqueue"}
    BY <1>1 DEF Boot, LeaveLoop, PredicateFalse, Sleep, Exit, Die
  <2>m. /\ Cardinality(Starting') = Cardinality(Starting)
        /\ Cardinality(Active') = Cardinality(Active)
        /\ Cardinality(Posting') = Cardinality(Posting)
    <3>1. wpc'[l] = p /\ \A m \in Lane : m # l => wpc'[m] = wpc[m]
      BY <1>w, <2>2
    <3>2. /\ wpc[l] # "start" /\ wpc[l] \notin ActivePc /\ wpc[l] \notin PostingPc
          /\ wpc'[l] # "start" /\ wpc'[l] \notin ActivePc /\ wpc'[l] \notin PostingPc
      BY <2>2, <2>3, <3>1 DEF ActivePc, PostingPc
    <3> QED
      BY <3>1, <3>2, WorkerCounts, Zenon
  <2> QED
    BY <1>n, <1>q, <2>1, <2>2, <2>3, <2>m DEF Counted, telVars
<1>2. CASE PopRequest(l)
  <2>1. UNCHANGED <<results, telVars>> /\ queue[l] # <<>> /\ queue' = [queue EXCEPT ![l] = Tail(queue[l])]
        /\ wpc[l] = "wait" /\ wpc' = [wpc EXCEPT ![l] = "start"]
    BY <1>2 DEF PopRequest, Popped
  <2>2. Cardinality(Waiting') = Cardinality(Waiting) - 1
    BY <2>1, WaitingLess
  <2>m. /\ Cardinality(Starting') = Cardinality(Starting) + 1
        /\ Cardinality(Active') = Cardinality(Active)
        /\ Cardinality(Posting') = Cardinality(Posting)
    BY <1>n, <1>w, <2>1, WorkerMoves DEF ActivePc, PostingPc
  <2> QED
    BY <1>n, <1>w, <2>1, <2>2, <2>m DEF Counted, telVars
<1>3. CASE SkipTask(l) \/ CallTask(l)
  <2>1. /\ UNCHANGED <<queue, results, tResult>> /\ wpc[l] = "start"
        /\ tQueued' = Dec(tQueued, 1) /\ tActive' = tActive + 1
    BY <1>3 DEF SkipTask, CallTask
  <2>2. PICK p \in {"run", "post"} : wpc' = [wpc EXCEPT ![l] = p]
    BY <1>3 DEF SkipTask, CallTask, ResultReady
  <2>w. wpc'[l] \in {"run", "post"} /\ \A m \in Lane : m # l => wpc'[m] = wpc[m]
    BY <1>w, <2>1, <2>2
  <2>p. /\ wpc[l] = "start" /\ wpc[l] \notin ActivePc /\ wpc[l] \notin PostingPc
        /\ wpc'[l] # "start" /\ wpc'[l] \in ActivePc /\ wpc'[l] \notin PostingPc
    BY <2>1, <2>w DEF ActivePc, PostingPc
  <2>m. /\ Cardinality(Starting') = Cardinality(Starting) - 1
        /\ Cardinality(Active') = Cardinality(Active) + 1
        /\ Cardinality(Posting') = Cardinality(Posting)
        /\ Cardinality(Starting) >= 1
    BY <1>n, <2>w, <2>p, WorkerMoves
  <2> QED
    BY <1>n, <1>q, <2>1, <2>2, <2>m DEF Counted, Dec
<1>4. CASE PostChunk(l)
  <2>1. /\ UNCHANGED <<queue, results, tQueued, tActive>> /\ wpc[l] = "run"
        /\ tResult' = tResult + 1 /\ wpc' = [wpc EXCEPT ![l] = "chunk"]
    BY <1>4 DEF PostChunk
  <2>m. /\ Cardinality(Starting') = Cardinality(Starting)
        /\ Cardinality(Active') = Cardinality(Active)
        /\ Cardinality(Posting') = Cardinality(Posting) + 1
    BY <1>n, <1>w, <2>1, WorkerMoves DEF ActivePc, PostingPc
  <2> QED
    BY <1>n, <1>q, <2>1, <2>m DEF Counted
<1>5. CASE EnqueueChunk(l)
  <2>1. /\ UNCHANGED <<queue, telVars>> /\ \E r : results' = Append(results, r)
        /\ wpc[l] = "chunk" /\ wpc' = [wpc EXCEPT ![l] = "run"]
    BY <1>5 DEF EnqueueChunk
  <2>2. Len(results') = Len(results) + 1
    BY <2>1, ResultTypes
  <2>m. /\ Cardinality(Starting') = Cardinality(Starting)
        /\ Cardinality(Active') = Cardinality(Active)
        /\ Cardinality(Posting') = Cardinality(Posting) - 1
    BY <1>n, <1>w, <2>1, WorkerMoves DEF ActivePc, PostingPc
  <2> QED
    BY <1>n, <1>q, <2>1, <2>2, <2>m DEF Counted, telVars
<1>9. CASE EnqueueFinal(l)
  <2>1. /\ UNCHANGED <<queue, telVars>> /\ \E r : results' = Append(results, r)
        /\ wpc[l] = "enqueue" /\ wpc' = [wpc EXCEPT ![l] = "forget"]
    BY <1>9 DEF EnqueueFinal
  <2>2. Len(results') = Len(results) + 1
    BY <2>1, ResultTypes
  <2>w. wpc'[l] = "forget" /\ \A m \in Lane : m # l => wpc'[m] = wpc[m]
    BY <1>w, <2>1
  <2>p. /\ wpc[l] # "start" /\ wpc[l] \notin ActivePc /\ wpc[l] \in PostingPc
        /\ wpc'[l] # "start" /\ wpc'[l] \notin ActivePc /\ wpc'[l] \notin PostingPc
    BY <2>1, <2>w DEF ActivePc, PostingPc
  <2>m. /\ Cardinality(Starting') = Cardinality(Starting)
        /\ Cardinality(Active') = Cardinality(Active)
        /\ Cardinality(Posting') = Cardinality(Posting) - 1
    BY <1>n, <2>w, <2>p, WorkerMoves
  <2> QED
    BY <1>n, <1>q, <2>1, <2>2, <2>m DEF Counted, telVars
<1>6. CASE TaskReturns(l) \/ TaskInputEnds(l)
  <2>1. UNCHANGED <<queue, results, telVars>> /\ wpc[l] = "run" /\ wpc' = [wpc EXCEPT ![l] = "post"]
    BY <1>6 DEF TaskReturns, TaskInputEnds, ResultReady
  <2>m. /\ Cardinality(Starting') = Cardinality(Starting)
        /\ Cardinality(Active') = Cardinality(Active)
        /\ Cardinality(Posting') = Cardinality(Posting)
    <3>1. wpc'[l] = "post" /\ \A m \in Lane : m # l => wpc'[m] = wpc[m]
      BY <1>w, <2>1
    <3>2. /\ wpc[l] # "start" /\ wpc[l] \in ActivePc /\ wpc[l] \notin PostingPc
          /\ wpc'[l] # "start" /\ wpc'[l] \in ActivePc /\ wpc'[l] \notin PostingPc
      BY <2>1, <3>1 DEF ActivePc, PostingPc
    <3> QED
      BY <3>1, <3>2, WorkerCounts, Zenon
  <2> QED
    BY <1>n, <1>q, <2>1, <2>m DEF Counted, telVars
<1>7. CASE NoteFinal(l)
  <2>1. /\ UNCHANGED <<queue, results, tQueued>> /\ wpc[l] = "post" /\ tActive' = Dec(tActive, 1)
        /\ tResult' = tResult + 1 /\ wpc' = [wpc EXCEPT ![l] = "enqueue"]
    BY <1>7 DEF NoteFinal
  <2>w. wpc'[l] = "enqueue" /\ \A m \in Lane : m # l => wpc'[m] = wpc[m]
    BY <1>w, <2>1
  <2>m. /\ Cardinality(Starting') = Cardinality(Starting)
        /\ Cardinality(Active') = Cardinality(Active) - 1
        /\ Cardinality(Posting') = Cardinality(Posting) + 1
        /\ Cardinality(Active) >= 1
    <3>1. /\ wpc[l] # "start" /\ wpc[l] \in ActivePc /\ wpc[l] \notin PostingPc
          /\ wpc'[l] # "start" /\ wpc'[l] \notin ActivePc /\ wpc'[l] \in PostingPc
      BY <2>1, <2>w DEF ActivePc, PostingPc
    <3> QED
      BY <2>w, <3>1, WorkerCounts, Zenon
  <2> QED
    BY <1>n, <1>q, <2>1, <2>m DEF Counted, Dec
<1>8. CASE ForgetTask(l)
  <2>1. UNCHANGED <<queue, results, telVars>> /\ wpc[l] = "forget"
    BY <1>8 DEF ForgetTask
  <2>2. PICK p \in {"exit", "wait"} : wpc' = [wpc EXCEPT ![l] = p]
    BY <1>8 DEF ForgetTask
  <2>w. wpc'[l] \in {"exit", "wait"} /\ \A m \in Lane : m # l => wpc'[m] = wpc[m]
    BY <1>w, <2>1, <2>2
  <2>m. /\ Cardinality(Starting') = Cardinality(Starting)
        /\ Cardinality(Active') = Cardinality(Active)
        /\ Cardinality(Posting') = Cardinality(Posting)
    <3>1. /\ wpc[l] # "start" /\ wpc[l] \notin ActivePc /\ wpc[l] \notin PostingPc
          /\ wpc'[l] # "start" /\ wpc'[l] \notin ActivePc /\ wpc'[l] \notin PostingPc
      BY <2>1, <2>w DEF ActivePc, PostingPc
    <3> QED
      BY <2>w, <3>1, WorkerCounts, Zenon
  <2> QED
    BY <1>n, <1>q, <2>1, <2>2, <2>m DEF Counted, telVars
<1> QED
  BY <1>1, <1>2, <1>3, <1>4, <1>5, <1>6, <1>7, <1>8, <1>9 DEF WorkerStep, WorkerInput

\* A worker that is woken was at none of the counted steps, and is at none.
LEMMA WakingCountsNothing ==
  ASSUME \A l \in Lane : wpc'[l] = wpc[l] \/ (wpc[l] \in OffPc /\ wpc'[l] \in OffPc)
  PROVE  /\ Starting' = Starting /\ Active' = Active
         /\ Posting' = Posting
<1>1. "start" \notin OffPc /\ \A x \in ActivePc \cup PostingPc : x \notin OffPc
  BY DEF ActivePc, PostingPc, OffPc
<1> QED
  BY <1>1 DEF AtPc, Starting, Active, Posting

\* Waking the lanes in S is such a step.
LEMMA WakeShape ==
  ASSUME NEW S, wpc' = Woken(S)
  PROVE  \A l \in Lane : wpc'[l] = wpc[l] \/ (wpc[l] \in OffPc /\ wpc'[l] \in OffPc)
  BY DEF Woken, OffPc

\* The steps of the UI thread keep the counters exact.
LEMMA TelemetryStep ==
  ASSUME TypeInv, TypeInv', LaneInv, TaskInv, TaskInv', TelemetryExact, [Next]_vars
  PROVE  TelemetryExact'
<1> SUFFICES Counted'
  BY TelemetryForm
<1>c. Counted
  BY TelemetryForm
<1>n. /\ Cardinality(Waiting) \in Nat /\ Cardinality(Starting) \in Nat
      /\ Cardinality(Active) \in Nat /\ Cardinality(Posting) \in Nat /\ Len(results) \in Nat
  BY Finite, ResultTypes
<1>q. queue' = queue => Waiting' = Waiting
  BY DEF Waiting
<1>1. CASE QuietUi
  <2>1. UNCHANGED <<queue, results, telVars>>
    BY <1>1, QuietUiShape
  <2>2. /\ Starting' = Starting /\ Active' = Active
        /\ Posting' = Posting
    BY <1>1, QuietUiShape, WakingCountsNothing
  <2> QED
    BY <1>c, <1>q, <2>1, <2>2 DEF Counted, telVars
<1>2. ASSUME NEW k, NEW c, Push(k, c)
      PROVE  Counted'
  <2>1. /\ uiLane \in Lane /\ nextTaskId \in Task /\ queue' = [queue EXCEPT ![uiLane] = Append(@, nextTaskId)]
        /\ tQueued' = tQueued + 1 /\ wpc' = Woken({uiLane}) /\ UNCHANGED <<results, tActive, tResult>>
    BY <1>2 DEF Push
  <2>2. Cardinality(Waiting') = Cardinality(Waiting) + 1
    BY <2>1, WaitingMore
  <2>3. /\ Starting' = Starting /\ Active' = Active
        /\ Posting' = Posting
    BY <2>1, WakeShape, WakingCountsNothing
  <2> QED
    BY <1>c, <1>n, <2>1, <2>2, <2>3 DEF Counted
<1>3. CASE PushOneShot \/ PushKept \/ PushExternal
  BY <1>2, <1>3 DEF PushOneShot, PushKept, PushExternal
<1>4. CASE ClearLane
  <2>1. /\ queue' = [queue EXCEPT ![uiLane] = <<>>] /\ tQueued' = Dec(tQueued, Len(queue[uiLane]))
        /\ wpc' = Woken({uiLane}) /\ UNCHANGED <<results, tActive, tResult>>
    BY <1>4 DEF ClearLane
  <2>2. uiLane \in Lane
    BY <1>4 DEF ClearLane, TypeInv, UiLaneValid
  <2>3. /\ Cardinality(Waiting') = Cardinality(Waiting) - Len(queue[uiLane])
        /\ Len(queue[uiLane]) <= Cardinality(Waiting) /\ Len(queue[uiLane]) \in Nat
    BY <2>1, <2>2, WaitingCleared, QueuesAreShort
  <2>4. /\ Starting' = Starting /\ Active' = Active
        /\ Posting' = Posting
    BY <2>1, WakeShape, WakingCountsNothing
  <2> QED
    BY <1>c, <1>n, <2>1, <2>3, <2>4 DEF Counted, Dec
<1>5. ASSUME NEW i \in 1..Len(results), PumpOne(i)
      PROVE  Counted'
  <2>1. /\ UNCHANGED <<queue, tQueued, tActive>> /\ tResult' = Dec(tResult, 1)
        /\ results' = WithoutIndex(results, i)
        /\ wpc' = wpc \/ wpc' = Woken(Notifiable)
    BY <1>5 DEF PumpOne, EnterUnregister, SetFlagAndNotify
  <2>2. Len(results') = Len(results) - 1
    BY <2>1, ResultTypes, WithoutIndexShape
  <2>3. /\ Starting' = Starting /\ Active' = Active
        /\ Posting' = Posting
    BY <2>1, WakeShape, WakingCountsNothing
  <2> QED
    BY <1>c, <1>n, <1>q, <2>1, <2>2, <2>3 DEF Counted, Dec
<1>6. CASE DrainOne
  <2>1. /\ UNCHANGED <<queue, wpc, tQueued, tActive>> /\ tResult' = Dec(tResult, 1)
        /\ results # <<>> /\ results' = Tail(results)
    BY <1>6 DEF DrainOne, laneVars
  <2>2. Len(results') = Len(results) - 1 /\ Len(results) >= 1
    BY <2>1, ResultTypes
  <2> QED
    BY <1>c, <1>n, <1>q, <2>1, <2>2 DEF Counted, Dec, AtPc, Starting, Active, Posting
<1>7. CASE ShutdownEnd
  <2>1. /\ UNCHANGED <<queue, wpc, tQueued, tActive>> /\ tResult' = Dec(tResult, Len(results))
        /\ results' = <<>> /\ ui = "sdend"
    BY <1>7 DEF ShutdownEnd, laneVars
  <2>2. Posting = {}
    BY <2>1 DEF LaneInv, NoThreadLeft, AtPc, Posting, PostingPc
  <2>3. Posting' = {} /\ Active' = Active /\ Starting' = Starting
    BY <2>1, <2>2 DEF AtPc, Starting, Active, Posting
  <2>4. Cardinality({}) = 0 /\ Len(results') = 0
    BY <2>1, FS_EmptySet
  <2> QED
    BY <1>c, <1>n, <1>q, <2>1, <2>2, <2>3, <2>4 DEF Counted, Dec
<1>8. ASSUME NEW l \in Lane, WorkerStep(l) \/ WorkerInput(l)
      PROVE  Counted'
  BY <1>8, <1>c, TelemetryWorker
<1> QED
  BY <1>1, <1>3, <1>4, <1>5, <1>6, <1>7, <1>8 DEF Next, UiCall, UiPump, UiStep, Terminated, QuietUi
-----------------------------------------------------------------------------
(***************************************************************************)
(* The theorems.                                                           *)
(***************************************************************************)

\* Before the first task there is nothing to account for.
LEMMA ResultInit == Init => ResultInv
<1> SUFFICES ASSUME Init  PROVE ResultInv
  OBVIOUS
<1>1. Len(results) = 0 /\ \A l \in Lane : queue[l] = <<>> /\ wpc[l] = "none"
  BY DEF Init
<1>2. Ledger /\ ResultOrder
  <2>1. \A t \in Task : ~Waits(t) /\ ~InWork(t) /\ ~Posted(t)
    BY <1>1 DEF Waits, InWork, Posted, Elements, InHand
  <2> QED
    BY <1>1, <2>1, BoundsAssumption DEF Ledger, ResultOrder, Init, Task
<1>3. KnownSources /\ FinishedSourceIsErased
  BY BoundsAssumption DEF Init, KnownSources, FinishedSourceIsErased, Task, None
<1>4. TelemetryExact
  <2>1. Waiting = {}
    BY <1>1, BoundsAssumption DEF Waiting, Task
  <2>2. Starting = {} /\ Active = {} /\ Posting = {}
    BY <1>1 DEF AtPc, Starting, Active, Posting, ActivePc, PostingPc
  <2>3. Cardinality({}) = 0 /\ tQueued = 0 /\ tActive = 0 /\ tResult = 0
    BY FS_EmptySet DEF Init
  <2>4. Counted
    BY <1>1, <2>1, <2>2, <2>3 DEF Counted
  <2> QED
    BY <2>4, TelemetryForm
<1> QED
  BY <1>2, <1>3, <1>4 DEF ResultInv

\* The four layers together are an inductive invariant of the coprocessor.
THEOREM ResultInvariance == Spec => [](IndInv /\ ResultInv)
<1>1. Init => IndInv /\ ResultInv
  BY TypeInit, LaneInit, TaskInit, ResultInit DEF IndInv
<1>2. (IndInv /\ ResultInv) /\ [Next]_vars => (IndInv /\ ResultInv)'
  <2> SUFFICES ASSUME IndInv, ResultInv, [Next]_vars  PROVE IndInv' /\ ResultInv'
    OBVIOUS
  <2>1. TypeInv /\ LaneInv /\ TaskInv /\ Ledger /\ ResultOrder /\ KnownSources /\ FinishedSourceIsErased /\ TelemetryExact
    BY DEF IndInv, ResultInv
  <2>2. TypeInv' /\ LaneInv' /\ TaskInv'
    BY <2>1, TypeStep, LaneStep, TaskStep
  <2>3. Ledger' /\ ResultOrder'
    BY <2>1, <2>2, LedgerStep
  <2>4. KnownSources' /\ FinishedSourceIsErased'
    BY <2>1, <2>2, SourcesStep
  <2>5. TelemetryExact'
    BY <2>1, <2>2, TelemetryStep
  <2> QED
    BY <2>2, <2>3, <2>4, <2>5 DEF IndInv, ResultInv
<1> QED
  BY <1>1, <1>2, PTL DEF Spec

\* Every submitted task is answered exactly once, for any number of workers and
\* tasks: no interleaving of popNextRequestLocked(), enqueueResult(), pump() and
\* the two ways of shutdown() loses a task, answers it twice or discards it after
\* its answer.
THEOREM EveryTaskAnsweredOnce == Spec => []AnsweredOnce
<1>1. IndInv /\ ResultInv => AnsweredOnce
  BY LedgerCounts DEF IndInv, ResultInv
<1> QED
  BY <1>1, ResultInvariance, PTL

\* The result of a task is handled after every chunk of it, although pumpFor()
\* takes fold results out of order.
THEOREM ChunksBeforeResult == Spec => []FinalAfterChunks
<1>1. IndInv /\ ResultInv => FinalAfterChunks
  <2> SUFFICES ASSUME IndInv, ResultInv  PROVE FinalAfterChunks
    OBVIOUS
  <2>1. \A i \in 1..Len(results) : results[i].task \in Task /\ (InWork(results[i].task) \/ Posted(results[i].task))
    BY ResultTypes DEF IndInv, ResultInv, ResultOrder
  <2>2. \A i \in 1..Len(results) : results[i].task \notin delivered
    BY <2>1 DEF ResultInv, Ledger
  <2> QED
    BY <2>2 DEF FinalAfterChunks, ResultInv, ResultOrder
<1> QED
  BY <1>1, ResultInvariance, PTL

\* No decrement of a telemetry counter is ever saturated: the counters are what is
\* queued, running and pending.
THEOREM TelemetryCounts == Spec => []TelemetryExact
<1>1. IndInv /\ ResultInv => TelemetryExact
  BY DEF ResultInv
<1> QED
  BY <1>1, ResultInvariance, PTL

\* A source whose reader's result was handled is erased, or its unregistering is
\* under way, whenever the reader finished relative to submitExternal().
THEOREM FinishedSourcesGo == Spec => []FinishedSourceIsErased
<1>1. IndInv /\ ResultInv => FinishedSourceIsErased
  BY DEF ResultInv
<1> QED
  BY <1>1, ResultInvariance, PTL
=============================================================================
