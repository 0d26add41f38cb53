--------------------------- MODULE SchedulerLocks ---------------------------
(***************************************************************************)
(* The mutexes behind module RuntimeScheduler.  S is runtimeSchedulerMutex,*)
(* E the recursive execution mutex of the VM, which BytecodeExecution::run *)
(* holds for a whole run and every mrvm... accessor takes, P is            *)
(* pendingForegroundMacrosMutex.  The UI thread pumps the scheduler (S,    *)
(* then E), runs a macro (E), resumes a delayed macro (P, then E) and may  *)
(* open a dialog in a macro, whose idle loop takes P again.  A worker runs *)
(* a macro (E) that may register or remove a closure (E, then S).          *)
(*                                                                         *)
(* A thread is the list of locks it holds, outermost first, and what it    *)
(* does; locking a plain mutex twice blocks.                               *)
(***************************************************************************)
EXTENDS Integers, Sequences

VARIABLES
    ui, worker,  \* what the thread is about to do
    holds        \* [{"ui", "worker"} -> Seq({"S", "E", "P"})]

vars == <<ui, worker, holds>>

Holds(t, l) == \E i \in DOMAIN holds[t] : holds[t][i] = l
Other(t) == IF t = "ui" THEN "worker" ELSE "ui"

\* std::mutex, and std::recursive_mutex for E
CanLock(t, l) == ~Holds(Other(t), l) /\ (l = "E" \/ ~Holds(t, l))
Lock(t, l) == CanLock(t, l) /\ holds' = [holds EXCEPT ![t] = Append(@, l)]
Unlock(t) == holds' = [holds EXCEPT ![t] = SubSeq(@, 1, Len(@) - 1)]

Init ==
    /\ ui = "loop" /\ worker = "idle"
    /\ holds = [t \in {"ui", "worker"} |-> <<>>]

Ui(from, to) == ui = from /\ ui' = to /\ UNCHANGED worker
Worker(from, to) == worker = from /\ worker' = to /\ UNCHANGED ui

\* pumpRuntimeScheduler
PumpLocks == Ui("loop", "pump") /\ Lock("ui", "S")
PumpReads == Ui("pump", "pumping") /\ Lock("ui", "E")
PumpEnds == Ui("pumping", "loop") /\ holds' = [holds EXCEPT !["ui"] = <<>>]

\* a callback on the UI thread
RunMacro == Ui("loop", "macro") /\ Lock("ui", "E")
MacroEnds == Ui("macro", "loop") /\ Unlock("ui")

\* pumpForegroundMacroDelays
ResumeLocks == Ui("loop", "resume") /\ Lock("ui", "P")
ResumeRuns == Ui("resume", "resumed") /\ Lock("ui", "E")
ResumeEnds == Ui("resumed", "loop") /\ holds' = [holds EXCEPT !["ui"] = <<>>]

\* A dialog of a running macro: its loop calls idle(), which takes P
OpenDialog == \E from \in {"macro", "resumed"} : Ui(from, "dialog") /\ UNCHANGED holds
DialogIdles == Ui("dialog", "idle") /\ Lock("ui", "P")
DialogAnswered == Ui("idle", "macro") /\ Unlock("ui")

\* a macro on a worker, and a closure it registers
WorkerRuns == Worker("idle", "macro") /\ Lock("worker", "E")
WantsToRegister == Worker("macro", "register") /\ UNCHANGED holds
Registers == Worker("register", "registering") /\ Lock("worker", "S")
Registered == Worker("registering", "macro") /\ Unlock("worker")
WorkerEnds == Worker("macro", "done") /\ Unlock("worker")

\* handleCoprocessorResult in idle(), of a dialog too: the timer is armed for what was registered
Deliver ==
    /\ ui \in {"loop", "idle"} /\ worker = "done"
    /\ worker' = "idle"
    /\ UNCHANGED <<ui, holds>>

UiStep == \/ PumpLocks \/ PumpReads \/ PumpEnds \/ RunMacro \/ MacroEnds
          \/ ResumeLocks \/ ResumeRuns \/ ResumeEnds
          \/ OpenDialog \/ DialogIdles \/ DialogAnswered
WorkerStep == WorkerRuns \/ WantsToRegister \/ Registers \/ Registered \/ WorkerEnds

Next == UiStep \/ WorkerStep \/ Deliver

(* Threads run, mutexes are granted, results are delivered. *)
Spec == Init /\ [][Next]_vars /\ WF_vars(UiStep) /\ SF_vars(MacroEnds) /\ SF_vars(Registers) /\ WF_vars(Registered)
             /\ SF_vars(WorkerEnds) /\ SF_vars(Deliver)
-----------------------------------------------------------------------------
\* "Worker-side registrations reach the UI timer source through result
\* delivery" (MRRuntimeTimerSource.cpp:13).
RegistrationArrives == worker = "register" ~> worker = "idle"
=============================================================================
