------------------- MODULE AbstractTimingThreadBuilderProofs -------------------
(***************************************************************************)
(* What the timeout executors do, for any number of starts and threads and *)
(* any time settings: they take no outcome back and tell the truth to      *)
(* whoever is to be told, however the pool's own threads fare.             *)
(*                                                                         *)
(* Nothing is needed of the pool but that it never changes the outcome of  *)
(* a task that has one (KeepsOutcomes), and of the caller that it submits  *)
(* a task before it arms the timer; so a step is either a timer's or       *)
(* leaves the timers alone (OtherStep).                                    *)
(***************************************************************************)
EXTENDS AbstractTimingThreadBuilder, TLAPS

FutureState == {"none", "new"} \cup Outcome

TimerState == {"none", "armed", "cancelling", "handling", "consuming", "done", "stopped"}

\* The caller is past the submission, and has a future to give to a timer.
PastSubmission == {"submitted", "holderSet"}

Submitted == callerPc \in PastSubmission /\ started \in Task => future[started] # "none"

\* The builder's field holds the result of a task that has one.
HoldsResult == threadResult \in Task /\ future[threadResult] = "ok"

\* A timer is beyond its cancellation only when the outcome is settled, and with
\* the result only if there is one, and one in the field, be it another task's.
TimersFollow ==
  \A t \in Task :
    /\ timer[t] # "none" => future[t] # "none"
    /\ timer[t] \in {"handling", "consuming", "done"} => IsDone(t)
    /\ timer[t] = "consuming" => future[t] = "ok" /\ HoldsResult

\* What a timer told of an outcome is what that task settled on.
TimersTellTruth ==
  \A r \in timerTold : r.what # "callback" => r.about \in Task /\ IsDone(r.about) /\ r.what = future[r.about]

TimerInv ==
  /\ future \in [Task -> FutureState]
  /\ timer \in [Task -> TimerState]
  /\ reconfigs \in Nat
  /\ Submitted
  /\ TimersFollow
  /\ TimersTellTruth
  /\ TimerTells

KeepsOutcomes ==
  /\ future' \in [Task -> FutureState]
  /\ \A t \in Task :
       /\ IsDone(t) => future'[t] = future[t]
       /\ future[t] # "none" => future'[t] # "none"

\* A setter call shows in reconfigs, and the field is only set to a result.
OtherStep ==
  /\ KeepsOutcomes
  /\ UNCHANGED threadResult \/ HoldsResult'
  /\ UNCHANGED <<timer, timerTold>>
  /\ UNCHANGED <<builder, reconfigs>> \/ reconfigs' = reconfigs + 1
  /\ callerPc' \in PastSubmission =>
       /\ UNCHANGED started
       /\ callerPc \in PastSubmission \/ (started \in Task => future'[started] # "none")

-------------------------------------------------------------------------------
\* The states before an outcome are no outcomes.
LEMMA Unsettled == "none" \notin Outcome /\ "new" \notin Outcome
BY DEF Outcome

\* A task without an outcome gets another state.
LEMMA OneFuture ==
  ASSUME TimerInv, NEW t, NEW o \in FutureState \ {"none"}, ~ IsDone(t),
         future' = [future EXCEPT ![t] = o]
  PROVE  KeepsOutcomes
BY DEF TimerInv, KeepsOutcomes, IsDone

\* The same for a task that may have one, and keeps it then.
LEMMA OneFutureIfNew ==
  ASSUME TimerInv, NEW t, NEW o \in FutureState \ {"none"},
         future' = [future EXCEPT ![t] = IF @ = "new" THEN o ELSE @]
  PROVE  KeepsOutcomes
BY Unsettled DEF TimerInv, KeepsOutcomes, IsDone

\* A step that leaves the futures alone keeps the outcomes.
LEMMA SameFuture ==
  ASSUME TimerInv, UNCHANGED future
  PROVE  KeepsOutcomes
BY DEF TimerInv, KeepsOutcomes

\* The pool's threads.
LEMMA WorkerOtherStep ==
  ASSUME TimerInv, NEW w \in Worker, TimedWorkerStep(w)
  PROVE  OtherStep
<1> USE DEF callerVars, timerVars, timingVars
<1>1. CASE /\ TimedWorkerLoop(w)
           /\ UNCHANGED <<callerVars, threadResult, outputs, timing, threadTimeConfig, periodic, timerVars>>
  <2>1. {"failed", "ok", "cancelled"} \subseteq FutureState \ {"none"}
    BY DEF FutureState, Outcome
  <2>2. KeepsOutcomes
    <3>1. CASE Take(w) \/ BeginAfterExecute(w) \/ Comodified(w) \/ EndAfterExecute(w)
      BY <3>1, SameFuture DEF Take, BeginAfterExecute, Comodified, EndAfterExecute
    <3>2. CASE TimedStartBody(w)
      BY <3>2, SameFuture DEF TimedStartBody, StartBody
    <3>3. CASE TimedSkipBody(w)
      <4>1. \/ UNCHANGED future
            \/ /\ future[worker[w].task] = "new"
               /\ future' = [future EXCEPT ![worker[w].task] = "cancelled"]
        BY <3>3 DEF TimedSkipBody, SkipBody
      <4> QED
        BY <4>1, <2>1, SameFuture, OneFuture, Unsettled DEF IsDone
    <3>4. CASE EndTimedBody(w)
      <4>1. PICK o \in {"failed", "ok"} :
              future' = [future EXCEPT ![worker[w].task] = IF @ = "new" THEN o ELSE @]
        BY <3>4 DEF EndTimedBody, EndBody
      <4> QED
        BY <4>1, <2>1, OneFutureIfNew
    <3>5. CASE RunAgain(w)
      <4>1. \/ UNCHANGED future
            \/ /\ future[worker[w].task] = "new"
               /\ future' = [future EXCEPT ![worker[w].task] = "cancelled"]
        BY <3>5 DEF RunAgain, HasToGoOn
      <4> QED
        BY <4>1, <2>1, SameFuture, OneFuture, Unsettled DEF IsDone
    <3> QED
      BY <1>1, <3>1, <3>2, <3>3, <3>4, <3>5 DEF TimedWorkerLoop
  <2> QED
    BY <1>1, <2>2 DEF OtherStep
<1>2. CASE /\ \/ \E k \in Task : HandleCall(w, k)
              \/ CallUserConsumer(w)
              \/ Die(w)
           /\ UNCHANGED <<timingVars, timerVars>>
  <2>1. UNCHANGED <<future, builder, reconfigs, callerPc, started>>
    BY <1>2 DEF HandleCall, HandlePending, HandleEmptyHolder, HandleException, HandleRunnable,
                HandleNoExecutorResult, SetThreadResult, ConsumeThreadResult, HandleCompletion,
                HandlerRuns, CallUserConsumer, Die, ReplaceWorker
  <2>2. UNCHANGED threadResult \/ \E k \in Task : future[k] = "ok" /\ threadResult' = k
    BY <1>2 DEF HandleCall, HandlePending, HandleEmptyHolder, HandleException, HandleRunnable,
                HandleNoExecutorResult, SetThreadResult, ConsumeThreadResult, HandleCompletion,
                HandlerRuns, CallUserConsumer, Die, ReplaceWorker
  <2> QED
    BY <1>2, <2>1, <2>2, SameFuture DEF OtherStep, HoldsResult
<1> QED
  BY <1>1, <1>2 DEF TimedWorkerStep

\* The caller, whoever has the ExecutorResult, and the JDK's scheduler.
LEMMA OutsideOtherStep ==
  ASSUME TimerInv,
         \/ \E field \in Setter, value \in BOOLEAN : Set(field, value) /\ UNCHANGED <<timingVars, timerVars>>
         \/ \E field \in TimeField : SetTime(field)
         \/ TimingStart \/ RegisterHandler \/ Schedule \/ ScheduleRefused
         \/ SetHolder /\ UNCHANGED <<timingVars, timerVars>>
         \/ PublishTimed
         \/ \E t \in Task : Cancel(t) /\ UNCHANGED <<timingVars, timerVars>>
         \/ TimedShutdown
         \/ \E t \in Task : Due(t) \/ Purge(t)
         \/ UNCHANGED allVars
  PROVE  OtherStep
<1> USE DEF callerVars, timerVars, timingVars, executorVars, PastSubmission
<1>1. {"new", "cancelled"} \subseteq FutureState \ {"none"}
  BY DEF FutureState, Outcome
<1>2. ASSUME NEW field \in Setter, NEW value \in BOOLEAN,
             Set(field, value), UNCHANGED <<timingVars, timerVars>>
      PROVE  OtherStep
  BY <1>2, SameFuture DEF Set, OtherStep
<1>3. ASSUME NEW field \in TimeField, SetTime(field)
      PROVE  OtherStep
  BY <1>3, SameFuture DEF SetTime, OtherStep
<1>4. CASE TimingStart
  BY <1>4, SameFuture DEF TimingStart, AddAfterExecuteConsumer, OtherStep
<1>5. CASE RegisterHandler
  BY <1>5, SameFuture DEF RegisterHandler, AddAfterExecuteConsumer, OtherStep
<1>6. CASE Schedule
  <2>1. KeepsOutcomes
    BY <1>1, <1>6, OneFuture, Unsettled DEF Schedule, IsDone
  <2>2. started \in Task => future'[started] = "new"
    BY <1>6 DEF Schedule, TimerInv
  <2> QED
    BY <1>6, <2>1, <2>2 DEF Schedule, OtherStep
<1>7. CASE ScheduleRefused
  BY <1>7, SameFuture DEF ScheduleRefused, OtherStep
<1>8. CASE SetHolder /\ UNCHANGED <<timingVars, timerVars>>
  BY <1>8, SameFuture DEF SetHolder, OtherStep
<1>9. CASE PublishTimed
  BY <1>9, SameFuture DEF PublishTimed, Publish, OtherStep
<1>10. ASSUME NEW t \in Task, Cancel(t), UNCHANGED <<timingVars, timerVars>>
       PROVE  OtherStep
  <2>1. KeepsOutcomes
    BY <1>1, <1>10, OneFuture, Unsettled DEF Cancel, CancelFuture, IsDone
  <2> QED
    BY <1>10, <2>1 DEF Cancel, OtherStep
<1>11. CASE TimedShutdown
  BY <1>11, SameFuture DEF TimedShutdown, Shutdown, ShutdownPool, ShutdownPoolNow, OtherStep
<1>12. ASSUME NEW t \in Task, Due(t)
       PROVE  OtherStep
  BY <1>12, SameFuture DEF Due, OtherStep
<1>13. ASSUME NEW t \in Task, Purge(t)
       PROVE  OtherStep
  <2>1. KeepsOutcomes
    BY <1>1, <1>13, OneFutureIfNew DEF Purge
  <2> QED
    BY <1>13, <2>1 DEF Purge, OtherStep
<1>14. CASE UNCHANGED allVars
  BY <1>14, SameFuture DEF allVars, vars, OtherStep
<1> QED
  BY <1>2, <1>3, <1>4, <1>5, <1>6, <1>7, <1>8, <1>9, <1>10, <1>11, <1>12, <1>13, <1>14

-------------------------------------------------------------------------------
\* A result is an outcome.
LEMMA ResultIsOutcome == "ok" \in Outcome
BY DEF Outcome

\* Before the first start there are no timers.
LEMMA InitTimerInv == TimingInit => TimerInv
<1> SUFFICES ASSUME TimingInit PROVE TimerInv
  OBVIOUS
<1>1. future \in [Task -> FutureState] /\ timer \in [Task -> TimerState] /\ reconfigs \in Nat
  BY DEF TimingInit, Init, ExecutorInit, FutureState, TimerState
<1>0. Submitted
  BY DEF TimingInit, Init, Submitted, PastSubmission
<1>2. \A t \in Task : timer[t] = "none"
  BY DEF TimingInit
<1>3. timerTold = {}
  BY DEF TimingInit
<1> QED
  BY <1>0, <1>1, <1>2, <1>3 DEF TimerInv, TimersFollow, TimersTellTruth, TimerTells

\* What the timers told stays true, and enough, when the outcomes stay; a timer
\* that has just ended with nothing to tell needs nothing.
LEMMA ToldStays ==
  ASSUME TimersTellTruth, TimerTells, UNCHANGED <<timerTold, builder, reconfigs>>,
         \A t \in Task : IsDone(t) => IsDone(t)' /\ future'[t] = future[t],
         \A t \in Task : timer'[t] = "done" /\ timer[t] # "done" =>
           /\ IsDone(t)' /\ future'[t] = "ok"
           /\ ~ (builder.executionType = "CALLABLE" /\ builder.threadResultConsumer)
  PROVE  TimerTells'
<1> SUFFICES ASSUME reconfigs = 0, NEW t \in Task, timer'[t] = "done", timer[t] = "done"
             PROVE  /\ IsDone(t)'
                    /\ \/ \E r \in timerTold :
                            /\ r.by = t /\ r.what = future'[t]
                            /\ r.what = future'[r.about]
                            /\ r.about = t \/ r.what = "ok"
                       \/ /\ future'[t] = "ok"
                          /\ ~ (builder.executionType = "CALLABLE" /\ builder.threadResultConsumer)
  BY DEF TimerTells
<1>1. IsDone(t) /\ IsDone(t)' /\ future'[t] = future[t]
  BY DEF TimerTells
<1>2. CASE future[t] = "ok" /\ ~ (builder.executionType = "CALLABLE" /\ builder.threadResultConsumer)
  BY <1>1, <1>2
<1>3. ASSUME NEW r \in timerTold, r.by = t, r.what = future[t], r.what = future[r.about],
             r.about = t \/ r.what = "ok"
      PROVE  r.what = future'[t] /\ r.what = future'[r.about]
  <2>1. r.what # "callback"
    BY <1>1, <1>3 DEF IsDone, Outcome
  <2>2. r.about \in Task /\ IsDone(r.about)
    BY <2>1 DEF TimersTellTruth
  <2> QED
    BY <1>1, <1>3, <2>2
<1> QED
  BY <1>1, <1>2, <1>3 DEF TimerTells

\* Outcomes that are settled stay, and so does all that the timers told.
LEMMA OtherKeepsTimerInv ==
  ASSUME TimerInv, OtherStep
  PROVE  TimerInv'
<1>1. \A t \in Task : IsDone(t) => IsDone(t)' /\ future'[t] = future[t]
  BY DEF OtherStep, KeepsOutcomes, IsDone
<1>2. /\ future' \in [Task -> FutureState] /\ timer' \in [Task -> TimerState]
      /\ reconfigs' \in Nat
  BY DEF TimerInv, OtherStep, KeepsOutcomes
<1>3. TimersFollow'
  <2>1. HoldsResult => HoldsResult'
    BY <1>1, ResultIsOutcome DEF OtherStep, HoldsResult, IsDone
  <2> QED
    BY <1>1, <2>1, Unsettled DEF TimerInv, OtherStep, KeepsOutcomes, TimersFollow, IsDone
<1>4. TimersTellTruth'
  BY <1>1 DEF TimerInv, OtherStep, TimersTellTruth
<1>5. TimerTells'
  <2>1. CASE UNCHANGED <<builder, reconfigs>>
    BY <1>1, <1>3, <2>1, ToldStays DEF TimerInv, OtherStep, TimersFollow
  <2>2. CASE reconfigs' = reconfigs + 1
    BY <2>2 DEF TimerInv, TimerTells
  <2> QED
    BY <2>1, <2>2 DEF OtherStep
<1>6. Submitted'
  BY DEF TimerInv, OtherStep, KeepsOutcomes, Submitted
<1> QED
  BY <1>2, <1>3, <1>4, <1>5, <1>6 DEF TimerInv

\* A timer that moves on without telling anything.
LEMMA TimerMoves ==
  ASSUME TimerInv, NEW t \in Task, NEW next \in TimerState,
         timer' = [timer EXCEPT ![t] = next],
         KeepsOutcomes, UNCHANGED <<timerTold, builder, reconfigs, callerPc, started>>,
         UNCHANGED threadResult \/ HoldsResult',
         future'[t] # "none",
         next \in {"handling", "consuming", "done"} => IsDone(t)',
         next = "consuming" => future'[t] = "ok" /\ HoldsResult',
         next = "done" => /\ future'[t] = "ok"
                          /\ ~ (builder.executionType = "CALLABLE" /\ builder.threadResultConsumer)
  PROVE  TimerInv'
<1>1. \A u \in Task : IsDone(u) => IsDone(u)' /\ future'[u] = future[u]
  BY DEF KeepsOutcomes, IsDone
<1>2. /\ future' \in [Task -> FutureState] /\ timer' \in [Task -> TimerState]
      /\ reconfigs' \in Nat
  BY DEF TimerInv, KeepsOutcomes
<1>3. \A u \in Task : timer'[u] = IF u = t THEN next ELSE timer[u]
  BY DEF TimerInv
<1>4. TimersFollow'
  <2>1. HoldsResult => HoldsResult'
    BY <1>1, ResultIsOutcome DEF HoldsResult, IsDone
  <2> QED
    BY <1>1, <1>3, <2>1 DEF TimerInv, TimersFollow, KeepsOutcomes
<1>5. TimersTellTruth'
  BY <1>1 DEF TimerInv, TimersTellTruth
<1>6. TimerTells'
  BY <1>1, <1>3, ToldStays DEF TimerInv
<1>7. Submitted'
  BY DEF TimerInv, Submitted, KeepsOutcomes
<1> QED
  BY <1>2, <1>4, <1>5, <1>6, <1>7 DEF TimerInv

\* A timer that ends with telling the outcome, and perhaps a callback's exception.
LEMMA TimerEnds ==
  ASSUME TimerInv, NEW t \in Task, NEW more,
         timer' = [timer EXCEPT ![t] = "done"],
         timerTold' = timerTold \cup more,
         UNCHANGED <<future, builder, reconfigs, callerPc, started, threadResult>>,
         IsDone(t),
         \A r \in more : r.what # "callback" =>
           r.about \in Task /\ IsDone(r.about) /\ r.what = future[r.about],
         \E r \in more : r.by = t /\ r.what = future[t] /\ (r.about = t \/ r.what = "ok")
  PROVE  TimerInv'
<1>1. \A u \in Task : timer'[u] = IF u = t THEN "done" ELSE timer[u]
  BY DEF TimerInv
<1>2. future' \in [Task -> FutureState] /\ timer' \in [Task -> TimerState] /\ reconfigs' \in Nat
  BY DEF TimerInv, TimerState
<1>3. TimersFollow'
  BY <1>1, Unsettled DEF TimerInv, TimersFollow, IsDone, HoldsResult
<1>4. TimersTellTruth'
  BY DEF TimerInv, TimersTellTruth, IsDone
<1>5. TimerTells'
  <2>1. PICK r \in more : r.by = t /\ r.what = future[t] /\ (r.about = t \/ r.what = "ok")
    OBVIOUS
  <2>2. r.what = future[r.about]
    BY <2>1 DEF IsDone, Outcome
  <2> DEFINE TellsOf(u) ==
               \/ \E q \in timerTold' :
                    /\ q.by = u /\ q.what = future[u]
                    /\ q.what = future[q.about]
                    /\ q.about = u \/ q.what = "ok"
               \/ future[u] = "ok" /\ ~ (builder.executionType = "CALLABLE" /\ builder.threadResultConsumer)
  <2>3. TellsOf(t)
    BY <2>1, <2>2
  <2>4. ASSUME reconfigs = 0, NEW u \in Task, timer[u] = "done" PROVE IsDone(u) /\ TellsOf(u)
    BY <2>4 DEF TimerInv, TimerTells
  <2>5. reconfigs = 0 => \A u \in Task : timer'[u] = "done" => IsDone(u)' /\ TellsOf(u)
    <3>1. \A u \in Task : IsDone(u)' <=> IsDone(u)
      BY DEF IsDone
    <3> HIDE DEF TellsOf
    <3> QED
      BY <1>1, <2>3, <2>4, <3>1
  <2> QED
    BY <2>5 DEF TimerTells
<1>6. Submitted'
  BY DEF TimerInv, Submitted
<1> QED
  BY <1>2, <1>3, <1>4, <1>5, <1>6 DEF TimerInv

\* The steps of the timers, and the one that stops them.
LEMMA TimerKeepsTimerInv ==
  ASSUME TimerInv, NEW t \in Task, StopTimer(t) \/ TimerStep(t)
  PROVE  TimerInv'
<1> USE DEF timerVars, timingVars, executorVars, callerVars
<1>0. future[t] \in FutureState /\ timer[t] \in TimerState
  BY DEF TimerInv
<1>00. timer[t] # "none" => future[t] # "none"
  BY DEF TimerInv, TimersFollow
<1>1. CASE StopTimer(t)
  BY <1>1, <1>00, SameFuture, TimerMoves DEF StopTimer, vars, TimerState
<1>2. CASE TimerChecks(t)
  <2>1. /\ UNCHANGED <<future, timerTold, builder, reconfigs, callerPc, started, threadResult>>
        /\ timer[t] # "none"
    BY <1>2 DEF TimerChecks, vars
  <2>2. CASE IsDone(t)
    BY <1>2, <2>1, <2>2, <1>00, SameFuture, TimerMoves DEF TimerChecks, TimerState, IsDone
  <2>3. CASE ~ IsDone(t)
    BY <1>2, <2>1, <2>3, <1>00, SameFuture, TimerMoves DEF TimerChecks, TimerState
  <2> QED
    BY <2>2, <2>3
<1>3. CASE TimerCancels(t)
  <2>1. /\ UNCHANGED <<timerTold, builder, reconfigs, callerPc, started, threadResult>>
        /\ timer[t] = "cancelling"
    BY <1>3 DEF TimerCancels
  <2>2. future' = [future EXCEPT ![t] = IF @ = "new" THEN "cancelled" ELSE @]
    BY <1>3 DEF TimerCancels
  <2>3. KeepsOutcomes
    BY <2>2, OneFutureIfNew DEF FutureState, Outcome
  <2>4. future[t] # "none"
    BY <2>1, <1>00
  <2>5. IsDone(t)'
    BY <1>0, <2>2, <2>4 DEF TimerInv, IsDone, FutureState, Outcome
  <2> QED
    BY <1>3, <2>1, <2>3, <2>4, <2>5, TimerMoves DEF TimerCancels, TimerState, KeepsOutcomes
<1>4. CASE TimerHandles(t)
  <2>1. /\ UNCHANGED <<future, builder, reconfigs, callerPc, started>>
        /\ timer[t] = "handling" /\ IsDone(t)
    BY <1>4 DEF TimerHandles, TimerInv, TimersFollow
  <2>2. CASE /\ timerTold' = timerTold \cup {TimerReport(t, future[t])}
             /\ timer' = [timer EXCEPT ![t] = "done"] /\ UNCHANGED threadResult
    <3>1. /\ TimerReport(t, future[t]).by = t /\ TimerReport(t, future[t]).about = t
          /\ TimerReport(t, future[t]).what = future[t]
      BY DEF TimerReport
    <3> QED
      BY <2>1, <2>2, <3>1, TimerEnds
  <2>3. CASE /\ future[t] = "ok" /\ builder.executionType = "RUNNABLE"
             /\ timer' = [timer EXCEPT ![t] = "done"] /\ UNCHANGED <<threadResult, timerTold>>
    BY <2>1, <2>3, <1>00, SameFuture, TimerMoves DEF TimerState, IsDone
  <2>4. CASE /\ future[t] = "ok" /\ threadResult' = t
             /\ timer' = [timer EXCEPT ![t] = "consuming"] /\ UNCHANGED timerTold
    <3>1. HoldsResult'
      BY <2>1, <2>4 DEF HoldsResult
    <3> QED
      BY <2>1, <2>4, <3>1, <1>00, SameFuture, TimerMoves DEF TimerState, IsDone
  <2> QED
    BY <1>4, <2>2, <2>3, <2>4 DEF TimerHandles
<1>5. CASE TimerConsumes(t)
  <2>1. /\ UNCHANGED <<future, builder, reconfigs, callerPc, started, threadResult>>
        /\ timer' = [timer EXCEPT ![t] = "done"] /\ IsDone(t) /\ future[t] = "ok" /\ HoldsResult
    BY <1>5 DEF TimerConsumes, vars, TimerInv, TimersFollow
  <2> DEFINE result == [by |-> t, about |-> threadResult, what |-> "ok", to |-> "consumer"]
  <2>2. CASE ~ builder.threadResultConsumer
    <3>1. UNCHANGED timerTold
      BY <1>5, <2>2 DEF TimerConsumes
    <3> QED
      BY <2>1, <2>2, <3>1, <1>00, SameFuture, TimerMoves DEF TimerState, IsDone
  <2>3. CASE builder.threadResultConsumer
    <3>1. PICK more \in {{result}, {result, TimerReport(t, "callback")}} : timerTold' = timerTold \cup more
      BY <1>5, <2>3 DEF TimerConsumes
    <3>2. \A r \in more : r.what = "callback" \/ (r.what = "ok" /\ r.about = threadResult)
      BY <3>1 DEF TimerReport
    <3>3. result \in more /\ result.by = t /\ result.what = "ok"
      BY <3>1
    <3>4. threadResult \in Task /\ future[threadResult] = "ok" /\ IsDone(threadResult)
      BY <2>1, ResultIsOutcome DEF HoldsResult, IsDone
    <3> HIDE DEF result
    <3> QED
      BY <2>1, <3>1, <3>2, <3>3, <3>4, TimerEnds
  <2> QED
    BY <2>2, <2>3
<1> QED
  BY <1>1, <1>2, <1>3, <1>4, <1>5 DEF TimerStep

\* handleInterruption gives the timer a task that was submitted.
LEMMA ArmKeepsTimerInv ==
  ASSUME TimerInv, ArmTimer
  PROVE  TimerInv'
<1> USE DEF callerVars, executorVars, timingVars, vars
<1>1. /\ UNCHANGED <<future, timerTold, builder, reconfigs, callerPc, started, threadResult>>
      /\ callerPc \in PastSubmission
      /\ timer' = [timer EXCEPT ![started] = "armed"]
  BY DEF ArmTimer, PastSubmission
<1>2. CASE started \in Task
  <2>1. future[started] # "none"
    BY <1>1, <1>2 DEF TimerInv, Submitted
  <2> QED
    BY <1>1, <1>2, <2>1, SameFuture, TimerMoves DEF TimerState
<1>3. CASE started \notin Task
  <2>1. timer' = timer
    BY <1>1, <1>3 DEF TimerInv
  <2>2. OtherStep
    BY <1>1, <2>1, SameFuture DEF OtherStep
  <2> QED
    BY <2>2, OtherKeepsTimerInv
<1> QED
  BY <1>2, <1>3

-------------------------------------------------------------------------------
\* The inductive invariant, with TimerTells and the truth of what timers tell.
THEOREM TimerInvariance == TimingSpec => []TimerInv
<1>1. TimerInv /\ [TimingNext]_allVars => TimerInv'
  <2> SUFFICES ASSUME TimerInv, [TimingNext]_allVars
               PROVE  TimerInv'
    OBVIOUS
  <2>1. ASSUME NEW w \in Worker, TimedWorkerStep(w)
        PROVE  TimerInv'
    BY <2>1, WorkerOtherStep, OtherKeepsTimerInv
  <2>2. ASSUME NEW t \in Task, StopTimer(t) \/ TimerStep(t)
        PROVE  TimerInv'
    BY <2>2, TimerKeepsTimerInv
  <2>3. CASE ArmTimer
    BY <2>3, ArmKeepsTimerInv
  <2> QED
    BY <2>1, <2>2, <2>3, OutsideOtherStep, OtherKeepsTimerInv
       DEF TimingNext, TimedCallerStep, TimedTerminated
<1> QED
  BY <1>1, InitTimerInv, PTL DEF TimingSpec

\* Once a timer is through its task is settled, and whoever is to be told was told
\* by the timer, whatever became of the pool's own handler: the task's own failure
\* or cancellation, or of a callable that returned the result the shared field held,
\* which is one that some start really had.  For any number of starts, threads and
\* any time settings.
THEOREM TimersTell == TimingSpec => []TimerTells
<1>1. TimerInv => TimerTells
  BY DEF TimerInv
<1> QED
  BY <1>1, TimerInvariance, PTL

\* Whatever a timer tells of a task's outcome is what that task settled on.
THEOREM TimersAreTruthful == TimingSpec => []TimersTellTruth
<1>1. TimerInv => TimersTellTruth
  BY DEF TimerInv
<1> QED
  BY <1>1, TimerInvariance, PTL

-------------------------------------------------------------------------------
(* The cached time configuration. *)

\* While a start is under way the cache is that of the fields, the task is periodic
\* from its submission on if it has an interval, and its timer is there only if it
\* has a timeout; starts to come have neither.
CacheInv ==
  /\ started \in 0 .. MaxSubmissions
  /\ timing \in Timing
  /\ DOMAIN timer = Task
  /\ threadTimeConfig # "null" => threadTimeConfig = ReadThreadTimeConfig
  /\ callerPc # "idle" => threadTimeConfig # "null" /\ started > 0
  /\ \A t \in Task : t > started => t \notin periodic /\ timer[t] = "none"
  /\ callerPc \in {"firstAdded", "registered"} => started \notin periodic
  /\ callerPc \in PastSubmission => (started \in periodic <=> AtFixedRate)
  /\ callerPc # "idle" /\ timer[started] # "none" => threadTimeConfig \in WithTimeout

\* Steps that leave alone what a start reads of the time settings.
AloneStep ==
  /\ UNCHANGED <<started, callerPc, timing, threadTimeConfig, periodic>>
  /\ DOMAIN timer' = DOMAIN timer
  /\ \A t \in Task : timer[t] = "none" => timer'[t] = "none"
  /\ \A t \in Task : timer[t] # "none" => timer'[t] # "none"

\* The configurations with an interval and with a timeout are those with the field set.
LEMMA ConfigReads ==
  ASSUME timing \in Timing
  PROVE  /\ ReadThreadTimeConfig \in WithInterval <=> timing.interval
         /\ ReadThreadTimeConfig \in WithTimeout <=> timing.timeout
         /\ ReadThreadTimeConfig # "null"
BY DEF Timing, ReadThreadTimeConfig, WithInterval, WithTimeout

\* The threads, and whoever has the executor result, leave the time settings alone.
LEMMA ThreadsLeaveAlone ==
  ASSUME CacheInv,
         \/ \E field \in Setter, value \in BOOLEAN : Set(field, value) /\ UNCHANGED <<timingVars, timerVars>>
         \/ \E t \in Task : Cancel(t) /\ UNCHANGED <<timingVars, timerVars>>
         \/ TimedShutdown
         \/ \E t \in Task : Due(t) \/ Purge(t) \/ StopTimer(t) \/ TimerStep(t)
         \/ \E w \in Worker : TimedWorkerStep(w)
         \/ UNCHANGED allVars
  PROVE  AloneStep
<1> USE DEF callerVars, timingVars, timerVars, AloneStep
<1>1. ASSUME NEW field \in Setter, NEW value \in BOOLEAN,
             Set(field, value), UNCHANGED <<timingVars, timerVars>>
      PROVE  AloneStep
  BY <1>1 DEF Set
<1>2. ASSUME NEW t \in Task, Cancel(t), UNCHANGED <<timingVars, timerVars>>
      PROVE  AloneStep
  BY <1>2 DEF Cancel
<1>3. CASE TimedShutdown
  BY <1>3 DEF TimedShutdown, Shutdown
<1>4. ASSUME NEW t \in Task, Due(t) \/ Purge(t)
      PROVE  AloneStep
  BY <1>4 DEF Due, Purge
<1>5. ASSUME NEW t \in Task, StopTimer(t) \/ TimerStep(t)
      PROVE  AloneStep
  <2>1. /\ UNCHANGED <<started, callerPc, timing, threadTimeConfig, periodic>>
        /\ timer[t] # "none"
    BY <1>5 DEF StopTimer, TimerStep, TimerChecks, TimerCancels, TimerHandles, TimerConsumes, vars
  <2>2. PICK next : next # "none" /\ timer' = [timer EXCEPT ![t] = next]
    BY <1>5 DEF StopTimer, TimerStep, TimerChecks, TimerCancels, TimerHandles, TimerConsumes
  <2> QED
    BY <2>1, <2>2 DEF CacheInv
<1>6. ASSUME NEW w \in Worker, TimedWorkerStep(w)
      PROVE  AloneStep
  <2>1. UNCHANGED <<started, callerPc>>
    BY <1>6 DEF TimedWorkerStep, HandleCall, HandlePending, HandleEmptyHolder, HandleException,
                HandleRunnable, HandleNoExecutorResult, SetThreadResult, ConsumeThreadResult,
                HandleCompletion, HandlerRuns, CallUserConsumer, Die
  <2> QED
    BY <1>6, <2>1 DEF TimedWorkerStep
<1>7. CASE UNCHANGED allVars
  BY <1>7 DEF allVars, vars
<1> QED
  BY <1>1, <1>2, <1>3, <1>4, <1>5, <1>6, <1>7

\* Every step of the caller, and every step that leaves it alone.
LEMMA CacheInvStep ==
  ASSUME CacheInv, [TimingNext]_allVars
  PROVE  CacheInv'
<1> USE DEF callerVars, timingVars, timerVars, executorVars, PastSubmission
<1>1. CASE AloneStep
  <2>1. ReadThreadTimeConfig' = ReadThreadTimeConfig /\ (AtFixedRate' <=> AtFixedRate)
    BY <1>1 DEF AloneStep, ReadThreadTimeConfig, AtFixedRate
  <2>2. callerPc # "idle" => started \in Task
    BY DEF CacheInv, Task
  <2> QED
    BY <1>1, <2>1, <2>2 DEF AloneStep, CacheInv
<1>2. ASSUME NEW field \in TimeField, SetTime(field)
      PROVE  CacheInv'
  <2>1. timing' \in Timing
    BY <1>2 DEF SetTime, CacheInv, Timing, TimeField
  <2> QED
    BY <1>2, <2>1 DEF SetTime, CacheInv
<1>3. CASE TimingStart
  <2>1. /\ started' = started + 1 /\ started' \in 0 .. MaxSubmissions /\ started' \in Task
        /\ callerPc' = "firstAdded" /\ UNCHANGED <<timing, periodic, timer>>
    BY <1>3, ExecutorAssumption DEF TimingStart, CacheInv, Task
  <2>2. threadTimeConfig' = ReadThreadTimeConfig /\ ReadThreadTimeConfig' = ReadThreadTimeConfig
    BY <1>3, <2>1 DEF TimingStart, CacheInv, ReadThreadTimeConfig
  <2>3. \A t \in Task : t > started' => t > started
    BY <2>1 DEF CacheInv, Task
  <2>4. started' > started
    BY <2>1 DEF CacheInv
  <2> QED
    BY <2>1, <2>2, <2>3, <2>4, ConfigReads DEF CacheInv
<1>a. ASSUME UNCHANGED <<started, timing, threadTimeConfig, timer>>
      PROVE  ReadThreadTimeConfig' = ReadThreadTimeConfig /\ (AtFixedRate' <=> AtFixedRate)
  BY <1>a DEF ReadThreadTimeConfig, AtFixedRate
<1>4. CASE RegisterHandler
  BY <1>4, <1>a DEF RegisterHandler, CacheInv
<1>5. CASE Schedule
  <2>1. /\ UNCHANGED <<started, timing, threadTimeConfig, timer>>
        /\ callerPc = "registered" /\ callerPc' = "submitted"
        /\ periodic' = IF AtFixedRate THEN periodic \cup {started} ELSE periodic
    BY <1>5 DEF Schedule
  <2> QED
    BY <2>1, <1>a DEF CacheInv, Task
<1>6. CASE ScheduleRefused
  BY <1>6, <1>a DEF ScheduleRefused, CacheInv
<1>7. CASE SetHolder /\ UNCHANGED <<timingVars, timerVars>>
  BY <1>7, <1>a DEF SetHolder, CacheInv
<1>8. CASE ArmTimer
  <2>1. /\ UNCHANGED <<started, callerPc, timing, threadTimeConfig, periodic>>
        /\ callerPc = "holderSet" /\ threadTimeConfig \in WithTimeout
        /\ timer' = [timer EXCEPT ![started] = "armed"]
    BY <1>8 DEF ArmTimer, vars
  <2>2. ReadThreadTimeConfig' = ReadThreadTimeConfig /\ (AtFixedRate' <=> AtFixedRate)
    BY <2>1 DEF ReadThreadTimeConfig, AtFixedRate
  <2>3. \A t \in Task : t > started => timer'[t] = timer[t]
    BY <2>1 DEF CacheInv, Task
  <2> QED
    BY <2>1, <2>2, <2>3 DEF CacheInv
<1>9. CASE PublishTimed
  BY <1>9, <1>a DEF PublishTimed, Publish, CacheInv
<1> QED
  BY <1>1, <1>2, <1>3, <1>4, <1>5, <1>6, <1>7, <1>8, <1>9, ThreadsLeaveAlone
     DEF TimingNext, TimedCallerStep, TimedTerminated

\* A start is published with an interval exactly if one is set, and with a timer
\* exactly if a timeout is set, also after setters were called between the starts:
\* for any number of starts.
THEOREM StartsAsConfigured == TimingSpec => TimedAsConfigured
<1>1. TimingInit => CacheInv
  BY TimingAssumption, ExecutorAssumption DEF TimingInit, Init, CacheInv, PastSubmission
<1>2. CacheInv /\ [TimingNext]_allVars =>
        [\A t \in futures' \ futures :
           /\ t \in periodic <=> timing.interval
           /\ timer[t] # "none" <=> timing.timeout]_allVars
  <2> SUFFICES ASSUME CacheInv, TimingNext, NEW t \in futures' \ futures
               PROVE  /\ t \in periodic <=> timing.interval
                      /\ timer[t] # "none" <=> timing.timeout
    OBVIOUS
  <2>1. PublishTimed
    <3> USE DEF callerVars
    <3>1. \A w \in Worker : TimedWorkerStep(w) => UNCHANGED futures
      BY DEF TimedWorkerStep, HandleCall, HandlePending, HandleEmptyHolder, HandleException,
             HandleRunnable, HandleNoExecutorResult, SetThreadResult, ConsumeThreadResult,
             HandleCompletion, HandlerRuns, CallUserConsumer, Die
    <3>2. \A u \in Task : Due(u) \/ Purge(u) \/ StopTimer(u) \/ TimerStep(u) => UNCHANGED futures
      BY DEF Due, Purge, StopTimer, TimerStep, TimerChecks, TimerCancels, TimerHandles,
             TimerConsumes, vars
    <3>3. \/ \E field \in Setter, value \in BOOLEAN : Set(field, value)
          \/ \E field \in TimeField : SetTime(field)
          \/ TimingStart \/ RegisterHandler \/ Schedule \/ ScheduleRefused \/ SetHolder \/ ArmTimer
          \/ \E u \in Task : Cancel(u)
          \/ TimedShutdown \/ TimedTerminated
          => UNCHANGED futures
      BY DEF Set, SetTime, TimingStart, RegisterHandler, Schedule, ScheduleRefused, SetHolder,
             ArmTimer, Cancel, TimedShutdown, Shutdown, TimedTerminated, allVars, vars
    <3> QED
      BY <3>1, <3>2, <3>3 DEF TimingNext, TimedCallerStep
  <2>2. /\ callerPc = "holderSet" /\ t = started
        /\ threadTimeConfig \in WithTimeout => timer[started] # "none"
    BY <2>1 DEF PublishTimed, Publish
  <2> QED
    BY <2>2, ConfigReads DEF CacheInv, PastSubmission, AtFixedRate
<1> QED
  BY <1>1, <1>2, CacheInvStep, PTL DEF TimingSpec, TimedAsConfigured
===============================================================================
