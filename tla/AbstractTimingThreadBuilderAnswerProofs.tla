---------------- MODULE AbstractTimingThreadBuilderAnswerProofs ----------------
(***************************************************************************)
(* What the delays, the intervals and the timeouts leave intact of what    *)
(* the builder promises, for any number of starts and threads and any time *)
(* settings: no failure and no result goes unanswered, and TaskOutcome is  *)
(* implemented.                                                            *)
(*                                                                         *)
(* A step is one that the builder without times has too (CommonStep), for  *)
(* which AbstractThreadBuilderAnswerProofs says all, or one of the few     *)
(* listed in TimedStep, which move no thread of the pool but to the end of *)
(* its task.                                                               *)
(***************************************************************************)
EXTENDS AbstractTimingThreadBuilderProofs, AbstractThreadBuilderAnswerProofs, SequenceTheorems

\* A thread is through with a run that has no outcome of its own: it was cut short
\* by a shutdown, or is to be repeated.
EndsOpen(w) ==
  /\ worker[w].pc \in {"taken", "running"}
  /\ worker' = [worker EXCEPT ![w].pc = "ended"]
  /\ \/ UNCHANGED future
     \/ /\ future[worker[w].task] = "new"
        /\ future' = [future EXCEPT ![worker[w].task] = "cancelled"]
  /\ waiting' \in {waiting, waiting \cup {worker[w].task}}
  /\ UNCHANGED <<consumers, queue, pool, callerVars, threadResult, outputs>>

\* The steps that the builder without times does not have.
TimedStep ==
  \/ \E field \in TimeField : SetTime(field)
  \/ TimingStart
  \/ RegisterHandler
  \/ Schedule
  \/ ScheduleRefused
  \/ \E t \in Task : Due(t) \/ Purge(t) \/ TimerCancels(t) \/ TimerHandles(t)
  \/ \E w \in Worker : EndsOpen(w)

\* Every step of the pool's threads is one of the builder's, or ends a run.
LEMMA TimedWorkerSteps ==
  ASSUME NEW w \in Worker, TimedWorkerStep(w)
  PROVE  (CommonStep /\ UNCHANGED waiting) \/ EndsOpen(w)
<1>1. CASE /\ \/ \E k \in Task : HandleCall(w, k)
              \/ CallUserConsumer(w)
              \/ Die(w)
           /\ UNCHANGED <<timingVars, timerVars>>
  BY <1>1 DEF CommonStep, timingVars
<1>2. CASE /\ TimedWorkerLoop(w)
           /\ UNCHANGED <<callerVars, threadResult, outputs, timing, threadTimeConfig, periodic, timerVars>>
  <2>1. CASE RunAgain(w)
    BY <1>2, <2>1 DEF RunAgain, HasToGoOn, EndsOpen
  <2>2. CASE TimedSkipBody(w) /\ UNCHANGED waiting
    <3>1. SkipBody(w) \/ EndsOpen(w)
      BY <1>2, <2>2 DEF TimedSkipBody, EndsOpen
    <3> QED
      BY <1>2, <2>2, <3>1 DEF CommonStep, LoopStep, WorkerLoop
  <2>3. CASE EndTimedBody(w) /\ UNCHANGED waiting
    <3>1. \E outcome \in {"ok", "failed"} : EndBody(w, outcome)
      BY <2>3 DEF EndTimedBody
    <3> QED
      BY <1>2, <2>3, <3>1 DEF CommonStep, LoopStep, WorkerLoop
  <2>4. CASE /\ Take(w) \/ TimedStartBody(w) \/ BeginAfterExecute(w) \/ Comodified(w) \/ EndAfterExecute(w)
             /\ UNCHANGED waiting
    BY <1>2, <2>4 DEF CommonStep, LoopStep, WorkerLoop, TimedStartBody
  <2> QED
    BY <1>2, <2>1, <2>2, <2>3, <2>4 DEF TimedWorkerLoop
<1> QED
  BY <1>1, <1>2 DEF TimedWorkerStep

\* So every step of the timing builder is one of the builder's or a TimedStep.
LEMMA TimingSteps ==
  ASSUME [TimingNext]_allVars
  PROVE  (CommonStep /\ waiting' \subseteq waiting) \/ TimedStep
<1>1. ASSUME NEW w \in Worker, TimedWorkerStep(w)
      PROVE  (CommonStep /\ waiting' \subseteq waiting) \/ TimedStep
  BY <1>1, TimedWorkerSteps DEF TimedStep
<1>2. CASE \/ UNCHANGED allVars
           \/ TimedTerminated
           \/ ArmTimer
           \/ \E t \in Task : StopTimer(t) \/ TimerChecks(t) \/ TimerConsumes(t)
  <2>1. UNCHANGED vars /\ UNCHANGED waiting
    BY <1>2 DEF allVars, TimedTerminated, ArmTimer, StopTimer, TimerChecks, TimerConsumes, timingVars
  <2> QED
    BY <2>1 DEF CommonStep
<1>3. CASE \/ \E field \in Setter, value \in BOOLEAN : Set(field, value) /\ UNCHANGED <<timingVars, timerVars>>
           \/ SetHolder /\ UNCHANGED <<timingVars, timerVars>>
           \/ PublishTimed
           \/ \E t \in Task : Cancel(t) /\ UNCHANGED <<timingVars, timerVars>>
           \/ TimedShutdown
  BY <1>3 DEF CommonStep, PublishTimed, TimedShutdown, timingVars
<1>4. CASE \/ \E field \in TimeField : SetTime(field)
           \/ TimingStart \/ RegisterHandler \/ Schedule \/ ScheduleRefused
           \/ \E t \in Task : Due(t) \/ Purge(t) \/ TimerCancels(t) \/ TimerHandles(t)
  BY <1>4 DEF TimedStep
<1> QED
  BY <1>1, <1>2, <1>3, <1>4 DEF TimingNext, TimedCallerStep, TimerStep

-------------------------------------------------------------------------------
(* The steps of TimedStep. *)

\* What the steps rely on beside Base.
TimedBase == Base /\ DelaysRegistered /\ TimingTypeOK

\* TimingStart and RegisterHandler add to the list what runThread registers, or nothing.
LEMMA TimedStartAppends ==
  ASSUME Base, TimingStart
  PROVE  /\ UserConsumer(started + 1) \in Consumer
         /\ started' = started + 1
         /\ started' \in 0 .. MaxSubmissions
         /\ \/ consumers' = Append(consumers, UserConsumer(started + 1))
            \/ consumers' = consumers
         /\ callerPc' = "firstAdded"
         /\ factory' \in {"none", "default", "consumer"}
         /\ UNCHANGED <<queue, pool, future, worker, builder, reconfigs, holder, executorResult,
                        futures, threadResult, delivered, reports, waiting>>
<1>1. started + 1 \in Task
  BY ExecutorAssumption DEF Base, TypeOK, TimingStart, Task
<1>2. started' \in 0 .. MaxSubmissions
  BY <1>1, ExecutorAssumption DEF TimingStart, Task
<1>3. factory' \in {"none", "default", "consumer"}
  BY DEF TimingStart, ThreadFactory, Base, TypeOK
<1>4. UserConsumer(started + 1) \in Consumer
  BY <1>1 DEF UserConsumer, Consumer
<1> QED
  BY <1>2, <1>3, <1>4 DEF TimingStart, AddAfterExecuteConsumer, executorVars, outputs

LEMMA RegisterHandlerAppends ==
  ASSUME Base, RegisterHandler
  PROVE  /\ Handler(started) \in Consumer
         /\ consumers' = Append(consumers, Handler(started))
         /\ executorResult' = TRUE
         /\ callerPc = "firstAdded"
         /\ callerPc' = "registered"
         /\ UNCHANGED <<queue, pool, future, worker, builder, reconfigs, started, factory, holder,
                        futures, threadResult, delivered, reports, waiting>>
<1>1. started \in Task
  BY StartedIsTask DEF RegisterHandler
<1>2. Handler(started) \in Consumer
  BY <1>1 DEF Handler, Consumer
<1> QED
  BY <1>2 DEF RegisterHandler, AddAfterExecuteConsumer, outputs, timingVars

\* Whatever holds of all elements holds of them after one was taken out.
LEMMA WithoutOne ==
  ASSUME NEW S, NEW s \in Seq(S), NEW i \in DOMAIN s,
         NEW P, \A k \in DOMAIN s : s[k] \in P
  PROVE  SubSeq(s, 1, i - 1) \o SubSeq(s, i + 1, Len(s)) \in Seq(P)
<1>1. i \in 1 .. Len(s) /\ Len(s) \in Nat /\ DOMAIN s = 1 .. Len(s)
  OBVIOUS
<1>2. s \in Seq(P)
  <2>1. s \in [1 .. Len(s) -> P]
    BY <1>1
  <2> QED
    BY <1>1, <2>1, SeqDef
<1>3. SubSeq(s, 1, i - 1) \in Seq(P) /\ SubSeq(s, i + 1, Len(s)) \in Seq(P)
  BY <1>1, <1>2
<1> QED
  BY <1>3, ConcatProperties

\* Every TimedStep keeps the types of what the builder without times has.
LEMMA TimedTypeOK ==
  ASSUME TimedBase, TimedStep
  PROVE  TypeOK'
<1>0. Base /\ TypeOK /\ waiting \subseteq Task
  BY DEF TimedBase, TimingTypeOK, Base
<1> USE DEF callerVars, outputs, executorVars, timingVars
<1>1. ASSUME NEW field \in TimeField, SetTime(field) PROVE TypeOK'
  <2>1. reconfigs' \in 0 .. MaxReconfigs
    BY <1>0, <1>1, BuilderAssumption DEF SetTime, TypeOK
  <2> QED
    BY <1>0, <1>1, <2>1 DEF SetTime, TypeOK, ExecutorTypeOK
<1>2. CASE TimingStart
  <2>1. consumers' \in Seq(Consumer)
    BY <1>0, <1>2, TimedStartAppends, AppendKeeps DEF TypeOK
  <2> QED
    BY <1>0, <1>2, <2>1, TimedStartAppends DEF TypeOK, ExecutorTypeOK
<1>3. CASE RegisterHandler
  <2>1. consumers' \in Seq(Consumer)
    BY <1>0, <1>3, RegisterHandlerAppends, AppendKeeps DEF TypeOK
  <2> QED
    BY <1>0, <1>3, <2>1, RegisterHandlerAppends DEF TypeOK, ExecutorTypeOK
<1>4. CASE Schedule
  <2>1. started \in Task
    BY <1>0, <1>4, StartedIsTask DEF Schedule
  <2>2. queue' \in Seq(Task)
    <3>1. queue' = queue \/ queue' = Append(queue, started)
      BY <1>4 DEF Schedule
    <3>2. queue \in Seq(Task)
      BY <1>0 DEF TypeOK, ExecutorTypeOK
    <3> QED
      BY <2>1, <3>1, <3>2
  <2>3. future' \in [Task -> {"none", "new"} \cup Outcome]
    BY <1>0, <1>4, <2>1 DEF Schedule, TypeOK, ExecutorTypeOK
  <2> QED
    BY <1>0, <1>4, <2>2, <2>3 DEF Schedule, TypeOK, ExecutorTypeOK
<1>5. CASE ScheduleRefused
  BY <1>0, <1>5 DEF ScheduleRefused, TypeOK, ExecutorTypeOK
<1>6. ASSUME NEW t \in Task, Due(t) PROVE TypeOK'
  <2>1. queue' \in Seq(Task)
    BY <1>0, <1>6 DEF Due, TypeOK, ExecutorTypeOK
  <2> QED
    BY <1>0, <1>6, <2>1 DEF Due, TypeOK, ExecutorTypeOK
<1>7. ASSUME NEW t \in Task, Purge(t) PROVE TypeOK'
  <2>1. queue' \in Seq(Task)
    <3>1. CASE UNCHANGED queue
      BY <1>0, <3>1 DEF TypeOK, ExecutorTypeOK
    <3>2. CASE \E i \in DOMAIN queue : queue' = SubSeq(queue, 1, i - 1) \o SubSeq(queue, i + 1, Len(queue))
      <4>1. queue \in Seq(Task) /\ \A k \in DOMAIN queue : queue[k] \in Task
        BY <1>0 DEF TypeOK, ExecutorTypeOK
      <4> QED
        BY <3>2, <4>1, WithoutOne
    <3> QED
      BY <1>7, <3>1, <3>2 DEF Purge
  <2>2. future' \in [Task -> {"none", "new"} \cup Outcome]
    BY <1>0, <1>7 DEF Purge, TypeOK, ExecutorTypeOK, Outcome
  <2> QED
    BY <1>0, <1>7, <2>1, <2>2 DEF Purge, TypeOK, ExecutorTypeOK
<1>8. ASSUME NEW t \in Task, TimerCancels(t) PROVE TypeOK'
  <2>1. future' \in [Task -> {"none", "new"} \cup Outcome]
    BY <1>0, <1>8 DEF TimerCancels, TypeOK, ExecutorTypeOK, Outcome
  <2> QED
    BY <1>0, <1>8, <2>1 DEF TimerCancels, TypeOK, ExecutorTypeOK
<1>9. ASSUME NEW t \in Task, TimerHandles(t) PROVE TypeOK'
  <2>1. threadResult' \in Task \cup {0}
    BY <1>0, <1>9 DEF TimerHandles, TypeOK
  <2> QED
    BY <1>0, <1>9, <2>1 DEF TimerHandles, TypeOK, ExecutorTypeOK
<1>10. ASSUME NEW w \in Worker, EndsOpen(w) PROVE TypeOK'
  <2>1. worker' \in [Worker -> WorkerState]
    BY <1>0, <1>10, PcChange DEF EndsOpen
  <2>2. future' \in [Task -> {"none", "new"} \cup Outcome]
    BY <1>0, <1>10 DEF EndsOpen, TypeOK, ExecutorTypeOK, Outcome
  <2> QED
    BY <1>0, <1>10, <2>1, <2>2 DEF EndsOpen, TypeOK, ExecutorTypeOK, WorkerState
<1> QED
  BY <1>1, <1>2, <1>3, <1>4, <1>5, <1>6, <1>7, <1>8, <1>9, <1>10 DEF TimedStep

\* A TimedStep settles no task but as cancelled, moves no thread but to the end of
\* its task, tells the pool's callbacks nothing, and stores only a true result.
TimedEffect ==
  /\ Monotone
  /\ SetterShows
  /\ UNCHANGED <<delivered, reports>>
  /\ \A t \in Task : future'[t] = future[t] \/ future'[t] \notin {"ok", "failed"}
  /\ threadResult' = threadResult \/ (threadResult' \in Task /\ future'[threadResult'] = "ok")
  /\ UNCHANGED worker \/ \E w \in Worker : EndsOpen(w)

\* When only one future changes, and only if it is new.
LEMMA CancelledIfNew ==
  ASSUME TypeOK, NEW t,
         \/ UNCHANGED future
         \/ future' = [future EXCEPT ![t] = IF @ = "new" THEN "cancelled" ELSE @]
         \/ future[t] = "new" /\ future' = [future EXCEPT ![t] = "cancelled"]
  PROVE  \A u \in Task : /\ future[u] # "none" <=> future'[u] # "none"
                         /\ IsDone(u) => future'[u] = future[u]
                         /\ future'[u] = future[u] \/ future'[u] \notin {"ok", "failed"}
BY DEF TypeOK, ExecutorTypeOK, IsDone, Outcome

LEMMA TimedStepEffect ==
  ASSUME TimedBase, TimedStep
  PROVE  TimedEffect
<1>0. Base /\ TypeOK /\ consumers \in Seq(Consumer) /\ reconfigs \in Nat
  BY BuilderAssumption DEF TimedBase, Base, TypeOK
<1> USE DEF callerVars, outputs, executorVars, timingVars
<1>1. ASSUME UNCHANGED <<consumers, delivered, reports, threadResult, worker>>,
             \A u \in Task : /\ future[u] # "none" => future'[u] # "none"
                             /\ IsDone(u) => future'[u] = future[u]
                             /\ future'[u] = future[u] \/ future'[u] \notin {"ok", "failed"},
             UNCHANGED <<builder, reconfigs>> \/ reconfigs' = reconfigs + 1
      PROVE  TimedEffect
  <2>1. SetterShows
    BY <1>0, <1>1 DEF SetterShows
  <2> QED
    BY <1>1, <2>1 DEF TimedEffect, Monotone
<1>2. ASSUME NEW field \in TimeField, SetTime(field) PROVE TimedEffect
  BY <1>1, <1>2 DEF SetTime
<1>3. CASE TimingStart
  <2>1. Monotone
    BY <1>0, <1>3, TimedStartAppends, AppendKeeps DEF Monotone
  <2> QED
    BY <1>0, <1>3, <2>1, TimedStartAppends DEF TimedEffect, SetterShows
<1>4. CASE RegisterHandler
  <2>1. Monotone
    BY <1>0, <1>4, RegisterHandlerAppends, AppendKeeps DEF Monotone
  <2> QED
    BY <1>0, <1>4, <2>1, RegisterHandlerAppends DEF TimedEffect, SetterShows
<1>5. CASE Schedule
  <2>1. \A u \in Task : /\ future[u] # "none" => future'[u] # "none"
                        /\ IsDone(u) => future'[u] = future[u]
                        /\ future'[u] = future[u] \/ future'[u] \notin {"ok", "failed"}
    BY <1>0, <1>5 DEF Schedule, TypeOK, ExecutorTypeOK, IsDone, Outcome
  <2> QED
    BY <1>1, <1>5, <2>1 DEF Schedule
<1>6. CASE ScheduleRefused
  BY <1>1, <1>6 DEF ScheduleRefused
<1>7. ASSUME NEW t \in Task, Due(t) PROVE TimedEffect
  BY <1>1, <1>7 DEF Due
<1>8. ASSUME NEW t \in Task, Purge(t) PROVE TimedEffect
  BY <1>0, <1>1, <1>8, CancelledIfNew DEF Purge
<1>9. ASSUME NEW t \in Task, TimerCancels(t) PROVE TimedEffect
  BY <1>0, <1>1, <1>9, CancelledIfNew DEF TimerCancels
<1>10. ASSUME NEW t \in Task, TimerHandles(t) PROVE TimedEffect
  <2>1. /\ UNCHANGED <<consumers, delivered, reports, worker, future, builder, reconfigs>>
        /\ threadResult' = threadResult \/ (threadResult' = t /\ future[t] = "ok")
    BY <1>10 DEF TimerHandles
  <2>2. threadResult' = threadResult \/ (threadResult' \in Task /\ future'[threadResult'] = "ok")
    BY <2>1
  <2>3. Monotone /\ SetterShows
    BY <2>1 DEF Monotone, SetterShows
  <2> QED
    BY <2>1, <2>2, <2>3 DEF TimedEffect
<1>11. ASSUME NEW w \in Worker, EndsOpen(w) PROVE TimedEffect
  <2>1. /\ UNCHANGED <<consumers, delivered, reports, threadResult, builder, reconfigs>>
        /\ \/ UNCHANGED future
           \/ /\ future[worker[w].task] = "new"
              /\ future' = [future EXCEPT ![worker[w].task] = "cancelled"]
    BY <1>11 DEF EndsOpen
  <2>2. \A u \in Task : /\ future[u] # "none" => future'[u] # "none"
                        /\ IsDone(u) => future'[u] = future[u]
                        /\ future'[u] = future[u] \/ future'[u] \notin {"ok", "failed"}
    BY <1>0, <2>1, CancelledIfNew
  <2>3. Monotone /\ SetterShows
    BY <2>1, <2>2 DEF Monotone, SetterShows
  <2> QED
    BY <1>11, <2>1, <2>2, <2>3 DEF TimedEffect
<1> QED
  BY <1>2, <1>3, <1>4, <1>5, <1>6, <1>7, <1>8, <1>9, <1>10, <1>11 DEF TimedStep

\* A worker that ends a run open still has the task of that run.
LEMMA EndsOpenHolds ==
  ASSUME Base, NEW w \in Worker, EndsOpen(w)
  PROVE  /\ \A v \in Worker \ {w} : worker'[v] = worker[v]
         /\ worker'[w].task = worker[w].task
         /\ worker'[w].task \in Task
         /\ worker'[w].pc = "ended"
         /\ future[worker[w].task] # "none"
BY DEF Base, TypeOK, ExecutorTypeOK, WorkersHold, EndsOpen

\* Whatever a TimedStep does, the threads' tasks are submitted ones.
LEMMA TimedWorkersHold ==
  ASSUME TimedBase, TimedStep
  PROVE  WorkersHold'
<1>0. Base /\ TypeOK' /\ TimedEffect
  BY TimedTypeOK, TimedStepEffect DEF TimedBase
<1>1. Monotone /\ (threadResult # 0 => threadResult' # 0)
  BY <1>0 DEF TimedEffect, Task
<1>2. SUFFICES \A w \in Worker : HoldsTask(w)'
  BY DEF WorkersHold, HoldsTask
<1>3. CASE UNCHANGED worker
  BY <1>0, <1>1, <1>3, HoldsTaskKept
<1>4. ASSUME NEW w \in Worker, EndsOpen(w) PROVE \A v \in Worker : HoldsTask(v)'
  <2>1. \A v \in Worker \ {w} : HoldsTask(v)'
    BY <1>0, <1>1, <1>4, EndsOpenHolds, HoldsTaskKept
  <2>2. HoldsTask(w)'
    BY <1>0, <1>1, <1>4, EndsOpenHolds DEF HoldsTask, InPass, Monotone, Task
  <2> QED
    BY <2>1, <2>2
<1> QED
  BY <1>0, <1>3, <1>4 DEF TimedEffect

\* The executor result, set by a timer, holds a result that there is.
LEMMA TimedOutputsTrue ==
  ASSUME TimedBase, OutputsTrue, TimedStep
  PROVE  OutputsTrue'
<1>0. TimedEffect /\ Base
  BY TimedStepEffect DEF TimedBase
<1>1. \A t \in Task : future[t] \in Outcome => future'[t] = future[t]
  BY <1>0 DEF TimedEffect, Monotone, IsDone
<1>2. threadResult' # 0 => future'[threadResult'] = "ok"
  BY <1>0, <1>1 DEF TimedEffect, OutputsTrue, Base, TypeOK, Outcome
<1> QED
  BY <1>0, <1>1, <1>2 DEF TimedEffect, OutputsTrue, Base, TypeOK, Outcome

\* The factory is that of the first start, with times as without.
LEMMA TimedFactoryKept ==
  ASSUME TimedBase, FactoryKept, TimedStep
  PROVE  FactoryKept'
<1>0. SetterShows /\ started \in Nat /\ reconfigs \in Nat
  BY TimedStepEffect, BuilderAssumption DEF TimedEffect, TimedBase, Base, TypeOK
<1>1. CASE TimingStart
  BY <1>0, <1>1, FactoryStarts DEF TimingStart
<1>2. CASE ~ TimingStart
  <2>1. UNCHANGED <<started, factory>>
    BY <1>2 DEF TimedStep, SetTime, RegisterHandler, Schedule, ScheduleRefused, Due, Purge,
                TimerCancels, TimerHandles, EndsOpen, callerVars
  <2> QED
    BY <1>0, <2>1, FactoryStays
<1> QED
  BY <1>1, <1>2

\* A run that ends open is followed by afterExecute, and so by an answer if there
\* is one to give.
LEMMA TimedAnswersComing ==
  ASSUME TimedBase, AnswersComing, TimedStep
  PROVE  AnswersComing'
<1>0. TimedEffect /\ Base
  BY TimedStepEffect DEF TimedBase
<1>1. CASE UNCHANGED worker
  BY <1>0, <1>1, NobodyMoves DEF TimedEffect
<1>2. ASSUME NEW w \in Worker, EndsOpen(w) PROVE AnswersComing'
  <2>1. KeepsPromise(w)
    BY <1>0, <1>2, EndsOpenHolds DEF KeepsPromise, TimedEffect, Holds, WillAnswer
  <2> QED
    BY <1>0, <1>2, <2>1, PromiseKept DEF TimedEffect
<1> QED
  BY <1>0, <1>1, <1>2 DEF TimedEffect

\* What is delayed is submitted, and what is submitted has its handler registered.
LEMMA TimedDelaysRegistered ==
  ASSUME TimedBase, TimedStep
  PROVE  DelaysRegistered'
<1>0. /\ Base /\ TypeOK /\ Monotone /\ started \in Nat
      /\ waiting \subseteq Task /\ \A t \in waiting : future[t] # "none"
      /\ callerPc = "registered" => \E i \in DOMAIN consumers : consumers[i] = Handler(started)
  BY TimedStepEffect DEF TimedBase, TimingTypeOK, TimedEffect, Base, TypeOK, DelaysRegistered
<1> USE DEF callerVars, outputs, executorVars, timingVars
<1>1. ASSUME TasksRegistered', UNCHANGED started, waiting' \subseteq waiting,
             callerPc' = "registered" => callerPc = "registered"
      PROVE  DelaysRegistered'
  <2>1. callerPc' = "registered" => \E i \in DOMAIN consumers' : consumers'[i] = Handler(started)
    BY <1>0, <1>1 DEF Monotone
  <2>2. \A t \in waiting' : future'[t] # "none"
    BY <1>0, <1>1 DEF Monotone
  <2> QED
    BY <1>1, <2>1, <2>2 DEF DelaysRegistered, Handler
<1>2. CASE (\E field \in TimeField : SetTime(field)) \/ ScheduleRefused
  <2>1. /\ UNCHANGED <<queue, future, started, waiting>>
        /\ UNCHANGED callerPc \/ callerPc' = "idle"
    BY <1>2 DEF SetTime, ScheduleRefused
  <2>2. TasksRegistered'
    BY <1>0, <2>1, QueueSubmitted, NoNewTask
  <2> QED
    BY <1>1, <2>1, <2>2
<1>3. CASE TimingStart
  <2>1. /\ started' = started + 1 /\ UNCHANGED <<queue, future, waiting>> /\ callerPc' = "firstAdded"
    BY <1>0, <1>3, TimedStartAppends
  <2>2. TasksRegistered'
    BY <1>0, <2>1, StillRegistered
  <2> QED
    BY <1>0, <2>1, <2>2 DEF DelaysRegistered
<1>4. CASE RegisterHandler
  <2>1. /\ UNCHANGED <<queue, future, waiting, started>> /\ started > 0
    BY <1>0, <1>4, RegisterHandlerAppends DEF Base, TasksRegistered
  <2>2. TasksRegistered'
    BY <1>0, <2>1, StillRegistered
  <2>3. \E i \in DOMAIN consumers' : consumers'[i] = Handler(started)
    BY <1>0, <1>4, RegisterHandlerAppends, AppendKeeps DEF TypeOK
  <2> QED
    BY <1>0, <2>1, <2>2, <2>3 DEF DelaysRegistered, Handler
<1>5. CASE Schedule
  <2>1. /\ callerPc = "registered" /\ callerPc' = "submitted"
        /\ UNCHANGED <<consumers, started>>
        /\ future' = [future EXCEPT ![started] = "new"]
        /\ queue' = Append(queue, started) \/ UNCHANGED queue
        /\ waiting' \subseteq waiting \cup {started}
    BY <1>5 DEF Schedule
  <2>2. TasksRegistered'
    BY <1>0, <2>1, SubmitRegistered
  <2>3. started \in Task
    BY <1>0, <2>1, StartedIsTask
  <2>4. \A t \in waiting' : future'[t] # "none"
    BY <1>0, <2>1, <2>3 DEF TypeOK, ExecutorTypeOK
  <2> QED
    BY <2>1, <2>2, <2>4 DEF DelaysRegistered
<1>6. ASSUME NEW t \in Task, Due(t) PROVE DelaysRegistered'
  <2>1. /\ t \in waiting /\ waiting' \subseteq waiting /\ queue' = Append(queue, t)
        /\ UNCHANGED <<consumers, future, started, callerPc>>
    BY <1>6 DEF Due
  <2>2. \A i \in DOMAIN queue' : queue'[i] \in Task /\ future[queue'[i]] # "none"
    <3>1. queue \in Seq(Task) /\ t \in Task /\ future[t] # "none"
      BY <1>0, <2>1 DEF TypeOK, ExecutorTypeOK
    <3>2. \A i \in DOMAIN queue' : queue'[i] = t \/ (i \in DOMAIN queue /\ queue'[i] = queue[i])
      BY <2>1, <3>1
    <3> QED
      BY <1>0, <3>1, <3>2, QueueSubmitted
  <2>3. TasksRegistered'
    BY <1>0, <2>1, <2>2, NoNewTask
  <2> QED
    BY <1>1, <2>1, <2>3
<1>7. ASSUME NEW t \in Task, Purge(t) PROVE DelaysRegistered'
  <2>1. /\ waiting' \subseteq waiting /\ UNCHANGED <<consumers, started, callerPc>>
        /\ \A u \in Task : future'[u] # "none" => future[u] # "none"
    BY <1>0, <1>7, CancelledIfNew DEF Purge
  <2>2. \A i \in DOMAIN queue' : queue'[i] \in Task /\ future[queue'[i]] # "none"
    <3>1. CASE UNCHANGED queue
      BY <1>0, <3>1, QueueSubmitted
    <3>2. CASE \E i \in DOMAIN queue : queue' = SubSeq(queue, 1, i - 1) \o SubSeq(queue, i + 1, Len(queue))
      <4>1. PICK i \in DOMAIN queue : queue' = SubSeq(queue, 1, i - 1) \o SubSeq(queue, i + 1, Len(queue))
        BY <3>2
      <4> DEFINE SubmittedTasks == {u \in Task : future[u] # "none"}
      <4>2. queue \in Seq(Task) /\ \A k \in DOMAIN queue : queue[k] \in SubmittedTasks
        BY <1>0, QueueSubmitted DEF TypeOK, ExecutorTypeOK
      <4>3. queue' \in Seq(SubmittedTasks)
        BY <4>1, <4>2, WithoutOne
      <4>4. \A j \in DOMAIN queue' : queue'[j] \in SubmittedTasks
        BY <4>3
      <4> QED
        BY <4>4
    <3> QED
      BY <1>7, <3>1, <3>2 DEF Purge
  <2>3. TasksRegistered'
    BY <1>0, <2>1, <2>2, NoNewTask
  <2> QED
    BY <1>1, <2>1, <2>3
<1>8. ASSUME NEW t \in Task, TimerCancels(t) \/ TimerHandles(t) PROVE DelaysRegistered'
  <2>1. /\ UNCHANGED <<consumers, started, callerPc, queue, waiting>>
        /\ \A u \in Task : future'[u] # "none" => future[u] # "none"
    BY <1>0, <1>8, CancelledIfNew DEF TimerCancels, TimerHandles
  <2>2. TasksRegistered'
    BY <1>0, <2>1, QueueSubmitted, NoNewTask
  <2> QED
    BY <1>1, <2>1, <2>2
<1>9. ASSUME NEW w \in Worker, EndsOpen(w) PROVE DelaysRegistered'
  <2>1. /\ UNCHANGED <<consumers, started, callerPc, queue>>
        /\ \A u \in Task : future'[u] # "none" => future[u] # "none"
        /\ waiting' \in {waiting, waiting \cup {worker[w].task}}
    BY <1>0, <1>9, CancelledIfNew DEF EndsOpen
  <2>2. TasksRegistered'
    BY <1>0, <2>1, QueueSubmitted, NoNewTask
  <2>3. \A t \in waiting' : future'[t] # "none"
    BY <1>0, <1>9, <2>1, EndsOpenHolds DEF Monotone
  <2> QED
    BY <1>0, <2>1, <2>2, <2>3 DEF DelaysRegistered, Handler
<1> QED
  BY <1>2, <1>3, <1>4, <1>5, <1>6, <1>7, <1>8, <1>9 DEF TimedStep

-------------------------------------------------------------------------------
(* The invariant. *)

\* The time settings, the delays and what the timers tell keep their types.
TimesTyped ==
  /\ timing \in Timing
  /\ threadTimeConfig \in ThreadTimeConfig \cup {"null"}
  /\ waiting \subseteq Task
  /\ periodic \subseteq Task
  /\ timerTold \subseteq TimerTold

LEMMA TimesTypedStep ==
  ASSUME TimedBase, TimerInv, [TimingNext]_allVars
  PROVE  TimesTyped'
<1>0. Base /\ TimesTyped /\ TypeOK
  BY DEF TimedBase, Base, TimingTypeOK, TimesTyped
<1> USE DEF TimesTyped, timingVars, timerVars, callerVars, executorVars
<1>1. ASSUME UNCHANGED <<timing, threadTimeConfig, periodic, timerTold>>, waiting' \subseteq Task
      PROVE  TimesTyped'
  BY <1>0, <1>1
<1>2. ASSUME NEW w \in Worker, TimedWorkerStep(w) PROVE TimesTyped'
  <2>1. waiting' \subseteq Task
    <3>1. CASE UNCHANGED waiting
      BY <1>0, <3>1
    <3>2. CASE EndsOpen(w)
      <4>1. worker[w].task \in Task
        BY <1>0, <3>2, EndsOpenHolds
      <4> QED
        BY <1>0, <3>2, <4>1 DEF EndsOpen
    <3> QED
      BY <1>2, <3>1, <3>2, TimedWorkerSteps
  <2> QED
    BY <1>1, <1>2, <2>1 DEF TimedWorkerStep
<1>3. ASSUME NEW field \in TimeField, SetTime(field) PROVE TimesTyped'
  <2>1. timing' \in Timing
    BY <1>0, <1>3 DEF SetTime, Timing, TimeField
  <2> QED
    BY <1>0, <1>3, <2>1 DEF SetTime
<1>4. CASE TimingStart
  <2>1. threadTimeConfig' \in ThreadTimeConfig \cup {"null"}
    BY <1>0, <1>4 DEF TimingStart, ReadThreadTimeConfig, ThreadTimeConfig
  <2> QED
    BY <1>0, <1>4, <2>1 DEF TimingStart
<1>5. CASE Schedule
  <2>1. started \in Task
    BY <1>0, <1>5, StartedIsTask DEF Schedule
  <2> QED
    BY <1>0, <1>5, <2>1 DEF Schedule
<1>6. CASE \/ \E field \in Setter, value \in BOOLEAN : Set(field, value) /\ UNCHANGED <<timingVars, timerVars>>
           \/ RegisterHandler \/ ScheduleRefused \/ ArmTimer \/ PublishTimed
           \/ SetHolder /\ UNCHANGED <<timingVars, timerVars>>
           \/ \E t \in Task : Cancel(t) /\ UNCHANGED <<timingVars, timerVars>>
           \/ TimedShutdown
           \/ TimedTerminated
           \/ UNCHANGED allVars
           \/ \E t \in Task : Due(t) \/ Purge(t) \/ StopTimer(t) \/ TimerChecks(t) \/ TimerCancels(t)
  <2>1. UNCHANGED <<timing, threadTimeConfig, periodic, timerTold>> /\ waiting' \subseteq waiting
    BY <1>6 DEF RegisterHandler, ScheduleRefused, ArmTimer, PublishTimed, TimedShutdown,
                TimedTerminated, allVars, Due, Purge, StopTimer, TimerChecks, TimerCancels
  <2> QED
    BY <1>0, <1>1, <2>1
<1>7. ASSUME NEW t \in Task, TimerHandles(t) PROVE TimesTyped'
  <2>1. UNCHANGED timingVars
    BY <1>7 DEF TimerHandles
  <2>2. timerTold' = timerTold \/
          (future[t] \in {"failed", "cancelled"} /\ timerTold' = timerTold \cup {TimerReport(t, future[t])})
    BY <1>7 DEF TimerHandles
  <2>3. future[t] \in {"failed", "cancelled"} => TimerReport(t, future[t]) \in TimerTold
    BY DEF TimerReport, ReportedTo, TimerTold
  <2> QED
    BY <1>0, <2>1, <2>2, <2>3
<1>8. ASSUME NEW t \in Task, TimerConsumes(t) PROVE TimesTyped'
  <2>1. UNCHANGED timingVars
    BY <1>8 DEF TimerConsumes
  <2> DEFINE result == [by |-> t, about |-> threadResult, what |-> "ok", to |-> "consumer"]
  <2>2. \E more \in {{}, {result}, {result, TimerReport(t, "callback")}} : timerTold' = timerTold \cup more
    BY <1>8 DEF TimerConsumes
  <2>3. result \in TimerTold /\ TimerReport(t, "callback") \in TimerTold
    BY <1>8 DEF TimerReport, ReportedTo, TimerTold, TimerConsumes, TimerInv, TimersFollow, HoldsResult
  <2> HIDE DEF result
  <2> QED
    BY <1>0, <2>1, <2>2, <2>3
<1> QED
  BY <1>2, <1>3, <1>4, <1>5, <1>6, <1>7, <1>8 DEF TimingNext, TimedCallerStep, TimerStep

\* A step of the builder without times, delays aside, keeps the invariant as it does there.
LEMMA CommonKeepsTimingIInv ==
  ASSUME TimingIInv, CommonStep, waiting' \subseteq waiting
  PROVE  /\ TypeOK'
         /\ DelaysRegistered' /\ WorkersHold' /\ OutputsTrue' /\ FactoryKept' /\ AnswersComing'
<1>0. /\ Base /\ OutputsTrue /\ FactoryKept /\ AnswersComing /\ DelaysRegistered
      /\ waiting \subseteq Task /\ reconfigs \in Nat
  BY BuilderAssumption DEF TimingIInv, TimingTypeOK, Base, DelaysRegistered, TypeOK
<1>1. SharedStep /\ Monotone
  BY <1>0, CommonIsShared, SharedMonotone
<1>2. /\ SetterShows /\ UNCHANGED <<started, factory>>
      /\ callerPc' = callerPc \/ callerPc' \in {"idle", "holderSet"}
  BY <1>0, CommonConfiguration
<1>3. TypeOK' /\ TasksRegistered' /\ WorkersHold' /\ OutputsTrue'
  BY <1>0, <1>1, SharedTypeOK, SharedTasksRegistered, SharedWorkersHold, SharedOutputsTrue
<1>4. FactoryKept' /\ AnswersComing'
  BY <1>0, <1>2, FactoryStays, CommonAnswersComing
<1>5. callerPc' = "registered" => \E i \in DOMAIN consumers' : consumers'[i] = Handler(started)
  BY <1>0, <1>1, <1>2 DEF DelaysRegistered, Monotone
<1>6. \A t \in waiting' : future'[t] # "none"
  BY <1>0, <1>1 DEF DelaysRegistered, Monotone
<1>7. DelaysRegistered'
  BY <1>2, <1>3, <1>5, <1>6 DEF DelaysRegistered, Handler
<1> QED
  BY <1>3, <1>4, <1>7

\* A step of the timing builder's own keeps it too.
LEMMA TimedKeepsTimingIInv ==
  ASSUME TimingIInv, TimedStep
  PROVE  /\ TypeOK'
         /\ DelaysRegistered' /\ WorkersHold' /\ OutputsTrue' /\ FactoryKept' /\ AnswersComing'
<1>1. TimedBase /\ OutputsTrue /\ FactoryKept /\ AnswersComing
  BY DEF TimingIInv, TimedBase, TimingTypeOK, Base, DelaysRegistered
<1> QED
  BY <1>1, TimedTypeOK, TimedDelaysRegistered, TimedWorkersHold, TimedOutputsTrue, TimedFactoryKept,
     TimedAnswersComing

\* The timing builder before its first start satisfies it.
LEMMA InitTimingIInv == TimingInit => TimingIInv
<1> SUFFICES ASSUME TimingInit PROVE TimingIInv
  OBVIOUS
<1>1. Base /\ OutputsTrue /\ FactoryKept /\ AnswersComing
  BY InitBase, InitAnswers DEF TimingInit, AnswerIInv
<1>2. /\ timer \in [Task -> TimerState]
      /\ timing \in Timing /\ waiting = {} /\ periodic = {} /\ timerTold = {} /\ threadTimeConfig = "null"
  BY TimingAssumption DEF TimingInit, TimerState
<1>3. callerPc = "idle"
  BY DEF TimingInit, Init
<1>4. TimingTypeOK
  BY <1>1, <1>2 DEF TimingTypeOK, Base, TimerState
<1>5. DelaysRegistered
  BY <1>1, <1>2, <1>3 DEF DelaysRegistered, Base
<1> QED
  BY <1>1, <1>4, <1>5 DEF TimingIInv, Base

\* In every reachable state the answers that are missing are coming, whatever was
\* delayed, repeated or cut off by a timeout.
THEOREM TimedAnswers == TimingSpec => []TimingIInv
<1>1. TimingIInv /\ TimerInv /\ TimerInv' /\ [TimingNext]_allVars => TimingIInv'
  <2> SUFFICES ASSUME TimingIInv, TimerInv, TimerInv', [TimingNext]_allVars
               PROVE  TimingIInv'
    OBVIOUS
  <2>1. /\ TypeOK'
        /\ DelaysRegistered' /\ WorkersHold' /\ OutputsTrue' /\ FactoryKept' /\ AnswersComing'
    BY TimingSteps, CommonKeepsTimingIInv, TimedKeepsTimingIInv
  <2>2. TimesTyped'
    BY TimesTypedStep DEF TimingIInv, TimedBase, TimingTypeOK, Base, DelaysRegistered
  <2>3. timer' \in [Task -> TimerState]
    BY DEF TimerInv
  <2>4. TimingTypeOK'
    BY <2>1, <2>2, <2>3 DEF TimingTypeOK, TimesTyped, TimerState
  <2> QED
    BY <2>1, <2>4 DEF TimingIInv
<1> QED
  BY <1>1, InitTimingIInv, TimerInvariance, PTL DEF TimingSpec

\* Every variable of the timing builder and of its timers keeps its type.
THEOREM TimingTyping == TimingSpec => []TimingTypeOK
<1>1. TimingIInv => TimingTypeOK
  BY DEF TimingIInv
<1> QED
  BY <1>1, TimedAnswers, PTL

\* No failure of a delayed, repeated or timed task is lost.
THEOREM TimedFailuresAreReported == TimingSpec => []NoSilentFailure
<1>1. TimingIInv => NoSilentFailure
  BY ReleasedAnswered DEF TimingIInv, NoSilentFailure, Answered
<1> QED
  BY <1>1, TimedAnswers, PTL

\* And it reaches the consumer of uncaught exceptions, if there was one all along.
THEOREM TimedFailuresReachConsumer == TimingSpec => []FailureReachesConsumer
<1>1. TimingIInv => FailureReachesConsumer
  BY ReleasedAnswered DEF TimingIInv, FailureReachesConsumer, Answered
<1> QED
  BY <1>1, TimedAnswers, PTL

\* No result of a delayed or timed callable is lost silently by the pool's own thread.
THEOREM TimedResultsAreToldOrMissed == TimingSpec => []NoSilentResult
<1>1. TimingIInv => NoSilentResult
  BY ReleasedAnswered DEF TimingIInv, NoSilentResult, Answered
<1> QED
  BY <1>1, TimedAnswers, PTL

-------------------------------------------------------------------------------
(* The implementation of TaskOutcome, with the timers as threads that settle  *)
(* and tell.                                                                 *)

\* A step that settles nothing and tells nobody is a stutter of TaskOutcome.
LEMMA TimedStutter ==
  ASSUME \A t \in Task : (IsDone(t)' <=> IsDone(t)) /\ (IsDone(t) => future'[t] = future[t]),
         TimedTold' = TimedTold
  PROVE  UNCHANGED TimedOutcome!vars
<1>1. SettledOutcome' = SettledOutcome
  BY DEF SettledOutcome
<1> QED
  BY <1>1 DEF TimedOutcome!vars

\* A future that gets its outcome is a Settle step.
LEMMA TimedSettle ==
  ASSUME TypeOK, NEW t \in Task, NEW o \in Outcome, ~ IsDone(t),
         future' = [future EXCEPT ![t] = o], TimedTold' = TimedTold
  PROVE  TimedOutcome!Next
<1>1. SettledOutcome[t] = "pending" /\ SettledOutcome' = [SettledOutcome EXCEPT ![t] = o]
  BY DEF SettledOutcome, IsDone, TypeOK, ExecutorTypeOK
<1> QED
  BY <1>1 DEF TimedOutcome!Next, TimedOutcome!Settle, TimedOutcome!Settled, Outcome

\* Telling the outcome of a task that has one is a Tell step.
LEMMA TimedTell ==
  ASSUME UNCHANGED future, NEW t \in Task, IsDone(t), TimedTold' = TimedTold \cup {<<t, future[t]>>}
  PROVE  TimedOutcome!Next
<1>1. SettledOutcome' = SettledOutcome
  BY DEF SettledOutcome, IsDone
<1>2. SettledOutcome[t] = future[t] /\ future[t] # "pending"
  BY DEF SettledOutcome, IsDone, Outcome
<1> QED
  BY <1>1, <1>2 DEF TimedOutcome!Next, TimedOutcome!Tell

\* What the timers told of outcomes.
TimersTold == {<<r.about, r.what>> : r \in {q \in timerTold : q.what # "callback"}}

\* With the outputs unchanged TimedTold is.
LEMMA TimedToldUnchanged ==
  ASSUME UNCHANGED outputs, UNCHANGED timerTold
  PROVE  TimedTold' = TimedTold
<1>1. Told' = Told
  BY ToldUnchanged
<1> QED
  BY <1>1 DEF TimedTold

\* One task settles, or none: the steps of the pool, the caller and the scheduler.
SettlesOne ==
  \/ \A t \in Task : (IsDone(t)' <=> IsDone(t)) /\ (IsDone(t) => future'[t] = future[t])
  \/ \E t \in Task, o \in Outcome : ~ IsDone(t) /\ future' = [future EXCEPT ![t] = o]

LEMMA SettlingStep ==
  ASSUME TypeOK, SettlesOne, UNCHANGED outputs, UNCHANGED timerTold
  PROVE  [TimedOutcome!Next]_TimedOutcome!vars
<1>1. TimedTold' = TimedTold
  BY TimedToldUnchanged
<1> QED
  BY <1>1, TimedStutter, TimedSettle DEF SettlesOne

\* The cases in which a step of the timing builder changes the future of a task.
LEMMA OneSettles ==
  ASSUME TypeOK, NEW t \in Task, NEW o \in Outcome,
         \/ UNCHANGED future
         \/ future' = [future EXCEPT ![t] = IF @ = "new" THEN o ELSE @]
         \/ future[t] = "new" /\ future' = [future EXCEPT ![t] = o]
  PROVE  SettlesOne
<1>1. CASE UNCHANGED future
  BY <1>1 DEF SettlesOne, IsDone
<1>2. CASE future[t] = "new" /\ future' = [future EXCEPT ![t] = o]
  BY <1>2 DEF SettlesOne, IsDone, Outcome
<1>3. CASE future' = [future EXCEPT ![t] = IF @ = "new" THEN o ELSE @]
  <2>1. CASE future[t] = "new"
    <3>1. future' = [future EXCEPT ![t] = o]
      BY <1>3, <2>1
    <3> QED
      BY <1>2, <2>1, <3>1
  <2>2. CASE future[t] # "new"
    <3>1. UNCHANGED future
      BY <1>3, <2>2 DEF TypeOK, ExecutorTypeOK
    <3> QED
      BY <1>1, <3>1
  <2> QED
    BY <2>1, <2>2
<1> QED
  BY <1>1, <1>2, <1>3

\* The loop of a pool thread settles at most the task it has.
LEMMA LoopSettles ==
  ASSUME Base, NEW w \in Worker, LoopStep(w)
  PROVE  SettlesOne
<1>0. TypeOK /\ {"ok", "failed", "cancelled"} \subseteq Outcome
  BY DEF Base, Outcome
<1>1. CASE UNCHANGED future
  BY <1>1 DEF SettlesOne, IsDone
<1>2. CASE SkipBody(w)
  <2>1. worker[w].task \in Task
    BY <1>2 DEF SkipBody, Base, TypeOK, ExecutorTypeOK, WorkersHold
  <2> QED
    BY <1>0, <1>2, <2>1, OneSettles DEF SkipBody
<1>3. ASSUME NEW o \in {"ok", "failed"}, EndBody(w, o) PROVE SettlesOne
  <2>1. worker[w].task \in Task
    BY <1>3 DEF EndBody, Base, TypeOK, ExecutorTypeOK, WorkersHold
  <2> QED
    BY <1>0, <1>3, <2>1, OneSettles DEF EndBody
<1> QED
  BY <1>1, <1>2, <1>3 DEF LoopStep, WorkerLoop, Take, StartBody, BeginAfterExecute, Comodified, EndAfterExecute

\* The steps the timing builder shares, with the timers' words left alone.
LEMMA CommonOutcome ==
  ASSUME Base, OutputsTrue, CommonStep, UNCHANGED timerTold
  PROVE  [TimedOutcome!Next]_TimedOutcome!vars
<1>0. TypeOK /\ "cancelled" \in Outcome
  BY DEF Base, Outcome
<1>1. CASE \/ UNCHANGED vars
           \/ \E field \in Setter, value \in BOOLEAN : Set(field, value)
           \/ SetHolder \/ Publish \/ Shutdown
  <2>1. UNCHANGED future /\ UNCHANGED outputs
    BY <1>1 DEF vars, Set, SetHolder, Publish, Shutdown, ShutdownPool, ShutdownPoolNow, executorVars
  <2>2. SettlesOne
    BY <2>1 DEF SettlesOne, IsDone
  <2> QED
    BY <1>0, <2>1, <2>2, SettlingStep
<1>2. ASSUME NEW t \in Task, Cancel(t) PROVE [TimedOutcome!Next]_TimedOutcome!vars
  BY <1>0, <1>2, OneSettles, SettlingStep DEF Cancel, CancelFuture
<1>3. ASSUME NEW w \in Worker, LoopStep(w) PROVE [TimedOutcome!Next]_TimedOutcome!vars
  BY <1>0, <1>3, LoopSettles, SettlingStep DEF LoopStep
<1>4. ASSUME NEW w \in Worker, CallbackEffect(w) PROVE [TimedOutcome!Next]_TimedOutcome!vars
  <2>1. UNCHANGED future
    BY <1>4 DEF CallbackEffect, CallbackFrame
  <2>2. CASE Told' = Told
    BY <2>1, <2>2, TimedStutter DEF TimedTold, IsDone
  <2>3. ASSUME NEW t \in Task, IsDone(t), Told' = Told \cup {<<t, future[t]>>}
        PROVE  TimedOutcome!Next
    <3>1. TimedTold' = TimedTold \cup {<<t, future[t]>>}
      <4>1. TimersTold' = TimersTold /\ TimedTold = Told \cup TimersTold /\ TimedTold' = Told' \cup TimersTold'
        BY DEF TimersTold, TimedTold
      <4> QED
        BY <2>3, <4>1
    <3> QED
      BY <2>1, <2>3, <3>1, TimedTell
  <2> QED
    BY <1>4, <2>2, <2>3, CallbackTells
<1>5. ASSUME NEW w \in Worker, Die(w) PROVE UNCHANGED TimedOutcome!vars
  <2>1. UNCHANGED <<future, delivered>>
    BY <1>5 DEF Die, ReplaceWorker
  <2>2. {q \in reports' : q.what \in {"failed", "cancelled"}} =
        {q \in reports : q.what \in {"failed", "cancelled"}}
    BY <1>5 DEF Die
  <2>3. Told' = Told
    BY <2>1, <2>2 DEF Told
  <2> QED
    BY <2>1, <2>3, TimedStutter DEF IsDone, TimedTold
<1> QED
  BY <1>1, <1>2, <1>3, <1>4, <1>5, HandleCallEffect, CallUserConsumerEffect DEF CommonStep

\* A timer that adds one true word to what it told, or words about nothing.
LEMMA TimerTellsOne ==
  ASSUME UNCHANGED outputs, UNCHANGED future, NEW t \in Task, IsDone(t), NEW more,
         timerTold' = timerTold \cup more,
         \A r \in more : r.what = "callback" \/ (r.about = t /\ r.what = future[t])
  PROVE  [TimedOutcome!Next]_TimedOutcome!vars
<1>1. Told' = Told
  BY ToldUnchanged
<1>2. CASE \E r \in more : r.what = future[t]
  <2>1. PICK r \in more : r.what = future[t] /\ r.about = t /\ r.what # "callback"
    BY <1>2 DEF IsDone, Outcome
  <2>2. TimersTold' = TimersTold \cup {<<t, future[t]>>}
    BY <2>1 DEF TimersTold
  <2>3. TimedTold = Told \cup TimersTold /\ TimedTold' = Told' \cup TimersTold'
    BY DEF TimersTold, TimedTold
  <2>4. TimedTold' = TimedTold \cup {<<t, future[t]>>}
    BY <1>1, <2>2, <2>3
  <2> QED
    BY <2>4, TimedTell
<1>3. CASE ~ \E r \in more : r.what = future[t]
  <2>1. {q \in timerTold' : q.what # "callback"} = {q \in timerTold : q.what # "callback"}
    BY <1>3
  <2>2. TimedTold' = TimedTold
    BY <1>1, <2>1 DEF TimedTold
  <2> QED
    BY <2>2, TimedStutter DEF IsDone
<1> QED
  BY <1>2, <1>3

\* Every step of the timing builder is a step of TaskOutcome or a stutter.
LEMMA TimedOutcomeStep ==
  ASSUME TimingIInv, TimerInv, [TimingNext]_allVars
  PROVE  [TimedOutcome!Next]_TimedOutcome!vars
<1>0. Base /\ TypeOK /\ OutputsTrue /\ "cancelled" \in Outcome
  BY DEF TimingIInv, TimingTypeOK, Base, DelaysRegistered, Outcome
<1> USE DEF callerVars, timerVars, executorVars
<1>1. ASSUME NEW t \in Task, TimerHandles(t) PROVE [TimedOutcome!Next]_TimedOutcome!vars
  <2>1. /\ UNCHANGED <<future, outputs>> /\ IsDone(t)
        /\ \/ timerTold' = timerTold
           \/ timerTold' = timerTold \cup {TimerReport(t, future[t])}
    BY <1>1 DEF TimerHandles, TimerInv, TimersFollow
  <2>2. TimerReport(t, future[t]).about = t /\ TimerReport(t, future[t]).what = future[t]
    BY DEF TimerReport
  <2>3. PICK more \in {{}, {TimerReport(t, future[t])}} : timerTold' = timerTold \cup more
    BY <2>1
  <2>4. \A r \in more : r.about = t /\ r.what = future[t]
    BY <2>2, <2>3
  <2> QED
    BY <2>1, <2>3, <2>4, TimerTellsOne
<1>2. ASSUME NEW t \in Task, TimerConsumes(t) PROVE [TimedOutcome!Next]_TimedOutcome!vars
  <2>1. /\ UNCHANGED <<future, outputs>>
        /\ threadResult \in Task /\ future[threadResult] = "ok"
    BY <1>2 DEF TimerConsumes, TimerInv, TimersFollow, HoldsResult, vars
  <2>2. IsDone(threadResult)
    BY <2>1, ResultIsOutcome DEF IsDone
  <2> DEFINE k == threadResult
             result == [by |-> t, about |-> k, what |-> "ok", to |-> "consumer"]
  <2>3. PICK more \in {{}, {result}, {result, TimerReport(t, "callback")}} : timerTold' = timerTold \cup more
    BY <1>2 DEF TimerConsumes
  <2>4. \A r \in more : r.what = "callback" \/ (r.what = "ok" /\ r.about = k)
    BY <2>3 DEF TimerReport
  <2> HIDE DEF result
  <2> QED
    BY <2>1, <2>2, <2>3, <2>4, TimerTellsOne
<1>3. CASE UNCHANGED timerTold /\ CommonStep
  BY <1>0, <1>3, CommonOutcome
<1>4. CASE UNCHANGED timerTold /\ TimedStep /\ ~ \E t \in Task : TimerHandles(t)
  <2>1. UNCHANGED outputs
    BY <1>4 DEF TimedStep, SetTime, TimingStart, RegisterHandler, Schedule, ScheduleRefused, Due,
                Purge, TimerCancels, EndsOpen
  <2>2. SettlesOne
    <3>1. CASE UNCHANGED future
      BY <3>1 DEF SettlesOne, IsDone
    <3>2. CASE Schedule
      BY <1>0, <3>2 DEF Schedule, SettlesOne, IsDone, Outcome, TypeOK, ExecutorTypeOK
    <3>3. ASSUME NEW t \in Task, Purge(t) \/ TimerCancels(t) PROVE SettlesOne
      BY <1>0, <3>3, OneSettles DEF Purge, TimerCancels
    <3>4. ASSUME NEW w \in Worker, EndsOpen(w) PROVE SettlesOne
      <4>1. worker[w].task \in Task
        BY <1>0, <3>4, EndsOpenHolds
      <4>2. \/ UNCHANGED future
            \/ /\ future[worker[w].task] = "new"
               /\ future' = [future EXCEPT ![worker[w].task] = "cancelled"]
        BY <3>4 DEF EndsOpen
      <4>3. CASE UNCHANGED future
        BY <4>3 DEF SettlesOne, IsDone
      <4>4. CASE /\ future[worker[w].task] = "new"
                 /\ future' = [future EXCEPT ![worker[w].task] = "cancelled"]
        BY <1>0, <4>1, <4>4, OneSettles
      <4> QED
        BY <4>2, <4>3, <4>4
    <3> QED
      BY <1>4, <3>1, <3>2, <3>3, <3>4
      DEF TimedStep, SetTime, TimingStart, AddAfterExecuteConsumer, RegisterHandler, ScheduleRefused, Due
  <2> QED
    BY <1>0, <1>4, <2>1, <2>2, SettlingStep
<1>5. \/ UNCHANGED timerTold
      \/ \E t \in Task : TimerHandles(t) \/ TimerConsumes(t)
  BY DEF TimingNext, TimedCallerStep, TimerStep, TimedWorkerStep, SetTime, TimingStart, RegisterHandler,
         Schedule, ScheduleRefused, ArmTimer, PublishTimed, TimedShutdown, Due, Purge, StopTimer,
         TimerChecks, TimerCancels, TimedTerminated, allVars
<1> QED
  BY <1>1, <1>2, <1>3, <1>4, <1>5, TimingSteps

\* The timing builder implements TaskOutcome: neither a timeout nor a shutdown takes
\* an outcome back, and consumers, loggers and the timers' own are told only
\* outcomes that tasks really settled on.
THEOREM TimedRefinement == TimingSpec => TimedOutcomesAreSettled
<1>1. TimingInit => TimedOutcome!Init
  BY DEF TimingInit, Init, ExecutorInit, TimedOutcome!Init, SettledOutcome, TimedTold, Told, IsDone, Outcome
<1>2. TimingIInv /\ TimerInv /\ [TimingNext]_allVars => [TimedOutcome!Next]_TimedOutcome!vars
  BY TimedOutcomeStep
<1> QED
  BY <1>1, <1>2, TimedAnswers, TimerInvariance, PTL
  DEF TimingSpec, TimedOutcomesAreSettled, TimedOutcome!Spec
===============================================================================
