------------------- MODULE AbstractThreadBuilderAnswerProofs -------------------
(***************************************************************************)
(* Whoever is to be told how a task ended is told, for any number of       *)
(* starts, workers and configurations: a worker that leaves its task       *)
(* unanswered is still on the way to that task's handler, or dies and is   *)
(* reported.                                                               *)
(*                                                                         *)
(* The lemmas about the workers' steps assume nothing of the caller but    *)
(* what Base and FactoryKept say, so that they serve the builders that     *)
(* extend this one too.                                                    *)
(***************************************************************************)
EXTENDS AbstractThreadBuilderProofs

-------------------------------------------------------------------------------
(* The answer to a task. *)

\* A setter call after the first start shows in reconfigs.
SetterShows == reconfigs' = 0 => reconfigs = 0 /\ builder' = builder

\* An answer is not taken back, and an open outcome needs none.
LEMMA AnsweredKept ==
  ASSUME Monotone, SetterShows, NEW t \in Task, Answered(t),
         future'[t] = future[t] \/ future'[t] \notin {"ok", "failed"}
  PROVE  Answered(t)'
<1>1. ToldBy(t) \subseteq ToldBy(t)'
  BY DEF Monotone, ToldBy
<1>2. \A d \in delivered : d \in delivered'
  BY DEF Monotone
<1>3. CASE future'[t] \notin {"ok", "failed"}
  BY <1>3 DEF Answered
<1>4. CASE future'[t] = future[t]
  <2>1. future'[t] = "failed" => ToldBy(t)' # {}
    BY <1>1, <1>4 DEF Answered
  <2>2. future'[t] = "failed" /\ builder'.uncaughtExceptionConsumer /\ reconfigs' = 0 =>
          \E r \in ToldBy(t)' : r.to = "consumer"
    BY <1>1, <1>4 DEF Answered, SetterShows
  <2>3. /\ future'[t] = "ok"
        /\ builder'.executionType = "CALLABLE" /\ builder'.threadResultConsumer /\ reconfigs' = 0
        => (\E d \in delivered' : d.by = t /\ d.about = t) \/ ToldBy(t)' # {}
    BY <1>1, <1>2, <1>4 DEF Answered, SetterShows
  <2> HIDE DEF ToldBy
  <2> QED
    BY <2>1, <2>2, <2>3 DEF Answered
<1> QED
  BY <1>3, <1>4

\* A worker that does not move is still on its way.
LEMMA WillAnswerKept ==
  ASSUME Monotone, NEW w \in Worker, NEW t \in Task, worker'[w] = worker[w], WillAnswer(w, t)
  PROVE  WillAnswer(w, t)'
<1>1. CASE \E i \in DOMAIN consumers : consumers[i] = Handler(t) /\ worker[w].pos <= i
  <2>1. \E i \in DOMAIN consumers' : consumers'[i] = Handler(t) /\ worker'[w].pos <= i
    BY <1>1 DEF Monotone
  <2> QED
    BY <2>1 DEF WillAnswer, InPass, Handler
<1>2. CASE ~ \E i \in DOMAIN consumers : consumers[i] = Handler(t) /\ worker[w].pos <= i
  BY <1>2 DEF WillAnswer, InPass
<1> QED
  BY <1>1, <1>2

\* What a worker's step does for the task it holds, and to the outcomes.
KeepsPromise(w) ==
  /\ \A v \in Worker \ {w} : worker'[v] = worker[v]
  /\ \A t \in Task :
       Holds(w, t) /\ WillAnswer(w, t) => Answered(t)' \/ (Holds(w, t)' /\ WillAnswer(w, t)')
  /\ \A t \in Task :
       \/ future'[t] = future[t]
       \/ future'[t] \notin {"ok", "failed"}
       \/ Holds(w, t)' /\ WillAnswer(w, t)'

\* If it does that, answers keep coming.
LEMMA PromiseKept ==
  ASSUME Monotone, SetterShows, AnswersComing, NEW w \in Worker, KeepsPromise(w)
  PROVE  AnswersComing'
<1> SUFFICES ASSUME NEW t \in Task
             PROVE  Answered(t)' \/ \E v \in Worker : Holds(v, t)' /\ WillAnswer(v, t)'
  BY DEF AnswersComing
<1>1. CASE Answered(t)
  BY <1>1, AnsweredKept DEF KeepsPromise
<1>2. ASSUME NEW v \in Worker, Holds(v, t), WillAnswer(v, t)
      PROVE  Answered(t)' \/ \E u \in Worker : Holds(u, t)' /\ WillAnswer(u, t)'
  <2>1. CASE v = w
    BY <1>2, <2>1 DEF KeepsPromise
  <2>2. CASE v # w
    <3>1. worker'[v] = worker[v]
      BY <2>2 DEF KeepsPromise
    <3> QED
      BY <1>2, <3>1, WillAnswerKept DEF Holds
  <2> QED
    BY <2>1, <2>2
<1> QED
  BY <1>1, <1>2 DEF AnswersComing

\* A step of somebody else who lets no task end keeps them coming as well.
LEMMA NobodyMoves ==
  ASSUME Monotone, SetterShows, AnswersComing, UNCHANGED worker,
         \A t \in Task : future'[t] = future[t] \/ future'[t] \notin {"ok", "failed"}
  PROVE  AnswersComing'
<1> SUFFICES ASSUME NEW t \in Task
             PROVE  Answered(t)' \/ \E v \in Worker : Holds(v, t)' /\ WillAnswer(v, t)'
  BY DEF AnswersComing
<1>1. CASE Answered(t)
  BY <1>1, AnsweredKept
<1>2. ASSUME NEW v \in Worker, Holds(v, t), WillAnswer(v, t)
      PROVE  \E u \in Worker : Holds(u, t)' /\ WillAnswer(u, t)'
  BY <1>2, WillAnswerKept DEF Holds
<1> QED
  BY <1>1, <1>2 DEF AnswersComing

\* The handler of a submitted task is in the list.
LEMMA HandlerPlace ==
  ASSUME Base, NEW t \in Task, future[t] # "none"
  PROVE  \E i \in DOMAIN consumers : consumers[i] = Handler(t) /\ i \in Nat /\ 1 <= i
<1>1. consumers \in Seq(Consumer)
  BY DEF Base, TypeOK
<1>2. PICK i \in DOMAIN consumers : consumers[i] = Handler(t)
  BY DEF Base, TasksRegistered
<1> QED
  BY <1>1, <1>2

\* A worker in its loop gives up its task only at the end of a list it has been through.
LEMMA LoopPromise ==
  ASSUME Base, NEW w \in Worker, LoopStep(w)
  PROVE  KeepsPromise(w)
<1>0. /\ TypeOK /\ WorkersHold
      /\ \A v \in Worker \ {w} : worker'[v] = worker[v]
  BY LoopHolds DEF Base
<1> USE <1>0 DEF TypeOK, ExecutorTypeOK
<1>1. ASSUME \A t \in Task : ~ (Holds(w, t) /\ WillAnswer(w, t)),
             \A t \in Task : future'[t] = future[t] \/ future'[t] \notin {"ok", "failed"}
      PROVE  KeepsPromise(w)
  BY <1>1 DEF KeepsPromise
<1>2. ASSUME UNCHANGED <<future, consumers>>, worker'[w].task = worker[w].task,
             \A t \in Task : Holds(w, t) /\ WillAnswer(w, t) => WillAnswer(w, t)'
      PROVE  KeepsPromise(w)
  BY <1>2 DEF KeepsPromise, Holds
<1>3. CASE Take(w) \/ StartBody(w)
  <2>1. worker[w].pc \in {"idle", "taken"} /\ UNCHANGED future
    BY <1>3 DEF Take, StartBody
  <2> QED
    BY <1>1, <2>1 DEF WillAnswer, InPass
<1>4. CASE SkipBody(w)
  <2>1. worker[w].pc = "taken"
    BY <1>4 DEF SkipBody
  <2>2. \A t \in Task : future'[t] = future[t] \/ future'[t] \notin {"ok", "failed"}
    BY <1>4 DEF SkipBody
  <2> QED
    BY <1>1, <2>1, <2>2 DEF WillAnswer, InPass
<1>5. ASSUME NEW o \in {"ok", "failed"}, EndBody(w, o) PROVE KeepsPromise(w)
  <2>1. worker'[w].pc = "ended" /\ worker'[w].task = worker[w].task
    BY <1>5 DEF EndBody
  <2>2. \A t \in Task : t # worker[w].task => future'[t] = future[t]
    BY <1>5 DEF EndBody
  <2> QED
    BY <1>0, <2>1, <2>2 DEF KeepsPromise, Holds, WillAnswer
<1>6. CASE BeginAfterExecute(w)
  <2>1. /\ UNCHANGED <<future, consumers>>
        /\ worker'[w].task = worker[w].task
        /\ worker'[w].pc = "iterating" /\ worker'[w].pos = 1
        /\ worker[w].pc = "ended"
    BY <1>6 DEF BeginAfterExecute, StartPass
  <2>2. ASSUME NEW t \in Task, Holds(w, t) PROVE WillAnswer(w, t)'
    <3>1. future[t] # "none"
      BY <2>1, <2>2 DEF Holds, WorkersHold
    <3>2. \E i \in DOMAIN consumers' : consumers'[i] = Handler(t) /\ worker'[w].pos <= i
      BY <2>1, <3>1, HandlerPlace
    <3> QED
      BY <2>1, <3>2 DEF WillAnswer, InPass, Handler
  <2> QED
    BY <1>2, <2>1, <2>2
<1>7. CASE Comodified(w)
  <2>1. UNCHANGED <<future, consumers>> /\ worker' = Escaped(w)
    BY <1>7 DEF Comodified
  <2>2. worker'[w].task = worker[w].task /\ \A t \in Task : WillAnswer(w, t)'
    BY <2>1, AfterCallback DEF WillAnswer, InPass
  <2> QED
    BY <1>2, <2>1, <2>2
<1>8. CASE EndAfterExecute(w)
  <2>1. UNCHANGED <<future, consumers>>
    BY <1>8 DEF EndAfterExecute
  <2>2. CASE worker[w].thrown
    <3>1. worker'[w].pc = "dying" /\ worker'[w].task = worker[w].task
      BY <1>8, <2>2 DEF EndAfterExecute
    <3> QED
      BY <1>2, <2>1, <3>1 DEF WillAnswer
  <2>3. CASE ~ worker[w].thrown
    <3>1. ~ \E i \in DOMAIN consumers : worker[w].pos <= i
      BY <1>8 DEF EndAfterExecute
    <3>2. worker[w].pc = "iterating"
      BY <1>8 DEF EndAfterExecute
    <3> QED
      BY <1>1, <2>1, <2>3, <3>1, <3>2 DEF WillAnswer
  <2> QED
    BY <2>2, <2>3
<1> QED
  BY <1>3, <1>4, <1>5, <1>6, <1>7, <1>8 DEF LoopStep, WorkerLoop

\* What a handler that returns has done for the task of the worker's own pass.
AnswersOwn(w) ==
  worker' = Returned(w) /\ ~ worker[w].thrown =>
    \A t \in Task : Holds(w, t) /\ Called(w) = Handler(t) => Answered(t)'

\* A report of the handler of the worker's own task, not a cancelled one.
LEMMA ReportAnswers ==
  ASSUME NEW w \in Worker, NEW k \in Task, NEW what \in {"failed", "null", "callback"},
         worker[w].task = k, Report(w, k, what), UNCHANGED callerVars
  PROVE  Answered(k)'
<1> DEFINE r == [by |-> worker[w].task, about |-> k, what |-> what, to |-> ReportedTo(what)]
<1>1. r \in reports' /\ r.by = k /\ r.about = k /\ r.to = ReportedTo(what)
  BY DEF Report
<1>2. r \in ToldBy(k)'
  BY <1>1 DEF ToldBy
<1>3. builder.uncaughtExceptionConsumer => ReportedTo(what) = "consumer"
  BY DEF ReportedTo
<1>4. builder' = builder
  BY DEF callerVars
<1> HIDE DEF r
<1>5. ToldBy(k)' # {} /\ (builder'.uncaughtExceptionConsumer => \E q \in ToldBy(k)' : q.to = "consumer")
  BY <1>1, <1>2, <1>3, <1>4
<1> QED
  BY <1>5 DEF Answered

\* The handler of the worker's own task answers for it, whichever path it takes.
LEMMA HandlerAnswers ==
  ASSUME Base, NEW w \in Worker, NEW k \in Task, HandleCall(w, k)
  PROVE  AnswersOwn(w)
<1>0. Called(w) = Handler(k)
  BY DEF HandleCall, HandlePending, HandleEmptyHolder, HandleException,
         HandleRunnable, HandleNoExecutorResult, SetThreadResult, ConsumeThreadResult,
         HandleCompletion, HandlerRuns
<1> SUFFICES ASSUME worker' = Returned(w), ~ worker[w].thrown, worker[w].task = k
             PROVE  Answered(k)'
  <2>1. \A t \in Task : Called(w) = Handler(t) => t = k
    BY <1>0 DEF Handler
  <2> QED
    BY <2>1 DEF AnswersOwn, Holds
<1>1. UNCHANGED <<future, callerVars>>
  BY HandleCallEffect DEF CallbackEffect, CallbackFrame
<1>2. UNCHANGED builder
  BY <1>1 DEF callerVars
<1>3. CASE HandlePending(w, k)
  <2>1. future'[k] \notin {"ok", "failed"}
    BY <1>1, <1>3 DEF HandlePending, IsDone, Outcome
  <2> QED
    BY <2>1 DEF Answered
<1>4. CASE HandleEmptyHolder(w, k)
  BY <1>1, <1>4, ReportAnswers DEF HandleEmptyHolder
<1>5. CASE HandleException(w, k)
  <2>1. CASE future[k] = "failed"
    BY <1>1, <1>5, <2>1, ReportAnswers DEF HandleException
  <2>2. CASE future[k] = "cancelled"
    BY <1>1, <2>2 DEF Answered
  <2> QED
    BY <1>5, <2>1, <2>2 DEF HandleException
<1>6. CASE HandleRunnable(w, k)
  BY <1>1, <1>2, <1>6 DEF HandleRunnable, HandleCompletion, Answered
<1>7. CASE HandleNoExecutorResult(w, k)
  BY <1>1, <1>7, ReportAnswers DEF HandleNoExecutorResult
<1>8. CASE SetThreadResult(w, k)
  <2>1. worker'[w].pc = "iterating"
    BY AfterCallback DEF Base
  <2>2. worker'[w].pc = "inConsumer"
    BY <1>8 DEF SetThreadResult, Base, TypeOK, ExecutorTypeOK
  <2> QED
    BY <2>1, <2>2
<1>9. CASE ConsumeThreadResult(w, k)
  <2>1. future'[k] = "ok"
    BY <1>1, <1>9 DEF ConsumeThreadResult, Base, WorkersHold, Handler
  <2>2. CASE builder.threadResultConsumer
    <3> DEFINE d == [by |-> worker[w].task, about |-> k, value |-> threadResult]
    <3>1. d \in delivered' /\ d.by = k /\ d.about = k
      BY <1>9, <2>2 DEF ConsumeThreadResult
    <3> HIDE DEF d
    <3> QED
      BY <2>1, <3>1 DEF Answered
  <2>3. CASE ~ builder.threadResultConsumer
    BY <1>2, <2>1, <2>3 DEF Answered
  <2> QED
    BY <2>2, <2>3
<1> QED
  BY <1>3, <1>4, <1>5, <1>6, <1>7, <1>8, <1>9 DEF HandleCall

\* A consumer that is called takes its worker past a handler only with an answer.
LEMMA CallbackPromise ==
  ASSUME Base, NEW w \in Worker, CallbackEffect(w), AnswersOwn(w)
  PROVE  KeepsPromise(w)
<1>1. /\ \A v \in Worker \ {w} : worker'[v] = worker[v]
      /\ worker'[w].task = worker[w].task
  BY CallbackHolds
<1>2. CallbackFrame(w) /\ UNCHANGED <<consumers, future>>
  BY DEF CallbackEffect, CallbackFrame
<1>3. ASSUME NEW t \in Task, Holds(w, t), WillAnswer(w, t)
      PROVE  Answered(t)' \/ WillAnswer(w, t)'
  <2>1. CASE worker' = Escaped(w)
    BY <2>1, AfterCallback DEF Base, WillAnswer, InPass
  <2>2. CASE worker' = Returned(w)
    <3>1. /\ worker'[w].pc = "iterating"
          /\ worker'[w].pos = worker[w].pos + 1
          /\ worker'[w].thrown = worker[w].thrown
      BY <2>2, AfterCallback DEF Base
    <3>2. CASE worker[w].thrown
      BY <3>1, <3>2 DEF WillAnswer, InPass
    <3>3. CASE ~ worker[w].thrown
      <4>1. PICK i \in DOMAIN consumers : consumers[i] = Handler(t) /\ worker[w].pos <= i
        BY <1>2, <1>3, <3>3 DEF WillAnswer, CallbackFrame, InPass
      <4>2. i \in Nat /\ worker[w].pos \in Nat
        BY <4>1 DEF Base, TypeOK, ExecutorTypeOK
      <4>3. CASE worker[w].pos = i
        BY <1>3, <2>2, <3>3, <4>1, <4>3 DEF AnswersOwn, Called, Holds
      <4>4. CASE worker[w].pos # i
        <5>1. worker'[w].pos <= i
          BY <3>1, <4>1, <4>2, <4>4
        <5>2. \E j \in DOMAIN consumers' : consumers'[j] = Handler(t) /\ worker'[w].pos <= j
          BY <1>2, <4>1, <5>1
        <5> QED
          BY <3>1, <5>2 DEF WillAnswer, InPass, Handler
      <4> QED
        BY <4>3, <4>4
    <3> QED
      BY <3>2, <3>3
  <2>3. CASE worker' = [worker EXCEPT ![w].pc = "inConsumer"]
    <3>1. /\ worker'[w].pc = "inConsumer"
          /\ worker'[w].pos = worker[w].pos
          /\ worker'[w].thrown = worker[w].thrown
      BY <2>3 DEF Base, TypeOK, ExecutorTypeOK
    <3> QED
      BY <1>2, <1>3, <3>1 DEF WillAnswer, InPass, CallbackFrame, Handler
  <2> QED
    BY <1>2, <2>1, <2>2, <2>3 DEF CallbackFrame
<1> QED
  BY <1>1, <1>2, <1>3 DEF KeepsPromise, Holds

\* The death of a worker is an answer, and goes where the configuration has it.
LEMMA DiePromise ==
  ASSUME Base, FactoryKept, NEW w \in Worker, Die(w)
  PROVE  KeepsPromise(w)
<1>1. /\ \A v \in Worker \ {w} : worker'[v] = worker[v]
      /\ UNCHANGED <<future, builder, reconfigs>>
  BY DieHolds DEF Die, ReplaceWorker, callerVars
<1>2. ASSUME NEW t \in Task, Holds(w, t) PROVE Answered(t)'
  <2>1. started \in Nat /\ started > 0
    <3>1. worker[w].pc # "idle"
      BY DEF Die, ReplaceWorker
    <3>2. future[t] # "none"
      BY <1>2, <3>1 DEF Holds, Base, WorkersHold
    <3> QED
      BY <3>2 DEF Base, TypeOK, TasksRegistered, Task
  <2>2. reconfigs = 0 /\ builder.uncaughtExceptionConsumer => factory = "consumer"
    BY <2>1 DEF FactoryKept, ThreadFactory
  <2> DEFINE to == IF factory = "consumer" THEN "consumer" ELSE "logger"
             r == [by |-> worker[w].task, about |-> worker[w].task, what |-> "death", to |-> to]
  <2>3. r \in reports' /\ r.by = t /\ r.about = t /\ r.to = to
    BY <1>2, Zenon DEF Die, Holds
  <2>4. r \in ToldBy(t)'
    BY <2>3 DEF ToldBy
  <2> HIDE DEF r
  <2>5. /\ ToldBy(t)' # {}
        /\ reconfigs = 0 /\ builder.uncaughtExceptionConsumer => \E q \in ToldBy(t)' : q.to = "consumer"
    BY <2>2, <2>3, <2>4
  <2> QED
    BY <1>1, <2>5 DEF Answered
<1> QED
  BY <1>1, <1>2 DEF KeepsPromise

\* So whatever a thread of the pool does, it answers for its task or goes on.
LEMMA WorkerPromise ==
  ASSUME Base, FactoryKept, NEW w \in Worker,
         \/ LoopStep(w)
         \/ \E k \in Task : HandleCall(w, k)
         \/ CallUserConsumer(w)
         \/ Die(w)
  PROVE  KeepsPromise(w)
<1>1. ASSUME NEW k \in Task, HandleCall(w, k) PROVE KeepsPromise(w)
  BY <1>1, HandleCallEffect, HandlerAnswers, CallbackPromise
<1>2. CASE CallUserConsumer(w)
  <2>1. AnswersOwn(w)
    BY <1>2 DEF CallUserConsumer, AnswersOwn, Handler
  <2> QED
    BY <1>2, <2>1, CallUserConsumerEffect, CallbackPromise
<1> QED
  BY <1>1, <1>2, LoopPromise, DiePromise

-------------------------------------------------------------------------------
(* The steps that the builders which extend this one have in common with it, *)
(* action by action.                                                         *)

CommonStep ==
  \/ UNCHANGED vars
  \/ \E field \in Setter, value \in BOOLEAN : Set(field, value)
  \/ SetHolder
  \/ Publish
  \/ \E t \in Task : Cancel(t)
  \/ Shutdown
  \/ \E w \in Worker : \/ LoopStep(w)
                       \/ \E k \in Task : HandleCall(w, k)
                       \/ CallUserConsumer(w)
                       \/ Die(w)

\* They are the shared steps of AbstractThreadBuilderProofs.
LEMMA CommonIsShared ==
  ASSUME Base, CommonStep
  PROVE  SharedStep
BY HandleCallEffect, CallUserConsumerEffect DEF CommonStep, SharedStep

\* Nobody but the setters touches the configuration, and they never the execution type.
LEMMA CommonConfiguration ==
  ASSUME Base, CommonStep
  PROVE  /\ SetterShows
         /\ builder'.executionType = builder.executionType
         /\ UNCHANGED <<started, factory>>
         /\ callerPc' = callerPc \/ callerPc' \in {"idle", "holderSet"}
<1> USE DEF callerVars, SetterShows
<1>1. ASSUME NEW field \in Setter, NEW value \in BOOLEAN, Set(field, value)
      PROVE  /\ reconfigs' # 0
             /\ builder'.executionType = builder.executionType
             /\ UNCHANGED <<started, factory, callerPc>>
  BY <1>1, BuilderAssumption DEF Set, Setter, Base, TypeOK, Builder
<1>2. ASSUME NEW w \in Worker,
             LoopStep(w) \/ CallbackEffect(w) \/ Die(w)
      PROVE  UNCHANGED callerVars
  BY <1>2 DEF LoopStep, CallbackEffect, CallbackFrame, Die
<1>3. CASE UNCHANGED callerVars
  BY <1>3
<1>4. CASE UNCHANGED vars \/ (\E t \in Task : Cancel(t)) \/ Shutdown
  BY <1>3, <1>4 DEF vars, Cancel, Shutdown
<1>5. CASE SetHolder \/ Publish
  BY <1>5 DEF SetHolder, Publish
<1> QED
  BY <1>1, <1>2, <1>3, <1>4, <1>5, CommonIsShared DEF SharedStep

\* The factory stays that of the configuration.
LEMMA FactoryStays ==
  ASSUME FactoryKept, SetterShows, reconfigs \in Nat, UNCHANGED <<started, factory>>
  PROVE  FactoryKept'
BY DEF FactoryKept, SetterShows, ThreadFactory

\* The first start makes it that, and the later ones leave it.
LEMMA FactoryStarts ==
  ASSUME FactoryKept, started \in Nat, started' = started + 1, UNCHANGED <<builder, reconfigs>>,
         factory' = IF factory = "none" THEN ThreadFactory ELSE factory
  PROVE  FactoryKept'
BY DEF FactoryKept, ThreadFactory

\* Answers keep coming in every common step.
LEMMA CommonAnswersComing ==
  ASSUME Base, FactoryKept, AnswersComing, CommonStep
  PROVE  AnswersComing'
<1>0. Monotone /\ SetterShows
  BY CommonIsShared, SharedMonotone, CommonConfiguration
<1>1. CASE \/ UNCHANGED vars
           \/ \E field \in Setter, value \in BOOLEAN : Set(field, value)
           \/ SetHolder \/ Publish \/ Shutdown
  <2>1. UNCHANGED <<worker, future>>
    BY <1>1 DEF vars, Set, SetHolder, Publish, Shutdown, ShutdownPool, ShutdownPoolNow, executorVars
  <2> QED
    BY <1>0, <2>1, NobodyMoves
<1>2. ASSUME NEW t \in Task, Cancel(t) PROVE AnswersComing'
  <2>1. /\ UNCHANGED worker
        /\ \A u \in Task : future'[u] = future[u] \/ future'[u] \notin {"ok", "failed"}
    BY <1>2 DEF Cancel, CancelFuture, Base, TypeOK, ExecutorTypeOK
  <2> QED
    BY <1>0, <2>1, NobodyMoves
<1> QED
  BY <1>0, <1>1, <1>2, WorkerPromise, PromiseKept DEF CommonStep

-------------------------------------------------------------------------------
(* The order of the consumers. *)

\* Nothing is added while the caller is not in runThread's registrations.
LEMMA OrderStays ==
  ASSUME ConsumersInOrder, UNCHANGED <<consumers, started>>,
         callerPc' = "firstAdded" => callerPc = "firstAdded"
  PROVE  ConsumersInOrder'
BY DEF ConsumersInOrder, UserConsumer

\* One more consumer that follows all others.
LEMMA OrderAppends ==
  ASSUME ConsumersInOrder, consumers \in Seq(Consumer), NEW c \in Consumer,
         consumers' = Append(consumers, c), started \in Nat, started' \in Nat, started' >= started,
         c.start <= started', callerPc' = "firstAdded" => c # UserConsumer(started') /\ started < started',
         \A i \in DOMAIN consumers :
           \/ consumers[i].start < c.start
           \/ consumers[i].start = c.start /\ consumers[i].kind = "handler" /\ c.kind = "user"
  PROVE  ConsumersInOrder'
<1>1. /\ \A i \in DOMAIN consumers' :
           \/ i \in DOMAIN consumers /\ consumers'[i] = consumers[i] /\ i < Len(consumers) + 1
           \/ i = Len(consumers) + 1 /\ consumers'[i] = c
  OBVIOUS
<1>2. ASSUME NEW i \in DOMAIN consumers'
      PROVE  /\ consumers'[i].start <= started'
             /\ callerPc' = "firstAdded" => consumers'[i] # UserConsumer(started')
  <2>1. CASE consumers'[i] = c
    BY <2>1
  <2>2. CASE i \in DOMAIN consumers /\ consumers'[i] = consumers[i]
    <3>0. consumers[i] \in Consumer
      BY <2>2
    <3>1. consumers[i].start <= started /\ consumers[i].start \in Int
      BY <2>2, <3>0 DEF ConsumersInOrder, Consumer, Task
    <3> QED
      BY <2>2, <3>1 DEF UserConsumer
  <2> QED
    BY <1>1, <2>1, <2>2
<1>3. ASSUME NEW i \in DOMAIN consumers', NEW j \in DOMAIN consumers', i < j
      PROVE  \/ consumers'[i].start < consumers'[j].start
             \/ /\ consumers'[i].start = consumers'[j].start
                /\ consumers'[i].kind = "handler"
                /\ consumers'[j].kind = "user"
  <2>1. i \in DOMAIN consumers /\ consumers'[i] = consumers[i]
    BY <1>1, <1>3
  <2>2. CASE j \in DOMAIN consumers /\ consumers'[j] = consumers[j]
    BY <1>3, <2>1, <2>2 DEF ConsumersInOrder
  <2>3. CASE consumers'[j] = c
    BY <2>1, <2>3
  <2> QED
    BY <1>1, <2>2, <2>3
<1> QED
  BY <1>2, <1>3 DEF ConsumersInOrder, UserConsumer

\* Every action keeps the order.
LEMMA ConsumersInOrderStep ==
  ASSUME Base, ConsumersInOrder, [Next]_vars
  PROVE  ConsumersInOrder'
<1>0. consumers \in Seq(Consumer) /\ started \in Nat
  BY DEF Base, TypeOK
<1>1. \A i \in DOMAIN consumers : consumers[i] \in Consumer /\ consumers[i].start <= started
  BY <1>0 DEF ConsumersInOrder
<1>2. CASE Start
  <2>1. \A i \in DOMAIN consumers : consumers[i].start < started + 1
    BY <1>0, <1>1 DEF Consumer, Task
  <2> QED
    BY <1>0, <1>2, <2>1, StartAppends, OrderAppends DEF Handler, UserConsumer
<1>3. CASE RegisterAfterExecute
  <2>1. UNCHANGED started /\ callerPc = "firstAdded" /\ callerPc' = "registered"
    BY <1>3, RegisterAppends
  <2>2. CASE consumers' = Append(consumers, UserConsumer(started))
    <3>1. ASSUME NEW i \in DOMAIN consumers
          PROVE  \/ consumers[i].start < started
                 \/ consumers[i].start = started /\ consumers[i].kind = "handler"
      <4>1. consumers[i] # UserConsumer(started)
        BY <2>1 DEF ConsumersInOrder
      <4>2. consumers[i] \in Consumer /\ consumers[i].start <= started
        BY <1>1
      <4>3. consumers[i] = [kind |-> consumers[i].kind, start |-> consumers[i].start]
        BY <4>2 DEF Consumer
      <4> QED
        BY <1>0, <4>1, <4>2, <4>3 DEF UserConsumer, Consumer, Task
    <3> QED
      BY <1>0, <1>3, <2>1, <2>2, <3>1, RegisterAppends, OrderAppends DEF UserConsumer
  <2>3. CASE UNCHANGED consumers
    BY <2>1, <2>3, OrderStays
  <2> QED
    BY <1>3, <2>2, <2>3, RegisterAppends
<1>4. CASE Submit \/ SubmitRejected
  <2>1. UNCHANGED <<consumers, started>> /\ callerPc' # "firstAdded"
    BY <1>4 DEF Submit, SubmitTask, SubmitRejected, executorVars
  <2> QED
    BY <2>1, OrderStays
<1>5. CASE SharedStep
  <2>1. UNCHANGED <<consumers, started>> /\ (callerPc' = callerPc \/ callerPc' # "firstAdded")
    BY <1>5 DEF SharedStep, Set, SetHolder, Publish, Cancel, CancelFuture, Shutdown, ShutdownPool,
                ShutdownPoolNow, LoopStep, WorkerLoop, Take, StartBody, SkipBody, EndBody,
                BeginAfterExecute, Comodified, EndAfterExecute, CallbackEffect, CallbackFrame, Die,
                ReplaceWorker, callerVars, executorVars, vars
  <2> QED
    BY <2>1, OrderStays
<1> QED
  BY <1>2, <1>3, <1>4, <1>5, OwnSteps

\* The death of a worker is reported as its own, and nothing else as a death.
LEMMA DeathsOwnedStep ==
  ASSUME Base, DeathsOwned, [Next]_vars
  PROVE  DeathsOwned'
<1>1. CASE Start \/ RegisterAfterExecute \/ Submit \/ SubmitRejected
  <2>1. UNCHANGED reports
    BY <1>1, StartAppends, RegisterAppends DEF Submit, SubmitRejected, outputs
  <2> QED
    BY <2>1 DEF DeathsOwned
<1>2. CASE SharedStep
  <2>1. ASSUME NEW w \in Worker, CallbackEffect(w) PROVE DeathsOwned'
    BY <2>1 DEF CallbackEffect, CallbackOutputs, DeathsOwned
  <2>2. ASSUME NEW w \in Worker, Die(w) PROVE DeathsOwned'
    BY <2>2 DEF Die, DeathsOwned
  <2>3. CASE UNCHANGED reports
    BY <2>3 DEF DeathsOwned
  <2> QED
    BY <1>2, <2>1, <2>2, <2>3
    DEF SharedStep, Set, SetHolder, Publish, Cancel, Shutdown, LoopStep, outputs, vars
<1> QED
  BY <1>1, <1>2, OwnSteps

-------------------------------------------------------------------------------
(* The result in the executor result. *)

\* A worker that does not move still comes to t's handler.
LEMMA WillStoreKept ==
  ASSUME Monotone, NEW w \in Worker, NEW t \in Task, worker'[w] = worker[w], WillStore(w, t)
  PROVE  WillStore(w, t)'
<1> DEFINE Ahead(i) == worker[w].pos < i \/ (worker[w].pos = i /\ worker[w].pc = "iterating")
<1>1. CASE \E i \in DOMAIN consumers : consumers[i] = Handler(t) /\ Ahead(i)
  <2>1. \E i \in DOMAIN consumers' :
          /\ consumers'[i] = Handler(t)
          /\ worker'[w].pos < i \/ (worker'[w].pos = i /\ worker'[w].pc = "iterating")
    BY <1>1 DEF Monotone
  <2> QED
    BY <2>1 DEF WillStore, InPass, Handler
<1>2. CASE ~ \E i \in DOMAIN consumers : consumers[i] = Handler(t) /\ Ahead(i)
  BY <1>2 DEF WillStore, InPass
<1> QED
  BY <1>1, <1>2

\* While every handler goes through, the handler of a callable that returned
\* does not return before it has stored the result.
Undisturbed ==
  /\ builder.executionType = "CALLABLE"
  /\ \A r \in reports' : r.what \notin {"null", "death"}

StoresOwn(w) ==
  Undisturbed /\ worker' = Returned(w) /\ ~ worker[w].thrown /\ worker[w].pc = "iterating" =>
    \A t \in Task : Called(w) = Handler(t) => future[t] # "ok"

\* The handlers do so.
LEMMA HandlerStores ==
  ASSUME Base, NEW w \in Worker, NEW k \in Task, HandleCall(w, k)
  PROVE  StoresOwn(w)
<1>0. Called(w) = Handler(k)
  BY DEF HandleCall, HandlePending, HandleEmptyHolder, HandleException,
         HandleRunnable, HandleNoExecutorResult, SetThreadResult, ConsumeThreadResult,
         HandleCompletion, HandlerRuns
<1> SUFFICES ASSUME Undisturbed, worker' = Returned(w), ~ worker[w].thrown,
                    worker[w].pc = "iterating", future[k] = "ok"
             PROVE  FALSE
  <2>1. \A t \in Task : Called(w) = Handler(t) => t = k
    BY <1>0 DEF Handler
  <2> QED
    BY <2>1 DEF StoresOwn
<1>1. ~ Report(w, k, "null")
  <2> DEFINE r == [by |-> worker[w].task, about |-> k, what |-> "null", to |-> ReportedTo("null")]
  <2>1. Report(w, k, "null") => r \in reports' /\ r.what = "null"
    BY DEF Report
  <2> HIDE DEF r
  <2> QED
    BY <2>1 DEF Undisturbed
<1>2. worker'[w].pc = "iterating"
  BY AfterCallback DEF Base
<1>3. ~ SetThreadResult(w, k)
  BY <1>2 DEF SetThreadResult, Base, TypeOK, ExecutorTypeOK
<1> QED
  BY <1>1, <1>3 DEF HandleCall, HandlePending, IsDone, Outcome, HandleEmptyHolder, HandleException,
     HandleRunnable, HandleNoExecutorResult, ConsumeThreadResult, Undisturbed

\* What a worker's step does to the field and for the tasks it comes to.
KeepsResult(w) ==
  /\ \A v \in Worker \ {w} : worker'[v] = worker[v]
  /\ Undisturbed => \A t \in Task : future[t] = "ok" /\ WillStore(w, t) =>
                      threadResult' >= t \/ WillStore(w, t)'
  /\ Undisturbed => \A t \in Task : future[t] = "ok" /\ threadResult >= t =>
                      threadResult' >= t \/ WillStore(w, t)'
  /\ \A t \in Task : future'[t] = "ok" => future[t] = "ok" \/ WillStore(w, t)'

\* If it does that, the field will be set.
LEMMA ResultKept ==
  ASSUME Monotone, ResultsComing, builder'.executionType = builder.executionType,
         NEW w \in Worker, KeepsResult(w)
  PROVE  ResultsComing'
<1> SUFFICES ASSUME Undisturbed, NEW t \in Task, future'[t] = "ok"
             PROVE  threadResult' >= t \/ \E v \in Worker : WillStore(v, t)'
  BY DEF ResultsComing, Undisturbed
<1>1. \A r \in reports : r.what \notin {"null", "death"}
  BY DEF Undisturbed, Monotone
<1>2. CASE future[t] = "ok" /\ threadResult >= t
  BY <1>2 DEF KeepsResult
<1>3. ASSUME future[t] = "ok", NEW v \in Worker, WillStore(v, t)
      PROVE  threadResult' >= t \/ \E u \in Worker : WillStore(u, t)'
  <2>1. CASE v = w
    BY <1>3, <2>1 DEF KeepsResult
  <2>2. CASE v # w
    <3>1. worker'[v] = worker[v]
      BY <2>2 DEF KeepsResult
    <3> QED
      BY <1>3, <3>1, WillStoreKept
  <2> QED
    BY <2>1, <2>2
<1>4. CASE future[t] # "ok"
  BY <1>4 DEF KeepsResult
<1> QED
  BY <1>1, <1>2, <1>3, <1>4 DEF ResultsComing, Undisturbed

\* A step of somebody else who lets no callable return keeps it coming as well.
LEMMA ResultUntouched ==
  ASSUME Monotone, ResultsComing, builder'.executionType = builder.executionType,
         UNCHANGED <<worker, threadResult>>,
         \A t \in Task : future'[t] = "ok" => future[t] = "ok"
  PROVE  ResultsComing'
<1> SUFFICES ASSUME Undisturbed, NEW t \in Task, future'[t] = "ok"
             PROVE  threadResult' >= t \/ \E v \in Worker : WillStore(v, t)'
  BY DEF ResultsComing, Undisturbed
<1>1. \A r \in reports : r.what \notin {"null", "death"}
  BY DEF Undisturbed, Monotone
<1>2. threadResult >= t \/ \E v \in Worker : WillStore(v, t)
  BY <1>1 DEF ResultsComing, Undisturbed
<1> QED
  BY <1>2, WillStoreKept

\* The worker loop leads every worker to its task's handler.
LEMMA LoopResult ==
  ASSUME Base, NEW w \in Worker, LoopStep(w)
  PROVE  KeepsResult(w)
<1>0. /\ TypeOK /\ WorkersHold
      /\ \A v \in Worker \ {w} : worker'[v] = worker[v]
      /\ threadResult' = threadResult
  BY LoopHolds DEF Base, LoopStep
<1> USE <1>0 DEF TypeOK, ExecutorTypeOK
<1>1. ASSUME \A t \in Task : future[t] = "ok" => ~ WillStore(w, t) \/ WillStore(w, t)',
             \A t \in Task : future'[t] = "ok" => future[t] = "ok" \/ WillStore(w, t)'
      PROVE  KeepsResult(w)
  BY <1>1 DEF KeepsResult
<1>2. CASE Take(w) \/ StartBody(w)
  <2>1. worker[w].pc \in {"idle", "taken"} /\ UNCHANGED future
    BY <1>2 DEF Take, StartBody
  <2> QED
    BY <1>1, <2>1 DEF WillStore, InPass
<1>3. CASE SkipBody(w)
  <2>1. worker[w].pc = "taken"
    BY <1>3 DEF SkipBody
  <2>2. \A t \in Task : future'[t] = "ok" => future[t] = "ok"
    BY <1>3 DEF SkipBody
  <2> QED
    BY <1>1, <2>1, <2>2 DEF WillStore, InPass
<1>4. ASSUME NEW o \in {"ok", "failed"}, EndBody(w, o) PROVE KeepsResult(w)
  <2>1. worker'[w].pc = "ended"
    BY <1>4 DEF EndBody
  <2> QED
    BY <1>1, <2>1 DEF WillStore
<1>5. CASE BeginAfterExecute(w)
  <2>1. /\ UNCHANGED <<future, consumers>>
        /\ worker'[w].pc = "iterating" /\ worker'[w].pos = 1
    BY <1>5 DEF BeginAfterExecute, StartPass
  <2>2. ASSUME NEW t \in Task, future[t] = "ok" PROVE WillStore(w, t)'
    <3>1. PICK i \in DOMAIN consumers : consumers[i] = Handler(t) /\ i \in Nat /\ 1 <= i
      BY <2>2, HandlerPlace
    <3>2. /\ i \in DOMAIN consumers' /\ consumers'[i] = Handler(t)
          /\ worker'[w].pos < i \/ (worker'[w].pos = i /\ worker'[w].pc = "iterating")
      BY <2>1, <3>1
    <3> QED
      BY <2>1, <3>2 DEF WillStore, InPass, Handler
  <2> QED
    BY <1>1, <2>1, <2>2
<1>6. CASE Comodified(w)
  <2>1. UNCHANGED future /\ worker' = Escaped(w)
    BY <1>6 DEF Comodified
  <2>2. \A t \in Task : WillStore(w, t)'
    BY <2>1, AfterCallback DEF WillStore, InPass
  <2> QED
    BY <1>1, <2>1, <2>2
<1>7. CASE EndAfterExecute(w)
  <2>1. UNCHANGED future
    BY <1>7 DEF EndAfterExecute
  <2>2. CASE worker[w].thrown
    <3>1. worker'[w].pc = "dying"
      BY <1>7, <2>2 DEF EndAfterExecute
    <3> QED
      BY <1>1, <2>1, <3>1 DEF WillStore
  <2>3. CASE ~ worker[w].thrown
    <3>1. ~ \E i \in DOMAIN consumers : worker[w].pos <= i
      BY <1>7 DEF EndAfterExecute
    <3>2. worker[w].pc = "iterating" /\ \A i \in DOMAIN consumers : i \in Nat
      BY <1>7 DEF EndAfterExecute
    <3>3. \A t \in Task : ~ WillStore(w, t)
      BY <2>3, <3>1, <3>2 DEF WillStore
    <3> QED
      BY <1>1, <2>1, <3>3
  <2> QED
    BY <2>2, <2>3
<1> QED
  BY <1>2, <1>3, <1>4, <1>5, <1>6, <1>7 DEF LoopStep, WorkerLoop

\* A handler takes the field back to an earlier start's result only when the
\* later start's handler is still to come.
LEMMA CallbackResult ==
  ASSUME Base, ConsumersInOrder, NEW w \in Worker, CallbackEffect(w), StoresOwn(w)
  PROVE  KeepsResult(w)
<1>0. /\ CallbackFrame(w) /\ UNCHANGED <<consumers, future>>
      /\ worker[w].pos \in DOMAIN consumers /\ worker[w].pos \in Nat
      /\ \A v \in Worker \ {w} : worker'[v] = worker[v]
      /\ consumers \in Seq(Consumer)
  BY CallbackHolds, CallbackPosition DEF CallbackEffect, CallbackFrame, Base, TypeOK, ExecutorTypeOK
<1>1. Called(w).start \in Task
  BY <1>0, CalledType DEF Base
<1>2. CASE worker' = Escaped(w)
  <2>1. \A t \in Task : WillStore(w, t)'
    BY <1>2, AfterCallback DEF Base, WillStore, InPass
  <2> QED
    BY <1>0, <2>1 DEF KeepsResult
<1>3. CASE worker' = Returned(w) /\ threadResult' = threadResult
  <2>1. /\ worker'[w].pc = "iterating"
        /\ worker'[w].pos = worker[w].pos + 1
        /\ worker'[w].thrown = worker[w].thrown
    BY <1>3, AfterCallback DEF Base
  <2>2. ASSUME Undisturbed, NEW t \in Task, future[t] = "ok", WillStore(w, t)
        PROVE  WillStore(w, t)'
    <3>1. CASE worker[w].thrown
      BY <2>1, <3>1 DEF WillStore, InPass
    <3>2. CASE ~ worker[w].thrown
      <4>1. PICK i \in DOMAIN consumers :
              /\ consumers[i] = Handler(t)
              /\ worker[w].pos < i \/ (worker[w].pos = i /\ worker[w].pc = "iterating")
        BY <1>0, <2>2, <3>2 DEF WillStore, InPass, CallbackFrame
      <4>2. i \in Nat /\ worker[w].pos # i
        BY <1>0, <1>3, <2>2, <3>2, <4>1 DEF StoresOwn, Called
      <4>3. worker'[w].pos < i \/ (worker'[w].pos = i /\ worker'[w].pc = "iterating")
        BY <1>0, <2>1, <4>1, <4>2
      <4>4. i \in DOMAIN consumers' /\ consumers'[i] = Handler(t)
        BY <1>0, <4>1
      <4> QED
        BY <2>1, <4>3, <4>4 DEF WillStore, InPass, Handler
    <3> QED
      BY <3>1, <3>2
  <2> QED
    BY <1>0, <1>3, <2>2 DEF KeepsResult
<1>4. CASE /\ worker' = [worker EXCEPT ![w].pc = "inConsumer"]
           /\ ~ worker[w].thrown
           /\ threadResult' = Called(w).start
  <2>1. /\ worker'[w].pc = "inConsumer"
        /\ worker'[w].pos = worker[w].pos
    BY <1>4 DEF Base, TypeOK, ExecutorTypeOK
  <2>2. ASSUME NEW t \in Task, future[t] = "ok", ~ (Called(w).start >= t)
        PROVE  WillStore(w, t)'
    <3>1. PICK i \in DOMAIN consumers : consumers[i] = Handler(t) /\ i \in Nat
      BY <2>2, HandlerPlace
    <3>2. Called(w).start < t /\ consumers[i].start = t
      BY <1>1, <2>2, <3>1 DEF Handler, Task
    <3>3. ~ (i < worker[w].pos)
      BY <1>0, <1>1, <3>2 DEF ConsumersInOrder, Called, Task
    <3>4. i # worker[w].pos
      BY <1>1, <3>2 DEF Called, Task
    <3>5. /\ i \in DOMAIN consumers' /\ consumers'[i] = Handler(t)
          /\ worker'[w].pos < i
      BY <1>0, <2>1, <3>1, <3>3, <3>4
    <3> QED
      BY <2>1, <3>5 DEF WillStore, InPass, Handler
  <2> QED
    BY <1>0, <1>4, <2>2 DEF KeepsResult
<1> QED
  BY <1>0, <1>2, <1>3, <1>4 DEF CallbackFrame

\* Every action keeps the result coming.
LEMMA ResultsComingStep ==
  ASSUME Base, ConsumersInOrder, ResultsComing, [Next]_vars
  PROVE  ResultsComing'
<1>0. Monotone
  BY MonotoneStep
<1>1. CASE Start \/ RegisterAfterExecute \/ Submit \/ SubmitRejected
  <2>1. /\ UNCHANGED <<builder, worker, threadResult>>
        /\ \A t \in Task : future'[t] = "ok" => future[t] = "ok"
    BY <1>1, StartAppends, RegisterAppends
    DEF Submit, SubmitTask, SubmitRejected, executorVars, Base, TypeOK, ExecutorTypeOK
  <2> QED
    BY <1>0, <2>1, ResultUntouched
<1>2. CASE CommonStep
  <2>0. builder'.executionType = builder.executionType
    BY <1>2, CommonConfiguration
  <2>1. CASE \/ UNCHANGED vars
             \/ \E field \in Setter, value \in BOOLEAN : Set(field, value)
             \/ SetHolder \/ Publish \/ Shutdown
    <3>1. UNCHANGED <<worker, threadResult, future>>
      BY <2>1 DEF vars, Set, SetHolder, Publish, Shutdown, ShutdownPool, ShutdownPoolNow, executorVars
    <3> QED
      BY <1>0, <2>0, <3>1, ResultUntouched
  <2>2. ASSUME NEW t \in Task, Cancel(t) PROVE ResultsComing'
    <3>1. /\ UNCHANGED <<worker, threadResult>>
          /\ \A u \in Task : future'[u] = "ok" => future[u] = "ok"
      BY <2>2 DEF Cancel, CancelFuture, Base, TypeOK, ExecutorTypeOK
    <3> QED
      BY <1>0, <2>0, <3>1, ResultUntouched
  <2>3. ASSUME NEW w \in Worker, LoopStep(w) PROVE ResultsComing'
    BY <1>0, <2>0, <2>3, LoopResult, ResultKept
  <2>4. ASSUME NEW w \in Worker, NEW k \in Task, HandleCall(w, k) PROVE ResultsComing'
    BY <1>0, <2>0, <2>4, HandleCallEffect, HandlerStores, CallbackResult, ResultKept
  <2>5. ASSUME NEW w \in Worker, CallUserConsumer(w) PROVE ResultsComing'
    <3>1. StoresOwn(w)
      BY <2>5 DEF CallUserConsumer, StoresOwn, Handler
    <3> QED
      BY <1>0, <2>0, <2>5, <3>1, CallUserConsumerEffect, CallbackResult, ResultKept
  <2>6. ASSUME NEW w \in Worker, Die(w) PROVE ResultsComing'
    <3>1. ~ Undisturbed
      <4> DEFINE r == [by |-> worker[w].task, about |-> worker[w].task, what |-> "death",
                       to |-> IF factory = "consumer" THEN "consumer" ELSE "logger"]
      <4>1. r \in reports' /\ r.what = "death"
        BY <2>6 DEF Die
      <4> HIDE DEF r
      <4> QED
        BY <4>1 DEF Undisturbed
    <3> QED
      BY <2>0, <3>1 DEF ResultsComing, Undisturbed
  <2> QED
    BY <1>2, <2>1, <2>2, <2>3, <2>4, <2>5, <2>6 DEF CommonStep
<1> QED
  BY <1>1, <1>2 DEF Next, CallerStep, WorkerStep, Terminated, CommonStep, LoopStep

-------------------------------------------------------------------------------
(* The theorems. *)

\* The builder before its first start owes nobody an answer.
LEMMA InitAnswers == Init => AnswerIInv
<1> SUFFICES ASSUME Init PROVE AnswerIInv
  OBVIOUS
<1> USE DEF Init, ExecutorInit
<1>1. FactoryKept /\ ConsumersInOrder /\ DeathsOwned
  BY DEF FactoryKept, ConsumersInOrder, DeathsOwned
<1>2. AnswersComing /\ ResultsComing
  BY DEF AnswersComing, Answered, ResultsComing
<1> QED
  BY <1>1, <1>2 DEF AnswerIInv

\* The actions that this builder does not share, or those it does.
LEMMA OwnOrCommon ==
  ASSUME [Next]_vars
  PROVE  CommonStep \/ Start \/ RegisterAfterExecute \/ Submit \/ SubmitRejected
BY DEF Next, CallerStep, WorkerStep, Terminated, CommonStep, LoopStep

\* Every action keeps the answers coming, and the factory as it was chosen.
LEMMA AnswersComingStep ==
  ASSUME Base, FactoryKept, AnswersComing, [Next]_vars
  PROVE  FactoryKept' /\ AnswersComing'
<1>0. Monotone /\ started \in Nat /\ reconfigs \in Nat
  BY MonotoneStep, BuilderAssumption DEF Base, TypeOK
<1>1. CASE Start \/ RegisterAfterExecute \/ Submit \/ SubmitRejected
  <2>1. /\ UNCHANGED <<builder, reconfigs, worker>>
        /\ \A t \in Task : future'[t] = future[t] \/ future'[t] \notin {"ok", "failed"}
    BY <1>1, StartAppends, RegisterAppends
    DEF Submit, SubmitTask, SubmitRejected, executorVars, Base, TypeOK, ExecutorTypeOK
  <2>2. AnswersComing'
    BY <1>0, <2>1, NobodyMoves DEF SetterShows
  <2>3. CASE Start
    BY <1>0, <2>2, <2>3, FactoryStarts DEF Start
  <2>4. CASE UNCHANGED <<started, factory>>
    BY <1>0, <2>1, <2>2, <2>4, FactoryStays DEF SetterShows
  <2> QED
    BY <1>1, <2>3, <2>4 DEF RegisterAfterExecute, Submit, SubmitRejected
<1>2. CASE CommonStep
  BY <1>0, <1>2, CommonConfiguration, CommonAnswersComing, FactoryStays
<1> QED
  BY <1>1, <1>2, OwnOrCommon

\* In every reachable state the answers and the results that are missing are coming.
THEOREM Answers == Spec => []AnswerIInv
<1>1. Init => AnswerIInv
  BY InitAnswers
<1>2. IInv /\ AnswerIInv /\ [Next]_vars => AnswerIInv'
  BY IInvBase, AnswersComingStep, ConsumersInOrderStep, DeathsOwnedStep, ResultsComingStep
  DEF AnswerIInv
<1> QED
  BY <1>1, <1>2, Invariance, PTL DEF Spec

\* A task whose worker let go of it is answered for.
LEMMA ReleasedAnswered ==
  ASSUME AnswersComing, NEW t \in Task, Released(t)
  PROVE  Answered(t)
BY DEF AnswersComing, Released

\* No failure is lost: when the worker of a failed task is through with it, its
\* pass has reported an exception for it, or its own death.
THEOREM FailuresAreReported == Spec => []NoSilentFailure
<1>1. AnswerIInv => NoSilentFailure
  BY ReleasedAnswered DEF AnswerIInv, NoSilentFailure, Answered
<1> QED
  BY <1>1, Answers, PTL

\* And to the consumer of uncaught exceptions, when there was one all along: the
\* worker's death goes there too, by the factory of the first start.
THEOREM FailuresReachConsumer == Spec => []FailureReachesConsumer
<1>1. AnswerIInv => FailureReachesConsumer
  BY ReleasedAnswered DEF AnswerIInv, FailureReachesConsumer, Answered
<1> QED
  BY <1>1, Answers, PTL

\* No result is lost silently: the result consumer is called for a callable that
\* returned, or an exception says why it was not.
THEOREM ResultsAreToldOrMissed == Spec => []NoSilentResult
<1>1. AnswerIInv => NoSilentResult
  BY ReleasedAnswered DEF AnswerIInv, NoSilentResult, Answered
<1> QED
  BY <1>1, Answers, PTL

\* At rest the executor result holds that of the latest callable that returned,
\* or a report says that a handler was cut short.
THEOREM LatestResultStays == Spec => []LatestResult
<1>1. AnswerIInv => LatestResult
  <2> SUFFICES ASSUME ResultsComing, Quiescent,
                      builder.executionType = "CALLABLE",
                      \A r \in reports : r.what \notin {"null", "death"},
                      NEW t \in Task, future[t] = "ok"
               PROVE  threadResult >= t
    BY DEF AnswerIInv, LatestResult
  <2>1. \A w \in Worker : ~ WillStore(w, t)
    BY DEF Quiescent, WillStore, InPass
  <2> QED
    BY <2>1 DEF ResultsComing
<1> QED
  BY <1>1, Answers, PTL

\* The user's consumer that a start registered is called for the failed task of that
\* start after its handler has reported the failure, whatever was registered in between.
THEOREM ReportsComeFirst == Spec => []ReportBeforeUserConsumer
<1>1. IInv /\ AnswerIInv => ReportBeforeUserConsumer
  <2> SUFFICES ASSUME IInv, AnswerIInv, NEW w \in Worker, NEW t, t = worker[w].task,
                      Calling(w), ~ worker[w].thrown, Called(w) = UserConsumer(t), future[t] = "failed"
               PROVE  \E r \in reports : r.by = t /\ r.about = t
    BY DEF ReportBeforeUserConsumer
  <2>1. /\ consumers \in Seq(Consumer) /\ worker[w].pos \in DOMAIN consumers
        /\ worker[w].pos \in Nat /\ InPass(w)
    BY DEF IInv, TypeOK, ExecutorTypeOK, WorkersHoldSettled, WorkersHold, InPass, Calling, HasNext
  <2>2. PICK i \in DOMAIN consumers :
          /\ consumers[i] = Handler(t)
          /\ worker[w].pos > i => ToldBy(t) # {}
    BY <2>1 DEF IInv, PassReports
  <2>3. worker[w].pos # i
    BY <2>2 DEF Called, Handler, UserConsumer
  <2>4. t \in Int
    BY <2>1 DEF IInv, TypeOK, ExecutorTypeOK, Task
  <2>5. ~ (worker[w].pos < i)
    BY <2>1, <2>2, <2>4 DEF AnswerIInv, ConsumersInOrder, Called, Handler, UserConsumer
  <2>6. ToldBy(t) # {}
    BY <2>1, <2>2, <2>3, <2>5
  <2> QED
    BY <2>6 DEF ToldBy, AnswerIInv, DeathsOwned
<1> QED
  BY <1>1, Invariance, Answers, PTL
===============================================================================
