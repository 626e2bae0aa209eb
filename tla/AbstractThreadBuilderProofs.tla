---------------------- MODULE AbstractThreadBuilderProofs ----------------------
(***************************************************************************)
(* Theorems about AbstractThreadBuilder, for any number of starts, workers *)
(* and configurations.                                                     *)
(***************************************************************************)
EXTENDS AbstractThreadBuilder, TLAPS

\* The worker's record, as TypeOK has it.
WorkerState == [pc : {"idle", "taken", "running", "ended", "iterating", "inConsumer", "dying"},
                task : Task \cup {0}, pos : Nat, seen : Nat, thrown : BOOLEAN]

\* TypeOK in these words.
LEMMA WorkersTyped ==
  ASSUME TypeOK
  PROVE  worker \in [Worker -> WorkerState] /\ Len(consumers) \in Nat
BY DEF TypeOK, ExecutorTypeOK, WorkerState

\* A worker that goes on to another position of its loop stays typed.
LEMMA PcChange ==
  ASSUME TypeOK, NEW w \in Worker,
         NEW pc \in {"taken", "running", "ended", "iterating", "inConsumer", "dying"}
  PROVE  [worker EXCEPT ![w].pc = pc] \in [Worker -> WorkerState]
BY WorkersTyped DEF WorkerState

-------------------------------------------------------------------------------
(* What the steps of a pass over the consumers do. *)

\* Where a worker can be after a callback returned or threw.
LEMMA AfterCallback ==
  ASSUME TypeOK, NEW w \in Worker
  PROVE  /\ Returned(w) \in [Worker -> WorkerState]
         /\ Escaped(w) \in [Worker -> WorkerState]
         /\ \A v \in Worker \ {w} : Returned(w)[v] = worker[v] /\ Escaped(w)[v] = worker[v]
         /\ Returned(w)[w].task = worker[w].task
         /\ Escaped(w)[w].task = worker[w].task
         /\ Returned(w)[w].pc = "iterating"
         /\ Returned(w)[w].pos = worker[w].pos + 1
         /\ Returned(w)[w].thrown = worker[w].thrown
         /\ \/ Escaped(w)[w].pc = "dying"
            \/ /\ Escaped(w)[w].pc = "iterating"
               /\ Escaped(w)[w].pos = 1
               /\ Escaped(w)[w].thrown
<1>1. worker \in [Worker -> WorkerState] /\ Len(consumers) \in Nat
  BY DEF TypeOK, ExecutorTypeOK, WorkerState
<1>2. Returned(w) \in [Worker -> WorkerState]
  BY <1>1 DEF Returned, WorkerState
<1>3. Escaped(w) \in [Worker -> WorkerState]
  BY <1>1 DEF Escaped, StartPass, WorkerState
<1>4. /\ \A v \in Worker \ {w} : Returned(w)[v] = worker[v]
      /\ Returned(w)[w].task = worker[w].task
      /\ Returned(w)[w].pc = "iterating"
      /\ Returned(w)[w].pos = worker[w].pos + 1
      /\ Returned(w)[w].thrown = worker[w].thrown
  BY <1>1 DEF Returned, WorkerState
<1>5. /\ \A v \in Worker \ {w} : Escaped(w)[v] = worker[v]
      /\ Escaped(w)[w].task = worker[w].task
      /\ \/ Escaped(w)[w].pc = "dying"
         \/ /\ Escaped(w)[w].pc = "iterating"
            /\ Escaped(w)[w].pos = 1
            /\ Escaped(w)[w].thrown
  BY <1>1 DEF Escaped, StartPass, WorkerState
<1> QED
  BY <1>2, <1>3, <1>4, <1>5

\* The consumer a worker is about to call (or is in) is one that runThread registered.
LEMMA CalledType ==
  ASSUME TypeOK, NEW w \in Worker, worker[w].pos \in DOMAIN consumers
  PROVE  Called(w) \in Consumer /\ Called(w).start \in Task /\ Called(w).start # 0
<1>1. consumers \in Seq(Consumer)
  BY DEF TypeOK
<1>2. Called(w) \in Consumer
  BY <1>1 DEF Called
<1> QED
  BY <1>2 DEF Consumer, Task

ReportSet == [by : Task, about : Task, what : Cause, to : {"consumer", "logger"}]

\* What a call of a consumer leaves alone, and where it can lead the worker.
CallbackFrame(w) ==
  /\ UNCHANGED <<consumers, queue, pool, future, callerVars>>
  /\ InPass(w)
  /\ worker[w].pos <= Len(consumers)
  /\ threadResult' \in Task \cup {0}
  /\ \/ /\ worker' \in {Returned(w), Escaped(w)}
        /\ threadResult' = threadResult
     \/ /\ worker' = [worker EXCEPT ![w].pc = "inConsumer"]
        /\ ~ worker[w].thrown
        /\ future[Called(w).start] = "ok"
        /\ threadResult' = Called(w).start

\* What it adds to the outputs.
CallbackOutputs(w) ==
  /\ \/ delivered' = delivered
     \/ /\ worker[w].pc = "inConsumer"
        /\ threadResult # 0
        /\ delivered' = delivered \cup
             {[by |-> worker[w].task, about |-> Called(w).start, value |-> threadResult]}
  /\ \/ reports' = reports
     \/ \E r \in ReportSet :
          /\ reports' = reports \cup {r}
          /\ r.what # "death"
          /\ r.what \in {"failed", "cancelled"} => future[r.about] = r.what /\ UNCHANGED delivered

\* The handler of the task the worker ran reports its failure.
CallbackReportsOwn(w) ==
  /\ worker' = Returned(w)
  /\ ~ worker[w].thrown
  /\ Called(w) = Handler(worker[w].task)
  /\ future[worker[w].task] = "failed"
  => \E r \in reports' : r.by = worker[w].task /\ r.about = worker[w].task

\* What the steps of the pool rely on: in any builder that extends this one.
Base == TypeOK /\ WorkersHold /\ TasksRegistered

\* A callback is made at a position of the list of consumers.
LEMMA CallbackPosition ==
  ASSUME Base, NEW w \in Worker, CallbackFrame(w)
  PROVE  worker[w].pos \in DOMAIN consumers
<1>1. worker[w].pos \in Nat /\ worker[w].pos > 0 /\ consumers \in Seq(Consumer)
  BY DEF Base, TypeOK, ExecutorTypeOK, WorkersHold, CallbackFrame
<1> QED
  BY <1>1 DEF CallbackFrame

CallbackEffect(w) == CallbackFrame(w) /\ CallbackOutputs(w) /\ CallbackReportsOwn(w)

\* What Report adds: one exception about the start the handler belongs to.
LEMMA CallbackReports ==
  ASSUME Base, NEW w \in Worker, NEW k \in Task, NEW what \in Cause \ {"death"},
         HandlerRuns(w, k), ~ worker[w].thrown, Report(w, k, what),
         UNCHANGED <<threadResult, delivered>>,
         what \in {"failed", "cancelled"} => future[k] = what
  PROVE  CallbackEffect(w)
<1>1. worker[w].task \in Task
  BY DEF Base, TypeOK, ExecutorTypeOK, WorkersHold, HandlerRuns, Calling, HasNext
<1>2. PICK to \in {"consumer", "logger"} :
        reports' = reports \cup {[by |-> worker[w].task, about |-> k, what |-> what, to |-> to]}
  BY Zenon DEF Report, ReportedTo
<1>3. worker' \in {Returned(w), Escaped(w)}
  BY DEF Report
<1> DEFINE r == [by |-> worker[w].task, about |-> k, what |-> what, to |-> to]
<1>4. r \in ReportSet /\ reports' = reports \cup {r} /\ r \in reports'
  BY <1>1, <1>2 DEF ReportSet
<1>5. CallbackOutputs(w)
  BY <1>4 DEF CallbackOutputs
<1>6. threadResult \in Task \cup {0}
  BY DEF Base, TypeOK
<1>7. CallbackFrame(w)
  BY <1>3, <1>6 DEF CallbackFrame, HandlerRuns, Calling, HasNext, InPass
<1>8. CallbackReportsOwn(w)
  BY <1>1, <1>4 DEF CallbackReportsOwn, HandlerRuns, Handler
<1> QED
  BY <1>5, <1>7, <1>8 DEF CallbackEffect

\* A call that tells nobody anything and is not in the position to.
LEMMA CallbackSilent ==
  ASSUME Base, NEW w \in Worker, Calling(w),
         UNCHANGED <<consumers, queue, pool, future, callerVars, threadResult, outputs>>,
         worker' \in {Returned(w), Escaped(w)},
         \/ worker[w].thrown
         \/ Called(w).kind = "user"
         \/ future[Called(w).start] # "failed"
  PROVE  CallbackEffect(w)
<1>1. threadResult \in Task \cup {0}
  BY DEF Base, TypeOK
<1>2. CallbackFrame(w)
  BY <1>1 DEF CallbackFrame, Calling, HasNext, InPass
<1>3. CallbackOutputs(w)
  BY DEF CallbackOutputs, outputs
<1>4. CallbackReportsOwn(w)
  BY DEF CallbackReportsOwn, Handler
<1> QED
  BY <1>2, <1>3, <1>4 DEF CallbackEffect

\* The result consumer is told the field's value, or the handler reports its exception.
LEMMA ConsumeThreadResultEffect ==
  ASSUME Base, NEW w \in Worker, NEW k \in Task, ConsumeThreadResult(w, k)
  PROVE  CallbackEffect(w)
<1>1. /\ worker[w].pc = "inConsumer"
      /\ worker[w].task \in Task
      /\ worker[w].pos <= Len(consumers)
      /\ future[Called(w).start] = "ok"
      /\ threadResult \in Task
  BY DEF ConsumeThreadResult, Base, TypeOK, ExecutorTypeOK, WorkersHold
<1>2. UNCHANGED <<consumers, queue, pool, future, callerVars, threadResult>>
  BY DEF ConsumeThreadResult
<1>3. worker' \in {Returned(w), Escaped(w)}
  BY DEF ConsumeThreadResult, Report
<1>4. CallbackFrame(w)
  BY <1>1, <1>2, <1>3 DEF CallbackFrame, InPass
<1>5. CallbackOutputs(w)
  <2>1. \/ delivered' = delivered
        \/ delivered' = delivered \cup
             {[by |-> worker[w].task, about |-> Called(w).start, value |-> threadResult]}
    BY DEF ConsumeThreadResult, outputs, Handler
  <2>2. \/ reports' = reports
        \/ \E r \in ReportSet : reports' = reports \cup {r} /\ r.what = "callback"
    <3>1. CASE Report(w, k, "callback")
      <4>1. PICK to \in {"consumer", "logger"} : reports' = reports \cup
              {[by |-> worker[w].task, about |-> k, what |-> "callback", to |-> to]}
        BY <3>1, Zenon DEF Report, ReportedTo
      <4> QED
        BY <1>1, <4>1 DEF ReportSet, Cause
    <3>2. CASE ~ Report(w, k, "callback")
      BY <3>2 DEF ConsumeThreadResult, outputs
    <3> QED
      BY <3>1, <3>2
  <2> QED
    BY <1>1, <2>1, <2>2 DEF CallbackOutputs, Task
<1>6. CallbackReportsOwn(w)
  BY <1>1 DEF CallbackReportsOwn, Handler
<1> QED
  BY <1>4, <1>5, <1>6 DEF CallbackEffect

\* What a call of a handler may change, whichever path it takes.
LEMMA HandleCallEffect ==
  ASSUME Base, NEW w \in Worker, NEW k \in Task, HandleCall(w, k)
  PROVE  CallbackEffect(w)
<1>1. CASE HandlePending(w, k)
  <2>1. worker[w].thrown \/ future[Called(w).start] # "failed"
    BY <1>1 DEF HandlePending, HandlerRuns, Handler, IsDone, Outcome
  <2> QED
    BY <1>1, <2>1, CallbackSilent DEF HandlePending, HandlerRuns
<1>2. CASE HandleEmptyHolder(w, k)
  BY <1>2, CallbackReports DEF HandleEmptyHolder, Cause
<1>3. CASE HandleException(w, k)
  BY <1>3, CallbackReports DEF HandleException, Cause
<1>4. CASE HandleRunnable(w, k)
  <2>1. future[Called(w).start] # "failed"
    BY <1>4 DEF HandleRunnable, HandleCompletion, HandlerRuns, Handler
  <2> QED
    BY <1>4, <2>1, CallbackSilent DEF HandleRunnable, HandleCompletion, HandlerRuns
<1>5. CASE HandleNoExecutorResult(w, k)
  BY <1>5, CallbackReports DEF HandleNoExecutorResult, HandleCompletion, Cause
<1>6. CASE SetThreadResult(w, k)
  <2>1. Called(w).start = k /\ future[k] = "ok"
    BY <1>6 DEF SetThreadResult, HandleCompletion, HandlerRuns, Handler
  <2>2. CallbackFrame(w)
    BY <1>6, <2>1 DEF SetThreadResult, HandleCompletion, HandlerRuns, CallbackFrame,
                      Calling, HasNext, InPass
  <2>3. CallbackOutputs(w)
    BY <1>6 DEF SetThreadResult, CallbackOutputs, outputs
  <2>4. CallbackReportsOwn(w)
    BY <2>1 DEF CallbackReportsOwn, Handler
  <2> QED
    BY <2>2, <2>3, <2>4 DEF CallbackEffect
<1>7. CASE ConsumeThreadResult(w, k)
  BY <1>7, ConsumeThreadResultEffect
<1> QED
  BY <1>1, <1>2, <1>3, <1>4, <1>5, <1>6, <1>7 DEF HandleCall

\* A user's consumer changes nothing but the worker's position.
LEMMA CallUserConsumerEffect ==
  ASSUME Base, NEW w \in Worker, CallUserConsumer(w)
  PROVE  CallbackEffect(w)
BY CallbackSilent DEF CallUserConsumer

-------------------------------------------------------------------------------
(* The steps that the builders which extend this one have in common with it. *)

LoopStep(w) == WorkerLoop(w) /\ UNCHANGED <<callerVars, threadResult, outputs>>

SharedStep ==
  \/ UNCHANGED vars
  \/ \E field \in Setter, value \in BOOLEAN : Set(field, value)
  \/ SetHolder
  \/ Publish
  \/ \E t \in Task : Cancel(t)
  \/ Shutdown
  \/ \E w \in Worker : LoopStep(w) \/ CallbackEffect(w) \/ Die(w)

\* While the caller is inside a start that start is a task.
LEMMA StartedIsTask ==
  ASSUME Base, callerPc # "idle"
  PROVE  started \in Task
BY ExecutorAssumption DEF Base, TypeOK, TasksRegistered, Task

\* One more consumer keeps the list a list of consumers, and moves none of them.
LEMMA AppendKeeps ==
  ASSUME NEW c \in Consumer, consumers \in Seq(Consumer), consumers' = Append(consumers, c)
  PROVE  /\ consumers' \in Seq(Consumer)
         /\ \A i \in DOMAIN consumers : i \in DOMAIN consumers' /\ consumers'[i] = consumers[i]
         /\ Len(consumers') = Len(consumers) + 1
         /\ Len(consumers) + 1 \in DOMAIN consumers'
         /\ consumers'[Len(consumers) + 1] = c
OBVIOUS

\* The worker loop keeps the types.
LEMMA LoopTyped ==
  ASSUME Base, NEW w \in Worker, LoopStep(w)
  PROVE  TypeOK'
<1> USE DEF Base, TypeOK, ExecutorTypeOK, callerVars, outputs, LoopStep
<1> DEFINE Typed == /\ worker' \in [Worker -> WorkerState]
                    /\ queue' \in Seq(Task)
                    /\ future' \in [Task -> {"none", "new"} \cup Outcome]
<1>0. ASSUME Typed, UNCHANGED <<consumers, pool>> PROVE TypeOK'
  BY <1>0 DEF WorkerState
<1>1. CASE Take(w)
  <2>1. [pc |-> "taken", task |-> Head(queue), pos |-> 0, seen |-> 0, thrown |-> FALSE] \in WorkerState
    BY <1>1 DEF Take, WorkerState
  <2>2. worker' \in [Worker -> WorkerState]
    BY <1>1, <2>1, WorkersTyped DEF Take
  <2>3. queue' \in Seq(Task)
    BY <1>1 DEF Take
  <2>4. UNCHANGED <<consumers, pool, future>>
    BY <1>1 DEF Take
  <2> QED
    BY <1>0, <2>2, <2>3, <2>4
<1>2. CASE StartBody(w)
  BY <1>0, <1>2, PcChange DEF StartBody
<1>3. CASE SkipBody(w)
  <2>1. worker' \in [Worker -> WorkerState]
    BY <1>3, PcChange DEF SkipBody
  <2>2. future' \in [Task -> {"none", "new"} \cup Outcome]
    BY <1>3 DEF SkipBody, Outcome
  <2> QED
    BY <1>0, <1>3, <2>1, <2>2 DEF SkipBody
<1>4. ASSUME NEW o \in {"ok", "failed"}, EndBody(w, o) PROVE TypeOK'
  <2>1. worker' \in [Worker -> WorkerState]
    BY <1>4, PcChange DEF EndBody
  <2>2. future' \in [Task -> {"none", "new"} \cup Outcome]
    BY <1>4 DEF EndBody, Outcome
  <2> QED
    BY <1>0, <1>4, <2>1, <2>2 DEF EndBody
<1>5. CASE BeginAfterExecute(w)
  BY <1>0, <1>5, WorkersTyped DEF BeginAfterExecute, StartPass, WorkerState
<1>6. CASE Comodified(w)
  BY <1>0, <1>6, AfterCallback DEF Comodified
<1>7. CASE EndAfterExecute(w)
  <2>1. Idle \in WorkerState
    BY DEF Idle, WorkerState
  <2>2. worker' \in [Worker -> WorkerState]
    BY <1>7, <2>1, PcChange, WorkersTyped DEF EndAfterExecute
  <2> QED
    BY <1>0, <1>7, <2>2 DEF EndAfterExecute
<1> QED
  BY <1>1, <1>2, <1>3, <1>4, <1>5, <1>6, <1>7 DEF WorkerLoop

\* A call of a consumer keeps the types.
LEMMA CallbackTyped ==
  ASSUME Base, NEW w \in Worker, CallbackEffect(w)
  PROVE  TypeOK'
<1> USE DEF Base, TypeOK, ExecutorTypeOK, callerVars
<1>1. CallbackFrame(w) /\ CallbackOutputs(w)
  BY DEF CallbackEffect
<1>2. worker' \in [Worker -> WorkerState]
  <2>1. CASE worker' \in {Returned(w), Escaped(w)}
    BY <2>1, AfterCallback
  <2>2. CASE worker' = [worker EXCEPT ![w].pc = "inConsumer"]
    BY <2>2, PcChange
  <2> QED
    BY <1>1, <2>1, <2>2 DEF CallbackFrame
<1>3. worker[w].task \in Task
  BY <1>1 DEF CallbackFrame, InPass, WorkersHold
<1>4. delivered' \subseteq [by : Task, about : Task, value : Task \cup {0}]
  <2>1. Called(w).start \in Task
    BY <1>1, CallbackPosition, CalledType
  <2> QED
    BY <1>1, <1>3, <2>1 DEF CallbackOutputs
<1>5. reports' \subseteq ReportSet
  BY <1>1 DEF CallbackOutputs, ReportSet
<1>6. UNCHANGED <<consumers, queue, pool, future, callerVars>> /\ threadResult' \in Task \cup {0}
  BY <1>1 DEF CallbackFrame
<1> QED
  BY <1>2, <1>4, <1>5, <1>6 DEF WorkerState, ReportSet

\* Every shared step keeps the types.
LEMMA SharedTypeOK ==
  ASSUME Base, SharedStep
  PROVE  TypeOK'
<1> USE BuilderAssumption, ExecutorAssumption
    DEF Base, TypeOK, ExecutorTypeOK, callerVars, outputs, executorVars
<1>1. CASE UNCHANGED vars
  BY <1>1 DEF vars
<1>2. ASSUME NEW field \in Setter, NEW value \in BOOLEAN, Set(field, value) PROVE TypeOK'
  <2>1. builder' \in Builder
    BY <1>2 DEF Set, Setter, Builder
  <2> QED
    BY <1>2, <2>1 DEF Set
<1>3. CASE SetHolder
  BY <1>3, StartedIsTask DEF SetHolder
<1>4. CASE Publish
  BY <1>4, StartedIsTask DEF Publish
<1>5. ASSUME NEW t \in Task, Cancel(t) PROVE TypeOK'
  BY <1>5 DEF Cancel, CancelFuture, Outcome
<1>6. CASE Shutdown
  <2>1. <<>> \in Seq(Task)
    OBVIOUS
  <2> QED
    BY <1>6, <2>1 DEF Shutdown, ShutdownPool, ShutdownPoolNow
<1>7. ASSUME NEW w \in Worker, Die(w) PROVE TypeOK'
  <2>1. worker[w].task \in Task
    BY <1>7 DEF Die, ReplaceWorker, WorkersHold
  <2> QED
    BY <1>7, <2>1 DEF Die, ReplaceWorker, Idle, Cause
<1> QED
  BY <1>1, <1>2, <1>3, <1>4, <1>5, <1>6, <1>7, LoopTyped, CallbackTyped DEF SharedStep

\* What no step undoes: registered consumers keep their place, tasks stay
\* submitted, outcomes stay, reports and deliveries are not taken back.
Monotone ==
  /\ \A i \in DOMAIN consumers : i \in DOMAIN consumers' /\ consumers'[i] = consumers[i]
  /\ \A t \in Task : /\ future[t] # "none" => future'[t] # "none"
                     /\ IsDone(t) => future'[t] = future[t]
  /\ reports \subseteq reports'
  /\ delivered \subseteq delivered'

LEMMA SharedMonotone ==
  ASSUME Base, SharedStep
  PROVE  Monotone
<1> USE DEF Base, TypeOK, ExecutorTypeOK, Monotone, callerVars, outputs, executorVars
<1>1. CASE UNCHANGED vars
  BY <1>1 DEF vars
<1>2. ASSUME NEW field \in Setter, NEW value \in BOOLEAN, Set(field, value) PROVE Monotone
  BY <1>2 DEF Set
<1>3. CASE SetHolder \/ Publish
  BY <1>3 DEF SetHolder, Publish
<1>4. ASSUME NEW t \in Task, Cancel(t) PROVE Monotone
  BY <1>4 DEF Cancel, CancelFuture, IsDone, Outcome
<1>5. CASE Shutdown
  BY <1>5 DEF Shutdown, ShutdownPool, ShutdownPoolNow
<1>6. ASSUME NEW w \in Worker, LoopStep(w) PROVE Monotone
  <2> USE <1>6 DEF LoopStep
  <2>1. CASE Take(w) \/ StartBody(w)
    BY <2>1 DEF Take, StartBody
  <2>2. CASE SkipBody(w)
    BY <2>2 DEF SkipBody, IsDone, Outcome
  <2>3. ASSUME NEW o \in {"ok", "failed"}, EndBody(w, o) PROVE Monotone
    BY <2>3 DEF EndBody, IsDone, Outcome
  <2>4. CASE BeginAfterExecute(w) \/ Comodified(w) \/ EndAfterExecute(w)
    BY <2>4 DEF BeginAfterExecute, Comodified, EndAfterExecute
  <2> QED
    BY <2>1, <2>2, <2>3, <2>4 DEF WorkerLoop
<1>7. ASSUME NEW w \in Worker, CallbackEffect(w) PROVE Monotone
  BY <1>7 DEF CallbackEffect, CallbackFrame, CallbackOutputs
<1>8. ASSUME NEW w \in Worker, Die(w) PROVE Monotone
  BY <1>8 DEF Die, ReplaceWorker
<1> QED
  BY <1>1, <1>2, <1>3, <1>4, <1>5, <1>6, <1>7, <1>8 DEF SharedStep

\* A step that makes no task and moves no caller keeps the tasks registered.
LEMMA NoNewTask ==
  ASSUME Base, Monotone, UNCHANGED started, UNCHANGED callerPc \/ callerPc' = "idle",
         \A i \in DOMAIN queue' : queue'[i] \in Task /\ future[queue'[i]] # "none",
         \A t \in Task : future'[t] # "none" => future[t] # "none"
  PROVE  TasksRegistered'
<1>1. ASSUME NEW t \in Task, future'[t] # "none"
      PROVE  t <= started' /\ \E i \in DOMAIN consumers' : consumers'[i] = Handler(t)
  BY <1>1 DEF Base, TasksRegistered, Monotone
<1>2. callerPc' # "idle" => started' > 0
  BY DEF Base, TasksRegistered
<1>3. \A i \in DOMAIN queue' : future'[queue'[i]] # "none"
  BY DEF Monotone
<1> QED
  BY <1>1, <1>2, <1>3 DEF TasksRegistered, Handler

\* The tasks in the queue are submitted ones.
LEMMA QueueSubmitted ==
  ASSUME Base
  PROVE  \A i \in DOMAIN queue : queue[i] \in Task /\ future[queue[i]] # "none"
BY DEF Base, TasksRegistered, TypeOK, ExecutorTypeOK

\* No shared step makes a task.
LEMMA SharedTasksRegistered ==
  ASSUME Base, SharedStep
  PROVE  TasksRegistered'
<1>0. Monotone
  BY SharedMonotone
<1> USE <1>0, NoNewTask, QueueSubmitted
    DEF callerVars, outputs, executorVars
<1>1. CASE UNCHANGED vars
  BY <1>1 DEF vars
<1>2. ASSUME NEW field \in Setter, NEW value \in BOOLEAN, Set(field, value) PROVE TasksRegistered'
  BY <1>2 DEF Set
<1>3. CASE SetHolder
  <2>1. started > 0 /\ UNCHANGED <<consumers, queue, future, started>>
    BY <1>3 DEF SetHolder, Base, TasksRegistered
  <2> QED
    BY <2>1 DEF Base, TasksRegistered
<1>4. CASE Publish
  BY <1>4 DEF Publish
<1>5. ASSUME NEW t \in Task, Cancel(t) PROVE TasksRegistered'
  BY <1>5 DEF Cancel, CancelFuture, Base, TypeOK, ExecutorTypeOK
<1>6. CASE Shutdown
  <2>1. UNCHANGED <<consumers, started, callerPc, future>> /\ (queue' = queue \/ queue' = <<>>)
    BY <1>6 DEF Shutdown, ShutdownPool, ShutdownPoolNow
  <2> QED
    BY <2>1
<1>7. ASSUME NEW w \in Worker, LoopStep(w) PROVE TasksRegistered'
  <2> USE <1>7 DEF LoopStep
  <2>1. CASE Take(w)
    <3>1. \A i \in DOMAIN queue' : i + 1 \in DOMAIN queue /\ queue'[i] = queue[i + 1]
      BY <2>1 DEF Take, Base, TypeOK, ExecutorTypeOK
    <3> QED
      BY <2>1, <3>1 DEF Take
  <2>2. CASE SkipBody(w)
    BY <2>2 DEF SkipBody, Base, TypeOK, ExecutorTypeOK
  <2>3. ASSUME NEW o \in {"ok", "failed"}, EndBody(w, o) PROVE TasksRegistered'
    BY <2>3 DEF EndBody, Base, TypeOK, ExecutorTypeOK, WorkersHold
  <2>4. CASE StartBody(w) \/ BeginAfterExecute(w) \/ Comodified(w) \/ EndAfterExecute(w)
    BY <2>4 DEF StartBody, BeginAfterExecute, Comodified, EndAfterExecute
  <2> QED
    BY <2>1, <2>2, <2>3, <2>4 DEF WorkerLoop
<1>8. ASSUME NEW w \in Worker, CallbackEffect(w) PROVE TasksRegistered'
  BY <1>8 DEF CallbackEffect, CallbackFrame
<1>9. ASSUME NEW w \in Worker, Die(w) PROVE TasksRegistered'
  BY <1>9 DEF Die, ReplaceWorker
<1> QED
  BY <1>1, <1>2, <1>3, <1>4, <1>5, <1>6, <1>7, <1>8, <1>9 DEF SharedStep

\* The part of WorkersHold that speaks of one worker.
HoldsTask(w) ==
  /\ worker[w].pc # "idle" <=> worker[w].task # 0
  /\ worker[w].pc # "idle" => future[worker[w].task] # "none"
  /\ InPass(w) => worker[w].pos > 0
  /\ worker[w].pc = "inConsumer" =>
       /\ worker[w].pos <= Len(consumers)
       /\ future[Called(w).start] = "ok"
       /\ threadResult # 0

\* A worker that does not move keeps what it holds.
LEMMA HoldsTaskKept ==
  ASSUME Base, Monotone, TypeOK', NEW w \in Worker, worker'[w] = worker[w],
         threadResult # 0 => threadResult' # 0
  PROVE  HoldsTask(w)'
<1>1. TypeOK /\ HoldsTask(w)
  BY DEF Base, WorkersHold, HoldsTask
<1>2. CASE worker[w].pc = "inConsumer"
  <2>1. worker[w].pos \in DOMAIN consumers
    BY <1>1, <1>2 DEF HoldsTask, InPass, TypeOK, ExecutorTypeOK
  <2>2. Called(w).start \in Task
    BY <1>1, <2>1, CalledType
  <2>3. worker[w].pos \in DOMAIN consumers' /\ consumers'[worker[w].pos] = consumers[worker[w].pos]
    BY <2>1 DEF Monotone
  <2>4. consumers' \in Seq(Consumer) /\ worker[w].pos \in Nat
    BY <1>1 DEF TypeOK, ExecutorTypeOK
  <2>5. Called(w)' = Called(w) /\ worker[w].pos <= Len(consumers')
    BY <2>3, <2>4 DEF Called
  <2>6. future'[Called(w).start] = "ok"
    BY <1>1, <1>2, <2>2 DEF HoldsTask, Monotone, IsDone, Outcome
  <2> QED
    BY <1>1, <1>2, <2>5, <2>6 DEF HoldsTask, InPass, Monotone, TypeOK, ExecutorTypeOK
<1>3. CASE worker[w].pc # "inConsumer"
  BY <1>1, <1>3 DEF HoldsTask, InPass, Monotone, TypeOK, ExecutorTypeOK
<1> QED
  BY <1>2, <1>3

\* The worker loop moves one worker, which takes, keeps or drops its task.
LEMMA LoopHolds ==
  ASSUME Base, NEW w \in Worker, LoopStep(w)
  PROVE  /\ \A v \in Worker \ {w} : worker'[v] = worker[v]
         /\ HoldsTask(w)'
<1> USE DEF Base, TypeOK, ExecutorTypeOK, LoopStep, callerVars, outputs
<1>1. \A v \in Worker \ {w} : worker'[v] = worker[v]
  BY DEF WorkerLoop, Take, StartBody, SkipBody, EndBody, BeginAfterExecute, StartPass,
         Comodified, Escaped, EndAfterExecute
<1>2. HoldsTask(w)
  BY DEF WorkersHold, HoldsTask
<1>3. HoldsTask(w)'
  <2> USE <1>2 DEF HoldsTask, InPass
  <2>1. CASE Take(w)
    <3>1. Head(queue) \in Task /\ future[Head(queue)] # "none"
      BY <2>1 DEF Take, TasksRegistered
    <3> QED
      BY <2>1, <3>1 DEF Take, Task
  <2>2. CASE StartBody(w)
    BY <2>2 DEF StartBody
  <2>3. CASE SkipBody(w)
    BY <2>3 DEF SkipBody
  <2>4. ASSUME NEW o \in {"ok", "failed"}, EndBody(w, o) PROVE HoldsTask(w)'
    BY <2>4 DEF EndBody
  <2>5. CASE BeginAfterExecute(w)
    BY <2>5 DEF BeginAfterExecute, StartPass
  <2>6. CASE Comodified(w)
    BY <2>6, AfterCallback DEF Comodified, HasNext
  <2>7. CASE EndAfterExecute(w)
    BY <2>7 DEF EndAfterExecute, Idle
  <2> QED
    BY <2>1, <2>2, <2>3, <2>4, <2>5, <2>6, <2>7 DEF WorkerLoop
<1> QED
  BY <1>1, <1>3

\* A call of a consumer moves one worker, within the pass over its task.
LEMMA CallbackHolds ==
  ASSUME Base, NEW w \in Worker, CallbackEffect(w)
  PROVE  /\ \A v \in Worker \ {w} : worker'[v] = worker[v]
         /\ worker'[w].task = worker[w].task
         /\ HoldsTask(w)'
         /\ threadResult # 0 => threadResult' # 0
<1> USE DEF Base
<1>1. CallbackFrame(w) /\ UNCHANGED <<consumers, future>>
  BY DEF CallbackEffect, CallbackFrame
<1>2. InPass(w) /\ worker[w].pos \in DOMAIN consumers
  BY <1>1, CallbackPosition DEF CallbackFrame
<1>3. Called(w).start \in Task /\ Called(w).start # 0
  BY <1>2, CalledType
<1>4. threadResult # 0 => threadResult' # 0
  BY <1>1, <1>3 DEF CallbackFrame
<1>5. worker[w].task \in Task /\ worker[w].pos \in Nat /\ HoldsTask(w)
  BY <1>2 DEF InPass, WorkersHold, HoldsTask, TypeOK, ExecutorTypeOK
<1>6. CASE worker' \in {Returned(w), Escaped(w)}
  <2>1. /\ \A v \in Worker \ {w} : worker'[v] = worker[v]
        /\ worker'[w].task = worker[w].task
        /\ worker'[w].pc \in {"iterating", "dying"}
    BY <1>6, AfterCallback
  <2>2. worker'[w].pc = "iterating" => worker'[w].pos > 0
    BY <1>5, <1>6, AfterCallback
  <2> QED
    BY <1>1, <1>2, <1>4, <1>5, <2>1, <2>2 DEF HoldsTask, InPass, Task
<1>7. CASE /\ worker' = [worker EXCEPT ![w].pc = "inConsumer"]
           /\ future[Called(w).start] = "ok"
           /\ threadResult' = Called(w).start
  <2>1. /\ \A v \in Worker \ {w} : worker'[v] = worker[v]
        /\ worker'[w] = [worker[w] EXCEPT !.pc = "inConsumer"]
    BY <1>7 DEF TypeOK, ExecutorTypeOK
  <2>2. /\ worker'[w].task = worker[w].task
        /\ worker'[w].pos = worker[w].pos
        /\ worker'[w].pc = "inConsumer"
    BY <2>1 DEF TypeOK, ExecutorTypeOK
  <2>3. worker[w].pos <= Len(consumers) /\ worker[w].pos > 0 /\ future[worker[w].task] # "none"
    BY <1>1, <1>2, <1>5 DEF CallbackFrame, HoldsTask, InPass
  <2> QED
    BY <1>1, <1>3, <1>4, <1>5, <1>7, <2>1, <2>2, <2>3 DEF HoldsTask, InPass, Called, Task
<1> QED
  BY <1>1, <1>6, <1>7 DEF CallbackFrame

\* A dying worker lets go of its task.
LEMMA DieHolds ==
  ASSUME Base, NEW w \in Worker, Die(w)
  PROVE  /\ \A v \in Worker \ {w} : worker'[v] = worker[v]
         /\ worker'[w] = Idle
         /\ HoldsTask(w)'
BY DEF Base, Die, ReplaceWorker, HoldsTask, InPass, Idle, TypeOK, ExecutorTypeOK

\* Every shared step keeps the workers' tasks submitted.
LEMMA SharedWorkersHold ==
  ASSUME Base, SharedStep
  PROVE  WorkersHold'
<1> USE DEF callerVars, outputs
<1>0. TypeOK' /\ Monotone
  BY SharedTypeOK, SharedMonotone
<1>1. SUFFICES \A w \in Worker : HoldsTask(w)'
  BY DEF WorkersHold, HoldsTask
<1>2. CASE UNCHANGED <<worker, threadResult>>
  BY <1>0, <1>2, HoldsTaskKept
<1>3. CASE \/ UNCHANGED vars
           \/ \E field \in Setter, value \in BOOLEAN : Set(field, value)
           \/ SetHolder \/ Publish \/ Shutdown
           \/ \E t \in Task : Cancel(t)
  <2>1. UNCHANGED <<worker, threadResult>>
    BY <1>3 DEF Set, SetHolder, Publish, Cancel, CancelFuture, Shutdown, ShutdownPool,
         ShutdownPoolNow, executorVars, vars
  <2> QED
    BY <1>2, <2>1
<1>4. ASSUME NEW w \in Worker, LoopStep(w) PROVE \A v \in Worker : HoldsTask(v)'
  <2>1. threadResult' = threadResult
    BY <1>4 DEF LoopStep
  <2>2. \A v \in Worker \ {w} : HoldsTask(v)'
    BY <1>0, <1>4, <2>1, LoopHolds, HoldsTaskKept
  <2> QED
    BY <1>4, <2>2, LoopHolds
<1>5. ASSUME NEW w \in Worker, CallbackEffect(w) PROVE \A v \in Worker : HoldsTask(v)'
  <2>1. \A v \in Worker \ {w} : HoldsTask(v)'
    BY <1>0, <1>5, CallbackHolds, HoldsTaskKept
  <2> QED
    BY <1>5, <2>1, CallbackHolds
<1>6. ASSUME NEW w \in Worker, Die(w) PROVE \A v \in Worker : HoldsTask(v)'
  <2>1. threadResult' = threadResult
    BY <1>6 DEF Die
  <2>2. \A v \in Worker \ {w} : HoldsTask(v)'
    BY <1>0, <1>6, <2>1, DieHolds, HoldsTaskKept
  <2> QED
    BY <1>6, <2>2, DieHolds
<1> QED
  BY <1>3, <1>4, <1>5, <1>6 DEF SharedStep

\* What was stored, delivered and reported stays true as long as it is not added to.
LEMMA OutputsStayTrue ==
  ASSUME Base, OutputsTrue, Monotone, UNCHANGED <<threadResult, delivered, reports>>
  PROVE  OutputsTrue'
<1>1. \A t \in Task : future[t] \in Outcome => future'[t] = future[t]
  BY DEF Monotone, IsDone
<1> QED
  BY <1>1 DEF Base, TypeOK, OutputsTrue, Outcome

\* And every shared step adds the truth.
LEMMA SharedOutputsTrue ==
  ASSUME Base, OutputsTrue, SharedStep
  PROVE  OutputsTrue'
<1>0. Monotone
  BY SharedMonotone
<1> USE DEF callerVars, outputs
<1>1. CASE \/ UNCHANGED vars
           \/ \E field \in Setter, value \in BOOLEAN : Set(field, value)
           \/ SetHolder \/ Publish \/ Shutdown
           \/ \E t \in Task : Cancel(t)
           \/ \E w \in Worker : LoopStep(w)
  <2>1. UNCHANGED <<threadResult, delivered, reports>>
    BY <1>1 DEF Set, SetHolder, Publish, Cancel, Shutdown, LoopStep, vars
  <2> QED
    BY <1>0, <2>1, OutputsStayTrue
<1>2. ASSUME NEW w \in Worker, CallbackEffect(w) PROVE OutputsTrue'
  <2>1. CallbackFrame(w) /\ CallbackOutputs(w) /\ UNCHANGED future
    BY <1>2 DEF CallbackEffect, CallbackFrame
  <2>2. threadResult' # 0 => future'[threadResult'] = "ok"
    BY <2>1 DEF CallbackFrame, OutputsTrue
  <2>3. \A d \in delivered' : d.value # 0 /\ future'[d.value] = "ok"
    BY <2>1 DEF CallbackOutputs, OutputsTrue
  <2>4. \A r \in reports' : r.what \in {"failed", "cancelled"} => future'[r.about] = r.what
    BY <2>1 DEF CallbackOutputs, OutputsTrue
  <2> QED
    BY <2>2, <2>3, <2>4 DEF OutputsTrue
<1>3. ASSUME NEW w \in Worker, Die(w) PROVE OutputsTrue'
  BY <1>3 DEF Die, ReplaceWorker, OutputsTrue
<1> QED
  BY <1>1, <1>2, <1>3 DEF SharedStep

-------------------------------------------------------------------------------
(* The inductive invariant. *)

\* The builder before its first start has its types.
LEMMA InitTypeOK == Init => TypeOK
<1> SUFFICES ASSUME Init PROVE TypeOK
  OBVIOUS
<1> USE BuilderAssumption, ExecutorAssumption DEF Init, ExecutorInit, Idle
<1>1. worker \in [Worker -> WorkerState]
  BY DEF WorkerState
<1>2. builder \in Builder
  OBVIOUS
<1>3. consumers \in Seq(Consumer) /\ queue \in Seq(Task)
  OBVIOUS
<1>4. ExecutorTypeOK
  BY <1>1, <1>3 DEF ExecutorTypeOK, WorkerState
<1>5. 0 \in 0 .. MaxReconfigs /\ 0 \in 0 .. MaxSubmissions
  OBVIOUS
<1> QED
  BY <1>2, <1>3, <1>4, <1>5 DEF TypeOK

\* And it holds nothing, so that what the pool relies on is true of it.
LEMMA InitBase == Init => Base /\ OutputsTrue
<1>1. Init => WorkersHold
  BY DEF Init, ExecutorInit, Idle, WorkersHold, InPass
<1>2. Init => TasksRegistered
  BY DEF Init, ExecutorInit, TasksRegistered
<1>3. Init => OutputsTrue
  BY DEF Init, OutputsTrue
<1> QED
  BY <1>1, <1>2, <1>3, InitTypeOK DEF Base

\* It satisfies the inductive invariant.
LEMMA InitIInv == Init => IInv
<1> SUFFICES ASSUME Init PROVE IInv
  OBVIOUS
<1> USE DEF Init, ExecutorInit, Idle
<1>1. HandlersRegistered
  BY InitBase DEF Base, HandlersRegistered
<1>2. WorkersHoldSettled
  BY InitBase DEF Base, WorkersHoldSettled
<1>3. PassReports
  BY DEF PassReports, InPass
<1> QED
  BY <1>1, <1>2, <1>3, InitBase DEF Base, IInv

\* The inductive invariant has what the shared steps rely on.
LEMMA IInvBase == IInv => Base /\ OutputsTrue
BY DEF IInv, Base, HandlersRegistered, WorkersHoldSettled

\* The steps of the threads that are not workers.
OutsideStep ==
  \/ \E field \in Setter, value \in BOOLEAN : Set(field, value)
  \/ Start
  \/ CallerStep
  \/ \E t \in Task : Cancel(t)
  \/ Shutdown

\* The cases of a step, by who takes it and by what it may change.
LEMMA NextSteps ==
  ASSUME Base, [Next]_vars
  PROVE  \/ UNCHANGED vars
         \/ OutsideStep
         \/ \E w \in Worker : LoopStep(w) \/ CallbackEffect(w) \/ Die(w)
BY HandleCallEffect, CallUserConsumerEffect DEF Next, OutsideStep, WorkerStep, LoopStep, Terminated

\* Or by whether other builders have it as well.
LEMMA OwnSteps ==
  ASSUME Base, [Next]_vars
  PROVE  SharedStep \/ Start \/ RegisterAfterExecute \/ Submit \/ SubmitRejected
BY NextSteps DEF SharedStep, OutsideStep, CallerStep

\* What runThread registers: the handler of the next start, then the user's consumer.
LEMMA StartAppends ==
  ASSUME Base, Start
  PROVE  /\ started + 1 \in Task
         /\ Handler(started + 1) \in Consumer
         /\ consumers \in Seq(Consumer)
         /\ consumers' = Append(consumers, Handler(started + 1))
         /\ started' = started + 1
         /\ callerPc' = "firstAdded"
         /\ UNCHANGED <<queue, pool, future, worker, builder, reconfigs, holder, executorResult,
                        futures, threadResult, delivered, reports>>
<1>1. started + 1 \in Task
  BY ExecutorAssumption DEF Base, TypeOK, Start, Task
<1> QED
  BY <1>1 DEF Base, TypeOK, Start, AddAfterExecuteConsumer, Handler, Consumer, outputs

LEMMA RegisterAppends ==
  ASSUME Base, RegisterAfterExecute
  PROVE  /\ UserConsumer(started) \in Consumer
         /\ consumers \in Seq(Consumer)
         /\ \/ consumers' = Append(consumers, UserConsumer(started))
            \/ consumers' = consumers
         /\ callerPc = "firstAdded"
         /\ callerPc' = "registered"
         /\ UNCHANGED <<queue, pool, future, worker, builder, reconfigs, started, factory, holder,
                        executorResult, futures, threadResult, delivered, reports>>
<1>1. started \in Task
  BY StartedIsTask DEF RegisterAfterExecute
<1> QED
  BY <1>1 DEF Base, TypeOK, RegisterAfterExecute, AddAfterExecuteConsumer, UserConsumer, Consumer,
              executorVars, outputs

\* Every action keeps the types.
LEMMA TypeOKStep ==
  ASSUME Base, [Next]_vars
  PROVE  TypeOK'
<1>1. CASE Start
  <2>1. consumers' \in Seq(Consumer)
    BY <1>1, StartAppends, AppendKeeps
  <2>2. started' \in 0 .. MaxSubmissions /\ factory' \in {"none", "default", "consumer"}
    BY <1>1, StartAppends DEF Base, TypeOK, Start, ThreadFactory, Task
  <2> QED
    BY <1>1, <2>1, <2>2, StartAppends DEF Base, TypeOK, ExecutorTypeOK
<1>2. CASE RegisterAfterExecute
  <2>1. consumers' \in Seq(Consumer)
    BY <1>2, RegisterAppends, AppendKeeps
  <2> QED
    BY <1>2, <2>1, RegisterAppends DEF Base, TypeOK, ExecutorTypeOK
<1>3. CASE Submit
  BY <1>3, StartedIsTask DEF Submit, SubmitTask, Base, TypeOK, ExecutorTypeOK, outputs
<1>4. CASE SubmitRejected
  BY <1>4 DEF SubmitRejected, Base, TypeOK, ExecutorTypeOK, executorVars, outputs
<1> QED
  BY <1>1, <1>2, <1>3, <1>4, OwnSteps, SharedTypeOK

\* No step takes back a consumer, an outcome, a report or a delivery.
LEMMA MonotoneStep ==
  ASSUME Base, [Next]_vars
  PROVE  Monotone
<1>1. CASE Start
  BY <1>1, StartAppends, AppendKeeps DEF Monotone, IsDone
<1>2. CASE RegisterAfterExecute
  BY <1>2, RegisterAppends, AppendKeeps DEF Monotone, IsDone
<1>3. CASE Submit
  BY <1>3 DEF Submit, SubmitTask, Monotone, IsDone, Outcome, Base, TypeOK, ExecutorTypeOK, outputs
<1>4. CASE SubmitRejected
  BY <1>4 DEF SubmitRejected, Monotone, IsDone, executorVars, outputs
<1> QED
  BY <1>1, <1>2, <1>3, <1>4, OwnSteps, SharedMonotone

\* A task that is submitted is one whose handler is registered.
LEMMA SubmitRegistered ==
  ASSUME Base, callerPc # "idle", UNCHANGED <<consumers, started>>,
         \E i \in DOMAIN consumers : consumers[i] = Handler(started),
         future' = [future EXCEPT ![started] = "new"],
         queue' = Append(queue, started) \/ UNCHANGED queue
  PROVE  TasksRegistered'
<1>1. started \in Task /\ started > 0 /\ queue \in Seq(Task)
  BY StartedIsTask DEF Base, TasksRegistered, TypeOK, ExecutorTypeOK
<1>2. \A t \in Task : future'[t] # "none" =>
        t <= started' /\ \E i \in DOMAIN consumers' : consumers'[i] = Handler(t)
  BY <1>1 DEF Base, TasksRegistered, TypeOK, ExecutorTypeOK
<1>3. \A i \in DOMAIN queue' : future'[queue'[i]] # "none"
  <2> SUFFICES ASSUME NEW i \in DOMAIN queue' PROVE future'[queue'[i]] # "none"
    OBVIOUS
  <2>1. CASE i \in DOMAIN queue /\ queue'[i] = queue[i]
    BY <1>1, <2>1, QueueSubmitted DEF Base, TypeOK, ExecutorTypeOK
  <2>2. CASE ~ (i \in DOMAIN queue /\ queue'[i] = queue[i])
    <3>1. queue'[i] = started
      BY <1>1, <2>2
    <3> QED
      BY <1>1, <3>1 DEF Base, TypeOK, ExecutorTypeOK
  <2> QED
    BY <2>1, <2>2
<1> QED
  BY <1>1, <1>2, <1>3 DEF TasksRegistered, Handler

\* Adding a consumer takes no handler away.
LEMMA StillRegistered ==
  ASSUME Base, Monotone, UNCHANGED <<queue, future>>, started' \in Nat, started' >= started, started' > 0
  PROVE  TasksRegistered'
<1>1. \A t \in Task : future[t] # "none" =>
        t <= started' /\ \E i \in DOMAIN consumers' : consumers'[i] = Handler(t)
  BY DEF Base, TasksRegistered, TypeOK, Task, Monotone
<1> QED
  BY <1>1 DEF Base, TasksRegistered, Handler

\* Every action keeps the tasks registered, and the handlers of the started ones.
LEMMA HandlersRegisteredStep ==
  ASSUME Base, HandlersRegistered, [Next]_vars
  PROVE  HandlersRegistered'
<1>0. Monotone /\ started \in Nat
  BY MonotoneStep DEF Base, TypeOK
<1>1. ASSUME TasksRegistered', started' = started PROVE HandlersRegistered'
  <2>1. \A t \in 1 .. started : \E i \in DOMAIN consumers' : consumers'[i] = Handler(t)
    BY <1>0 DEF HandlersRegistered, Monotone
  <2> QED
    BY <1>1, <2>1 DEF HandlersRegistered, Handler
<1>2. CASE Start
  <2>1. /\ started' = started + 1
        /\ \E i \in DOMAIN consumers' : consumers'[i] = Handler(started + 1)
        /\ UNCHANGED <<queue, future>>
    BY <1>2, StartAppends, AppendKeeps
  <2>2. TasksRegistered'
    BY <1>0, <2>1, StillRegistered
  <2>3. ASSUME NEW t \in 1 .. started + 1 PROVE \E i \in DOMAIN consumers' : consumers'[i] = Handler(t)
    <3>1. CASE t = started + 1
      BY <2>1, <3>1
    <3>2. CASE t \in 1 .. started
      BY <1>0, <3>2 DEF HandlersRegistered, Monotone
    <3> QED
      BY <1>0, <3>1, <3>2
  <2> QED
    BY <2>1, <2>2, <2>3 DEF HandlersRegistered, Handler
<1>3. CASE RegisterAfterExecute
  <2>1. UNCHANGED <<queue, future, started>> /\ started > 0
    BY <1>3, RegisterAppends DEF Base, TasksRegistered
  <2> QED
    BY <1>0, <1>1, <2>1, StillRegistered
<1>4. CASE Submit
  <2>1. /\ callerPc # "idle" /\ UNCHANGED <<consumers, started>>
        /\ future' = [future EXCEPT ![started] = "new"]
        /\ queue' = Append(queue, started)
    BY <1>4 DEF Submit, SubmitTask
  <2>2. \E i \in DOMAIN consumers : consumers[i] = Handler(started)
    BY <1>0, <2>1 DEF Base, TasksRegistered, HandlersRegistered
  <2> QED
    BY <1>1, <2>1, <2>2, SubmitRegistered
<1>5. CASE SubmitRejected
  <2>1. UNCHANGED <<consumers, queue, future, started>> /\ callerPc' = "idle"
    BY <1>5 DEF SubmitRejected, executorVars
  <2> QED
    BY <1>0, <1>1, <2>1, QueueSubmitted, NoNewTask
<1>6. CASE SharedStep
  <2>1. started' = started
    BY <1>6 DEF SharedStep, Set, SetHolder, Publish, Cancel, Shutdown, LoopStep, CallbackEffect,
                CallbackFrame, Die, callerVars, vars
  <2> QED
    BY <1>1, <1>6, <2>1, SharedTasksRegistered
<1> QED
  BY <1>2, <1>3, <1>4, <1>5, <1>6, OwnSteps

\* Every action keeps the workers' tasks submitted.
LEMMA WorkersHoldStep ==
  ASSUME Base, [Next]_vars
  PROVE  WorkersHold'
<1>1. CASE UNCHANGED <<worker, threadResult>>
  <2>1. \A w \in Worker : HoldsTask(w)'
    BY <1>1, TypeOKStep, MonotoneStep, HoldsTaskKept
  <2> QED
    BY <2>1 DEF WorkersHold, HoldsTask
<1>2. CASE Start \/ RegisterAfterExecute \/ Submit \/ SubmitRejected
  <2>1. UNCHANGED <<worker, threadResult>>
    BY <1>2, StartAppends, RegisterAppends DEF Submit, SubmitTask, SubmitRejected, executorVars
  <2> QED
    BY <1>1, <2>1
<1> QED
  BY <1>2, OwnSteps, SharedWorkersHold

\* And settled from afterExecute on.
LEMMA WorkersHoldSettledStep ==
  ASSUME IInv, [Next]_vars
  PROVE  WorkersHoldSettled'
<1>0. Base /\ Monotone /\ WorkersHoldSettled /\ WorkersHold'
  BY IInvBase, MonotoneStep, WorkersHoldStep DEF IInv
<1> DEFINE Settled(w) == worker[w].pc \in {"ended", "iterating", "inConsumer", "dying"} =>
                           IsDone(worker[w].task)
<1>1. SUFFICES \A w \in Worker : Settled(w)'
  BY <1>0 DEF WorkersHoldSettled
<1>2. ASSUME NEW w \in Worker, worker'[w].task = worker[w].task,
             worker'[w].pc = worker[w].pc \/ worker[w].pc \in {"ended", "iterating", "inConsumer", "dying"}
      PROVE  Settled(w)'
  <2>1. CASE worker[w].pc \in {"ended", "iterating", "inConsumer", "dying"}
    <3>1. worker[w].task \in Task /\ IsDone(worker[w].task)
      BY <1>0, <2>1 DEF Base, TypeOK, ExecutorTypeOK, WorkersHold, WorkersHoldSettled
    <3> QED
      BY <1>0, <1>2, <3>1 DEF Monotone, IsDone
  <2> QED
    BY <1>2, <2>1
<1>3. CASE UNCHANGED worker
  BY <1>2, <1>3
<1>4. CASE UNCHANGED vars \/ OutsideStep
  <2>1. UNCHANGED worker
    BY <1>4 DEF OutsideStep, Set, Start, CallerStep, RegisterAfterExecute, Submit, SubmitTask,
         SubmitRejected, SetHolder, Publish, Cancel, CancelFuture, Shutdown, ShutdownPool,
         ShutdownPoolNow, AddAfterExecuteConsumer, executorVars, vars
  <2> QED
    BY <1>3, <2>1
<1>5. ASSUME NEW w \in Worker, LoopStep(w) PROVE \A v \in Worker : Settled(v)'
  <2>1. \A v \in Worker \ {w} : worker'[v] = worker[v]
    BY <1>0, <1>5, LoopHolds
  <2>2. Settled(w)'
    <3> USE <1>0 DEF Base, TypeOK, ExecutorTypeOK
    <3>1. CASE Take(w) \/ StartBody(w) \/ (EndAfterExecute(w) /\ ~ worker[w].thrown)
      BY <3>1 DEF Take, StartBody, EndAfterExecute, Idle
    <3>2. CASE EndAfterExecute(w) /\ worker[w].thrown
      BY <1>2, <3>2 DEF EndAfterExecute
    <3>3. CASE SkipBody(w)
      BY <3>3 DEF SkipBody, IsDone, Outcome, WorkersHold
    <3>4. ASSUME NEW o \in {"ok", "failed"}, EndBody(w, o) PROVE Settled(w)'
      BY <3>4 DEF EndBody, IsDone, Outcome, WorkersHold
    <3>5. CASE BeginAfterExecute(w)
      BY <1>2, <3>5 DEF BeginAfterExecute, StartPass
    <3>6. CASE Comodified(w)
      BY <1>2, <3>6, AfterCallback DEF Comodified, HasNext
    <3> HIDE <1>0 DEF Base, TypeOK, ExecutorTypeOK, Settled
    <3> QED
      BY <1>5, <3>1, <3>2, <3>3, <3>4, <3>5, <3>6 DEF LoopStep, WorkerLoop
  <2> QED
    BY <1>2, <2>1, <2>2
<1>6. ASSUME NEW w \in Worker, CallbackEffect(w) PROVE \A v \in Worker : Settled(v)'
  <2>1. worker[w].pc \in {"iterating", "inConsumer"}
    BY <1>6 DEF CallbackEffect, CallbackFrame, InPass
  <2> QED
    BY <1>0, <1>2, <1>6, <2>1, CallbackHolds
<1>7. ASSUME NEW w \in Worker, Die(w) PROVE \A v \in Worker : Settled(v)'
  BY <1>0, <1>2, <1>7, DieHolds DEF Idle
<1> QED
  BY <1>0, <1>4, <1>5, <1>6, <1>7, NextSteps

\* Every action keeps what was stored, delivered and reported true.
LEMMA OutputsTrueStep ==
  ASSUME Base, OutputsTrue, [Next]_vars
  PROVE  OutputsTrue'
<1>1. CASE Start \/ RegisterAfterExecute \/ Submit \/ SubmitRejected
  <2>1. UNCHANGED <<threadResult, delivered, reports>>
    BY <1>1, StartAppends, RegisterAppends DEF Submit, SubmitRejected, outputs
  <2> QED
    BY <2>1, MonotoneStep, OutputsStayTrue
<1> QED
  BY <1>1, OwnSteps, SharedOutputsTrue

\* The part of PassReports that speaks of one worker.
ReportsInPass(w) ==
  InPass(w) /\ ~ worker[w].thrown /\ future[worker[w].task] = "failed" =>
    \E i \in DOMAIN consumers :
      /\ consumers[i] = Handler(worker[w].task)
      /\ worker[w].pos > i => ToldBy(worker[w].task) # {}

\* What was told from a task's own pass stays told.
LEMMA ToldByGrows ==
  ASSUME Monotone, NEW t \in Task, ToldBy(t) # {}
  PROVE  ToldBy(t)' # {}
BY DEF Monotone, ToldBy

\* A worker that does not move keeps what its pass has reported.
LEMMA ReportsInPassKept ==
  ASSUME IInv, Monotone, NEW w \in Worker, worker'[w] = worker[w]
  PROVE  ReportsInPass(w)'
<1>1. Base /\ TypeOK /\ ReportsInPass(w) /\ WorkersHoldSettled
  BY IInvBase DEF IInv, PassReports, ReportsInPass
<1> SUFFICES ASSUME InPass(w), ~ worker[w].thrown, future'[worker[w].task] = "failed"
             PROVE  \E i \in DOMAIN consumers' :
                      /\ consumers'[i] = Handler(worker[w].task)
                      /\ worker[w].pos > i => ToldBy(worker[w].task)' # {}
  BY DEF ReportsInPass, InPass, ToldBy, Handler
<1>2. worker[w].task \in Task /\ future[worker[w].task] = "failed"
  BY <1>1 DEF WorkersHoldSettled, WorkersHold, InPass, TypeOK, ExecutorTypeOK, Monotone
<1>3. PICK i \in DOMAIN consumers :
        /\ consumers[i] = Handler(worker[w].task)
        /\ worker[w].pos > i => ToldBy(worker[w].task) # {}
  BY <1>1, <1>2 DEF ReportsInPass
<1>4. i \in DOMAIN consumers' /\ consumers'[i] = consumers[i]
  BY DEF Monotone
<1> QED
  BY <1>2, <1>3, <1>4, ToldByGrows

\* Every action keeps a worker beyond its own task's handler reporting.
LEMMA PassReportsStep ==
  ASSUME IInv, [Next]_vars
  PROVE  PassReports'
<1>0. /\ Base /\ TypeOK /\ HandlersRegistered /\ WorkersHoldSettled /\ Monotone
      /\ \A w \in Worker : ReportsInPass(w)
  BY MonotoneStep, IInvBase DEF IInv, PassReports, ReportsInPass
<1> USE <1>0 DEF callerVars, outputs
<1>1. SUFFICES \A w \in Worker : ReportsInPass(w)'
  BY DEF PassReports, ReportsInPass
<1>2. CASE UNCHANGED worker
  BY <1>2, ReportsInPassKept
<1>3. CASE UNCHANGED vars
  BY <1>2, <1>3 DEF vars, executorVars
<1>4. CASE OutsideStep
  <2>1. UNCHANGED worker
    BY <1>4 DEF OutsideStep, Set, Start, CallerStep, RegisterAfterExecute, Submit, SubmitTask,
         SubmitRejected, SetHolder, Publish, Cancel, CancelFuture, Shutdown, ShutdownPool,
         ShutdownPoolNow, AddAfterExecuteConsumer, executorVars
  <2> QED
    BY <1>2, <2>1
<1>5. ASSUME NEW w \in Worker, LoopStep(w) PROVE \A v \in Worker : ReportsInPass(v)'
  <2>1. \A v \in Worker \ {w} : worker'[v] = worker[v]
    BY <1>5 DEF LoopStep, WorkerLoop, Take, StartBody, SkipBody, EndBody, BeginAfterExecute, StartPass,
                Comodified, Escaped, EndAfterExecute, TypeOK, ExecutorTypeOK
  <2>2. \A v \in Worker \ {w} : ReportsInPass(v)'
    BY <2>1, ReportsInPassKept
  <2>3. ReportsInPass(w)'
    <3>1. CASE BeginAfterExecute(w)
      <4>1. /\ worker[w].task \in Task /\ future[worker[w].task] # "none"
            /\ worker'[w].task = worker[w].task /\ worker'[w].pos = 1
            /\ UNCHANGED <<consumers, future>>
        BY <3>1 DEF BeginAfterExecute, StartPass, WorkersHoldSettled, WorkersHold, TypeOK, ExecutorTypeOK
      <4>2. worker[w].task \in 1 .. started
        BY <4>1, ExecutorAssumption DEF HandlersRegistered, TasksRegistered, Task, TypeOK
      <4>3. PICK i \in DOMAIN consumers : consumers[i] = Handler(worker[w].task)
        BY <4>2 DEF HandlersRegistered
      <4>4. ~ (1 > i)
        BY <4>3 DEF TypeOK
      <4> QED
        BY <4>1, <4>3, <4>4 DEF ReportsInPass, InPass, Handler
    <3>2. CASE Comodified(w)
      BY <3>2, AfterCallback DEF Comodified, ReportsInPass, InPass
    <3>3. CASE EndAfterExecute(w)
      BY <3>3 DEF EndAfterExecute, ReportsInPass, InPass, Idle, TypeOK, ExecutorTypeOK
    <3>4. CASE Take(w) \/ StartBody(w) \/ SkipBody(w) \/ \E o \in {"ok", "failed"} : EndBody(w, o)
      <4>1. worker'[w].pc \notin {"iterating", "inConsumer"}
        BY <3>4 DEF Take, StartBody, SkipBody, EndBody, TypeOK, ExecutorTypeOK
      <4> QED
        BY <4>1 DEF ReportsInPass, InPass
    <3> QED
      BY <1>5, <3>1, <3>2, <3>3, <3>4 DEF LoopStep, WorkerLoop
  <2> QED
    BY <2>2, <2>3
<1>6. ASSUME NEW w \in Worker, CallbackEffect(w) PROVE \A v \in Worker : ReportsInPass(v)'
  <2>1. CallbackFrame(w) /\ CallbackReportsOwn(w) /\ UNCHANGED <<consumers, future>>
    BY <1>6 DEF CallbackEffect, CallbackFrame
  <2>2. worker[w].task \in Task /\ worker[w].pos \in Nat
    BY <2>1 DEF CallbackFrame, InPass, WorkersHoldSettled, WorkersHold, TypeOK, ExecutorTypeOK
  <2>3. CASE worker' = Escaped(w)
    <3>1. \A v \in Worker \ {w} : worker'[v] = worker[v]
      BY <2>3, AfterCallback
    <3>2. ReportsInPass(w)'
      BY <2>3, AfterCallback DEF ReportsInPass, InPass
    <3> QED
      BY <3>1, <3>2, ReportsInPassKept
  <2>4. CASE worker' = Returned(w)
    <3>1. \A v \in Worker \ {w} : worker'[v] = worker[v]
      BY <2>4, AfterCallback
    <3>2. /\ worker'[w].task = worker[w].task
          /\ worker'[w].pos = worker[w].pos + 1
          /\ worker'[w].thrown = worker[w].thrown
      BY <2>4, AfterCallback
    <3>3. ReportsInPass(w)'
      <4> SUFFICES ASSUME NEW k \in Task, k = worker[w].task, ~ worker[w].thrown, future[k] = "failed"
                   PROVE  \E i \in DOMAIN consumers :
                            /\ consumers[i] = Handler(k)
                            /\ worker[w].pos + 1 > i => ToldBy(k)' # {}
        BY <2>1, <2>2, <3>2 DEF ReportsInPass, ToldBy, Handler
      <4>1. PICK i \in DOMAIN consumers :
              /\ consumers[i] = Handler(k)
              /\ worker[w].pos > i => ToldBy(k) # {}
        BY <2>1 DEF ReportsInPass, CallbackFrame
      <4>2. CASE worker[w].pos = i
        <5>1. \E r \in reports' : r.by = k /\ r.about = k
          BY <2>1, <2>4, <4>1, <4>2 DEF CallbackReportsOwn, Called
        <5>2. ToldBy(k)' # {}
          BY <5>1 DEF ToldBy
        <5> QED
          BY <4>1, <5>2
      <4>3. CASE worker[w].pos # i
        <5>1. i \in Nat /\ (worker[w].pos + 1 > i => worker[w].pos > i)
          BY <2>2, <4>3 DEF TypeOK
        <5> QED
          BY <4>1, <5>1, ToldByGrows
      <4> QED
        BY <4>2, <4>3
    <3> QED
      BY <3>1, <3>3, ReportsInPassKept
  <2>5. CASE worker' = [worker EXCEPT ![w].pc = "inConsumer"]
    <3>1. /\ \A v \in Worker \ {w} : worker'[v] = worker[v]
          /\ worker'[w].task = worker[w].task
          /\ worker'[w].pos = worker[w].pos
          /\ worker'[w].thrown = worker[w].thrown
      BY <2>5 DEF TypeOK, ExecutorTypeOK
    <3>2. ReportsInPass(w)'
      <4> SUFFICES ASSUME NEW k \in Task, k = worker[w].task, ~ worker[w].thrown, future[k] = "failed"
                   PROVE  \E i \in DOMAIN consumers :
                            /\ consumers[i] = Handler(k)
                            /\ worker[w].pos > i => ToldBy(k)' # {}
        BY <2>1, <2>2, <3>1 DEF ReportsInPass, ToldBy, Handler
      <4>1. PICK i \in DOMAIN consumers :
              /\ consumers[i] = Handler(k)
              /\ worker[w].pos > i => ToldBy(k) # {}
        BY <2>1 DEF ReportsInPass, CallbackFrame
      <4> QED
        BY <4>1, ToldByGrows
    <3> QED
      BY <3>1, <3>2, ReportsInPassKept
  <2> QED
    BY <2>1, <2>3, <2>4, <2>5 DEF CallbackFrame
<1>7. ASSUME NEW w \in Worker, Die(w) PROVE \A v \in Worker : ReportsInPass(v)'
  <2>1. /\ \A v \in Worker \ {w} : worker'[v] = worker[v]
        /\ worker'[w].pc = "idle"
    BY <1>7 DEF Die, ReplaceWorker, Idle, TypeOK, ExecutorTypeOK
  <2>2. ReportsInPass(w)'
    BY <2>1 DEF ReportsInPass, InPass
  <2> QED
    BY <2>1, <2>2, ReportsInPassKept
<1> QED
  BY <1>3, <1>4, <1>5, <1>6, <1>7, NextSteps

-------------------------------------------------------------------------------
(* The theorems. *)

\* The inductive invariant holds in every reachable state: outputs are true to
\* the futures, workers hold settled tasks from afterExecute on, and a worker
\* beyond its own task's handler has reported its failure.
THEOREM Invariance == Spec => []IInv
<1>1. Init => IInv
  BY InitIInv
<1>2. IInv /\ [Next]_vars => IInv'
  BY IInvBase, TypeOKStep, HandlersRegisteredStep, WorkersHoldSettledStep, OutputsTrueStep,
     PassReportsStep DEF IInv
<1> QED
  BY <1>1, <1>2, PTL DEF Spec

\* Every variable of the builder and of its executor keeps its type.
THEOREM Typing == Spec => []TypeOK
<1>1. IInv => TypeOK
  BY DEF IInv
<1> QED
  BY <1>1, Invariance, PTL

-------------------------------------------------------------------------------
(* The implementation of TaskOutcome. *)

\* A step that settles nothing and tells nobody is a stutter of TaskOutcome.
LEMMA OutcomeStutter ==
  ASSUME \A t \in Task : IsDone(t)' <=> IsDone(t),
         \A t \in Task : IsDone(t) => future'[t] = future[t],
         Told' = Told
  PROVE  UNCHANGED AbstractOutcome!vars
<1>1. SettledOutcome' = SettledOutcome
  BY DEF SettledOutcome
<1> QED
  BY <1>1 DEF AbstractOutcome!vars

\* A future that gets its outcome is a Settle step.
LEMMA OutcomeSettle ==
  ASSUME TypeOK, NEW t \in Task, NEW o \in Outcome, ~ IsDone(t),
         future' = [future EXCEPT ![t] = o], Told' = Told
  PROVE  AbstractOutcome!Next
<1>1. SettledOutcome[t] = "pending" /\ SettledOutcome' = [SettledOutcome EXCEPT ![t] = o]
  BY DEF SettledOutcome, IsDone, TypeOK, ExecutorTypeOK
<1> QED
  BY <1>1 DEF AbstractOutcome!Next, AbstractOutcome!Settle, AbstractOutcome!Settled, Outcome

\* Told depends on the deliveries and the reports alone.
LEMMA ToldUnchanged ==
  ASSUME UNCHANGED outputs
  PROVE  Told' = Told
BY DEF Told, outputs

\* A callback tells the outcome of one task that has it, or of none.
LEMMA CallbackTells ==
  ASSUME Base, OutputsTrue, NEW w \in Worker, CallbackEffect(w)
  PROVE  \/ Told' = Told
         \/ \E t \in Task : IsDone(t) /\ Told' = Told \cup {<<t, future[t]>>}
<1>1. CallbackOutputs(w) /\ TypeOK /\ OutputsTrue
  BY DEF CallbackEffect, Base
<1>2. ASSUME UNCHANGED delivered, NEW r \in ReportSet, reports' = reports \cup {r},
             r.what \in {"failed", "cancelled"}, future[r.about] = r.what
      PROVE  \E t \in Task : IsDone(t) /\ Told' = Told \cup {<<t, future[t]>>}
  <2>1. Told' = Told \cup {<<r.about, r.what>>}
    BY <1>2 DEF Told
  <2> QED
    BY <1>2, <2>1 DEF ReportSet, IsDone, Outcome
<1>3. ASSUME NEW r \in ReportSet, reports' = reports \cup {r}, r.what \notin {"failed", "cancelled"}
      PROVE  {q \in reports' : q.what \in {"failed", "cancelled"}} =
             {q \in reports : q.what \in {"failed", "cancelled"}}
  BY <1>3
<1>4. ASSUME {q \in reports' : q.what \in {"failed", "cancelled"}} =
             {q \in reports : q.what \in {"failed", "cancelled"}}
      PROVE  \/ Told' = Told
             \/ \E t \in Task : IsDone(t) /\ Told' = Told \cup {<<t, future[t]>>}
  <2>1. CASE UNCHANGED delivered
    BY <1>4, <2>1 DEF Told
  <2>2. CASE /\ threadResult # 0
             /\ delivered' = delivered \cup
                  {[by |-> worker[w].task, about |-> Called(w).start, value |-> threadResult]}
    <3>1. threadResult \in Task /\ future[threadResult] = "ok"
      BY <1>1, <2>2 DEF OutputsTrue, TypeOK
    <3>2. {<<d.value, "ok">> : d \in delivered'} =
          {<<d.value, "ok">> : d \in delivered} \cup {<<threadResult, "ok">>}
      <4> DEFINE new == [by |-> worker[w].task, about |-> Called(w).start, value |-> threadResult]
      <4>1. new.value = threadResult /\ delivered' = delivered \cup {new}
        BY <2>2
      <4> HIDE DEF new
      <4> QED
        BY <4>1
    <3>3. Told' = Told \cup {<<threadResult, "ok">>}
      <4> DEFINE R == {<<r.about, r.what>> : r \in {q \in reports : q.what \in {"failed", "cancelled"}}}
                 D == {<<d.value, "ok">> : d \in delivered}
      <4>1. Told = D \cup R
        BY DEF Told
      <4>2. Told' = (D \cup {<<threadResult, "ok">>}) \cup R
        BY <1>4, <3>2, Zenon DEF Told
      <4> HIDE DEF D, R
      <4> QED
        BY <4>1, <4>2
    <3> QED
      BY <3>1, <3>3 DEF IsDone, Outcome
  <2> QED
    BY <1>1, <2>1, <2>2 DEF CallbackOutputs
<1>5. CASE reports' = reports
  BY <1>4, <1>5
<1>6. CASE \E r \in ReportSet :
             /\ reports' = reports \cup {r}
             /\ r.what \in {"failed", "cancelled"} => future[r.about] = r.what /\ UNCHANGED delivered
  <2>1. PICK r \in ReportSet :
             /\ reports' = reports \cup {r}
             /\ r.what \in {"failed", "cancelled"} => future[r.about] = r.what /\ UNCHANGED delivered
    BY <1>6
  <2>2. CASE r.what \in {"failed", "cancelled"}
    BY <1>2, <2>1, <2>2
  <2>3. CASE r.what \notin {"failed", "cancelled"}
    BY <1>3, <1>4, <2>1, <2>3
  <2> QED
    BY <2>2, <2>3
<1> QED
  BY <1>1, <1>5, <1>6 DEF CallbackOutputs

\* Every step of the builder is a step of TaskOutcome or a stutter.
LEMMA OutcomeStep ==
  ASSUME IInv, [Next]_vars
  PROVE  [AbstractOutcome!Next]_AbstractOutcome!vars
<1>0. Base /\ OutputsTrue /\ TypeOK /\ WorkersHoldSettled
  BY IInvBase DEF IInv
<1>1. CASE UNCHANGED vars
  BY <1>1, OutcomeStutter DEF vars, executorVars, outputs, IsDone, Told
<1>2. CASE OutsideStep
  <2>1. UNCHANGED outputs
    BY <1>2 DEF OutsideStep, Set, Start, CallerStep, RegisterAfterExecute, Submit,
                SubmitRejected, SetHolder, Publish, Cancel, Shutdown
  <2>2. Told' = Told
    BY <2>1, ToldUnchanged
  <2>3. CASE UNCHANGED future
    BY <2>2, <2>3, OutcomeStutter DEF IsDone
  <2>4. CASE Submit
    <3>1. \A t \in Task : /\ IsDone(t)' <=> IsDone(t)
                          /\ IsDone(t) => future'[t] = future[t]
      BY <1>0, <2>4 DEF Submit, SubmitTask, IsDone, Outcome, TypeOK, ExecutorTypeOK
    <3> QED
      BY <2>2, <3>1, OutcomeStutter
  <2>5. ASSUME NEW t \in Task, Cancel(t) PROVE AbstractOutcome!Next
    BY <1>0, <2>2, <2>5, OutcomeSettle DEF Cancel, CancelFuture, IsDone, Outcome
  <2> QED
    BY <1>2, <2>3, <2>4, <2>5
    DEF OutsideStep, Set, Start, CallerStep, RegisterAfterExecute, SubmitRejected, SetHolder,
        Publish, Shutdown, ShutdownPool, ShutdownPoolNow, AddAfterExecuteConsumer, executorVars
<1>3. ASSUME NEW w \in Worker, LoopStep(w)
      PROVE  [AbstractOutcome!Next]_AbstractOutcome!vars
  <2>1. Told' = Told
    BY <1>3, ToldUnchanged DEF LoopStep
  <2>2. CASE UNCHANGED future
    BY <2>1, <2>2, OutcomeStutter DEF IsDone
  <2>3. ASSUME NEW t \in Task, NEW o \in Outcome, future[t] = "new",
               future' = [future EXCEPT ![t] = o]
        PROVE  AbstractOutcome!Next
    BY <1>0, <2>1, <2>3, OutcomeSettle DEF IsDone, Outcome
  <2>4. CASE SkipBody(w)
    <3>1. worker[w].task \in Task
      BY <1>0, <2>4 DEF SkipBody, WorkersHoldSettled, WorkersHold, TypeOK, ExecutorTypeOK
    <3> QED
      BY <2>2, <2>3, <2>4, <3>1 DEF SkipBody, Outcome
  <2>5. ASSUME NEW o \in {"ok", "failed"}, EndBody(w, o)
        PROVE  [AbstractOutcome!Next]_AbstractOutcome!vars
    <3>1. worker[w].task \in Task
      BY <1>0, <2>5 DEF EndBody, WorkersHoldSettled, WorkersHold, TypeOK, ExecutorTypeOK
    <3>2. CASE future[worker[w].task] = "new"
      <4>1. future' = [future EXCEPT ![worker[w].task] = o]
        BY <1>0, <2>5, <3>1, <3>2 DEF EndBody, TypeOK, ExecutorTypeOK
      <4> QED
        BY <2>3, <3>1, <3>2, <4>1 DEF Outcome
    <3>3. CASE future[worker[w].task] # "new"
      <4>1. UNCHANGED future
        BY <1>0, <2>5, <3>1, <3>3 DEF EndBody, TypeOK, ExecutorTypeOK
      <4> QED
        BY <2>2, <4>1
    <3> QED
      BY <3>2, <3>3
  <2> QED
    BY <1>3, <2>2, <2>4, <2>5
    DEF LoopStep, WorkerLoop, Take, StartBody, BeginAfterExecute, Comodified, EndAfterExecute
<1>4. ASSUME NEW w \in Worker, CallbackEffect(w)
      PROVE  [AbstractOutcome!Next]_AbstractOutcome!vars
  <2>1. UNCHANGED future
    BY <1>4 DEF CallbackEffect, CallbackFrame
  <2>2. SettledOutcome' = SettledOutcome
    BY <2>1 DEF SettledOutcome, IsDone
  <2>3. CASE Told' = Told
    BY <2>2, <2>3 DEF AbstractOutcome!vars
  <2>4. ASSUME NEW t \in Task, IsDone(t), Told' = Told \cup {<<t, future[t]>>}
        PROVE  AbstractOutcome!Next
    <3>1. SettledOutcome[t] = future[t] /\ future[t] # "pending"
      BY <2>4 DEF SettledOutcome, IsDone, Outcome
    <3> QED
      BY <2>2, <2>4, <3>1 DEF AbstractOutcome!Next, AbstractOutcome!Tell
  <2> QED
    BY <1>0, <1>4, <2>3, <2>4, CallbackTells
<1>5. ASSUME NEW w \in Worker, Die(w) PROVE UNCHANGED AbstractOutcome!vars
  <2>1. UNCHANGED <<future, delivered>>
    BY <1>5 DEF Die, ReplaceWorker
  <2>2. {q \in reports' : q.what \in {"failed", "cancelled"}} =
        {q \in reports : q.what \in {"failed", "cancelled"}}
    BY <1>5 DEF Die
  <2>3. Told' = Told
    BY <2>1, <2>2 DEF Told
  <2> QED
    BY <2>1, <2>3, OutcomeStutter DEF IsDone
<1> QED
  BY <1>0, <1>1, <1>2, <1>3, <1>4, <1>5, NextSteps

\* The builder implements TaskOutcome: whatever the schedule, a task settles at
\* most once and every outcome a callback is told is that of a settled task.
THEOREM Refinement == Spec => ToldOutcomesAreSettled
<1>1. Init => AbstractOutcome!Init
  BY DEF Init, ExecutorInit, AbstractOutcome!Init, SettledOutcome, Told, IsDone, Outcome
<1>2. IInv /\ [Next]_vars => [AbstractOutcome!Next]_AbstractOutcome!vars
  BY OutcomeStep
<1> QED
  BY <1>1, <1>2, Invariance, PTL DEF Spec, ToldOutcomesAreSettled, AbstractOutcome!Spec

-------------------------------------------------------------------------------
(* A pool of one thread. *)

\* While a result consumer is called the field still holds that handler's value.
OwnResult(w) == worker[w].pc = "inConsumer" => threadResult = Called(w).start

SingleInv == AppliesOwnResult /\ \A w \in Worker : OwnResult(w)

\* With one worker, nothing comes between storing a result and consuming it.
LEMMA SingleStep ==
  ASSUME NEW u, Worker = {u}, IInv, SingleInv, [Next]_vars
  PROVE  SingleInv'
<1>0. /\ Base /\ TypeOK /\ WorkersHoldSettled /\ Monotone
      /\ u \in Worker /\ OwnResult(u) /\ AppliesOwnResult
  BY MonotoneStep, IInvBase DEF IInv, SingleInv
<1> USE <1>0 DEF callerVars, outputs
<1>1. SUFFICES OwnResult(u)' /\ AppliesOwnResult'
  BY DEF SingleInv, OwnResult, Called
<1>2. ASSUME UNCHANGED <<worker, threadResult, delivered>> PROVE OwnResult(u)' /\ AppliesOwnResult'
  <2>1. AppliesOwnResult'
    BY <1>2 DEF AppliesOwnResult
  <2>2. CASE worker[u].pc = "inConsumer"
    <3>1. worker[u].pos \in DOMAIN consumers
      BY <2>2 DEF WorkersHoldSettled, WorkersHold, InPass, TypeOK, ExecutorTypeOK
    <3>2. Called(u)' = Called(u)
      BY <1>2, <3>1 DEF Called, Monotone
    <3> QED
      BY <1>2, <2>1, <3>2 DEF OwnResult
  <2>3. CASE worker[u].pc # "inConsumer"
    BY <1>2, <2>1, <2>3 DEF OwnResult
  <2> QED
    BY <2>2, <2>3
<1>3. CASE UNCHANGED vars
  BY <1>2, <1>3 DEF vars, executorVars
<1>4. CASE OutsideStep
  <2>1. UNCHANGED <<worker, threadResult, delivered>>
    BY <1>4 DEF OutsideStep, Set, Start, CallerStep, RegisterAfterExecute, Submit, SubmitTask,
         SubmitRejected, SetHolder, Publish, Cancel, CancelFuture, Shutdown, ShutdownPool,
         ShutdownPoolNow, AddAfterExecuteConsumer, executorVars
  <2> QED
    BY <1>2, <2>1
<1>5. ASSUME worker'[u].pc # "inConsumer", UNCHANGED delivered
      PROVE  OwnResult(u)' /\ AppliesOwnResult'
  BY <1>5 DEF OwnResult, AppliesOwnResult
<1>6. CASE LoopStep(u)
  <2>1. CASE Comodified(u)
    BY <1>5, <1>6, <2>1, AfterCallback DEF LoopStep, Comodified, outputs
  <2>2. CASE ~ Comodified(u)
    <3>1. worker'[u].pc # "inConsumer"
      BY <1>6, <2>2 DEF LoopStep, WorkerLoop, Take, StartBody, SkipBody, EndBody, BeginAfterExecute,
           StartPass, EndAfterExecute, Idle, TypeOK, ExecutorTypeOK
    <3> QED
      BY <1>5, <1>6, <3>1 DEF LoopStep
  <2> QED
    BY <2>1, <2>2
<1>7. CASE CallbackEffect(u)
  <2>1. CallbackFrame(u) /\ CallbackOutputs(u) /\ UNCHANGED consumers
    BY <1>7 DEF CallbackEffect, CallbackFrame
  <2>2. AppliesOwnResult'
    BY <2>1 DEF CallbackOutputs, OwnResult, AppliesOwnResult
  <2>3. CASE worker' \in {Returned(u), Escaped(u)}
    <3>1. worker'[u].pc # "inConsumer"
      BY <2>3, AfterCallback
    <3> QED
      BY <2>2, <3>1 DEF OwnResult
  <2>4. CASE worker' = [worker EXCEPT ![u].pc = "inConsumer"] /\ threadResult' = Called(u).start
    <3>1. worker'[u].pos = worker[u].pos
      BY <2>4 DEF TypeOK, ExecutorTypeOK
    <3> QED
      BY <2>1, <2>2, <2>4, <3>1 DEF OwnResult, Called
  <2> QED
    BY <2>1, <2>3, <2>4 DEF CallbackFrame
<1>8. CASE Die(u)
  BY <1>5, <1>8 DEF Die, ReplaceWorker, Idle, TypeOK, ExecutorTypeOK
<1> QED
  BY <1>3, <1>4, <1>6, <1>7, <1>8, NextSteps

\* With one pool thread, the default, the result consumer that consumesFuture
\* calls for a task gets the result of that task; with two it may not.
THEOREM SingleWorkerAppliesOwnResult ==
  ASSUME NEW u, Worker = {u}
  PROVE  Spec => []AppliesOwnResult
<1>1. Init => SingleInv
  BY DEF Init, ExecutorInit, Idle, SingleInv, AppliesOwnResult, OwnResult
<1>2. IInv /\ SingleInv /\ [Next]_vars => SingleInv'
  BY SingleStep
<1>3. SingleInv => AppliesOwnResult
  BY DEF SingleInv
<1> QED
  BY <1>1, <1>2, <1>3, Invariance, PTL DEF Spec
-------------------------------------------------------------------------------
(* Spurious exceptions.  Nothing is needed of the pool but that it makes no  *)
(* task exist; what is needed is where the caller is.                        *)

\* A task exists before its holder is filled, and before the executor result is
\* there, only while its start is under way.
MidStart ==
  \A t \in Task : future[t] # "none" =>
    /\ t \in holder \/ (t = started /\ callerPc = "submitted")
    /\ executorResult \/ callerPc \in {"submitted", "holderSet"}

\* The pool, the callbacks and whoever has the executor result make no task.
LEMMA NoTaskMade ==
  ASSUME TypeOK, NEW t \in Task,
         \/ \E u \in Task : Cancel(u)
         \/ Shutdown
         \/ \E w \in Worker : WorkerStep(w)
  PROVE  /\ UNCHANGED callerVars
         /\ future'[t] # "none" => future[t] # "none"
<1> USE DEF callerVars
<1>0. t \in DOMAIN future
  BY DEF TypeOK, ExecutorTypeOK
<1>1. ASSUME NEW u \in Task, Cancel(u)
      PROVE  /\ UNCHANGED callerVars
             /\ future'[t] # "none" => future[t] # "none"
  BY <1>0, <1>1 DEF Cancel, CancelFuture
<1>2. CASE Shutdown
  BY <1>2 DEF Shutdown, ShutdownPool, ShutdownPoolNow
<1>3. ASSUME NEW w \in Worker, WorkerLoop(w), UNCHANGED callerVars
      PROVE  /\ UNCHANGED callerVars
             /\ future'[t] # "none" => future[t] # "none"
  <2>1. CASE SkipBody(w)
    BY <1>0, <1>3, <2>1 DEF SkipBody
  <2>2. ASSUME NEW outcome \in {"ok", "failed"}, EndBody(w, outcome)
        PROVE  future'[t] # "none" => future[t] # "none"
    BY <1>0, <2>2 DEF EndBody
  <2>3. CASE ~ SkipBody(w) /\ ~ \E outcome \in {"ok", "failed"} : EndBody(w, outcome)
    BY <1>3, <2>3 DEF LoopStep, WorkerLoop, Take, StartBody, BeginAfterExecute, Comodified, EndAfterExecute
  <2> QED
    BY <1>3, <2>1, <2>2, <2>3
<1>4. ASSUME NEW w \in Worker,
             \/ \E k \in Task : HandleCall(w, k)
             \/ CallUserConsumer(w)
             \/ Die(w)
      PROVE  UNCHANGED future /\ UNCHANGED callerVars
  BY <1>4 DEF HandleCall, HandlePending, HandleEmptyHolder, HandleException, HandleRunnable,
              HandleNoExecutorResult, SetThreadResult, ConsumeThreadResult, HandleCompletion,
              HandlerRuns, CallUserConsumer, Die, ReplaceWorker
<1> QED
  BY <1>1, <1>2, <1>3, <1>4 DEF WorkerStep

\* Every step of the caller leaves it where MidStart has it.
LEMMA MidStartStep ==
  ASSUME TypeOK, MidStart, [Next]_vars
  PROVE  MidStart'
<1> USE DEF callerVars, executorVars, MidStart
<1>1. CASE UNCHANGED vars
  BY <1>1 DEF vars
<1>2. ASSUME NEW field \in Setter, NEW value \in BOOLEAN, Set(field, value)
      PROVE  MidStart'
  BY <1>2 DEF Set
<1>3. CASE Start
  BY <1>3 DEF Start, AddAfterExecuteConsumer
<1>4. CASE RegisterAfterExecute
  BY <1>4 DEF RegisterAfterExecute, AddAfterExecuteConsumer
<1>5. CASE Submit
  <2>1. \A t \in Task : future'[t] # "none" => future[t] # "none" \/ t = started
    BY <1>5 DEF Submit, SubmitTask
  <2> QED
    BY <1>5, <2>1 DEF Submit
<1>6. CASE SubmitRejected
  BY <1>6 DEF SubmitRejected
<1>7. CASE SetHolder
  BY <1>7 DEF SetHolder
<1>8. CASE Publish
  BY <1>8 DEF Publish
<1>9. CASE \/ \E t \in Task : Cancel(t)
           \/ Shutdown
           \/ \E w \in Worker : WorkerStep(w)
  BY <1>9, NoTaskMade
<1> QED
  BY <1>1, <1>2, <1>3, <1>4, <1>5, <1>6, <1>7, <1>8, <1>9 DEF Next, CallerStep, Terminated

\* A NullPointerException out of the handlers' own code is reported only while a
\* start is under way, or about a start that was rejected: for any number of
\* threads and starts.
THEOREM SpuriousReports == Spec => SpuriousOnlyMidStart
<1>1. Init => MidStart
  BY DEF Init, ExecutorInit, MidStart
<1>2. MidStart /\ [Next]_vars =>
        [\A r \in reports' \ reports :
           r.what = "null" => callerPc # "idle" \/ future[r.about] = "none"]_vars
  <2> SUFFICES ASSUME MidStart, Next, NEW r \in reports' \ reports, r.what = "null", callerPc = "idle"
               PROVE  future[r.about] = "none"
    OBVIOUS
  <2>1. PICK w \in Worker : \/ \E k \in Task : HandleCall(w, k)
                            \/ Die(w)
    BY DEF Next, Set, Start, CallerStep, RegisterAfterExecute, Submit, SubmitRejected, SetHolder,
           Publish, Cancel, Shutdown, WorkerStep, CallUserConsumer, Terminated, outputs, vars
  <2>2. ~ Die(w)
    BY DEF Die
  <2>3. PICK k \in Task : HandleCall(w, k)
    BY <2>1, <2>2
  <2>a. ASSUME NEW what, Report(w, k, what)
        PROVE  r.about = k /\ r.what = what
    BY <2>a DEF Report
  <2>4. CASE HandleEmptyHolder(w, k)
    BY <2>4, <2>a DEF HandleEmptyHolder, MidStart
  <2>5. CASE HandleNoExecutorResult(w, k)
    BY <2>5 DEF HandleNoExecutorResult, HandleCompletion, MidStart
  <2>6. CASE HandleException(w, k)
    BY <2>6, <2>a DEF HandleException
  <2>7. CASE ConsumeThreadResult(w, k)
    BY <2>7, <2>a DEF ConsumeThreadResult, outputs
  <2>8. CASE HandlePending(w, k) \/ HandleRunnable(w, k) \/ SetThreadResult(w, k)
    BY <2>8 DEF HandlePending, HandleRunnable, SetThreadResult, outputs
  <2> QED
    BY <2>3, <2>4, <2>5, <2>6, <2>7, <2>8 DEF HandleCall
<1> QED
  BY <1>1, <1>2, MidStartStep, Typing, PTL DEF Spec, SpuriousOnlyMidStart
===============================================================================
