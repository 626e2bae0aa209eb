------------------------- MODULE AbstractThreadBuilder -------------------------
(***************************************************************************)
(* builder/AbstractThreadBuilder with its Common(Runnable|Callable)        *)
(* subclasses: one caller configures the builder and starts task after     *)
(* task on it, the pool's threads run them, and after each task the        *)
(* worker calls the consumers that runThread registered: for every start   *)
(* the handler of handleException, then the user's afterExecuteConsumer.   *)
(*                                                                         *)
(* The fields of the builder, the Holder and the ExecutorResult are plain  *)
(* fields that several threads use.  Each read and each write is an action *)
(* of its own where another thread can tell; the memory is sequentially    *)
(* consistent.                                                             *)
(***************************************************************************)
EXTENDS ScheduledThreadBuilderExecutor

CONSTANTS Configurations,  \* the builders, as configured before the first start
          MaxReconfigs,    \* bound: setter calls after the first start
          CallbackErrors   \* may the user's callbacks throw an Error?

ExecutionType == {"CALLABLE", "RUNNABLE"}

\* TRUE: the field holds a value (a consumer, an execution, a raised flag).
Setter == {"execution", "afterExecuteConsumer", "uncaughtExceptionConsumer",
           "threadResultConsumer", "silentInterruption"}

Builder == [executionType : ExecutionType, execution : BOOLEAN,
            afterExecuteConsumer : BOOLEAN, uncaughtExceptionConsumer : BOOLEAN,
            threadResultConsumer : BOOLEAN, silentInterruption : BOOLEAN]

ASSUME BuilderAssumption ==
  /\ Configurations \subseteq Builder
  /\ MaxReconfigs \in Nat
  /\ CallbackErrors \in BOOLEAN

VARIABLES builder,         \* the configuration fields
          reconfigs,       \* setter calls so far (counted for MaxReconfigs)
          started,         \* start() calls so far; the current one while in it
          callerPc,        \* where the caller is inside runThread
          factory,         \* the executor's thread factory, once there is one
          holder,          \* tasks whose futureHolder is set
          executorResult,  \* executorResult # null
          futures,         \* executorResult.getFutures()
          threadResult,    \* executorResult's result: the task it came from, or 0
          delivered,       \* calls of the result consumer
          reports          \* exceptions handed to a consumer or to a logger

callerVars == <<builder, reconfigs, started, callerPc, factory, holder, executorResult, futures>>
outputs == <<delivered, reports>>
vars == <<executorVars, callerVars, threadResult, outputs>>

Consumer == [kind : {"handler", "user"}, start : Task]

Cause == {"failed", "cancelled", "null", "callback", "death"}

TypeOK ==
  /\ ExecutorTypeOK
  /\ consumers \in Seq(Consumer)
  /\ builder \in Builder
  /\ reconfigs \in 0 .. MaxReconfigs
  /\ started \in 0 .. MaxSubmissions
  /\ callerPc \in {"idle", "firstAdded", "registered", "submitted", "holderSet"}
  /\ factory \in {"none", "default", "consumer"}
  /\ holder \subseteq Task
  /\ executorResult \in BOOLEAN
  /\ futures \subseteq Task
  /\ threadResult \in Task \cup {0}
  /\ delivered \subseteq [by : Task, about : Task, value : Task \cup {0}]
  /\ reports \subseteq [by : Task, about : Task, what : Cause, to : {"consumer", "logger"}]

Init ==
  /\ ExecutorInit
  /\ builder \in Configurations
  /\ reconfigs = 0
  /\ started = 0
  /\ callerPc = "idle"
  /\ factory = "none"
  /\ holder = {}
  /\ executorResult = FALSE
  /\ futures = {}
  /\ threadResult = 0
  /\ delivered = {}
  /\ reports = {}

-------------------------------------------------------------------------------
(* The caller's thread. *)

\* A setter between two starts.  setExecution(null) stores the null and then
\* throws; the other setters accept null.
Set(field, value) ==
  /\ callerPc = "idle"
  /\ started > 0
  /\ reconfigs < MaxReconfigs
  /\ builder[field] # value
  /\ builder' = [builder EXCEPT ![field] = value]
  /\ reconfigs' = reconfigs + 1
  /\ UNCHANGED <<executorVars, started, callerPc, factory, holder, executorResult,
                 futures, threadResult, outputs>>

ThreadFactoryWithoutHandler == "default"

\* getThreadFactory: the handler of uncaught throwables is fixed here, once.
ThreadFactory == IF builder.uncaughtExceptionConsumer THEN "consumer" ELSE "default"

HandlerOfPrevious(k) == [kind |-> "handler", start |-> k - 1]

Handler(k) == [kind |-> "handler", start |-> k]
UserConsumer(k) == [kind |-> "user", start |-> k]

\* start(), down to the registration of handleException with an empty holder.
\* Without an execution it throws before any effect.
Start ==
  /\ callerPc = "idle"
  /\ started < MaxSubmissions
  /\ builder.execution
  /\ factory' = IF factory = "none" THEN ThreadFactory ELSE factory
  /\ started' = started + 1
  /\ AddAfterExecuteConsumer(Handler(started + 1))
  /\ callerPc' = "firstAdded"
  /\ UNCHANGED <<builder, reconfigs, holder, executorResult, futures, threadResult, outputs>>

RegisterAfterExecute ==
  /\ callerPc = "firstAdded"
  /\ IF builder.afterExecuteConsumer
     THEN AddAfterExecuteConsumer(UserConsumer(started))
     ELSE UNCHANGED executorVars
  /\ callerPc' = "registered"
  /\ UNCHANGED <<builder, reconfigs, started, factory, holder, executorResult, futures,
                 threadResult, outputs>>

Submit ==
  /\ callerPc = "registered"
  /\ SubmitTask(started)
  /\ callerPc' = "submitted"
  /\ UNCHANGED <<builder, reconfigs, started, factory, holder, executorResult, futures,
                 threadResult, outputs>>

\* RejectedExecutionException leaves start(); what was registered stays.
SubmitRejected ==
  /\ callerPc = "registered"
  /\ pool # "running"
  /\ callerPc' = "idle"
  /\ UNCHANGED <<executorVars, builder, reconfigs, started, factory, holder, executorResult,
                 futures, threadResult, outputs>>

SetHolderForgotten ==
  /\ callerPc = "submitted"
  /\ callerPc' = "holderSet"
  /\ UNCHANGED <<executorVars, builder, reconfigs, started, factory, holder, executorResult,
                 futures, threadResult, outputs>>

SetHolder ==
  /\ callerPc = "submitted"
  /\ holder' = holder \cup {started}
  /\ callerPc' = "holderSet"
  /\ UNCHANGED <<executorVars, builder, reconfigs, started, factory, executorResult, futures,
                 threadResult, outputs>>

\* newExecutorResultIfNull, then the future is published in it.
Publish ==
  /\ callerPc = "holderSet"
  /\ executorResult' = TRUE
  /\ futures' = futures \cup {started}
  /\ callerPc' = "idle"
  /\ UNCHANGED <<executorVars, builder, reconfigs, started, factory, holder,
                 threadResult, outputs>>

-------------------------------------------------------------------------------
(* Whoever was given the ExecutorResult. *)

Cancel(t) ==
  /\ t \in futures
  /\ CancelFuture(t)
  /\ UNCHANGED <<callerVars, threadResult, outputs>>

Shutdown ==
  /\ executorResult
  /\ ShutdownPool \/ ShutdownPoolNow
  /\ UNCHANGED <<callerVars, threadResult, outputs>>

-------------------------------------------------------------------------------
(* The consumers, called by a worker from afterExecute. *)

\* An exception goes to uncaughtExceptionConsumer, read now, or to the logger.
ReportedTo(what) ==
  IF /\ builder.uncaughtExceptionConsumer
     /\ ~ (builder.silentInterruption /\ what = "cancelled")
  THEN "consumer" ELSE "logger"

\* An Error of that consumer leaves the handler and afterExecute.
Report(w, k, what) ==
  /\ reports' = reports \cup
       {[by |-> worker[w].task, about |-> k, what |-> what, to |-> ReportedTo(what)]}
  /\ \/ worker' = Returned(w)
     \/ CallbackErrors /\ ReportedTo(what) = "consumer" /\ worker' = Escaped(w)

HandlerRuns(w, k) ==
  /\ Calling(w)
  /\ Called(w) = Handler(k)
  /\ UNCHANGED <<consumers, queue, pool, future, callerVars>>

HandlePendingByWaiting(w, k) ==
  /\ HandlerRuns(w, k)
  /\ worker[w].thrown
  /\ worker' = Returned(w)
  /\ UNCHANGED <<threadResult, outputs>>

\* Nothing to do in a second pass, nor while the future is not done.
HandlePending(w, k) ==
  /\ HandlerRuns(w, k)
  /\ worker[w].thrown \/ (k \in holder /\ ~ IsDone(k))
  /\ worker' = Returned(w)
  /\ UNCHANGED <<threadResult, outputs>>

HandleEmptyHolderQuietly(w, k) ==
  /\ HandlerRuns(w, k)
  /\ ~ worker[w].thrown
  /\ k \notin holder
  /\ worker' = Returned(w)
  /\ UNCHANGED <<threadResult, outputs>>

\* future.isDone() on an empty holder: the NullPointerException is reported.
HandleEmptyHolder(w, k) ==
  /\ HandlerRuns(w, k)
  /\ ~ worker[w].thrown
  /\ k \notin holder
  /\ Report(w, k, "null")
  /\ UNCHANGED <<threadResult, delivered>>

\* future.get() throws an ExecutionException or a CancellationException.
HandleException(w, k) ==
  /\ HandlerRuns(w, k)
  /\ ~ worker[w].thrown
  /\ k \in holder
  /\ future[k] \in {"failed", "cancelled"}
  /\ Report(w, k, future[k])
  /\ UNCHANGED <<threadResult, delivered>>

HandleCompletion(w, k) ==
  /\ HandlerRuns(w, k)
  /\ ~ worker[w].thrown
  /\ k \in holder
  /\ future[k] = "ok"

HandleRunnable(w, k) ==
  /\ HandleCompletion(w, k)
  /\ builder.executionType = "RUNNABLE"
  /\ worker' = Returned(w)
  /\ UNCHANGED <<threadResult, outputs>>

HandleNoExecutorResultQuietly(w, k) ==
  /\ HandleCompletion(w, k)
  /\ builder.executionType = "CALLABLE"
  /\ ~ executorResult
  /\ worker' = Returned(w)
  /\ UNCHANGED <<threadResult, outputs>>

\* executorResult is still null: again a NullPointerException is reported.
HandleNoExecutorResult(w, k) ==
  /\ HandleCompletion(w, k)
  /\ builder.executionType = "CALLABLE"
  /\ ~ executorResult
  /\ Report(w, k, "null")
  /\ UNCHANGED <<threadResult, delivered>>

SetThreadResultOnce(w, k) ==
  /\ HandleCompletion(w, k)
  /\ builder.executionType = "CALLABLE"
  /\ executorResult
  /\ threadResult' = IF threadResult = 0 THEN k ELSE threadResult
  /\ worker' = [worker EXCEPT ![w].pc = "inConsumer"]
  /\ UNCHANGED outputs

SetThreadResultLater(w, k) ==
  /\ HandleCompletion(w, k)
  /\ builder.executionType = "CALLABLE"
  /\ executorResult
  /\ worker' = [worker EXCEPT ![w].pc = "inConsumer"]
  /\ UNCHANGED <<threadResult, outputs>>

SetThreadResult(w, k) ==
  /\ HandleCompletion(w, k)
  /\ builder.executionType = "CALLABLE"
  /\ executorResult
  /\ threadResult' = k
  /\ worker' = [worker EXCEPT ![w].pc = "inConsumer"]
  /\ UNCHANGED outputs

\* The result consumer, if there is one now, gets what the field holds now.
\* An exception it throws is reported, an Error escapes.
ConsumeThreadResult(w, k) ==
  /\ worker[w].pc = "inConsumer"
  /\ Called(w) = Handler(k)
  /\ IF builder.threadResultConsumer
     THEN /\ delivered' = delivered \cup
               {[by |-> worker[w].task, about |-> k, value |-> threadResult]}
          /\ \/ worker' = Returned(w) /\ UNCHANGED reports
             \/ Report(w, k, "callback")
             \/ CallbackErrors /\ worker' = Escaped(w) /\ UNCHANGED reports
     ELSE worker' = Returned(w) /\ UNCHANGED outputs
  /\ UNCHANGED <<consumers, queue, pool, future, callerVars, threadResult>>

HandleCall(w, k) ==
  \/ HandlePending(w, k)
  \/ HandleEmptyHolder(w, k)
  \/ HandleException(w, k)
  \/ HandleRunnable(w, k)
  \/ HandleNoExecutorResult(w, k)
  \/ SetThreadResult(w, k)
  \/ ConsumeThreadResult(w, k)

CallUserConsumer(w) ==
  /\ Calling(w)
  /\ Called(w).kind = "user"
  /\ \/ worker' = Returned(w)
     \/ CallbackErrors /\ worker' = Escaped(w)
  /\ UNCHANGED <<consumers, queue, pool, future, callerVars, threadResult, outputs>>

\* The throwable that ends the thread goes where the factory said at its creation.
Die(w) ==
  /\ ReplaceWorker(w)
  /\ reports' = reports \cup
       {[by |-> worker[w].task, about |-> worker[w].task, what |-> "death",
         to |-> IF factory = "consumer" THEN "consumer" ELSE "logger"]}
  /\ UNCHANGED <<callerVars, threadResult, delivered>>

-------------------------------------------------------------------------------
Quiescent ==
  /\ callerPc = "idle"
  /\ queue = <<>>
  /\ \A w \in Worker : worker[w].pc = "idle"

\* The caller has no more starts to make and every thread is idle.
Terminated == Quiescent /\ UNCHANGED vars

CallerStep == RegisterAfterExecute \/ Submit \/ SubmitRejected \/ SetHolder \/ Publish

WorkerStep(w) ==
  \/ WorkerLoop(w) /\ UNCHANGED <<callerVars, threadResult, outputs>>
  \/ \E k \in Task : HandleCall(w, k)
  \/ CallUserConsumer(w)
  \/ Die(w)

Next ==
  \/ \E field \in Setter, value \in BOOLEAN : Set(field, value)
  \/ Start
  \/ CallerStep
  \/ \E t \in Task : Cancel(t)
  \/ Shutdown
  \/ \E w \in Worker : WorkerStep(w)
  \/ Terminated

Spec == Init /\ [][Next]_vars

\* Threads are scheduled, bodies and callbacks end, and a start() that was
\* entered is carried on; nobody has to start, cancel or shut down anything.
FairSpec == Spec /\ WF_vars(CallerStep) /\ \A w \in Worker : WF_vars(WorkerStep(w))
-------------------------------------------------------------------------------
(* Properties. *)

\* The worker that ran t has left afterExecute (or died of it).
Released(t) == \A w \in Worker : ~ Holds(w, t)

ToldBy(t) == {r \in reports : r.by = t /\ (r.about = t \/ r.what = "death")}

\* No failure is lost: when the worker is through with a task that failed, an
\* exception was reported for it from its own pass (the ExecutionException, or
\* the NullPointerException of an empty holder), or the worker's death was.
NoSilentFailure ==
  \A t \in Task : future[t] = "failed" /\ Released(t) => ToldBy(t) # {}

\* While uncaughtExceptionConsumer was configured all along, one of these
\* reports went to it and not only to a logger.
FailureReachesConsumer ==
  builder.uncaughtExceptionConsumer /\ reconfigs = 0 =>
    \A t \in Task : future[t] = "failed" /\ Released(t) =>
      \E r \in ToldBy(t) : r.to = "consumer"

\* No result is lost silently: once the worker is through with a callable that
\* returned, its handler called the result consumer (configured all along) for
\* it, or an exception says why not.
NoSilentResult ==
  builder.executionType = "CALLABLE" /\ builder.threadResultConsumer /\ reconfigs = 0 =>
    \A t \in Task : future[t] = "ok" /\ Released(t) =>
      \/ \E d \in delivered : d.by = t /\ d.about = t
      \/ ToldBy(t) # {}

\* getThreadResult() ends up with the value of the latest start whose callable
\* returned, whatever the order the workers finished in, unless an exception
\* was reported that says a handler was cut short.
LatestResult ==
  /\ builder.executionType = "CALLABLE"
  /\ Quiescent
  /\ \A r \in reports : r.what \notin {"null", "death"}
  => \A t \in Task : future[t] = "ok" => threadResult >= t

\* The exception consumer is "a first after-executes consumer" among those of one
\* start: when a worker is about to call the user's consumer that was registered
\* by the start of the task it has just run, the task's failure has already been
\* reported.  (Other starts' consumers may come before, see the next property.)
ReportBeforeUserConsumer ==
  \A w \in Worker :
    LET t == worker[w].task
    IN  Calling(w) /\ ~ worker[w].thrown /\ Called(w) = UserConsumer(t) /\ future[t] = "failed"
          => \E r \in reports : r.by = t /\ r.about = t

\* setUncaughtExceptionConsumer: "This consumer will be called as a first
\* after-executes consumer", before the user's consumers of whatever start.  (See
\* the README: the list is that of all starts, so those of earlier starts precede.)
ReportBeforeEveryUserConsumer ==
  \A w \in Worker :
    LET t == worker[w].task
    IN  Calling(w) /\ ~ worker[w].thrown /\ Called(w).kind = "user" /\ future[t] = "failed"
          => \E r \in reports : r.by = t /\ r.about = t

\* Between two starts every handler finds its holder and the executor result:
\* a NullPointerException is reported only while a start is under way, or about
\* a start whose submission was rejected.
SpuriousOnlyMidStart ==
  [][\A r \in reports' \ reports :
       r.what = "null" => callerPc # "idle" \/ future[r.about] = "none"]_vars

\* What a task has settled on, and what the callbacks were told of it.
SettledOutcome == [t \in Task |-> IF IsDone(t) THEN future[t] ELSE "pending"]

Told == {<<d.value, "ok">> : d \in delivered} \cup
        {<<r.about, r.what>> : r \in {q \in reports : q.what \in {"failed", "cancelled"}}}

AbstractOutcome == INSTANCE TaskOutcome WITH outcome <- SettledOutcome, told <- Told

\* The abstract specification is implemented: a started task settles once, and
\* consumers and loggers are only told outcomes that tasks really settled on.
ToldOutcomesAreSettled == AbstractOutcome!Spec

\* Every submitted task is settled and its worker gets through afterExecute,
\* unless shutdownNow drained it: no consumer waits for a task that is queued
\* behind the one being reported.
TasksProcessed ==
  \A t \in Task :
    future[t] = "new" ~> \/ IsDone(t) /\ Released(t)
                         \/ pool = "stop" /\ Released(t)

\* handleException: "if the thread has not been canceled and there are no
\* exceptions, and if there is a consumer for the thread's result, it will be
\* executed."  (See the README: the code does not keep this.)
ResultConsumerExecuted ==
  builder.executionType = "CALLABLE" /\ builder.threadResultConsumer /\ reconfigs = 0 =>
    \A t \in Task : future[t] = "ok" /\ Released(t) => \E d \in delivered : d.about = t

\* consumesFuture: it "stores the thread result ... and applies this result to
\* the respective consumer."  (See the README: the code does not keep this.)
AppliesOwnResult == \A d \in delivered : d.value = d.about
-------------------------------------------------------------------------------
(* The inductive invariant behind the theorems of AbstractThreadBuilderProofs. *)

\* Only started tasks exist, and their handlers are in the list.
TasksRegistered ==
  /\ callerPc # "idle" => started > 0
  /\ \A t \in Task : future[t] # "none" =>
       t <= started /\ \E i \in DOMAIN consumers : consumers[i] = Handler(t)
  /\ \A i \in DOMAIN queue : future[queue[i]] # "none"

\* Every start left its handler in the list, whatever became of its task.
HandlersRegistered ==
  /\ TasksRegistered
  /\ \A t \in 1 .. started : \E i \in DOMAIN consumers : consumers[i] = Handler(t)

InPass(w) == worker[w].pc \in {"iterating", "inConsumer"}

\* A worker away from idle has a submitted task, and in a pass a place in the list.
WorkersHold ==
  \A w \in Worker :
    /\ worker[w].pc # "idle" <=> worker[w].task # 0
    /\ worker[w].pc # "idle" => future[worker[w].task] # "none"
    /\ InPass(w) => worker[w].pos > 0
    /\ worker[w].pc = "inConsumer" =>
         /\ worker[w].pos <= Len(consumers)
         /\ future[Called(w).start] = "ok"
         /\ threadResult # 0

\* From afterExecute on its task is settled.
WorkersHoldSettled ==
  /\ WorkersHold
  /\ \A w \in Worker :
       worker[w].pc \in {"ended", "iterating", "inConsumer", "dying"} => IsDone(worker[w].task)

\* Whoever was told something was told the truth.
OutputsTrue ==
  /\ threadResult # 0 => future[threadResult] = "ok"
  /\ \A d \in delivered : d.value # 0 /\ future[d.value] = "ok"
  /\ \A r \in reports : r.what \in {"failed", "cancelled"} => future[r.about] = r.what

\* In its first pass a worker that is beyond its own task's handler has reported.
PassReports ==
  \A w \in Worker :
    InPass(w) /\ ~ worker[w].thrown /\ future[worker[w].task] = "failed" =>
      \E i \in DOMAIN consumers :
        /\ consumers[i] = Handler(worker[w].task)
        /\ worker[w].pos > i => ToldBy(worker[w].task) # {}

IInv ==
  /\ TypeOK
  /\ HandlersRegistered
  /\ WorkersHoldSettled
  /\ OutputsTrue
  /\ PassReports
-------------------------------------------------------------------------------
(* What AbstractThreadBuilderAnswerProofs adds to it: a worker that has not yet  *)
(* answered for its task is on the way to do so.                             *)

\* The factory is fixed at the first start, to that of the configuration then.
FactoryKept ==
  /\ started = 0 => factory = "none"
  /\ reconfigs = 0 /\ started > 0 => factory = ThreadFactory

\* Each start's consumers follow those of the starts before it, handler first.
ConsumersInOrder ==
  /\ \A i \in DOMAIN consumers :
       /\ consumers[i].start <= started
       /\ callerPc = "firstAdded" => consumers[i] # UserConsumer(started)
  /\ \A i, j \in DOMAIN consumers :
       i < j => \/ consumers[i].start < consumers[j].start
                \/ /\ consumers[i].start = consumers[j].start
                   /\ consumers[i].kind = "handler"
                   /\ consumers[j].kind = "user"

\* Who is to be told how t ended was told from the pass of its own worker.
Answered(t) ==
  /\ future[t] = "failed" => ToldBy(t) # {}
  /\ future[t] = "failed" /\ builder.uncaughtExceptionConsumer /\ reconfigs = 0 =>
       \E r \in ToldBy(t) : r.to = "consumer"
  /\ /\ future[t] = "ok"
     /\ builder.executionType = "CALLABLE" /\ builder.threadResultConsumer /\ reconfigs = 0
     => (\E d \in delivered : d.by = t /\ d.about = t) \/ ToldBy(t) # {}

\* w will come to t's handler, or die of what keeps it from that.
WillAnswer(w, t) ==
  \/ worker[w].pc \in {"ended", "dying"}
  \/ /\ InPass(w)
     /\ \/ worker[w].thrown
        \/ \E i \in DOMAIN consumers : consumers[i] = Handler(t) /\ worker[w].pos <= i

\* A task that ended and is not answered for is in the hands of a worker that will.
AnswersComing == \A t \in Task : Answered(t) \/ \E w \in Worker : Holds(w, t) /\ WillAnswer(w, t)

\* The death of a worker is reported for the task it had.
DeathsOwned == \A r \in reports : r.what = "death" => r.about = r.by

\* w will call t's handler or die before it.
WillStore(w, t) ==
  \/ worker[w].pc \in {"ended", "dying"}
  \/ /\ InPass(w)
     /\ \/ worker[w].thrown
        \/ \E i \in DOMAIN consumers :
             /\ consumers[i] = Handler(t)
             /\ worker[w].pos < i \/ (worker[w].pos = i /\ worker[w].pc = "iterating")

\* The field that a later task's result is missing from will be set again.
ResultsComing ==
  /\ builder.executionType = "CALLABLE"
  /\ \A r \in reports : r.what \notin {"null", "death"}
  => \A t \in Task : future[t] = "ok" => threadResult >= t \/ \E w \in Worker : WillStore(w, t)

\* Whoever waits to be told how a task ended, or for its result, has not been
\* forgotten: a pool thread is still to come to the handler that start() registered,
\* or to die and be reported by the factory's handler.
AnswerIInv ==
  /\ FactoryKept
  /\ ConsumersInOrder
  /\ AnswersComing
  /\ DeathsOwned
  /\ ResultsComing
===============================================================================
