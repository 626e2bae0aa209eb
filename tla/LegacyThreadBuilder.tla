--------------------------- MODULE LegacyThreadBuilder ---------------------------
(***************************************************************************)
(* The deprecated ThreadBuilder with ScheduledCaughtExecutorService: every *)
(* start makes an executor of its own, schedules the task on it, and only  *)
(* then registers the consumers that afterExecute is to call.  When the    *)
(* builder has a consumer the task is delayed by a second at least, so     *)
(* that the registration should come first.                                *)
(*                                                                         *)
(* afterExecute has no try-catch here: whatever a consumer throws leads to *)
(* a second pass and to the death of the thread, and the handler reports   *)
(* in the second pass as well.                                             *)
(*                                                                         *)
(* Executors have one thread (newBuilder()), and each runs the task of one *)
(* start, so a start stands for its executor, thread and task.             *)
(***************************************************************************)
EXTENDS Integers, Sequences

CONSTANTS MaxStarts,          \* bound: calls of start()
          MaxReconfigs,       \* bound: setter calls after the first start
          Configurations,     \* the builders, as configured before the first start
          Reconfigurable,     \* bound: the fields whose setters are called later
          DelayOutlastsStart  \* is a delay longer than the rest of start()?

\* TRUE: the Optional holds a value, the flag is raised.
Time == {"delay", "timeout", "interval"}
Field == Time \cup {"execution", "afterExecuteConsumer", "uncaughtExceptionConsumer",
                    "silentInterruption"}

ASSUME LegacyAssumption ==
  /\ MaxStarts \in Nat \ {0} /\ MaxReconfigs \in Nat
  /\ Configurations \subseteq [Field -> BOOLEAN]
  /\ Reconfigurable \subseteq Field
  /\ DelayOutlastsStart \in BOOLEAN

Task == 1 .. MaxStarts

VARIABLES builder, reconfigs,  \* the fields, and the setter calls so far
          started, callerPc,   \* start() calls, and where the caller is in the last
          executorResult,      \* the start whose executor the ExecutorResult has, or 0
          futures,             \* executorResult.getFutures()
          consumers,           \* afterExecuteConsumers of each executor
          caught,              \* executors whose threads have the exception consumer
          pool, queued,        \* state of each executor, and whose task is in the queue
          periodic, delayed,   \* tasks scheduled with an interval, with a delay
          future,              \* state of each task's Future
          worker,              \* each executor's thread
          timer,               \* each start's timeout executor
          told,                \* who told the consumer of which outcome
          calls,               \* its calls by the thread of a settled task
          timerCalls,          \* its calls by the thread of the task's timeout
          threw                \* tasks after which a callback threw

callerVars == <<builder, reconfigs, started, callerPc, executorResult, futures>>
poolVars == <<consumers, caught, pool, queued, periodic, delayed, future>>
outputs == <<told, calls, timerCalls, threw>>
vars == <<callerVars, poolVars, worker, timer, outputs>>

Settled == {"ok", "failed", "cancelled"}

WorkerState == [pc : {"idle", "running", "ended", "iterating", "dying"},
                pos : 0 .. 3, seen : 0 .. 2, thrown : BOOLEAN]

Idle == [pc |-> "idle", pos |-> 0, seen |-> 0, thrown |-> FALSE]

LegacyTypeOK ==
  /\ builder \in [Field -> BOOLEAN]
  /\ reconfigs \in 0 .. MaxReconfigs
  /\ started \in 0 .. MaxStarts
  /\ callerPc \in {"idle", "scheduled", "handled", "armed", "published"}
  /\ executorResult \in Task \cup {0}
  /\ consumers \in [Task -> Seq({"handler", "user"})]
  /\ pool \in [Task -> {"running", "shutdown", "stop"}]
  /\ futures \cup caught \cup queued \cup periodic \cup delayed \cup threw \subseteq Task
  /\ future \in [Task -> {"none", "new"} \cup Settled]
  /\ worker \in [Task -> WorkerState]
  /\ timer \in [Task -> {"none", "armed", "fired", "again", "done", "stopped"}]
  /\ told \subseteq [by : {"thread", "timer"}, about : Task, what : Settled]
  /\ calls \in [Task -> Nat] /\ timerCalls \in [Task -> Nat]

Init ==
  /\ builder \in Configurations
  /\ reconfigs = 0 /\ started = 0 /\ callerPc = "idle"
  /\ executorResult = 0 /\ futures = {}
  /\ consumers = [t \in Task |-> <<>>]
  /\ caught = {} /\ queued = {} /\ periodic = {} /\ delayed = {}
  /\ pool = [t \in Task |-> "running"]
  /\ future = [t \in Task |-> "none"]
  /\ worker = [t \in Task |-> Idle]
  /\ timer = [t \in Task |-> "none"]
  /\ told = {} /\ threw = {}
  /\ calls = [t \in Task |-> 0] /\ timerCalls = [t \in Task |-> 0]

IsDone(t) == future[t] \in Settled

-------------------------------------------------------------------------------
(* The caller. *)

\* A time cannot be unset; setExecution(null) stores the null and throws.
Set(field, value) ==
  /\ callerPc = "idle" /\ started > 0
  /\ reconfigs < MaxReconfigs
  /\ field \in Reconfigurable
  /\ builder[field] # value
  /\ field \in Time => value
  /\ builder' = [builder EXCEPT ![field] = value]
  /\ reconfigs' = reconfigs + 1
  /\ UNCHANGED <<started, callerPc, executorResult, futures, poolVars, worker, timer, outputs>>

HandleDelayAsSet == builder.delay

\* handleDelay adds the minimum for the sake of the consumers.
HandleDelay ==
  builder.delay \/ builder.uncaughtExceptionConsumer \/ builder.afterExecuteConsumer

\* start(), down to the scheduling of the task on a new executor.
Start ==
  /\ callerPc = "idle"
  /\ started < MaxStarts
  /\ builder.execution
  /\ started' = started + 1
  /\ caught' = IF builder.uncaughtExceptionConsumer THEN caught \cup {started'} ELSE caught
  /\ future' = [future EXCEPT ![started'] = "new"]
  /\ queued' = queued \cup {started'}
  /\ periodic' = IF builder.interval THEN periodic \cup {started'} ELSE periodic
  /\ delayed' = IF HandleDelay THEN delayed \cup {started'} ELSE delayed
  /\ callerPc' = "scheduled"
  /\ UNCHANGED <<builder, reconfigs, executorResult, futures, consumers, pool, worker, timer, outputs>>

Register(cs) ==
  /\ consumers' = [consumers EXCEPT ![started] = cs]
  /\ UNCHANGED <<builder, reconfigs, started, executorResult, futures, caught, pool, queued,
                 periodic, delayed, future, worker, timer, outputs>>

AddHandlerTwice ==
  /\ callerPc = "scheduled"
  /\ Register(consumers[started] \o <<"handler", "handler">>)
  /\ callerPc' = "handled"

AddHandler ==
  /\ callerPc = "scheduled"
  /\ Register(Append(consumers[started], "handler"))
  /\ callerPc' = "handled"

\* handleInterruption: an executor with a handler of its own runs the timeout.
HandleInterruption ==
  /\ callerPc = "handled"
  /\ timer' = IF builder.timeout THEN [timer EXCEPT ![started] = "armed"] ELSE timer
  /\ callerPc' = "armed"
  /\ UNCHANGED <<builder, reconfigs, started, executorResult, futures, poolVars, worker, outputs>>

\* newExecutorResultIfNull: the first start's executor stays in it.
Publish ==
  /\ callerPc = "armed"
  /\ executorResult' = IF executorResult = 0 THEN started ELSE executorResult
  /\ futures' = futures \cup {started}
  /\ callerPc' = "published"
  /\ UNCHANGED <<builder, reconfigs, started, poolVars, worker, timer, outputs>>

AddUserConsumerFirst ==
  /\ callerPc = "published"
  /\ Register(IF builder.afterExecuteConsumer
              THEN <<"user">> \o consumers[started] ELSE consumers[started])
  /\ callerPc' = "idle"

AddUserConsumer ==
  /\ callerPc = "published"
  /\ Register(IF builder.afterExecuteConsumer
              THEN Append(consumers[started], "user") ELSE consumers[started])
  /\ callerPc' = "idle"

CallerStep == AddHandler \/ HandleInterruption \/ Publish \/ AddUserConsumer

-------------------------------------------------------------------------------
(* Whoever was given the ExecutorResult. *)

\* A cancelled task stays in the queue until it is due.
Cancel(t) ==
  /\ t \in futures
  /\ future[t] = "new"
  /\ future' = [future EXCEPT ![t] = "cancelled"]
  /\ UNCHANGED <<callerVars, consumers, caught, pool, queued, periodic, delayed, worker, timer, outputs>>

\* shutdown cancels what is periodic in the queue and drops what is cancelled;
\* shutdownNow drops everything.
Shutdown(t, state) ==
  /\ t = executorResult
  /\ \/ state = "shutdown" /\ pool[t] = "running"
     \/ state = "stop" /\ pool[t] # "stop"
  /\ pool' = [pool EXCEPT ![t] = state]
  /\ LET cancels == state = "shutdown" /\ t \in queued /\ t \in periodic /\ future[t] = "new"
     IN  /\ future' = IF cancels THEN [future EXCEPT ![t] = "cancelled"] ELSE future
         /\ queued' = IF state = "stop" \/ future'[t] = "cancelled" THEN queued \ {t} ELSE queued
  /\ UNCHANGED <<callerVars, consumers, caught, periodic, delayed, worker, timer, outputs>>

\* shutdownNow on the executor of a timeout, out of getTimeoutExecutorResults.
StopTimer(t) ==
  /\ t \in futures
  /\ timer[t] = "armed"
  /\ timer' = [timer EXCEPT ![t] = "stopped"]
  /\ UNCHANGED <<callerVars, poolVars, worker, outputs>>

-------------------------------------------------------------------------------
(* The task's thread. *)

CanRun(t) == pool[t] = "running" \/ (pool[t] = "shutdown" /\ t \notin periodic)

IsDue(t) ==
  t \in delayed /\ DelayOutlastsStart => ~ (started = t /\ callerPc # "idle")

StartBody(t) ==
  /\ worker[t].pc = "idle" /\ t \in queued /\ IsDue(t)
  /\ queued' = queued \ {t}
  /\ IF future[t] = "new" /\ CanRun(t)
     THEN worker' = [worker EXCEPT ![t].pc = "running"] /\ UNCHANGED future
     ELSE /\ worker' = [worker EXCEPT ![t].pc = "ended"]
          /\ future' = [future EXCEPT ![t] = IF @ = "new" THEN "cancelled" ELSE @]
  /\ UNCHANGED <<callerVars, consumers, caught, pool, periodic, delayed, timer, outputs>>

\* A periodic task whose body returned goes back to the queue before afterExecute.
EndBody(t, outcome) ==
  /\ worker[t].pc = "running"
  /\ worker' = [worker EXCEPT ![t].pc = "ended"]
  /\ LET again == t \in periodic /\ outcome = "ok" /\ future[t] = "new"
     IN  /\ queued' = IF again /\ pool[t] = "running" THEN queued \cup {t} ELSE queued
         /\ future' = [future EXCEPT ![t] = IF @ # "new" \/ (again /\ pool[t] = "running") THEN @
                                            ELSE IF again THEN "cancelled" ELSE outcome]
  /\ UNCHANGED <<callerVars, consumers, caught, pool, periodic, delayed, timer, outputs>>

StartPass(t, thrown) ==
  [worker EXCEPT ![t] = [pc |-> "iterating", pos |-> 1, seen |-> Len(consumers[t]), thrown |-> thrown]]

BeginAfterExecute(t) ==
  /\ worker[t].pc = "ended"
  /\ worker' = StartPass(t, FALSE)
  /\ UNCHANGED <<callerVars, poolVars, timer, outputs>>

HasNext(t) == worker[t].pc = "iterating" /\ worker[t].pos <= Len(consumers[t])

Calling(t, consumer) ==
  /\ HasNext(t) /\ worker[t].seen = Len(consumers[t])
  /\ consumers[t][worker[t].pos] = consumer

Returned(t) == [worker EXCEPT ![t].pos = @ + 1]

\* Anything thrown leaves forEach and afterExecute, the first time into a second pass.
Escaped(t) ==
  IF worker[t].thrown THEN [worker EXCEPT ![t].pc = "dying"] ELSE StartPass(t, TRUE)

Comodified(t) ==
  /\ HasNext(t) /\ worker[t].seen # Len(consumers[t])
  /\ worker' = Escaped(t)
  /\ UNCHANGED <<callerVars, poolVars, timer, outputs>>

\* What the handler tells: get() threw, it is not silenced, and there is a consumer.
Tells(t) ==
  /\ future[t] \in {"failed", "cancelled"}
  /\ ~ (builder.silentInterruption /\ future[t] = "cancelled")
  /\ builder.uncaughtExceptionConsumer

TellTimeout(t, by) ==
  told' = told \cup {[by |-> by, about |-> t, what |-> IF by = "timer" THEN "cancelled" ELSE future[t]]}

Tell(t, by) == told' = told \cup {[by |-> by, about |-> t, what |-> future[t]]}

HandleQuietly(t) ==
  /\ Calling(t, "handler") /\ ~ Tells(t)
  /\ worker' = Returned(t)
  /\ UNCHANGED <<callerVars, poolVars, timer, outputs>>

HandleException(t) ==
  /\ Calling(t, "handler") /\ Tells(t)
  /\ Tell(t, "thread")
  /\ calls' = [calls EXCEPT ![t] = @ + 1]
  /\ \/ worker' = Returned(t) /\ UNCHANGED threw
     \/ worker' = Escaped(t) /\ threw' = threw \cup {t}
  /\ UNCHANGED <<callerVars, poolVars, timer, timerCalls>>

CallUserConsumer(t) ==
  /\ Calling(t, "user")
  /\ \/ worker' = Returned(t) /\ UNCHANGED threw
     \/ worker' = Escaped(t) /\ threw' = threw \cup {t}
  /\ UNCHANGED <<callerVars, poolVars, timer, told, calls, timerCalls>>

EndAfterExecute(t) ==
  /\ worker[t].pc = "iterating" /\ ~ HasNext(t)
  /\ worker' = IF worker[t].thrown THEN [worker EXCEPT ![t].pc = "dying"]
               ELSE [worker EXCEPT ![t] = Idle]
  /\ UNCHANGED <<callerVars, poolVars, timer, outputs>>

\* The handler that the factory gave the thread is the consumer once more.
Die(t) ==
  /\ worker[t].pc = "dying"
  /\ worker' = [worker EXCEPT ![t] = Idle]
  /\ calls' = [calls EXCEPT ![t] = IF t \in caught /\ IsDone(t) THEN @ + 1 ELSE @]
  /\ UNCHANGED <<callerVars, poolVars, timer, told, timerCalls, threw>>

ThreadStep(t) ==
  \/ StartBody(t) \/ BeginAfterExecute(t) \/ Comodified(t) \/ HandleQuietly(t)
  \/ HandleException(t) \/ CallUserConsumer(t) \/ EndAfterExecute(t) \/ Die(t)

-------------------------------------------------------------------------------
(* The timeout executor's thread. *)

TimerChecksRunning(t) ==
  /\ timer[t] = "armed"
  /\ future' = [future EXCEPT ![t] = IF @ = "new" /\ worker[t].pc = "running" THEN "cancelled" ELSE @]
  /\ timer' = [timer EXCEPT ![t] = "fired"]
  /\ UNCHANGED <<callerVars, consumers, caught, pool, queued, periodic, delayed, worker, outputs>>

\* cancelFuture: the cancellation itself loses against an outcome set meanwhile.
CancelFuture(t) ==
  /\ timer[t] = "armed"
  /\ future' = [future EXCEPT ![t] = IF @ = "new" THEN "cancelled" ELSE @]
  /\ timer' = [timer EXCEPT ![t] = "fired"]
  /\ UNCHANGED <<callerVars, consumers, caught, pool, queued, periodic, delayed, worker, outputs>>

\* The handler on this executor; if its consumer throws it runs a second time.
TimerHandles(t) ==
  /\ timer[t] \in {"fired", "again"}
  /\ IF Tells(t)
     THEN /\ Tell(t, "timer")
          /\ timerCalls' = [timerCalls EXCEPT ![t] = @ + 1]
          /\ timer' \in {[timer EXCEPT ![t] = "done"],
                         [timer EXCEPT ![t] = IF @ = "fired" THEN "again" ELSE "done"]}
     ELSE timer' = [timer EXCEPT ![t] = "done"] /\ UNCHANGED <<told, timerCalls>>
  /\ UNCHANGED <<callerVars, poolVars, worker, calls, threw>>

TimerStep(t) == CancelFuture(t) \/ TimerHandles(t)

-------------------------------------------------------------------------------
\* No start under way, no thread at work.
Terminated ==
  /\ callerPc = "idle" /\ queued = {}
  /\ \A t \in Task : worker[t].pc = "idle" /\ timer[t] \in {"none", "done", "stopped"}
  /\ UNCHANGED vars

Next ==
  \/ \E field \in Field, value \in BOOLEAN : Set(field, value)
  \/ Start
  \/ CallerStep
  \/ \E t \in Task :
       \/ Cancel(t)
       \/ \E state \in {"shutdown", "stop"} : Shutdown(t, state)
       \/ StopTimer(t)
       \/ \E outcome \in {"ok", "failed"} : EndBody(t, outcome)
       \/ ThreadStep(t)
       \/ TimerStep(t)
  \/ Terminated

Spec == Init /\ [][Next]_vars

\* Threads are scheduled, delays elapse, callbacks return or throw; a body need
\* not end.
FairSpec ==
  /\ Spec
  /\ WF_vars(CallerStep)
  /\ \A t \in Task : WF_vars(ThreadStep(t)) /\ WF_vars(TimerStep(t))
-------------------------------------------------------------------------------
(* Properties. *)

\* The thread is through with the task.
Released(t) == worker[t].pc = "idle" /\ IsDone(t)

\* A consumer configured all along is told of every failure by the thread that
\* ran the task, although it was registered after the task was scheduled.
FailureTold ==
  builder.uncaughtExceptionConsumer /\ reconfigs = 0 =>
    \A t \in Task : future[t] = "failed" /\ Released(t) =>
      [by |-> "thread", about |-> t, what |-> "failed"] \in told

\* The thread that ran the task tells it once, and three times at most when a
\* callback throws: in both passes and while dying.  A periodic task may be back in
\* the queue when it is cancelled before the handler looks: then it is reported once
\* more.  A timeout's own handler tells it too, twice at most.
ReportedOnce ==
  /\ \A t \in delayed :
       calls[t] <= (IF t \in threw THEN 3 ELSE 1) * (IF t \in periodic THEN 2 ELSE 1)
  /\ \A t \in Task : timerCalls[t] <= 2

\* setUncaughtExceptionConsumer: it "will be called as a first after-executes
\* consumer", before the user's, in the first pass and in the second.
ReportFirst ==
  builder.uncaughtExceptionConsumer /\ reconfigs = 0 =>
    \A t \in Task : Calling(t, "user") /\ future[t] = "failed" =>
      [by |-> "thread", about |-> t, what |-> "failed"] \in told

\* The outcomes settled on, and what the consumer was told, by either thread.
LegacyOutcome ==
  INSTANCE TaskOutcome
    WITH outcome <- [t \in Task |-> IF IsDone(t) THEN future[t] ELSE "pending"],
         told <- {<<r.about, r.what>> : r \in told}

\* The timeout, a cancellation and the body's end race for the outcome: it is
\* settled once, and whoever tells it tells that one.
LegacyOutcomesAreSettled == LegacyOutcome!Spec

\* A timeout settles its task, also one that never starts, never ends or is
\* repeated, unless its own executor was stopped.
LegacyTimeoutSettles ==
  \A t \in Task : timer[t] = "armed" ~> IsDone(t) \/ timer[t] = "stopped"
-------------------------------------------------------------------------------
(* The inductive invariant behind the theorems of LegacyThreadBuilderProofs. *)

\* What is registered for a task, start by start.
Registration ==
  /\ callerPc # "idle" => started > 0
  /\ \A t \in Task : t > started => future[t] = "none" /\ consumers[t] = <<>>
  /\ callerPc = "scheduled" => consumers[started] = <<>>
  /\ callerPc \in {"handled", "armed", "published"} => consumers[started] = <<"handler">>
  /\ \A t \in Task : Len(consumers[t]) <= 2

\* Whoever was told of an outcome was told the task's own.
ToldIsTrue == \A r \in told : future[r.about] = r.what

LegacyInv == LegacyTypeOK /\ Registration /\ ToldIsTrue

(* What the other safety properties rest on, LegacyAnswerInv. *)

InStart(t) == started = t /\ callerPc # "idle"
ThreadTold(t) == [by |-> "thread", about |-> t, what |-> "failed"] \in told

\* The handler comes first in every executor's list, and is in it after start().
HandlerRegistered ==
  \A t \in Task :
    /\ consumers[t] \in {<<>>, <<"handler">>, <<"handler", "user">>}
    /\ t <= started /\ ~ InStart(t) => consumers[t] # <<>>
    /\ t > started => t \notin queued \cup delayed /\ worker[t].pc = "idle"

\* What the delay is there for: the thread finds the registration finished.
NeverComodified ==
  \A t \in delayed :
    worker[t].pc # "idle" =>
      /\ DelayOutlastsStart => ~ InStart(t)
      /\ DelayOutlastsStart /\ worker[t].pc = "iterating" => worker[t].seen = Len(consumers[t])

\* A pass that is beyond the handler has told the failure, and with the delay no
\* thread gets away from its task before.
FailuresTold ==
  builder.uncaughtExceptionConsumer /\ reconfigs = 0 =>
    \A t \in Task :
      /\ t <= started => t \in delayed
      /\ future[t] = "failed" =>
           /\ worker[t].pc = "iterating" /\ worker[t].pos > 1 => ThreadTold(t)
           /\ DelayOutlastsStart /\ worker[t].pc \in {"idle", "dying"} => ThreadTold(t)

\* The calls a thread can have made since it took the task, and in all of that.
CallsOfPass(t) ==
  IF worker[t].pc = "dying" THEN 2
  ELSE IF worker[t].pc # "iterating" THEN 0
  ELSE (IF worker[t].thrown THEN 1 ELSE 0) + (IF worker[t].pos > 1 THEN 1 ELSE 0)

CallsOfTurn(t) == IF t \in threw THEN 3 ELSE 1

MostCalls(t) ==
  LET before == IF t \in periodic THEN CallsOfTurn(t) ELSE 0
  IN  IF worker[t].pc = "idle"
      THEN (IF t \in queued THEN 0 ELSE CallsOfTurn(t)) + before
      ELSE CallsOfPass(t) + (IF t \in queued THEN 0 ELSE before)

\* The calls a timeout can have made, by where its handler is.
MostTimerCalls(t) == IF timer[t] = "done" THEN 2 ELSE IF timer[t] = "again" THEN 1 ELSE 0

\* Nothing is told of a task before it is settled, and a settled one is taken from
\* the queue at most once more, if it was repeated; only after a callback threw is
\* there a second pass.
CallsCounted ==
  /\ \A t \in Task : ~ IsDone(t) => calls[t] = 0
  /\ \A t \in Task : worker[t].pc = "iterating" => worker[t].pos > 0
  /\ \A t \in delayed :
       /\ worker[t].pc = "running" => t \notin queued
       /\ worker[t].pc # "idle" /\ t \in queued => t \in periodic
       /\ DelayOutlastsStart =>
            /\ worker[t].pc = "dying" \/ (worker[t].pc = "iterating" /\ worker[t].thrown) => t \in threw
            /\ calls[t] <= MostCalls(t)

TimerCallsCounted ==
  \A t \in Task :
    /\ timerCalls[t] <= MostTimerCalls(t)
    /\ t > started \/ (t = started /\ callerPc \in {"scheduled", "handled"}) => timer[t] = "none"

LegacyAnswerInv ==
  /\ LegacyInv /\ HandlerRegistered /\ NeverComodified /\ FailuresTold /\ CallsCounted
  /\ TimerCallsCounted
===============================================================================
