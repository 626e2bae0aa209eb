---------------------- MODULE AbstractTimingThreadBuilder ----------------------
(***************************************************************************)
(* builder/AbstractTimingThreadBuilder with its Timing(Runnable|Callable)  *)
(* subclasses: the builder of AbstractThreadBuilder with a delay, an       *)
(* interval and a timeout.  A start with a timeout makes an executor of    *)
(* its own with one thread and one task, the timer: it cancels the future  *)
(* if it is not done and then calls a handleException of its own on it.    *)
(*                                                                         *)
(* Time is not measured: a delay, an interval or a timeout that was set    *)
(* may elapse at any moment after it began, so every choice of durations   *)
(* and speeds is covered.                                                  *)
(***************************************************************************)
EXTENDS AbstractThreadBuilder

CONSTANT Timings  \* the time settings before the first start

TimeField == {"delay", "timeout", "interval"}

\* TRUE: the Optional<Duration> is present.
Timing == [delay : BOOLEAN, timeout : BOOLEAN, interval : BOOLEAN]

ThreadTimeConfig == {"NO_SCHEDULE", "DELAY", "TIMEOUT", "INTERVAL",
                     "DELAY_AND_TIMEOUT", "DELAY_AND_INTERVAL", "ALL_CONFIGURATION"}

ASSUME TimingAssumption == Timings \subseteq Timing

VARIABLES timing,            \* the fields delay, timeout and interval
          threadTimeConfig,  \* the cached configuration, or "null"
          waiting,           \* tasks whose delay or interval has not elapsed
          periodic,          \* tasks scheduled at a fixed rate
          timer,             \* each start's timeout executor
          timerTold          \* what the timers' handlers told, and whom

timingVars == <<timing, threadTimeConfig, waiting, periodic>>
timerVars == <<timer, timerTold>>
allVars == <<vars, timingVars, timerVars>>

\* In the handler of start by's timer a consumer or a logger got the result of
\* start about, that start's exception, or one of the callback itself.
TimerTold == [by : Task, about : Task, what : {"ok", "failed", "cancelled", "callback"},
              to : {"consumer", "logger"}]

TimingTypeOK ==
  /\ TypeOK
  /\ timing \in Timing
  /\ threadTimeConfig \in ThreadTimeConfig \cup {"null"}
  /\ waiting \subseteq Task
  /\ periodic \subseteq Task
  /\ timer \in [Task -> {"none", "armed", "cancelling", "handling", "consuming", "done", "stopped"}]
  /\ timerTold \subseteq TimerTold

TimingInit ==
  /\ Init
  /\ timing \in Timings
  /\ threadTimeConfig = "null"
  /\ waiting = {}
  /\ periodic = {}
  /\ timer = [t \in Task |-> "none"]
  /\ timerTold = {}

-------------------------------------------------------------------------------
(* The caller's thread. *)

SetTimeKeepingConfig(field) ==
  /\ callerPc = "idle"
  /\ started > 0
  /\ reconfigs < MaxReconfigs
  /\ timing' = [timing EXCEPT ![field] = TRUE]
  /\ reconfigs' = reconfigs + 1
  /\ UNCHANGED <<executorVars, builder, started, callerPc, factory, holder, executorResult, futures,
                 threadResult, outputs, threadTimeConfig, waiting, periodic, timerVars>>

\* setDelay, setTimeout, setInterval between two starts: there is no way back.
SetTime(field) ==
  /\ callerPc = "idle"
  /\ started > 0
  /\ reconfigs < MaxReconfigs
  /\ ~ timing[field]
  /\ timing' = [timing EXCEPT ![field] = TRUE]
  /\ threadTimeConfig' = "null"
  /\ reconfigs' = reconfigs + 1
  /\ UNCHANGED <<executorVars, builder, started, callerPc, factory, holder, executorResult, futures,
                 threadResult, outputs, waiting, periodic, timerVars>>

ReadThreadTimeConfig ==
  CASE ~ timing.delay /\ ~ timing.timeout /\ ~ timing.interval -> "NO_SCHEDULE"
    [] timing.delay /\ ~ timing.timeout /\ ~ timing.interval -> "DELAY"
    [] ~ timing.delay /\ timing.timeout /\ ~ timing.interval -> "TIMEOUT"
    [] ~ timing.delay /\ ~ timing.timeout /\ timing.interval -> "INTERVAL"
    [] timing.delay /\ timing.timeout /\ ~ timing.interval -> "DELAY_AND_TIMEOUT"
    [] timing.delay /\ ~ timing.timeout /\ timing.interval -> "DELAY_AND_INTERVAL"
    [] OTHER -> "ALL_CONFIGURATION"

\* createExecutorAndRunThread: the user's consumer comes before the handler here.
TimingStart ==
  /\ callerPc = "idle"
  /\ started < MaxSubmissions
  /\ builder.execution
  /\ threadTimeConfig' = IF threadTimeConfig = "null" THEN ReadThreadTimeConfig ELSE threadTimeConfig
  /\ factory' = IF factory = "none" THEN ThreadFactory ELSE factory
  /\ started' = started + 1
  /\ IF builder.afterExecuteConsumer
     THEN AddAfterExecuteConsumer(UserConsumer(started + 1))
     ELSE UNCHANGED executorVars
  /\ callerPc' = "firstAdded"
  /\ UNCHANGED <<builder, reconfigs, holder, executorResult, futures, threadResult, outputs,
                 timing, waiting, periodic, timerVars>>

\* runThread: the executor result exists before any handler does.
RegisterHandler ==
  /\ callerPc = "firstAdded"
  /\ executorResult' = TRUE
  /\ AddAfterExecuteConsumer(Handler(started))
  /\ callerPc' = "registered"
  /\ UNCHANGED <<builder, reconfigs, started, factory, holder, futures, threadResult, outputs,
                 timingVars, timerVars>>

WithInterval == {"INTERVAL", "DELAY_AND_INTERVAL", "ALL_CONFIGURATION"}
WithTimeout == {"TIMEOUT", "DELAY_AND_TIMEOUT", "ALL_CONFIGURATION"}

AtFixedRate == threadTimeConfig \in WithInterval

\* submit, schedule or scheduleAtFixedRate; handleDelay reads the delay field.
Schedule ==
  /\ callerPc = "registered"
  /\ ~ (AtFixedRate /\ builder.executionType = "CALLABLE")
  /\ pool = "running"
  /\ future[started] = "none"
  /\ future' = [future EXCEPT ![started] = "new"]
  /\ IF timing.delay /\ threadTimeConfig # "NO_SCHEDULE"
     THEN waiting' = waiting \cup {started} /\ UNCHANGED queue
     ELSE queue' = Append(queue, started) /\ UNCHANGED waiting
  /\ periodic' = IF AtFixedRate THEN periodic \cup {started} ELSE periodic
  /\ callerPc' = "submitted"
  /\ UNCHANGED <<consumers, pool, worker, builder, reconfigs, started, factory, holder,
                 executorResult, futures, threadResult, outputs, timing, threadTimeConfig, timerVars>>

\* A pool that was shut down rejects the task; a callable cannot be repeated.
\* Either exception leaves start(); what was registered stays.
ScheduleRefused ==
  /\ callerPc = "registered"
  /\ pool # "running" \/ (AtFixedRate /\ builder.executionType = "CALLABLE")
  /\ callerPc' = "idle"
  /\ UNCHANGED <<executorVars, builder, reconfigs, started, factory, holder, executorResult,
                 futures, threadResult, outputs, timingVars, timerVars>>

\* handleInterruption.
ArmTimer ==
  /\ callerPc = "holderSet"
  /\ threadTimeConfig \in WithTimeout
  /\ timer[started] = "none"
  /\ timer' = [timer EXCEPT ![started] = "armed"]
  /\ UNCHANGED <<vars, timingVars, timerTold>>

PublishTimed ==
  /\ threadTimeConfig \in WithTimeout => timer[started] # "none"
  /\ Publish
  /\ UNCHANGED <<timingVars, timerVars>>

-------------------------------------------------------------------------------
(* The JDK's delays and periods. *)

\* A delay or an interval has elapsed.
Due(t) ==
  /\ t \in waiting
  /\ waiting' = waiting \ {t}
  /\ queue' = Append(queue, t)
  /\ UNCHANGED <<consumers, pool, future, worker, callerVars, threadResult, outputs,
                 timing, threadTimeConfig, periodic, timerVars>>

\* shutdown() goes over the queue: periodic tasks are cancelled and removed,
\* cancelled ones are removed.
Purge(t) ==
  /\ pool = "shutdown"
  /\ t \in periodic \/ future[t] = "cancelled"
  /\ \/ /\ t \in waiting
        /\ waiting' = waiting \ {t}
        /\ UNCHANGED queue
     \/ \E i \in DOMAIN queue :
          /\ queue[i] = t
          /\ queue' = SubSeq(queue, 1, i - 1) \o SubSeq(queue, i + 1, Len(queue))
          /\ UNCHANGED waiting
  /\ future' = [future EXCEPT ![t] = IF @ = "new" THEN "cancelled" ELSE @]
  /\ UNCHANGED <<consumers, pool, worker, callerVars, threadResult, outputs,
                 timing, threadTimeConfig, periodic, timerVars>>

\* Whoever was given the ExecutorResult: shutdownNow drains the delayed tasks too.
TimedShutdown ==
  /\ Shutdown
  /\ waiting' = IF pool' = "stop" THEN {} ELSE waiting
  /\ UNCHANGED <<timing, threadTimeConfig, periodic, timerVars>>

\* shutdownNow on one of getTimeoutExecutorResults() drops a timer.
StopTimer(t) ==
  /\ t \in futures
  /\ timer[t] = "armed"
  /\ timer' = [timer EXCEPT ![t] = "stopped"]
  /\ UNCHANGED <<vars, timingVars, timerTold>>

-------------------------------------------------------------------------------
(* The pool's threads. *)

\* After shutdown() delayed tasks still run, periodic ones do not.
TimedStartBody(w) ==
  /\ StartBody(w)
  /\ worker[w].task \in periodic => pool = "running"

TimedSkipBody(w) ==
  \/ SkipBody(w)
  \/ /\ worker[w].pc = "taken"
     /\ worker[w].task \in periodic
     /\ future[worker[w].task] = "new"
     /\ pool = "shutdown"
     /\ future' = [future EXCEPT ![worker[w].task] = "cancelled"]
     /\ worker' = [worker EXCEPT ![w].pc = "ended"]
     /\ UNCHANGED <<consumers, queue, pool>>

\* A periodic task that returned has no outcome: it has to go on, unless it
\* was cancelled meanwhile.  One that threw is settled and not repeated.
HasToGoOn(w) == worker[w].task \in periodic /\ future[worker[w].task] = "new"

EndTimedBody(w) ==
  \/ EndBody(w, "failed")
  \/ ~ HasToGoOn(w) /\ EndBody(w, "ok")

RunOnce(w) ==
  /\ worker[w].pc = "running"
  /\ HasToGoOn(w)
  /\ worker' = [worker EXCEPT ![w].pc = "ended"]
  /\ UNCHANGED <<consumers, queue, pool, waiting, future>>

\* The next run is queued before afterExecute is called for this one.
RunAgain(w) ==
  /\ worker[w].pc = "running"
  /\ HasToGoOn(w)
  /\ worker' = [worker EXCEPT ![w].pc = "ended"]
  /\ IF pool = "running"
     THEN waiting' = waiting \cup {worker[w].task} /\ UNCHANGED future
     ELSE future' = [future EXCEPT ![worker[w].task] = "cancelled"] /\ UNCHANGED waiting
  /\ UNCHANGED <<consumers, queue, pool>>

TimedWorkerLoop(w) ==
  \/ /\ \/ Take(w)
        \/ TimedStartBody(w)
        \/ TimedSkipBody(w)
        \/ EndTimedBody(w)
        \/ BeginAfterExecute(w)
        \/ Comodified(w)
        \/ EndAfterExecute(w)
     /\ UNCHANGED waiting
  \/ RunAgain(w)

TimedWorkerStep(w) ==
  \/ /\ TimedWorkerLoop(w)
     /\ UNCHANGED <<callerVars, threadResult, outputs, timing, threadTimeConfig, periodic, timerVars>>
  \/ /\ \/ \E k \in Task : HandleCall(w, k)
        \/ CallUserConsumer(w)
        \/ Die(w)
     /\ UNCHANGED <<timingVars, timerVars>>

-------------------------------------------------------------------------------
(* The timer of start t: the one task of its executor, then that executor's  *)
(* afterExecute with the one consumer it has.  The holder is set and the     *)
(* consumers are fixed before the timer is armed.                            *)

TimerChecksOnly(t) ==
  /\ timer[t] = "armed"
  /\ timer' = [timer EXCEPT ![t] = IF IsDone(t) THEN "done" ELSE "cancelling"]
  /\ UNCHANGED <<vars, timingVars, timerTold>>

TimerSharesPool(t) ==
  /\ timer[t] = "armed"
  /\ pool # "stop"
  /\ \E w \in Worker : worker[w].pc = "idle"
  /\ timer' = [timer EXCEPT ![t] = IF IsDone(t) THEN "handling" ELSE "cancelling"]
  /\ UNCHANGED <<vars, timingVars, timerTold>>

\* cancelFuture, once the timeout has elapsed.
TimerChecks(t) ==
  /\ timer[t] = "armed"
  /\ timer' = [timer EXCEPT ![t] = IF IsDone(t) THEN "handling" ELSE "cancelling"]
  /\ UNCHANGED <<vars, timingVars, timerTold>>

\* The task may have settled since the check; then cancel changes nothing.
TimerCancels(t) ==
  /\ timer[t] = "cancelling"
  /\ future' = [future EXCEPT ![t] = IF @ = "new" THEN "cancelled" ELSE @]
  /\ timer' = [timer EXCEPT ![t] = "handling"]
  /\ UNCHANGED <<consumers, queue, pool, worker, callerVars, threadResult, outputs,
                 timingVars, timerTold>>

TimerReportsTimeout(t, what) ==
  [by |-> t, about |-> t, what |-> IF what = "failed" THEN "cancelled" ELSE what, to |-> ReportedTo(what)]

\* What is done with an exception; an Error of the consumer only ends the timer's thread.
TimerReport(t, what) == [by |-> t, about |-> t, what |-> what, to |-> ReportedTo(what)]

TimerHandles(t) ==
  /\ timer[t] = "handling"
  /\ \/ /\ future[t] \in {"failed", "cancelled"}
        /\ timerTold' = timerTold \cup {TimerReport(t, future[t])}
        /\ timer' = [timer EXCEPT ![t] = "done"]
        /\ UNCHANGED threadResult
     \/ /\ future[t] = "ok"
        /\ builder.executionType = "RUNNABLE"
        /\ timer' = [timer EXCEPT ![t] = "done"]
        /\ UNCHANGED <<threadResult, timerTold>>
     \/ /\ future[t] = "ok"
        /\ builder.executionType = "CALLABLE"
        /\ threadResult' = t
        /\ timer' = [timer EXCEPT ![t] = "consuming"]
        /\ UNCHANGED timerTold
  /\ UNCHANGED <<executorVars, callerVars, outputs, timingVars>>

\* The result consumer gets what the field of the builder holds by now, and may
\* throw an exception, which is reported, or an Error.
TimerConsumes(t) ==
  /\ timer[t] = "consuming"
  /\ timer' = [timer EXCEPT ![t] = "done"]
  /\ LET result == [by |-> t, about |-> threadResult, what |-> "ok", to |-> "consumer"]
     IN  IF builder.threadResultConsumer
         THEN \/ timerTold' = timerTold \cup {result}
              \/ timerTold' = timerTold \cup {result, TimerReport(t, "callback")}
         ELSE UNCHANGED timerTold
  /\ UNCHANGED <<vars, timingVars>>

TimerStep(t) == TimerChecks(t) \/ TimerCancels(t) \/ TimerHandles(t) \/ TimerConsumes(t)

-------------------------------------------------------------------------------
TimedCallerStep ==
  \/ RegisterHandler
  \/ Schedule
  \/ ScheduleRefused
  \/ SetHolder /\ UNCHANGED <<timingVars, timerVars>>
  \/ ArmTimer
  \/ PublishTimed

\* Nothing is left to happen but what somebody outside may do.
TimedTerminated ==
  /\ Quiescent
  /\ waiting = {}
  /\ \A t \in Task : timer[t] \in {"none", "done", "stopped"}
  /\ UNCHANGED allVars

TimingNext ==
  \/ \E field \in Setter, value \in BOOLEAN : Set(field, value) /\ UNCHANGED <<timingVars, timerVars>>
  \/ \E field \in TimeField : SetTime(field)
  \/ TimingStart
  \/ TimedCallerStep
  \/ \E t \in Task : Cancel(t) /\ UNCHANGED <<timingVars, timerVars>>
  \/ TimedShutdown
  \/ \E t \in Task : Due(t) \/ Purge(t) \/ StopTimer(t) \/ TimerStep(t)
  \/ \E w \in Worker : TimedWorkerStep(w)
  \/ TimedTerminated

TimingSpec == TimingInit /\ [][TimingNext]_allVars

\* The threads' own steps, except that a body need not ever end.
ThreadStep(w) == worker[w].pc # "running" /\ TimedWorkerStep(w)

\* Threads are scheduled, callbacks end, time passes, and a start() that was
\* entered is carried on.
TimingFairSpec ==
  /\ TimingSpec
  /\ WF_allVars(TimedCallerStep)
  /\ \A t \in Task : WF_allVars(TimerStep(t)) /\ WF_allVars(Due(t))
  /\ \A w \in Worker : WF_allVars(ThreadStep(w))
-------------------------------------------------------------------------------
(* Properties. *)

\* A start is carried out with the time settings that hold at that start,
\* also those set since the last one: what is published is repeated exactly if
\* an interval is set, and has a timer exactly if a timeout is set.
TimedAsConfigured ==
  [][\A t \in futures' \ futures :
       /\ t \in periodic <=> timing.interval
       /\ timer[t] # "none" <=> timing.timeout]_allVars

\* Once its timer is through, whoever is to be told of a task was told by the
\* timer's own handler, and the truth: the task's own exception or, of a callable
\* that returned, a result, be it another start's that was stored in the field
\* meanwhile.  This holds however the task's own handler fared.
TimerTells ==
  reconfigs = 0 =>
    \A t \in Task : timer[t] = "done" =>
      /\ IsDone(t)
      /\ \/ \E r \in timerTold :
              /\ r.by = t /\ r.what = future[t]
              /\ r.what = future[r.about]
              /\ r.about = t \/ r.what = "ok"
         \/ future[t] = "ok" /\ ~ (builder.executionType = "CALLABLE" /\ builder.threadResultConsumer)

\* What both kinds of threads told of the tasks' outcomes.
TimedTold == Told \cup {<<r.about, r.what>> : r \in {q \in timerTold : q.what # "callback"}}

TimedOutcome == INSTANCE TaskOutcome WITH outcome <- SettledOutcome, told <- TimedTold

\* The timing builder implements TaskOutcome as well: neither timeout nor
\* shutdown takes an outcome back, and only true outcomes are told.
TimedOutcomesAreSettled == TimedOutcome!Spec

\* setTimeout: "After that time the thread will be canceled", also when its body
\* never ends, when it is queued behind such a body, or when shutdownNow dropped it.
TimeoutSettles ==
  \A t \in Task : timer[t] = "armed" ~> IsDone(t) \/ timer[t] = "stopped"

BodyRuns(t) == \E w \in Worker : worker[w].task = t /\ worker[w].pc = "running"

\* setInterval: "The thread will repeat its execution".  While no body blocks a
\* thread for ever, a periodic task runs again and again until it fails, is
\* cancelled, or the pool is shut down.
IntervalRepeats ==
  (\A w \in Worker : []<>(worker[w].pc # "running")) =>
    \A t \in Task :
      t \in periodic /\ future[t] = "new" /\ ~ BodyRuns(t) ~>
        BodyRuns(t) \/ IsDone(t) \/ pool # "running"
-------------------------------------------------------------------------------
(* The inductive invariant behind the theorems of                            *)
(* AbstractTimingThreadBuilderAnswerProofs.                                  *)

\* Nothing is delayed that was not submitted, and nothing is submitted whose
\* handler is not registered: the caller registers it just before.
DelaysRegistered ==
  /\ TasksRegistered
  /\ callerPc = "registered" => \E i \in DOMAIN consumers : consumers[i] = Handler(started)
  /\ \A t \in waiting : future[t] # "none"

\* However a task was delayed, repeated or cut off by its timeout, a pool thread is
\* still to answer for an outcome that nobody was told of.
TimingIInv ==
  /\ TimingTypeOK
  /\ DelaysRegistered
  /\ WorkersHold
  /\ OutputsTrue
  /\ FactoryKept
  /\ AnswersComing
===============================================================================
