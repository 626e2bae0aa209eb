# Verification of j-commons

TLA+ models of the parts of j-commons that have behaviour worth arguing about,
TLC configurations that check them on small instances, and TLAPS proofs of the
results that hold for every instance.  Source paths below are relative to
`src/commons-thread/src/main/java/br/com/armange/commons/thread/` unless they
begin with another module's name.

## 1. Inventory

| Component | State it keeps | Operations | What is hard |
|---|---|---|---|
| **Thread builder core** `builder/AbstractThreadBuilder`, `Common*ThreadBuilder`, `ExecutorResult`, `Holder` | the configuration fields, one executor, one shared `ExecutorResult` (futures, last result), one `Holder` per start | setters, `start`, `startAndBuildOther`; the lambda of `handleException`; what the receiver of the `ExecutorResult` may do | the lambda runs on pool threads while `start` is still filling the fields it reads; every lambda runs after every task; shared result field |
| **Executor and factory** `core/ScheduledThreadBuilderExecutor`, `core/ExceptionCatcherThreadFactory` | list of after-execute consumers; uncaught exception handler, name, priority | `addAfterExecuteConsumer`, `afterExecute`, `newThread` | unsynchronised list changed while iterated; Errors end the pass and the worker |
| **Timing builder** `builder/AbstractTimingThreadBuilder`, `Timing*ThreadBuilder` | delay, timeout, interval, cached time configuration, one more executor per timed start | as the core, `setTimeout/Delay/Interval` | timeout racing completion; two executors with a handler on the same future; a refused start that leaves handlers behind |
| **Try-async builders** `async/*` | map of catchers, list of finalizers, resources | `addCatcher`, `finallyAsync`, `execute` | which catcher is chosen (map order, wrapped causes); a catcher, finalizer or `close` that throws; Errors make a second pass |
| **Deprecated builder** `ThreadBuilder`, `ScheduledCaughtExecutorService` | as the timing builder, an executor per start | as the timing builder | consumers registered after scheduling; `afterExecute` without a try-catch; `executorResult` keeps the first executor |
| **Thread utilities** `util/ThreadUtil` | none | wrappers of `sleep` and the class loader | nothing of its own |
| **Service loader** `commons-spi` `Loader` | none | `loadService(s)` | a stream without an order |
| **Reflection streams** `commons-reflection` `ReflectionStreamSupport` | list of members found, flags | `declared`, `nested`, `build` | repeated `build`; the climb along the superclasses |
| **Bean converter** `commons-object-impl` `BeanConverterImpl`, `SameFieldNameStrategyConverter` | source object, its fields, the strategy | `setStrategy`, `from`, `to`, `matches` | nested parallel streams that write the target's fields; a failing copy among others under way |
| **Value converters** `commons-object-impl/.../typeconverter/*` | last converted value | `from`, `to`, `matches` | widths of integers, nulls, texts |
| **Interfaces, messages, build, docs** | none | none | nothing |

How they interact: the caller's thread configures a builder and calls `start`;
the builder adds consumers to the executor's list and submits a JDK task; a
pool thread runs the task and then, from `afterExecute`, calls the consumers,
which read the builder's fields, the `Holder` and the `ExecutorResult` that the
caller's thread is writing.  The try-async builders sit on the core through
callbacks.  The timing builder extends the core and lets a second executor
cancel the future.  The bean converter uses the reflection streams, the loader
and the value converters.

What makes each correct: *core* - no failure and no result is lost without a
report, nothing untrue is told, one result per task goes to its consumer,
nobody waits forever; *executor* - consumers in order, a pass that is cut short
is noticed; *timing* - a timed-out task is cancelled, one that finished is not,
and each outcome is told; *try-async* - at most one catcher and a matching one,
before the finalizers, which all run, all resources closed; *deprecated
builder* - a consumer that is registered late is still told, first and not more
often than it must, and a timeout settles its task; *bean converter* - the
target is whole, and each field has the value of a namesake whatever the schedule
(which one's, where a class hides a field of a superclass, the schedule decides);
*value converters* -
a number keeps its value where the target's class has it.

## 2. What is modelled

| Module | Models |
|---|---|
| `ScheduledThreadBuilderExecutor` | the executor: consumers, `afterExecute` consumer by consumer, and the JDK pool around it (external) |
| `AbstractThreadBuilder` | the core builder on that executor (it EXTENDS it) |
| `AbstractTimingThreadBuilder` | the timing builder (it EXTENDS the core builder): time configuration, delayed and repeated tasks, the timeout executor |
| `TryAsync` | the builders of `async/` composed with the core builder (it EXTENDS it): every step of a try-async builder is a step of that builder |
| `LegacyThreadBuilder` | the deprecated builder with its executors |
| `ValueConverters` | the value converters as functions on classes and numbers |
| `BeanConverter` | the bean converter on the value converters (it EXTENDS them), with the field stream and the loader as it uses them |
| `TaskOutcome` | abstract: a task settles once; only settled outcomes are told; all three thread builders implement it |
| `*Proofs` | the theorems: a module for `TryAsync` and one for `BeanConverter`, and for each of the three thread builders two, `*Proofs` (types, refinement, timers) and `*AnswerProofs` (whoever waits for an outcome is told) |
| `MC*` and `*.cfg` | the instances for TLC |

### State and actions against the code

The core:

* `consumers` is `afterExecuteConsumers`.  An entry is `Handler(k)` (the lambda
  of `handleException` that start number `k` registered) or `UserConsumer(k)`.
* `builder` holds the configuration fields, reduced to "is a value present".
  `reconfigs` only counts setter calls made after the first start, for the bound.
* `started`, `callerPc`: the caller's thread inside `createExecutorAndRunThread`
  and `runThread`, one action per statement other threads can observe:
  `Start` (down to `addAfterExecuteConsumer(handleException(..))`),
  `RegisterAfterExecute`, `Submit` or `SubmitRejected`, `SetHolder`, `Publish`.
* `holder` is the set of starts whose `Holder` is filled, `executorResult`
  whether that field is non-null, `futures` its list, `threadResult` the value in it
  (named by the task that produced it).
* `worker[w]` is a pool thread: the task it has, where it is (`taken`,
  `running`, `ended`, `iterating`, `inConsumer`, `dying`), the position of its
  iterator, the modification count the iterator remembers, and whether this is
  the second `afterExecute` of a throwing pass.
* One call of a handler is `HandlePending`, `HandleEmptyHolder`,
  `HandleException`, `HandleRunnable`, `HandleNoExecutorResult`, or the two
  steps `SetThreadResult` and `ConsumeThreadResult` (lines 342 and 344).
* `Cancel` and `Shutdown` are whoever was given the `ExecutorResult`.
* `delivered` and `reports` record the calls of the result consumer and the
  exceptions given to the exception consumer or to the logger.

In `AbstractTimingThreadBuilder`:

* `timing` says which of the three `Optional<Duration>` are present,
  `threadTimeConfig` is the cached enum (`"null"` after a setter).
* `TimingStart` is `createExecutorAndRunThread` down to the user's consumer,
  `RegisterHandler` is `newExecutorResultIfNull` and the handler, `Schedule` or
  `ScheduleRefused` the call of the JDK, then `SetHolder`, `ArmTimer`
  (`handleInterruption`) and `PublishTimed`.
* `waiting` holds the tasks whose delay or interval has not elapsed, `periodic`
  those scheduled at a fixed rate.  `Due`, `Purge` (what `shutdown` does to
  periodic and cancelled tasks), `RunAgain` and the `Timed*` variants of the
  worker's steps are the JDK's scheduler (JDK 11).
* `timer[t]` is the timeout executor of start `t`: `armed`, then `cancelling`
  between the test and the `cancel` of `cancelFuture`, `handling` and
  `consuming` in its own `handleException`.  Since it has one task and one
  consumer, its loop over consumers is not modelled step by step.  `TimerHandles` stores a
  callable's result in the same `threadResult` as the pool's handlers do, and
  `TimerConsumes` reads it back from there.  `timerTold` is what that
  handler told, and which task's result it was, kept apart from the pool's `reports`
  and `delivered`.
* The steps of the handlers, the callbacks and the outside actions are the
  core's.

In `TryAsync`:

* `exceptionConsumers` is the key set of the map of catchers (a second catcher
  for a class replaces the first), `resources` the closeables given to
  `tryAsync`, `finallies` the calls of `finallyAsync`.  `finalizer` is the next
  one of the loop `finalizingExecutables.forEach`.
* `Execute` is `execute`: the core's start, configured as `ExecuteConfiguration`
  says.  Nobody else has the `ExecutorResult`, so nothing cancels or shuts down.
* `Attempt` is the try-block's end; `Wrapped` what a `RunnableWithException` is
  wrapped in.  `TryHandle` is the core's handler with `consumeExceptionIfExists`
  called where that handler reports: `Matching` and `CatchCalls` are its lookup
  (`isExpectedException`, `isExpectedCause`), any
  match being possibly the first in the map's order, and `LookupMayThrow` its
  dereference of a missing cause.
* `RunFinalizers`, `FinalizersEnd` are the after-execute consumer, finalizer by
  finalizer; `TryDie` is the JVM's call of the catchers for a dying thread.
* `trace` records the user's code in the order it ran.

In `LegacyThreadBuilder`:

* A start stands for the executor it makes, that executor's one thread, and its
  task.  `consumers[t]`, `pool[t]`, `worker[t]` and `queued` are theirs, `caught`
  the threads that were given the exception consumer as their handler.
* `Start` goes down to the scheduling; then `AddHandler`, `HandleInterruption`
  (the timeout), `Publish` (`newExecutorResultIfNull` and the futures) and
  `AddUserConsumer` follow, in the code's order: after the task was scheduled.
* `StartPass`, `Comodified`, `HandleQuietly`, `HandleException`,
  `CallUserConsumer`, `EndAfterExecute` are `afterExecute`, which has no
  try-catch: `Escaped` goes to a second pass, then to `Die`.
* `timer[t]` is the timeout executor: `CancelFuture`, then its own handler, which
  runs again if its consumer throws.  `calls` counts the consumer's calls by the
  thread that ran the task, `timerCalls` those by the timeout's handler.

In `BeanConverter` and `ValueConverters`:

* A conversion is a source and a target class, each a list of classes (itself,
  its superclasses) of fields with a name, a type, a value and whether they are
  synthetic or static final.  `FindMembers` is `FieldStream.of(..).nested().declared()`:
  the fields by their place in the class, since the parallel loops over them keep
  no order.
* `From`, `SetStrategy`, `To`, `Return`, `Throw` are the converter's calls;
  `copies[p]` is one call of `copyFieldValue` for a pair of namesakes, in steps:
  `GetValue`, `FindConverter` or `FindNoConverter`, `ConvertValue` (which leaves the
  result in the converter's field, `results`), `SetValue`.  The two nested
  parallel loops let all copies interleave.
* `Convert` is what the hundred converters return, by kind of class:
  `Truncate`, `Saturate` and `Narrow` Java's narrowing, `Parse` the parsers of
  texts, `ToBoolean` and `CharAt0` the rest.  `MatchedClass` is what each one's
  `matches` tests.

### Abstractions

The thread builders:

* Thread names and priorities, log texts and `getMessage` are left out.
* Plain fields behave sequentially consistently.  The Java memory model allows
  more (a worker might not see the holder for longer); everything the runs
  refute is refuted already without that.
* `submit` is atomic with respect to `shutdown`; the JDK rechecks the state
  after queueing and may reject or drop the task later.
* A `FutureTask` has no state between running and its outcome; `CancelFuture`
  wins until the outcome is set.  Interruption of the body is part of the
  free choice of its outcome.
* A task is taken in the order of submission (equal delays of zero are ordered
  by sequence number).  A pool thread that dies is replaced in the same step in
  which its uncaught exception handler is called.
* Time is not measured.  A delay, an interval or a timeout that was set may
  elapse at any moment after it began, so the runs cover every choice of
  durations and speeds.  Durations are positive: an interval of 0 is refused by the
  JDK as a periodic callable is, and nothing is unset.
* The deprecated builder is the exception: it delays a task for a second so that
  its consumers are registered by then.  `DelayOutlastsStart` says whether that
  holds.  The run assumes it, since without it nothing is promised; the theorems do not.
  A task without a consumer has no such delay and may end at any point of `start`.
* `Purge` is a step of its own after `shutdown`, one task at a time, where the
  JDK goes over the queue inside the call: the model allows more interleavings.
* `getTimeoutExecutorResults()` and `getFutures()` are filled in one step.
* A callback either returns, throws an `Exception` or, with `CallbackErrors`,
  an `Error`.  The user's after-execute consumer has no other effect.

The try-async builders: one builder, configured and then executed once.  The
resource builders' constructor adds one finalizer that closes all resources;
since an exception of a `close()` leaves it and the loop over finalizers alike,
each `close()` counts as a finalizer of its own, the first `resources` ones.
Classes of throwables are those of `Superclasses`.

The deprecated builder: one thread per executor, as `newBuilder()` makes it.
Which fields are set by a setter between the starts is bounded by
`Reconfigurable`.

The converters: numbers are integers, so fractions, NaN, infinities and the
rounding of `Float` and `Double` are left out.  A text is the text some value
has, or empty.  How many values a class holds is a constant, `Modulus`: Java's for
bytes, shorts and characters, and for the wider ones whatever is wider, because
TLC's integers have 32 bits themselves.  A bean in a field is converted by a
`BeanConverterImpl` of its own, which is external: it may succeed or fail.
There is one conversion by one caller.  The converters are found by the service
loader, and all of them are taken to be registered: the module itself registers
none, the services are listed among its test resources
(`commons-object-impl/src/test/resources/META-INF/services`), so what is said holds of
an application that lists them likewise.

## 3. Runs

| Run | Instance | Shows |
|---|---|---|
| `core_races` | 2 threads, 2 starts, callable with all consumers, Errors | `IInv` and `AnswerIInv` (the inductive invariants), `NoSilentFailure`, `NoSilentResult`, `LatestResult`, `ReportBeforeUserConsumer` (of the consumers of one start), `SpuriousOnlyMidStart`, and the refinement `ToldOutcomesAreSettled` hold in every interleaving |
| `core_reconfigured` | 1 thread, 2 starts, both kinds of builder with or without a user's consumer, a silent builder, 1 setter call between the starts, Errors, fairness | the types, `FailureReachesConsumer`, with one thread `AppliesOwnResult`, and `TasksProcessed`: a handler never waits for a task behind it |
| `core_result_lost` | 1 thread, 1 start | refutes `ResultConsumerExecuted` (finding 1) |
| `core_results_mixed` | 2 threads, 2 starts | refutes `AppliesOwnResult` (finding 2) |
| `core_report_order` | 1 thread, 2 starts | refutes `ReportBeforeEveryUserConsumer` (finding 3) |
| `timing_races` | 1 thread, 1 start, every time configuration of both kinds, Errors | `TimingIInv` (the inductive invariant), `TimerTells` (a timer that is through has told the truth, even if the pool's handler was cut short), `NoSilentFailure`, `NoSilentResult`, `FailureReachesConsumer`, and `TimedOutcomesAreSettled`: what the timer and the pool's thread tell is what the task settled on, whichever of them comes first |
| `timing_liveness` | 1 thread, 2 starts of a runnable, the first untimed, a time setting or another setter call between, fairness without an end of bodies | `TimedAsConfigured` (the cached configuration is never stale), `TimeoutSettles`, `IntervalRepeats` |
| `try_catch_finally` | callable and runnable builders, up to 3 catchers (the class thrown, a superclass, one apart), 2 resources, 1 finalizer; a checked exception, an unchecked one or an Error thrown; Errors in callbacks; fairness | `TryInv` (the inductive invariant), `CatchOnce`, `CallableCaught`, `CatchBeforeFinally`, `FinallyOnce`, and `FinallyExecuted` |
| `try_resources` | 2 resources, 1 `finallyAsync`, fairness | refutes `FinallyBlockExecuted` (finding 4) |
| `try_result_order` | a callable, 1 `finallyAsync` | refutes `ResultConsumedFinally` (finding 5) |
| `legacy_builder` | 2 starts, with a timeout or with an interval and a user's consumer, the exception consumer set or unset between, callbacks that throw, fairness | `LegacyAnswerInv` (the inductive invariant), `FailureTold` although consumers come late, `ReportFirst`, `ReportedOnce` (by the task's thread at most three times, by the timeout's handler at most twice), the refinement `LegacyOutcomesAreSettled`, and `LegacyTimeoutSettles` |
| `bean_conversions` | every type of field to every other with boundary values, hidden, static final and synthetic fields, all copies interleaved, fairness | `BeanInv` (the inductive invariant), `TargetFromSource` (no schedule mixes values up), `ReturnedWhole`, `FailsForReason`, `EqualWhereRepresentable` (the converters against the identity), and `ConversionEnds` |

**Bounds.** `MaxSubmissions = 2` gives every pair of a start and another
start's task, handler, empty holder or consumer; two workers give every pair of
concurrent passes.  What three would add (a third party's handler in between)
is symmetric to what the second does; and the theorems of section 5 do not
depend on the bounds.  `MaxReconfigs` bounds setter calls after the first
start; before it, `Configurations` covers the configurations.  For the timing
builder one thread is enough: the second actor is the timer, and one start meets
every order of timer, body, handler, cancellation and shutdown.  The second start, in
`timing_liveness`, is there for what starts share: the thread and the cached time
configuration.  Two timers at once, and a second start that is both repeated and timed,
are in no run; theorem `TimersTell` covers any number of either.
`silentInterruption` is set in `core_reconfigured`, with a runnable builder that has no
user's consumer; elsewhere the builders start without it.
A try-async builder starts once, by its code; three finalizers give one before
and one after any that throws.  Starts of the deprecated builder share only
fields and the `ExecutorResult`, so two are enough.  A conversion has up to
two fields of a name on a side and two pairs at work at a time, which gives
every interference of two copies; the values are those at the
boundaries of each width.  Thread symmetry is used only where no liveness
property is checked.

**Deadlock** is checked in every run: the only states without another step are
those in which the caller is idle, nothing is queued and every worker is idle
(`Terminated`); for the timing builder also nothing waits for time and no
timer is under way (`TimedTerminated`); a conversion stops when `to` is over.

**Fairness** (`FairSpec`): a `start()` that was entered is carried on, and each
worker takes its next step when it can.  That is what the JVM's scheduler gives,
provided bodies and callbacks end.  Nobody has to start, cancel, reconfigure or
shut down anything.  `TimingFairSpec` adds that time passes (`Due`) and the timers'
threads run, and drops that bodies end: `TimeoutSettles` must hold without it,
and `IntervalRepeats` states it as its premise, thread by thread.  `TryFairSpec`
is the core's with finalizers and catchers that end; nobody has to call
`execute`.  The deprecated builder's has threads, timers and delays, and no end
of bodies.  A conversion's: `to` is carried on once called, and copies are only
as long as none has failed, because copies behind a failed one are dropped.

## 4. Findings

1. *A result may be lost* (`core_result_lost`).  The javadoc of
   `handleException` (`AbstractThreadBuilder.java:296`) promises that, if the
   thread was not cancelled and threw nothing, the result consumer is executed.  The
   handler is registered, and the task submitted, before the holder is filled
   (`:258`, `:262`) and before `executorResult` exists (`:264`).  A task that
   ends in between makes the handler throw a `NullPointerException`, which goes
   to the exception consumer instead.  With a consumer being added at that
   moment the handler may not be reached at all (`ConcurrentModificationException`).
   What does hold is `NoSilentResult` (theorem `ResultsAreToldOrMissed`): an
   exception is reported, or the worker's death.
2. *Results may be mixed up* (`core_results_mixed`).  `consumesFuture` stores the
   result in the shared `ExecutorResult` and reads it back for the consumer
   (`:342`, `:344`); with two pool threads another worker's result may be there
   by then.  With one pool thread this cannot happen (theorem
   `SingleWorkerAppliesOwnResult`) unless there are timeouts: a timeout's handler runs
   the same code on a thread of its own, and between its two steps the pool's thread or
   another timer may store.  `AppliesOwnResult` is not claimed for the timing builder.
3. *Order of consumers over several starts* (`core_report_order`).
   `setUncaughtExceptionConsumer` promises to "be called as a first
   after-executes consumer" (`AbstractThreadBuilder.java:100`).  The core
   registers the two consumers of a start in that order (`:258`, `:260`), and within a
   start it holds (`core_races`, theorem `ReportsComeFirst`).  But the list is that of all
   starts and every consumer is called after every task: the first start's user
   consumer sees a failed task of the second start before that failure was reported.
   In the deprecated builder, with a list for each start, the promise holds (`legacy_builder`).
4. *Resources left open, finalizers left out* (`try_resources`).  The closeables of a try-async block
   "will later be automatically closed" (`async/TryAsyncBuilder.java:159`).
   The first `close()` that throws ends the loop
   (`async/ResourcesTryAsyncBuilder.java:46`, `MappedResourcesTryAsyncBuilder.java:43`),
   and the later ones are never called, nor is the runnable of `finallyAsync`, which
   "will be executed inside the finally-block" (`async/AbstractTryAsyncBuilder.java:59`).
   Try-with-resources closes all and runs its finally-block.
5. *Result before the finalizers* (`try_result_order`).  The javadoc of `execute` names the
   result consumer last, "Finally, if the thread produces some object as a result"
   (`async/AbstractTryAsyncBuilder.java:112-113`).  The result is consumed by the handler, which comes
   before the after-execute consumer that runs the finalizers.
6. *A catcher that throws* (`try_catch_finally`).  The javadoc of `consumeExceptionIfExists` says it
   "will be triggered twice if the exception consumer is rethrowing any exception"
   (`:138`).  The executor's loop logs what it throws (`core/ScheduledThreadBuilderExecutor.java:90`)
   and the thread lives on; only an Error leads to a second call.  `CatchOnce`, which passes
   (and is theorem `OneCatcher`), says the opposite of the javadoc.

Read off the code, without a run that refutes the text:

* *Order of consumers, timing builder.*  It registers the user's consumer before the
  handler (`AbstractTimingThreadBuilder.java:122`), so within one start already the promise
  of finding 3 fails; `ReportBeforeUserConsumer` is not claimed for it.
* *Exception consumer set late.*  The thread factory is given the
  exception consumer once, when the first start makes the executor (`AbstractThreadBuilder.java:239-243`).
  One that is set between two starts is called by `handleException`, which reads the field,
  but not for a thread that dies.  `FailureReachesConsumer` is therefore claimed only of a
  builder that was not reconfigured.
* *Silence.*  By the javadoc of `setSilentInterruption` exceptions "will only be
  logged, and will not be handled in any way" (`:154-155`; `:298-300` says alike).
  `isNotSilentOrIsExecutionException` (`:356`) silences a `CancellationException` only,
  which is nearer to what the javadoc says of the parameter.
* *A catcher that does not correspond.*  "Only the implementation corresponding to
  the thrown exception will be executed" (`async/AbstractTryAsyncBuilder.java:110-111`).  A callable's failure comes to the lookup
  inside an `ExecutionException`, which a catcher for `Exception` matches by itself (`:163`):
  it may be called for an Error, even if there is a catcher for that.  `CallableCaught`
  claims what the code does guarantee, and `CaughtAs` spells out the exception to it.
* *Timers and the result field.*  With timeouts results may be mixed up with one pool thread
  too (finding 2).  `TimerTells` claims that the result applied is one that some task really had.

Not findings, but worth knowing:

* With a timeout the handler exists twice, so an exception or a result goes to
  its consumer from the pool and again from the timer
  (`AbstractTimingThreadBuilder.java:319`), even when the task ended long
  before.  `TimingRunnableThreadBuilderTest.runBeforeTimeoutCaughtException` sees one call because
  it looks before the timeout elapses.  The timer also stores its task's result
  again, so `LatestResult` and `AppliesOwnResult` are not claimed for the timing builder.
* The deprecated builder's timeout has the handler a second time as well: with it a
  failure may be told five times, three times by the thread and twice by the timeout's.
* `ByteToStringConverterImpl.matches` (`:39`) tests for `Integer`: a `Byte` is never
  converted to a `String`, and an `Integer` may meet this converter first and end
  in a `ClassCastException` (`FailsForReason` lists both).
* A static final field with a namesake in the source (a `serialVersionUID`) and a
  null of another type abort a whole conversion.
* `ResourcesTryAsyncBuilder` (`:32`) extends `AbstractTryAsyncBuilder` of another
  class, so a chained call on it may fail with a `ClassCastException`.

## 5. Proofs

| Module | Theorem | Statement |
|---|---|---|
| `AbstractThreadBuilderProofs` | `Invariance` | `Spec => []IInv` |
| | `Typing` | `Spec => []TypeOK` |
| | `Refinement` | `Spec => ToldOutcomesAreSettled` (the builder implements `TaskOutcome`) |
| | `SingleWorkerAppliesOwnResult` | `Worker = {u}` implies `Spec => []AppliesOwnResult` |
| | `SpuriousReports` | `Spec => SpuriousOnlyMidStart` |
| `AbstractThreadBuilderAnswerProofs` | `Answers` | `Spec => []AnswerIInv` |
| | `FailuresAreReported` | `Spec => []NoSilentFailure` |
| | `FailuresReachConsumer` | `Spec => []FailureReachesConsumer` |
| | `ResultsAreToldOrMissed` | `Spec => []NoSilentResult` |
| | `LatestResultStays` | `Spec => []LatestResult` |
| | `ReportsComeFirst` | `Spec => []ReportBeforeUserConsumer` |
| `AbstractTimingThreadBuilderProofs` | `TimersTell` | `TimingSpec => []TimerTells` |
| | `TimersAreTruthful` | `TimingSpec => []TimersTellTruth` |
| | `StartsAsConfigured` | `TimingSpec => TimedAsConfigured` |
| `AbstractTimingThreadBuilderAnswerProofs` | `TimedAnswers` | `TimingSpec => []TimingIInv` |
| | `TimingTyping` | `TimingSpec => []TimingTypeOK` |
| | `TimedFailuresAreReported` | `TimingSpec => []NoSilentFailure` |
| | `TimedFailuresReachConsumer` | `TimingSpec => []FailureReachesConsumer` |
| | `TimedResultsAreToldOrMissed` | `TimingSpec => []NoSilentResult` |
| | `TimedRefinement` | `TimingSpec => TimedOutcomesAreSettled` (it implements `TaskOutcome`) |
| `TryAsyncProofs` | `TryAsyncImplementsBuilder` | `TrySpec => Spec` |
| | `TryFailuresAreReported` | `TrySpec => []NoSilentFailure` |
| | `TryOutcomesAreSettled` | `TrySpec => ToldOutcomesAreSettled` |
| | `TryFailuresReachLookup` | `TrySpec => []FailureReachesConsumer` |
| | `TryInvariance` | `TrySpec => []TryInv` |
| | `TryTyping` | `TrySpec => []TryTypeOK` |
| | `CatchesComeFirst` | `TrySpec => []CatchBeforeFinally` |
| | `OneCatcher` | `TrySpec => []CatchOnce` |
| | `FinalizersInOrder` | `TrySpec => []FinallyOnce` |
| | `FailuresAreCaught` | `TrySpec => []CallableCaught` |
| `LegacyThreadBuilderProofs` | `LegacyInvariance` | `Spec => []LegacyInv` |
| | `LegacyTyping` | `Spec => []LegacyTypeOK` |
| | `LegacyRefinement` | `Spec => LegacyOutcomesAreSettled` (it implements `TaskOutcome` too) |
| `LegacyThreadBuilderAnswerProofs` | `LegacyAnswers` | `Spec => []LegacyAnswerInv` |
| | `FailuresAreTold` | `DelayOutlastsStart` implies `Spec => []FailureTold` |
| | `FailuresAreToldOnce` | `DelayOutlastsStart` implies `Spec => []ReportedOnce` |
| | `LegacyReportsComeFirst` | `Spec => []ReportFirst` |
| `BeanConverterProofs` | `BeanInvariance` | `Spec => []BeanInv` |
| | `WholeReturned` | `Spec => []ReturnedWhole` |
| | `ValuesComeFromSource` | `Spec => []TargetFromSource` |
| | `ValuesStayEqual` | `Spec => []EqualWhereRepresentable` |
| | `FailuresHaveReasons` | `Spec => []FailsForReason` |

They hold for any number of starts, workers, catchers, resources and finalizers,
and for any classes, fields and values.  The assumptions are those on the constants:
`ExecutorAssumption` and `BuilderAssumption` (some starts are allowed, there is
a worker, the configurations are configurations), `TimingAssumption`,
`TryAssumption` (in addition: configured as `execute` does, one start),
`LegacyAssumption` (of the same kind; `DelayOutlastsStart` may be either),
`ModulusAssumption` (the widths) and `ConversionsAssumption` (fields have values of
their types).  Two theorems on the deprecated builder have `DelayOutlastsStart` as
a hypothesis of their own: it is what the code waits a second for, and without it
a task may fail before anyone is registered to tell.

**Core: types, truth, order.** `IInv` is the types, `HandlersRegistered` (a start's
handler is in the list before its task is anywhere), `WorkersHoldSettled` (a worker
has a submitted task, settled once `afterExecute` begins), `OutputsTrue`, which is
what the refinement needs, and `PassReports`: in its first pass a worker beyond its
own task's handler has reported, whatever the other handlers did.  The proof
first summarises what a callback may change (`CallbackEffect`, lemma
`HandleCallEffect`), which reduces `Next` to a few cases (`NextSteps`), and
then has one lemma per conjunct of `IInv`.  `SpuriousReports` needs `MidStart`
besides: a task lacks its holder or the executor result only while its own start
is under way.  That lists only grow and outcomes stay is `Monotone`.

**Core: answers.** That nothing is dropped in silence is not a fact of one pass but
of who is still on the way.  A task is `Answered` when whoever is to be told how it
ended was told; `AnswersComing` says that a task which is not has a worker that
`WillAnswer`: it has its handler still ahead of it in the list, or is in a second
pass or dying, which is itself reported.  A worker that is gone therefore leaves
an answered task, which is what the three properties say.  `ResultsComing` with
`WillStore` is the same argument for the field `threadResult`, and
`ConsumersInOrder` (starts in order, handler first) gives `LatestResult` and
`ReportBeforeUserConsumer`.  `FactoryKept` ties the factory's handler to the
configuration of the first start, so that a death is reported to the right place.

**Timing: timers.** Of the pool nothing is needed but that it never changes an outcome
(`KeepsOutcomes`), so every step is a timer's or leaves the timers alone.
`TimerInv` says that a timer is beyond its cancellation only with a settled task
(`TimersFollow`) and that what it told is the outcome of the task it is about, its own or
the one whose result the shared field held (`TimersTellTruth`), which
makes `TimerTells` inductive.  `CacheInv` ties the cached configuration, the
caller's place in `start`, and the task's interval and timer together.

**Timing: the pool.** Each step is one the untimed builder has too (`CommonStep`),
for which the lemmas on answers are cited as they stand, or one of the few of
`TimedStep`: a task that is delayed, refused, purged or taken up again, and a run
that ends without an outcome (`EndsOpen`).  `TimingIInv` adds to the untimed
builder's parts that what is delayed was submitted and has its handler
(`DelaysRegistered`).  It does without `WorkersHoldSettled`, which a periodic task
breaks: its worker comes to `afterExecute` with the future still open.
`TimedRefinement` maps the workers and the timers alike to the tellers of `TaskOutcome`.

**Try-async.** Each step of `TryAsync` is shown to be a step of the core builder
or a stutter of it, finalizers being what the user's consumer does inside; the
core's theorems then carry over.  What is said of catchers and finalizers is said of
`trace`, and `TryInv` connects it with the worker's place: one task at one worker
(`OneAtWork`) with two consumers (`ConsumersOfExecute`), what may have been called
at each place (`PassesTraced`), that an Error stands in the trace whenever there
is a second pass, and how far the finalizers of the pass under way are
(`FinalizersTraced`).

**Deprecated builder.** `LegacyInv` is the types, `Registration` (which consumers
an executor has at each point of `start`: never more than two) and `ToldIsTrue`,
which the refinement of `TaskOutcome` needs when an outcome is told again.
`LegacyAnswerInv` adds that the handler is first in every list
(`HandlerRegistered`), that with the delay no pass meets a list that changes
(`NeverComodified`) and none gets away without telling (`FailuresTold`), and
counts the calls of the consumer by the thread's place, its second pass and the one
turn that a repeated task has left (`CallsCounted`, `MostCalls`), and those of the
timeout's handler by the timer's place (`TimerCallsCounted`).  A step
is the caller's, one from outside that at most cancels (`OutsideStep`: a timer, a
cancellation, a shutdown), the thread's own (`OwnStep`), or one of its pass (`PassStep`).

**Bean converter.** `BeanInv`: the copies are those of the pairs of namesakes
(`CopiesOfPairs`), one that found a converter has it to itself and it accepts the
value, what was converted is the image of the source field's value, what failed has
a reason (`CopyMatched`), and a field of the target is untouched or has what a
namesake's copy wrote (`TargetWritten`), though copies run in any order and a
failure may overtake them.  Under it are lemmas on the converters, for every value:
narrowing stays in range and keeps what is in range, by way of an int too
(`NarrowInRange`), a conversion gives a value of the class asked for or a
`NumberFormatException` for a text of another class (`ConvertType`), and an equal
one where there is one (`ConvertEqual`).  `LeadingDigit`, a recursive
function, is shown to be well defined and a digit (`LeadingDigitDef`,
`LeadingDigitType`) from the least counterexample (`LeastOf`) in place of an
induction.

**Model-checked only.** Liveness under fairness is out of the prover's reach and
stays with TLC: `TasksProcessed`, `TimeoutSettles`, `IntervalRepeats`, `FinallyExecuted`,
`LegacyTimeoutSettles`, `ConversionEnds`.  Every invariant and every action
property that a passing run checks is stated by a theorem.

## 6. Plan

1. *(done)* `ScheduledThreadBuilderExecutor`, `AbstractThreadBuilder`,
   `TaskOutcome` and their runs and theorems.
2. *(done)* `AbstractTimingThreadBuilder`, its runs and theorems.
3. *(done)* `TryAsync` on top of the core, its refinement and its invariant.
4. *(done)* `LegacyThreadBuilder`, its invariants and refinement.
5. *(done)* `ValueConverters` and `BeanConverter` with what they use of the
   reflection streams and the loader, and their theorems.
6. Proofs left: the safety half of the liveness properties, that some step of the
   fairness condition is possible in every state in which something is owed; and that two
   workers mix results up only through `threadResult`.
7. Models left: a bean converter shared by threads.

## 7. Not modelled

* *Thread utilities*: wrappers of `Thread.sleep` and the class loader, without
  state.
* *Interfaces, annotations, messages*: no state and no control flow.
* *Build scripts and `docs/`*: the JavaScript under `docs/` belongs to
  generated javadoc and JaCoCo pages (jQuery, search boxes, table sorting,
  highlighting); it is third-party or generated and no part of the library, which is Java.
* *Reflection streams* of methods, constructors and annotations are the loop of the
  field stream over another kind of member; `build` called twice adds the members
  twice, which nothing in the repository does or speaks of.
* *Service loader*: what the bean converter does not call is the first element and
  the list of what it does call.
* *Bean converter*: one shared by several threads or used again, and beans that lead
  back to themselves.  The annotated and the nested strategy are stubs in the source.
* `setExecution(null)`, which stores the null and then throws, executors that
  are never shut down, and the deprecated builder's `ExecutorResult` that keeps the
  first executor are in the models; no property speaks of them because no
  document says what is owed there.
