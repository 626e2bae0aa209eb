-------------------------------- MODULE TryAsync --------------------------------
(***************************************************************************)
(* The builders of async/: try-catch-finally and try-with-resources on a   *)
(* new thread.  execute() configures a builder of AbstractThreadBuilder    *)
(* with the lookup of a catcher as its uncaught exception consumer and the *)
(* run through the finalizers as its after-execute consumer, starts it     *)
(* once and drops the ExecutorResult: nobody cancels the task or shuts its *)
(* one thread down.                                                        *)
(*                                                                         *)
(* One builder, configured until execute() is called.  The finalizer that  *)
(* a resource builder's constructor adds closes its resources one by one,  *)
(* and an exception of a close() leaves that finalizer and the loop over   *)
(* finalizers alike, so each close() counts as a finalizer here: the first *)
(* "resources" ones.                                                       *)
(***************************************************************************)
EXTENDS AbstractThreadBuilder

CONSTANTS Catchable,     \* classes that addCatcher may be called with
          Failures,      \* classes of what the try-block may throw
          MaxFinallies,  \* bound: calls of finallyAsync
          MaxResources   \* bound: resources of one builder

VARIABLES exceptionConsumers,  \* the keys of the HashMap of catchers
          resources,           \* number of closeables given to tryAsync
          finallies,           \* number of finallyAsync calls
          finalizer,           \* the next finalizer of the pass under way
          trace                \* the user's code, in the order it was run

tryVars == <<exceptionConsumers, resources, finallies>>
allVars == <<vars, tryVars, finalizer, trace>>

\* The classes a class extends, for those that matter.
Superclasses ==
  [Throwable            |-> {},
   Error                |-> {"Throwable"},
   Exception            |-> {"Throwable"},
   IOException          |-> {"Throwable", "Exception"},
   ExecutionException   |-> {"Throwable", "Exception"},
   RuntimeException     |-> {"Throwable", "Exception"},
   NullPointerException |-> {"Throwable", "Exception", "RuntimeException"},
   AsyncRuntimeException |-> {"Throwable", "Exception", "RuntimeException"}]

Class == DOMAIN Superclasses

AssignableFrom(c, d) == c = d \/ c \in Superclasses[d]

\* What execute() passes to the builder: for a task with or without a consumer
\* of its result, or for a RunnableWithException.
ExecuteConfiguration ==
  {b \in Builder : /\ b.execution /\ b.afterExecuteConsumer /\ b.uncaughtExceptionConsumer
                   /\ ~ b.silentInterruption
                   /\ b.executionType = "RUNNABLE" => ~ b.threadResultConsumer}

ASSUME TryAssumption ==
  /\ Configurations \subseteq ExecuteConfiguration
  /\ MaxSubmissions = 1 /\ MaxReconfigs = 0
  /\ Catchable \subseteq Class /\ Failures \subseteq Class
  /\ MaxFinallies \in Nat /\ MaxResources \in Nat

Finalizer == 1 .. MaxResources + MaxFinallies

Ending == {"returned", "exception", "error"}

Call == [step : {"try"}, thrown : Failures \cup {"none"}] \cup
        [step : {"catch"}, catcher : Class, origin : Class, ended : Ending] \cup
        [step : {"result"}, ended : Ending] \cup
        [step : {"finally"}, finalizer : Finalizer, ended : Ending]

TryTypeOK ==
  /\ TypeOK
  /\ exceptionConsumers \subseteq Catchable
  /\ resources \in 0 .. MaxResources
  /\ finallies \in 0 .. MaxFinallies
  /\ finalizer \in 1 .. resources + finallies + 1
  /\ trace \in Seq(Call)

TryInit ==
  /\ Init
  /\ resources \in IF builder.executionType = "RUNNABLE" THEN 0 .. MaxResources ELSE {0}
  /\ exceptionConsumers = {}
  /\ finallies = 0
  /\ finalizer = 1
  /\ trace = <<>>

-------------------------------------------------------------------------------
(* The caller. *)

Configuring == started = 0

\* A second catcher for the same class replaces the first.
AddCatcher(c) ==
  /\ Configuring
  /\ exceptionConsumers' = exceptionConsumers \cup {c}
  /\ UNCHANGED <<vars, resources, finallies, finalizer, trace>>

FinallyAsync ==
  /\ Configuring
  /\ finallies < MaxFinallies
  /\ finallies' = finallies + 1
  /\ UNCHANGED <<vars, exceptionConsumers, resources, finalizer, trace>>

\* execute() down to the return of start().
Execute == Start \/ RegisterAfterExecute \/ Submit \/ SetHolder \/ Publish

-------------------------------------------------------------------------------
(* The try-block. *)

\* A RunnableWithException's exceptions are wrapped before they leave the task.
Wrapped(thrown) ==
  IF builder.executionType = "RUNNABLE" /\ AssignableFrom("Exception", thrown)
  THEN "AsyncRuntimeException" ELSE thrown

Attempt(w) ==
  \/ /\ EndBody(w, "ok")
     /\ trace' = Append(trace, [step |-> "try", thrown |-> "none"])
  \/ /\ EndBody(w, "failed")
     /\ \E e \in Failures : trace' = Append(trace, [step |-> "try", thrown |-> e])

\* The throwables that consumeExceptionIfExists may get for a report: from
\* future.get(), from an empty holder, from the result consumer, from the JVM.
Origins(what) ==
  CASE what = "failed"   -> {[class |-> "ExecutionException", cause |-> Wrapped(trace[1].thrown)]}
    [] what = "null"     -> {[class |-> "NullPointerException", cause |-> "none"]}
    [] what = "callback" -> {[class |-> "RuntimeException", cause |-> c] : c \in {"none", "IOException"}}
    [] what = "death"    -> {[class |-> "Error", cause |-> "none"]}

-------------------------------------------------------------------------------
(* The lookup of a catcher. *)

IsExpectedException(origin, expected) == AssignableFrom(expected, origin.class)

IsExpectedCauseUnchecked(origin, expected) ==
  origin.class \in {"ExecutionException", "RuntimeException"}

IsExpectedCause(origin, expected) ==
  /\ AssignableFrom(expected, origin.cause)
  /\ origin.class \in {"ExecutionException", "RuntimeException"}

Matching(origin) ==
  {c \in exceptionConsumers :
     \/ IsExpectedException(origin, c)
     \/ origin.cause # "none" /\ IsExpectedCause(origin, c)}

\* getCause() is dereferenced for a key that is not the throwable's own class:
\* without a cause the lookup itself throws, if it comes to such a key first.
LookupMayThrow(origin) ==
  /\ origin.cause = "none"
  /\ \E c \in exceptionConsumers : ~ IsExpectedException(origin, c)

CatchCall(origin, c, e) ==
  [step |-> "catch", catcher |-> c, origin |-> origin.class, ended |-> e]

CatchCallsAll(origin) ==
  {<<CatchCall(origin, c, e), CatchCall(origin, d, e)>> :
     c \in Matching(origin), d \in Matching(origin), e \in Ending}
  \cup (IF Matching(origin) = {} \/ LookupMayThrow(origin) THEN {<<>>} ELSE {})

\* Any match may be the first one in the order of the HashMap.  What the lookup
\* throws leaves the consumer, and nobody is called.
CatchCalls(origin) ==
  {<<CatchCall(origin, c, e)>> : c \in Matching(origin), e \in Ending} \cup
  (IF Matching(origin) = {} \/ LookupMayThrow(origin) THEN {<<>>} ELSE {})

\* The calls that a step reporting to the exception consumer makes.
ReportCalls ==
  IF reports' = reports THEN {<<>>}
  ELSE UNION {CatchCalls(o) : o \in UNION {Origins(r.what) : r \in reports' \ reports}}

ResultCall(w) ==
  IF delivered' = delivered THEN <<>>
  ELSE <<[step |-> "result", ended |-> IF reports' # reports THEN "exception"
                                       ELSE IF worker' = Escaped(w) THEN "error"
                                       ELSE "returned"]>>

\* handleException and what it calls.  An exception of the catcher is logged
\* by afterExecute's loop; only an Error leaves afterExecute.
TryHandle(w) ==
  /\ HandleCall(w, 1)
  /\ \E calls \in ReportCalls :
       /\ trace' = trace \o ResultCall(w) \o calls
       /\ reports' # reports =>
            (worker' = Escaped(w) <=> calls # <<>> /\ calls[1].ended = "error")

-------------------------------------------------------------------------------
(* The finalizers. *)

EndsFinalizer(w, e) ==
  /\ trace' = Append(trace, [step |-> "finally", finalizer |-> finalizer, ended |-> e])
  /\ UNCHANGED <<consumers, queue, pool, future, callerVars, threadResult, outputs>>

InFinalizers(w) == Calling(w) /\ Called(w) = UserConsumer(1)

RunFinalizersEscaping(w) ==
  /\ InFinalizers(w)
  /\ finalizer <= resources + finallies
  /\ \/ EndsFinalizer(w, "returned") /\ finalizer' = finalizer + 1 /\ UNCHANGED worker
     \/ EndsFinalizer(w, "exception") /\ finalizer' = 1 /\ worker' = Escaped(w)

RunFinalizersOnSuccess(w) ==
  /\ InFinalizers(w)
  /\ finalizer <= resources + finallies
  /\ IF future[1] = "ok"
     THEN EndsFinalizer(w, "returned") /\ finalizer' = finalizer + 1 /\ UNCHANGED worker
     ELSE /\ finalizer' = 1
          /\ worker' = Returned(w)
          /\ UNCHANGED <<consumers, queue, pool, future, callerVars, threadResult, outputs, trace>>

\* An exception ends the loop over the finalizers and is logged; an Error is
\* not, and all of them are run again in the second pass.
RunFinalizers(w) ==
  /\ InFinalizers(w)
  /\ finalizer <= resources + finallies
  /\ \/ EndsFinalizer(w, "returned") /\ finalizer' = finalizer + 1 /\ UNCHANGED worker
     \/ EndsFinalizer(w, "exception") /\ finalizer' = 1 /\ worker' = Returned(w)
     \/ CallbackErrors /\ EndsFinalizer(w, "error") /\ finalizer' = 1 /\ worker' = Escaped(w)

FinalizersEnd(w) ==
  /\ InFinalizers(w)
  /\ finalizer > resources + finallies
  /\ finalizer' = 1
  /\ worker' = Returned(w)
  /\ UNCHANGED <<consumers, queue, pool, future, callerVars, threadResult, outputs, trace>>

\* The thread dies of an Error, which goes to the catchers once more; what they
\* throw is ignored by the JVM.
TryDie(w) ==
  /\ Die(w)
  /\ \E calls \in ReportCalls : trace' = trace \o calls

-------------------------------------------------------------------------------
TryCallerStep == Execute /\ UNCHANGED <<tryVars, finalizer, trace>>

PoolStep(w) ==
  /\ Take(w) \/ StartBody(w) \/ BeginAfterExecute(w) \/ EndAfterExecute(w)
  /\ UNCHANGED <<callerVars, threadResult, outputs, trace>>

TryWorkerStep(w) ==
  \/ (PoolStep(w) \/ TryDie(w) \/ TryHandle(w)) /\ UNCHANGED <<tryVars, finalizer>>
  \/ Attempt(w) /\ UNCHANGED <<callerVars, threadResult, outputs, tryVars, finalizer>>
  \/ (RunFinalizers(w) \/ FinalizersEnd(w)) /\ UNCHANGED tryVars

TryNext ==
  \/ \E c \in Catchable : AddCatcher(c)
  \/ FinallyAsync
  \/ TryCallerStep
  \/ \E w \in Worker : TryWorkerStep(w)
  \/ Terminated /\ UNCHANGED <<tryVars, finalizer, trace>>

TrySpec == TryInit /\ [][TryNext]_allVars

\* As in the core: nobody has to call execute(), but it is carried on, and the
\* try-block, the catchers and the finalizers end.
TryFairSpec ==
  /\ TrySpec
  /\ WF_allVars(~ Configuring /\ TryCallerStep)
  /\ \A w \in Worker : WF_allVars(TryWorkerStep(w))
-------------------------------------------------------------------------------
(* Properties. *)

\* The calls of user code before the i-th one that ended with an Error.
ErrorBefore(i) == \E k \in 1 .. i - 1 : trace[k].step # "try" /\ trace[k].ended = "error"

Steps(step) == {i \in DOMAIN trace : trace[i].step = step}

\* Catch comes before finally: once a finalizer has been entered no catcher is
\* called, but for an Error of the user's own callbacks that kills the thread.
CatchBeforeFinally ==
  \A i \in Steps("finally"), j \in Steps("catch") :
    i < j => ErrorBefore(j) /\ trace[j].origin = "Error"

\* What the code does of catchers that throw: one catcher at most is called, also
\* when it throws an exception itself, and the JVM's second call is made only after
\* an Error.  (consumeExceptionIfExists says that a catcher "will be triggered twice
\* if the exception consumer is rethrowing any exception": see the README.)
CatchOnce ==
  \A i, j \in Steps("catch") : i < j => trace[j].origin = "Error" /\ ErrorBefore(j)

\* Finalizers run in order, each once: one runs again only after an Error, and
\* never a third time.
FinallyOnce ==
  /\ \A i, j \in Steps("finally") :
       i < j /\ trace[i].finalizer >= trace[j].finalizer => ErrorBefore(j)
  /\ \A i, j, k \in Steps("finally") :
       i < j /\ j < k => ~ (trace[i].finalizer = trace[j].finalizer /\ trace[j].finalizer = trace[k].finalizer)

\* The classes a failure of the try-block is caught as: its own, and that of the
\* ExecutionException the future gives it out in.
CaughtAs(c) == AssignableFrom(c, trace[1].thrown) \/ AssignableFrom(c, "ExecutionException")

\* A callable's failure for whose class there is a catcher is caught: when the
\* worker is through, a catcher of that class or of one it extends was called, or
\* one of a class that ExecutionException extends, unless the holder was still empty.
CallableCaught ==
  /\ builder.executionType = "CALLABLE"
  /\ future[1] = "failed" /\ Released(1)
  /\ \A r \in reports : r.what # "null"
  /\ \E c \in exceptionConsumers : AssignableFrom(c, trace[1].thrown)
  => \E i \in Steps("catch") : trace[i].catcher \in exceptionConsumers /\ CaughtAs(trace[i].catcher)

\* "After the thread runs, even if it throws an exception, the finalizing
\* implementation (if configured) will be executed": each of them, whatever the
\* try-block and the catchers throw, unless an earlier finalizer threw.
FinallyExecuted ==
  \A f \in Finalizer :
    started = 1 /\ f <= resources + finallies ~>
      \E i \in Steps("finally") :
        \/ trace[i].finalizer = f
        \/ trace[i].finalizer < f /\ trace[i].ended # "returned"

\* The closeables are those of a try-with-resources block, "which will later be
\* automatically closed", and finallyAsync "adds an implementation that will be
\* executed inside the "finally-block"": all of it, also when one close() fails.
\* (See the README: what comes after the one that failed is left out.)
FinallyBlockExecuted ==
  started = 1 ~> \A f \in 1 .. resources + finallies :
                   \E i \in Steps("finally") : trace[i].finalizer = f

\* execute: "Finally, if the thread produces some object as a result, and if there
\* is a consumer for that result, it will be executed", after the finalizers.
\* (See the README: it is called before them.)
ResultConsumedFinally ==
  \A i \in Steps("result") :
    \A f \in 1 .. resources + finallies :
      \E j \in Steps("finally") : j < i /\ trace[j].finalizer = f

-------------------------------------------------------------------------------
(* The inductive invariant behind the theorems of TryAsyncProofs. *)

HasError == \E k \in DOMAIN trace : trace[k].step # "try" /\ trace[k].ended = "error"

\* Nobody changes what execute() has configured.
ConfigurationKept == builder \in Configurations

\* execute() registers the handler and the run through the finalizers, before it submits.
ConsumersOfExecute ==
  /\ started = 0 => consumers = <<>> /\ callerPc = "idle"
  /\ callerPc = "firstAdded" => consumers = <<Handler(1)>>
  /\ started = 1 /\ callerPc # "firstAdded" => consumers = <<Handler(1), UserConsumer(1)>>
  /\ future[1] # "none" => started = 1 /\ callerPc \notin {"firstAdded", "registered"}

\* The one task is nowhere, in the queue, with one worker, or done with.
OneAtWork ==
  /\ queue # <<>> => Len(queue) = 1 /\ future[1] = "new"
  /\ \A w \in Worker : worker[w].pc # "idle" => queue = <<>>
  /\ \A v, w \in Worker : worker[v].pc # "idle" /\ worker[w].pc # "idle" => v = w
  /\ \A w \in Worker : worker[w].pc \in {"taken", "running"} => future[1] = "new"

\* The try-block comes first, and how it ended is how the task ended.
TryFirst ==
  /\ future[1] # "cancelled"
  /\ trace = <<>> => reports = {} /\ delivered = {}
  /\ trace = <<>> <=> future[1] \in {"none", "new"}
  /\ \A i \in DOMAIN trace : trace[i].step = "try" <=> i = 1
  /\ future[1] = "failed" => trace[1].thrown \in Failures

BeforeHandler(w) ==
  \/ worker[w].pc = "ended"
  \/ InPass(w) /\ worker[w].pos = 1 /\ ~ worker[w].thrown

\* Where a worker is in its passes tells what has been called.
PassesTraced ==
  \A w \in Worker :
    /\ worker[w].pc = "inConsumer" => worker[w].pos = 1 /\ ~ worker[w].thrown
    /\ BeforeHandler(w) => Len(trace) = 1 /\ reports = {} /\ delivered = {}
    /\ worker[w].pc = "dying" \/ (InPass(w) /\ worker[w].thrown) => HasError

\* The finalizers of the pass under way are called in order, so that those still
\* to be called were called once at most, and never in the first pass.
FinalizersTraced ==
  /\ finalizer # 1 => \E w \in Worker : InPass(w) /\ worker[w].pos = 2
  /\ \A w \in Worker : InPass(w) /\ worker[w].pos <= 2 =>
       \A i, j \in Steps("finally") :
         /\ ~ worker[w].thrown => trace[i].finalizer < finalizer
         /\ i < j => \/ trace[i].finalizer < trace[j].finalizer
                     \/ worker[w].thrown /\ (trace[i].finalizer # trace[j].finalizer
                                             \/ trace[i].finalizer < finalizer)

\* A failure that is to be caught was caught, or its handler is still to come.
CaughtOrComing ==
  /\ builder.executionType = "CALLABLE"
  /\ future[1] = "failed"
  /\ \A r \in reports : r.what # "null"
  /\ \E c \in exceptionConsumers : AssignableFrom(c, trace[1].thrown)
  => \/ \E i \in Steps("catch") : trace[i].catcher \in exceptionConsumers /\ CaughtAs(trace[i].catcher)
     \/ \E w \in Worker : BeforeHandler(w)

\* Where execute()'s one task and the worker that runs it are tells what user code
\* has been called, and what may still be: so much the order of the calls rests on.
TryInv ==
  /\ TryTypeOK
  /\ ConfigurationKept
  /\ ConsumersOfExecute
  /\ OneAtWork
  /\ TryFirst
  /\ PassesTraced
  /\ FinalizersTraced
  /\ CaughtOrComing
  /\ CatchBeforeFinally
  /\ CatchOnce
  /\ FinallyOnce
===============================================================================
