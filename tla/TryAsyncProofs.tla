----------------------------- MODULE TryAsyncProofs -----------------------------
(***************************************************************************)
(* The try-async builders use the builder of AbstractThreadBuilder as it   *)
(* is: every step of theirs is a step of it or leaves it alone, so that    *)
(* what is proved of the core holds of them.                               *)
(***************************************************************************)
EXTENDS TryAsync, AbstractThreadBuilderAnswerProofs, SequenceTheorems

\* The builder of execute() is started once.
LEMMA OneTask == 1 \in Task
BY TryAssumption DEF Task

\* The user's consumer that execute() registers runs finalizer by finalizer.
LEMMA FinalizersAreTheUserConsumer ==
  ASSUME NEW w \in Worker, RunFinalizers(w) \/ FinalizersEnd(w)
  PROVE  [CallUserConsumer(w)]_vars
<1>1. /\ Calling(w)
      /\ Called(w).kind = "user"
  BY DEF RunFinalizers, FinalizersEnd, InFinalizers, UserConsumer
<1>2. UNCHANGED <<consumers, queue, pool, future, callerVars, threadResult, outputs>>
  BY DEF RunFinalizers, FinalizersEnd, EndsFinalizer
<1>3. \/ worker' = worker
      \/ worker' = Returned(w)
      \/ CallbackErrors /\ worker' = Escaped(w)
  BY DEF RunFinalizers, FinalizersEnd
<1>4. CASE worker' = worker
  BY <1>2, <1>4 DEF vars, executorVars, callerVars, outputs
<1>5. CASE worker' # worker
  BY <1>1, <1>2, <1>3, <1>5 DEF CallUserConsumer
<1> QED
  BY <1>4, <1>5

\* A thread's steps are those of the builder that execute() configures.
LEMMA WorkerStepIsCoreStep ==
  ASSUME NEW w \in Worker, TryWorkerStep(w)
  PROVE  [WorkerStep(w)]_vars
<1>1. CASE PoolStep(w)
  BY <1>1 DEF PoolStep, WorkerStep, WorkerLoop
<1>2. CASE TryDie(w)
  BY <1>2 DEF TryDie, WorkerStep
<1>3. CASE TryHandle(w)
  BY <1>3, OneTask DEF TryHandle, WorkerStep
<1>4. CASE Attempt(w) /\ UNCHANGED <<callerVars, threadResult, outputs>>
  BY <1>4 DEF Attempt, WorkerStep, WorkerLoop
<1>5. CASE RunFinalizers(w) \/ FinalizersEnd(w)
  BY <1>5, FinalizersAreTheUserConsumer DEF WorkerStep
<1> QED
  BY <1>1, <1>2, <1>3, <1>4, <1>5 DEF TryWorkerStep

\* So are the caller's.
LEMMA CallerStepIsCoreStep ==
  ASSUME TryCallerStep
  PROVE  Next
BY DEF TryCallerStep, Execute, Next, CallerStep

\* Every step of a try-async builder is one of the core, or changes only what the
\* core does not have: the catchers, the finalizers and the trace of calls.
LEMMA TryStepIsCoreStep ==
  ASSUME [TryNext]_allVars
  PROVE  [Next]_vars
<1>1. ASSUME NEW c \in Catchable, AddCatcher(c)
      PROVE  [Next]_vars
  BY <1>1 DEF AddCatcher
<1>2. CASE FinallyAsync
  BY <1>2 DEF FinallyAsync
<1>3. CASE TryCallerStep
  BY <1>3, CallerStepIsCoreStep
<1>4. ASSUME NEW w \in Worker, TryWorkerStep(w)
      PROVE  [Next]_vars
  BY <1>4, WorkerStepIsCoreStep DEF Next
<1>5. CASE Terminated
  BY <1>5 DEF Terminated
<1>6. CASE UNCHANGED allVars
  BY <1>6 DEF allVars
<1> QED
  BY <1>1, <1>2, <1>3, <1>4, <1>5, <1>6 DEF TryNext

\* The try-async builders implement the core: the configuration of execute() and
\* its one start() are behaviours of AbstractThreadBuilder.
THEOREM TryAsyncImplementsBuilder == TrySpec => Spec
<1>1. TryInit => Init
  BY DEF TryInit
<1>2. [TryNext]_allVars => [Next]_vars
  BY TryStepIsCoreStep
<1> QED
  BY <1>1, <1>2, PTL DEF TrySpec, Spec

\* Whatever the try-block throws is reported, to the lookup of a catcher or by the
\* death of the thread, however many resources, finalizers and catchers there are.
THEOREM TryFailuresAreReported == TrySpec => []NoSilentFailure
BY TryAsyncImplementsBuilder, FailuresAreReported, PTL

\* And nothing but what the try-block really ended with is told.
THEOREM TryOutcomesAreSettled == TrySpec => ToldOutcomesAreSettled
BY TryAsyncImplementsBuilder, Refinement, PTL
\* And to a catcher, however it fails, for execute() always registers the lookup.
THEOREM TryFailuresReachLookup == TrySpec => []FailureReachesConsumer
BY TryAsyncImplementsBuilder, FailuresReachConsumer, PTL

-------------------------------------------------------------------------------
(* The one task. *)

LEMMA TaskIsOne == Task = {1}
BY TryAssumption DEF Task

\* What the proofs below use of the core.
LEMMA CoreFacts ==
  ASSUME IInv
  PROVE  /\ TypeOK
         /\ future[1] \in {"none", "new", "ok", "failed", "cancelled"}
         /\ \A w \in Worker :
              /\ worker[w].pc \in {"idle", "taken", "running", "ended", "iterating", "inConsumer", "dying"}
              /\ worker[w].pos \in Nat
              /\ worker[w].thrown \in BOOLEAN
              /\ worker[w].pc # "idle" => worker[w].task = 1 /\ future[1] # "none"
              /\ worker[w].pc \in {"ended", "iterating", "inConsumer", "dying"} =>
                   future[1] \in {"ok", "failed", "cancelled"}
              /\ InPass(w) => worker[w].pos > 0
         /\ future[1] = "none" => queue = <<>>
<1>1. TypeOK /\ WorkersHoldSettled /\ WorkersHold /\ TasksRegistered
  BY DEF IInv, WorkersHoldSettled, HandlersRegistered
<1>2. future[1] \in {"none", "new", "ok", "failed", "cancelled"}
  BY <1>1, OneTask DEF TypeOK, ExecutorTypeOK, Outcome
<1>3. ASSUME NEW w \in Worker
      PROVE  /\ worker[w].pc \in {"idle", "taken", "running", "ended", "iterating", "inConsumer", "dying"}
             /\ worker[w].pos \in Nat
             /\ worker[w].thrown \in BOOLEAN
             /\ worker[w].task \in {0, 1}
  BY <1>1, TaskIsOne DEF TypeOK, ExecutorTypeOK
<1>4. \A w \in Worker :
        /\ worker[w].pc # "idle" => worker[w].task = 1 /\ future[1] # "none"
        /\ worker[w].pc \in {"ended", "iterating", "inConsumer", "dying"} =>
             future[1] \in {"ok", "failed", "cancelled"}
        /\ InPass(w) => worker[w].pos > 0
  BY <1>1, <1>3 DEF WorkersHoldSettled, WorkersHold, IsDone, Outcome
<1>5. future[1] = "none" => queue = <<>>
  <2>1. queue \in Seq({1})
    BY <1>1, TaskIsOne DEF TypeOK, ExecutorTypeOK
  <2>2. CASE queue # <<>>
    <3>1. 1 \in DOMAIN queue /\ queue[1] = 1
      BY <2>1, <2>2
    <3> QED
      BY <1>1, <3>1 DEF TasksRegistered
  <2> QED
    BY <2>2
<1> QED
  BY <1>1, <1>2, <1>3, <1>4, <1>5

\* The worker that moves is the only one that has anything to do.
LEMMA OthersIdle ==
  ASSUME OneAtWork, NEW w \in Worker, worker[w].pc # "idle", NEW v \in Worker, v # w
  PROVE  worker[v].pc = "idle"
BY DEF OneAtWork

\* The list of consumers once the task is submitted.
LEMMA TwoConsumers ==
  ASSUME IInv, ConsumersOfExecute, future[1] # "none"
  PROVE  /\ Len(consumers) = 2
         /\ consumers[1] = Handler(1)
         /\ consumers[2] = UserConsumer(1)
<1>1. consumers = <<Handler(1), UserConsumer(1)>>
  BY DEF ConsumersOfExecute
<1> QED
  BY <1>1

\* A worker's position tells whom it calls.
LEMMA PositionsOfCalls ==
  ASSUME IInv, ConsumersOfExecute, NEW w \in Worker, InPass(w), worker[w].pos <= Len(consumers)
  PROVE  /\ Called(w) = Handler(1) => worker[w].pos = 1
         /\ Called(w) = UserConsumer(1) => worker[w].pos = 2
<1>1. /\ Len(consumers) = 2
      /\ consumers[1].kind = "handler"
      /\ consumers[2].kind = "user"
  BY CoreFacts, TwoConsumers DEF InPass, Handler, UserConsumer
<1>2. worker[w].pos \in {1, 2}
  BY <1>1, CoreFacts
<1> QED
  BY <1>1, <1>2 DEF Called, Handler, UserConsumer

-------------------------------------------------------------------------------
(* The trace of calls. *)

\* One more call leaves the earlier ones where they are.
LEMMA TraceGrows ==
  ASSUME trace \in Seq(Call), NEW c \in Call, trace' = Append(trace, c)
  PROVE  /\ trace' \in Seq(Call)
         /\ Len(trace') = Len(trace) + 1
         /\ DOMAIN trace' = 1 .. Len(trace) + 1
         /\ \A i \in DOMAIN trace : i \in DOMAIN trace' /\ i < Len(trace) + 1 /\ trace'[i] = trace[i]
         /\ \A i \in DOMAIN trace' : i = Len(trace) + 1 \/ i \in DOMAIN trace
         /\ trace'[Len(trace) + 1] = c
OBVIOUS

\* What comes before the earlier calls stays, and before the new one is everything.
LEMMA ErrorsGrow ==
  ASSUME trace \in Seq(Call), NEW c \in Call, trace' = Append(trace, c),
         NEW n, n = Len(trace) + 1
  PROVE  /\ \A j \in DOMAIN trace : ErrorBefore(j) => ErrorBefore(j)'
         /\ HasError => ErrorBefore(n)' /\ HasError'
         /\ c.step # "try" /\ c.ended = "error" => HasError'
<1>1. ASSUME NEW j \in DOMAIN trace, ErrorBefore(j) PROVE ErrorBefore(j)'
  <2>1. PICK k \in 1 .. j - 1 : trace[k].step # "try" /\ trace[k].ended = "error"
    BY <1>1 DEF ErrorBefore
  <2>2. trace'[k] = trace[k]
    BY <2>1, TraceGrows
  <2> QED
    BY <2>1, <2>2 DEF ErrorBefore
<1>2. ASSUME HasError PROVE ErrorBefore(n)' /\ HasError'
  <2>1. PICK k \in DOMAIN trace : trace[k].step # "try" /\ trace[k].ended = "error"
    BY <1>2 DEF HasError
  <2>2. k \in DOMAIN trace' /\ trace'[k] = trace[k] /\ k \in 1 .. n - 1
    BY <2>1, TraceGrows
  <2> QED
    BY <2>1, <2>2 DEF ErrorBefore, HasError
<1>3. c.step # "try" /\ c.ended = "error" => HasError'
  BY TraceGrows DEF HasError
<1> QED
  BY <1>1, <1>2, <1>3

\* Steps of an extended trace are steps of the trace, or the new one.
LEMMA StepsGrow ==
  ASSUME trace \in Seq(Call), NEW c \in Call, trace' = Append(trace, c),
         NEW n, n = Len(trace) + 1, NEW step, NEW i \in Steps(step)'
  PROVE  \/ i \in Steps(step) /\ i \in DOMAIN trace /\ i < n /\ trace'[i] = trace[i]
         \/ i = n /\ c.step = step /\ trace'[i] = c
<1>1. i \in DOMAIN trace' /\ trace'[i].step = step
  BY DEF Steps
<1>2. CASE i = n
  BY <1>1, <1>2, TraceGrows
<1>3. CASE i # n
  BY <1>1, <1>3, TraceGrows DEF Steps
<1> QED
  BY <1>2, <1>3

\* The three properties of the order of the calls, for a call that is added.
LEMMA CatchBeforeFinallyGrows ==
  ASSUME trace \in Seq(Call), NEW c \in Call, trace' = Append(trace, c), CatchBeforeFinally,
         c.step = "catch" => HasError /\ c.origin = "Error"
  PROVE  CatchBeforeFinally'
<1> SUFFICES ASSUME NEW i \in Steps("finally")', NEW j \in Steps("catch")', i < j
             PROVE  ErrorBefore(j)' /\ trace'[j].origin = "Error"
  BY DEF CatchBeforeFinally
<1> DEFINE n == Len(trace) + 1
<1>1. CASE j \in Steps("catch") /\ j \in DOMAIN trace /\ j < n /\ trace'[j] = trace[j]
  <2>1. i \in Steps("finally")
    <3>1. i # n
      BY <1>1 DEF Steps
    <3> QED
      BY <3>1, StepsGrow
  <2>2. ErrorBefore(j) /\ trace[j].origin = "Error"
    BY <1>1, <2>1 DEF CatchBeforeFinally
  <2> QED
    BY <1>1, <2>2, ErrorsGrow
<1>2. CASE j = n /\ c.step = "catch" /\ trace'[j] = c
  BY <1>2, ErrorsGrow
<1> QED
  BY <1>1, <1>2, StepsGrow

LEMMA CatchOnceGrows ==
  ASSUME trace \in Seq(Call), NEW c \in Call, trace' = Append(trace, c), CatchOnce,
         c.step = "catch" => HasError /\ c.origin = "Error"
  PROVE  CatchOnce'
<1> SUFFICES ASSUME NEW i \in Steps("catch")', NEW j \in Steps("catch")', i < j
             PROVE  trace'[j].origin = "Error" /\ ErrorBefore(j)'
  BY DEF CatchOnce
<1> DEFINE n == Len(trace) + 1
<1>1. CASE j \in Steps("catch") /\ j \in DOMAIN trace /\ j < n /\ trace'[j] = trace[j]
  <2>1. i \in Steps("catch")
    <3>1. i # n
      BY <1>1 DEF Steps
    <3> QED
      BY <3>1, StepsGrow
  <2>2. trace[j].origin = "Error" /\ ErrorBefore(j)
    BY <1>1, <2>1 DEF CatchOnce
  <2> QED
    BY <1>1, <2>2, ErrorsGrow
<1>2. CASE j = n /\ c.step = "catch" /\ trace'[j] = c
  BY <1>2, ErrorsGrow
<1> QED
  BY <1>1, <1>2, StepsGrow

LEMMA FinallyOnceGrows ==
  ASSUME trace \in Seq(Call), NEW c \in Call, trace' = Append(trace, c), FinallyOnce,
         c.step = "finally" =>
           /\ HasError \/ \A i \in Steps("finally") : trace[i].finalizer < c.finalizer
           /\ \A i, j \in Steps("finally") :
                i < j => ~ (trace[i].finalizer = trace[j].finalizer /\ trace[j].finalizer = c.finalizer)
  PROVE  FinallyOnce'
<1> DEFINE n == Len(trace) + 1
<1>0. \A i \in Steps("finally") : i \in DOMAIN trace /\ trace[i].finalizer \in Nat
  <2> SUFFICES ASSUME NEW i \in DOMAIN trace, trace[i].step = "finally"
               PROVE  trace[i].finalizer \in Nat
    BY DEF Steps
  <2>1. trace[i] \in Call
    OBVIOUS
  <2>2. trace[i].finalizer \in Finalizer
    BY <2>1 DEF Call
  <2> QED
    BY <2>2 DEF Finalizer
<1>1. ASSUME NEW i \in Steps("finally")', NEW j \in Steps("finally")', i < j,
             trace'[i].finalizer >= trace'[j].finalizer
      PROVE  ErrorBefore(j)'
  <2>1. i \in Steps("finally") /\ i \in DOMAIN trace /\ trace'[i] = trace[i]
    <3>1. i # n
      BY <1>1, TraceGrows DEF Steps
    <3> QED
      BY <3>1, StepsGrow
  <2>2. CASE j \in Steps("finally") /\ j \in DOMAIN trace /\ j < n /\ trace'[j] = trace[j]
    <3>1. ErrorBefore(j)
      BY <1>1, <2>1, <2>2 DEF FinallyOnce
    <3> QED
      BY <2>2, <3>1, ErrorsGrow
  <2>3. CASE j = n /\ c.step = "finally" /\ trace'[j] = c
    <3>1. c.finalizer \in Nat
      BY <2>3 DEF Call, Finalizer
    <3>2. HasError
      BY <1>0, <1>1, <2>1, <2>3, <3>1
    <3> QED
      BY <2>3, <3>2, ErrorsGrow
  <2> QED
    BY <2>2, <2>3, StepsGrow
<1>2. ASSUME NEW i \in Steps("finally")', NEW j \in Steps("finally")', NEW k \in Steps("finally")',
             i < j, j < k,
             trace'[i].finalizer = trace'[j].finalizer, trace'[j].finalizer = trace'[k].finalizer
      PROVE  FALSE
  <2>1. /\ i \in Steps("finally") /\ trace'[i] = trace[i]
        /\ j \in Steps("finally") /\ trace'[j] = trace[j]
    <3>1. i # n /\ j # n
      BY <1>2, TraceGrows DEF Steps
    <3> QED
      BY <3>1, StepsGrow
  <2>2. CASE k \in Steps("finally") /\ k \in DOMAIN trace /\ trace'[k] = trace[k]
    BY <1>2, <2>1, <2>2 DEF FinallyOnce
  <2>3. CASE k = n /\ c.step = "finally" /\ trace'[k] = c
    BY <1>2, <2>1, <2>3
  <2> QED
    BY <2>2, <2>3, StepsGrow
<1> QED
  BY <1>1, <1>2 DEF FinallyOnce

-------------------------------------------------------------------------------
(* What the handler of the exceptions calls. *)

\* The exceptions a report may stand for are of known classes, and only the
\* JVM's report of a death is of an Error.
LEMMA OriginClasses ==
  ASSUME NEW what \in Cause \ {"cancelled"}, NEW o \in Origins(what)
  PROVE  /\ o.class \in Class
         /\ what = "death" => o.class = "Error"
         /\ what = "failed" => o.class = "ExecutionException" /\ o.cause = Wrapped(trace[1].thrown)
<1>1. {"ExecutionException", "NullPointerException", "RuntimeException", "Error"} \subseteq Class
  BY DEF Class, Superclasses
<1> USE DEF Origins
<1>2. CASE what = "failed"
  BY <1>1, <1>2
<1>3. CASE what = "null"
  BY <1>1, <1>3
<1>4. CASE what = "callback"
  BY <1>1, <1>4
<1>5. CASE what = "death"
  BY <1>1, <1>5
<1> QED
  BY <1>2, <1>3, <1>4, <1>5 DEF Cause

\* The lookup calls one catcher of the builder, or none.
LEMMA LookupCalls ==
  ASSUME NEW o, NEW calls \in CatchCalls(o)
  PROVE  \/ calls = <<>>
         \/ \E c \in Matching(o), e \in Ending : calls = <<CatchCall(o, c, e)>>
BY DEF CatchCalls

\* And those a builder has are of known classes.
LEMMA CatchCallIsCall ==
  ASSUME TryTypeOK, NEW o, o.class \in Class, NEW c \in Matching(o), NEW e \in Ending
  PROVE  /\ c \in exceptionConsumers
         /\ CatchCall(o, c, e) \in Call
         /\ CatchCall(o, c, e).step = "catch"
         /\ CatchCall(o, c, e).catcher = c
         /\ CatchCall(o, c, e).origin = o.class
         /\ CatchCall(o, c, e).ended = e
<1>1. c \in exceptionConsumers /\ c \in Class
  BY TryAssumption DEF Matching, TryTypeOK
<1> QED
  BY <1>1 DEF CatchCall, Call

\* The calls of a step that makes one report.
LEMMA CallsOfReport ==
  ASSUME NEW r, r \notin reports, reports' = reports \cup {r}, NEW calls \in ReportCalls
  PROVE  /\ reports' # reports
         /\ \E o \in Origins(r.what) : calls \in CatchCalls(o)
<1>1. reports' # reports /\ reports' \ reports = {r}
  OBVIOUS
<1>2. calls \in UNION {CatchCalls(o) : o \in UNION {Origins(q.what) : q \in {r}}}
  BY <1>1 DEF ReportCalls
<1> QED
  BY <1>1, <1>2

\* The calls of the handler's first pass: the consumer of the result at most, and
\* at most one catcher after it.
ResultCalls == {<<>>} \cup {<<[step |-> "result", ended |-> e]>> : e \in Ending}

LookupResults == {<<>>} \cup
  {<<[step |-> "catch", catcher |-> c, origin |-> o, ended |-> e]>> :
     c \in exceptionConsumers, o \in Class, e \in Ending}

FirstCalls(w) ==
  /\ ~ worker[w].thrown
  /\ worker' \in {Returned(w), Escaped(w)}
  /\ \E R \in ResultCalls, C \in LookupResults :
       /\ trace' = trace \o R \o C
       /\ worker' = Escaped(w) => \/ R # <<>> /\ R[1].ended = "error"
                                  \/ C # <<>> /\ C[1].ended = "error"

\* A failure that is reported in the first pass is caught when there is a catcher.
Catches ==
  /\ builder.executionType = "CALLABLE"
  /\ future[1] = "failed"
  /\ \A r \in reports' : r.what # "null"
  /\ \E c \in exceptionConsumers : AssignableFrom(c, trace[1].thrown)
  => \E c \in exceptionConsumers, o \in Class, e \in Ending :
       /\ CaughtAs(c)
       /\ trace' = trace \o <<>> \o <<[step |-> "catch", catcher |-> c, origin |-> o, ended |-> e]>>

\* A report made by the handler in its first pass, without a call of the result consumer.
LEMMA ReportTraced ==
  ASSUME TryTypeOK, TryFirst, NEW w \in Worker, NEW what \in {"failed", "null"}, reports = {}, delivered = {},
         ~ worker[w].thrown, Report(w, 1, what), UNCHANGED delivered,
         what = "failed" => future[1] = "failed",
         NEW calls \in ReportCalls, trace' = trace \o ResultCall(w) \o calls,
         reports' # reports => (worker' = Escaped(w) <=> calls # <<>> /\ calls[1].ended = "error")
  PROVE  FirstCalls(w) /\ Catches
<1> DEFINE r == [by |-> worker[w].task, about |-> 1, what |-> what, to |-> ReportedTo(what)]
<1>1. reports' = reports \cup {r} /\ r \notin reports /\ r.what = what
  BY DEF Report
<1> HIDE DEF r
<1>2. /\ reports' # reports
      /\ \E o \in Origins(what) : calls \in CatchCalls(o)
  BY <1>1, CallsOfReport
<1>3. PICK o \in Origins(what) : calls \in CatchCalls(o)
  BY <1>2
<1>4. /\ o.class \in Class
      /\ what = "failed" => o.class = "ExecutionException" /\ o.cause = Wrapped(trace[1].thrown)
  BY <1>3, OriginClasses DEF Cause
<1>5. calls \in LookupResults
  BY <1>3, <1>4, LookupCalls, CatchCallIsCall DEF LookupResults, CatchCall
<1>6. ResultCall(w) = <<>> /\ <<>> \in ResultCalls
  BY DEF ResultCall, ResultCalls
<1>7. FirstCalls(w)
  <2>1. worker' \in {Returned(w), Escaped(w)}
    BY DEF Report
  <2> QED
    BY <1>2, <1>5, <1>6, <2>1 DEF FirstCalls
<1>8. Catches
  <2>0. what = "null" => Catches
    BY <1>1 DEF Catches
  <2> SUFFICES ASSUME what = "failed", builder.executionType = "CALLABLE", future[1] = "failed",
                      NEW c \in exceptionConsumers, AssignableFrom(c, trace[1].thrown)
               PROVE  \E d \in exceptionConsumers, p \in Class, e \in Ending :
                        CaughtAs(d) /\ calls = <<[step |-> "catch", catcher |-> d, origin |-> p, ended |-> e]>>
    BY <1>6, <2>0 DEF Catches
  <2>1. trace[1].thrown \in Class
    BY TryAssumption DEF TryFirst
  <2>2. o.class = "ExecutionException" /\ o.cause = trace[1].thrown /\ o.cause # "none"
    BY <1>4, <2>1 DEF Wrapped, Class, Superclasses
  <2>3. c \in Matching(o)
    BY <2>2 DEF Matching, IsExpectedCause
  <2>4. ~ LookupMayThrow(o)
    BY <2>2 DEF LookupMayThrow
  <2>5. \E d \in Matching(o), e \in Ending : calls = <<CatchCall(o, d, e)>>
    BY <1>3, <2>3, <2>4 DEF CatchCalls
  <2>6. \A d \in Matching(o) : d \in exceptionConsumers /\ CaughtAs(d)
    BY <2>2 DEF Matching, IsExpectedException, IsExpectedCause, CaughtAs
  <2> QED
    BY <1>4, <2>5, <2>6, CatchCallIsCall DEF CatchCall
<1> QED
  BY <1>7, <1>8

\* The consumer of the result, and the catcher for what it throws.
LEMMA ConsumeTraced ==
  ASSUME TryTypeOK, NEW w \in Worker, reports = {}, delivered = {}, future[1] = "ok",
         ~ worker[w].thrown, ConsumeThreadResult(w, 1), builder.threadResultConsumer,
         NEW calls \in ReportCalls, trace' = trace \o ResultCall(w) \o calls,
         reports' # reports => (worker' = Escaped(w) <=> calls # <<>> /\ calls[1].ended = "error")
  PROVE  FirstCalls(w)
<1>1. delivered' # delivered
  <2> DEFINE d == [by |-> worker[w].task, about |-> 1, value |-> threadResult]
  <2>1. d \in delivered'
    BY DEF ConsumeThreadResult
  <2> QED
    BY <2>1
<1>2. \E e \in Ending : /\ ResultCall(w) = <<[step |-> "result", ended |-> e]>>
                        /\ reports' = reports /\ worker' = Escaped(w) => e = "error"
  BY <1>1 DEF ResultCall, Ending
<1>3. PICK e \in Ending : /\ ResultCall(w) = <<[step |-> "result", ended |-> e]>>
                          /\ reports' = reports /\ worker' = Escaped(w) => e = "error"
  BY <1>2
<1> DEFINE R == <<[step |-> "result", ended |-> e]>>
<1>4. R \in ResultCalls /\ R # <<>> /\ R[1].ended = e /\ ResultCall(w) = R
  BY <1>3 DEF ResultCalls
<1> HIDE DEF R
<1>5. worker' \in {Returned(w), Escaped(w)}
  BY DEF ConsumeThreadResult, Report
<1>6. calls \in LookupResults
  <2>1. CASE reports' = reports
    BY <2>1 DEF ReportCalls, LookupResults
  <2>2. CASE Report(w, 1, "callback")
    <3> DEFINE r == [by |-> worker[w].task, about |-> 1, what |-> "callback", to |-> ReportedTo("callback")]
    <3>1. reports' = reports \cup {r} /\ r \notin reports /\ r.what = "callback"
      BY <2>2 DEF Report
    <3> HIDE DEF r
    <3>2. PICK o \in Origins("callback") : calls \in CatchCalls(o)
      BY <3>1, CallsOfReport
    <3>3. o.class \in Class
      BY <3>2, OriginClasses DEF Cause
    <3> QED
      BY <3>2, <3>3, LookupCalls, CatchCallIsCall DEF LookupResults, CatchCall
  <2> QED
    BY <2>1, <2>2 DEF ConsumeThreadResult
<1> QED
  BY <1>3, <1>4, <1>5, <1>6 DEF FirstCalls

\* What handleException does, and where in the list of consumers.
LEMMA HandleTraced ==
  ASSUME IInv, TryTypeOK, ConsumersOfExecute, TryFirst, PassesTraced, NEW w \in Worker, TryHandle(w)
  PROVE  /\ InPass(w) /\ worker[w].pos = 1
         /\ UNCHANGED <<consumers, queue, future, callerVars>>
         /\ \/ /\ UNCHANGED <<trace, reports, delivered>>
               /\ \/ worker' = Returned(w) /\ (worker[w].thrown \/ future[1] # "failed")
                  \/ worker' = [worker EXCEPT ![w].pc = "inConsumer"] /\ ~ worker[w].thrown
            \/ FirstCalls(w) /\ Catches
<1>1. HandleCall(w, 1) /\ IInv /\ Base
  BY IInvBase DEF TryHandle
<1>2. CallbackEffect(w)
  BY <1>1, OneTask, HandleCallEffect
<1>3. InPass(w) /\ worker[w].pos <= Len(consumers) /\ UNCHANGED <<consumers, queue, future, callerVars>>
  BY <1>2 DEF CallbackEffect, CallbackFrame
<1>4. Called(w) = Handler(1)
  BY <1>1 DEF HandleCall, HandlePending, HandleEmptyHolder, HandleException,
         HandleRunnable, HandleNoExecutorResult, SetThreadResult, ConsumeThreadResult,
         HandleCompletion, HandlerRuns
<1>5. worker[w].pos = 1
  BY <1>3, <1>4, PositionsOfCalls
<1>6. future[1] \in {"ok", "failed"} /\ IsDone(1)
  BY <1>3, CoreFacts DEF InPass, TryFirst, IsDone, Outcome
<1>7. ~ worker[w].thrown => reports = {} /\ delivered = {}
  BY <1>3, <1>5 DEF PassesTraced, BeforeHandler
<1>8. PICK calls \in ReportCalls :
        /\ trace' = trace \o ResultCall(w) \o calls
        /\ reports' # reports =>
             (worker' = Escaped(w) <=> calls # <<>> /\ calls[1].ended = "error")
  BY DEF TryHandle
<1>9. ASSUME UNCHANGED <<reports, delivered>> PROVE UNCHANGED trace
  <2>1. calls = <<>> /\ ResultCall(w) = <<>>
    BY <1>8, <1>9 DEF ReportCalls, ResultCall
  <2>2. trace \in Seq(Call)
    BY DEF TryTypeOK
  <2> QED
    BY <1>8, <2>1, <2>2
<1> SUFFICES \/ /\ UNCHANGED <<trace, reports, delivered>>
                /\ \/ worker' = Returned(w) /\ (worker[w].thrown \/ future[1] # "failed")
                   \/ worker' = [worker EXCEPT ![w].pc = "inConsumer"] /\ ~ worker[w].thrown
             \/ FirstCalls(w) /\ Catches
  BY <1>3, <1>5
<1>10. CASE HandlePending(w, 1)
  BY <1>6, <1>9, <1>10 DEF HandlePending, outputs
<1>11. CASE HandleEmptyHolder(w, 1)
  BY <1>7, <1>8, <1>11, ReportTraced DEF HandleEmptyHolder
<1>12. CASE HandleException(w, 1)
  BY <1>6, <1>7, <1>8, <1>12, ReportTraced DEF HandleException
<1>13. CASE HandleRunnable(w, 1)
  BY <1>9, <1>13 DEF HandleRunnable, HandleCompletion, outputs
<1>14. CASE HandleNoExecutorResult(w, 1)
  BY <1>7, <1>8, <1>14, ReportTraced DEF HandleNoExecutorResult, HandleCompletion
<1>15. CASE SetThreadResult(w, 1)
  BY <1>9, <1>15 DEF SetThreadResult, HandleCompletion, outputs
<1>16. CASE ConsumeThreadResult(w, 1)
  <2>1. ~ worker[w].thrown /\ future[1] = "ok"
    BY <1>1, <1>4, <1>16 DEF ConsumeThreadResult, PassesTraced, Base, WorkersHold, Handler
  <2>2. CASE builder.threadResultConsumer
    BY <1>7, <1>8, <1>16, <2>1, <2>2, ConsumeTraced DEF Catches
  <2>3. CASE ~ builder.threadResultConsumer
    BY <1>9, <1>16, <2>1, <2>3 DEF ConsumeThreadResult, outputs
  <2> QED
    BY <2>2, <2>3
<1> QED
  BY <1>1, <1>10, <1>11, <1>12, <1>13, <1>14, <1>15, <1>16 DEF HandleCall

-------------------------------------------------------------------------------
(* The inductive invariant of the try-async builders. *)

\* The parts of it that the steps of the caller leave alone.
TraceInv == /\ ConfigurationKept /\ TryFirst /\ PassesTraced /\ FinalizersTraced /\ CaughtOrComing
            /\ CatchBeforeFinally /\ CatchOnce /\ FinallyOnce

\* The order of the calls is that of the trace.
LEMMA OrderStands ==
  ASSUME CatchBeforeFinally, CatchOnce, FinallyOnce, UNCHANGED trace
  PROVE  CatchBeforeFinally' /\ CatchOnce' /\ FinallyOnce'
BY DEF CatchBeforeFinally, CatchOnce, FinallyOnce, ErrorBefore, Steps

LEMMA AppendSecond ==
  ASSUME NEW a, NEW b
  PROVE  Append(<<a>>, b) = <<a, b>>
<1>1. <<a>> \in Seq({a, b}) /\ <<a, b>> \in Seq({a, b})
  OBVIOUS
<1>2. Append(<<a>>, b) \in Seq({a, b}) /\ Len(Append(<<a>>, b)) = 2
  OBVIOUS
<1>3. \A i \in 1 .. 2 : Append(<<a>>, b)[i] = <<a, b>>[i]
  OBVIOUS
<1> QED
  BY <1>1, <1>2, <1>3, SeqEqual

LEMMA FinalizerRange ==
  ASSUME NEW r \in Nat, NEW m \in Nat, NEW n \in Nat, n >= m, NEW f \in 1 .. r + m + 1
  PROVE  f \in 1 .. r + n + 1
OBVIOUS

\* A step that calls nobody and moves no worker.
LEMMA CallerTraced ==
  ASSUME TraceInv, UNCHANGED <<trace, finalizer, worker, reports, delivered, builder>>,
         future' = future \/ (future[1] = "none" /\ future'[1] = "new"),
         exceptionConsumers' = exceptionConsumers \/ future'[1] = "none"
  PROVE  TraceInv'
<1>1. TryFirst'
  BY DEF TraceInv, TryFirst
<1>2. PassesTraced'
  BY DEF TraceInv, PassesTraced, InPass, BeforeHandler, HasError
<1>3. FinalizersTraced'
  BY DEF TraceInv, FinalizersTraced, InPass, Steps
<1>4. CaughtOrComing'
  <2>1. CASE future'[1] = "failed"
    <3>1. future' = future /\ exceptionConsumers' = exceptionConsumers
      BY <2>1
    <3> QED
      BY <3>1 DEF TraceInv, CaughtOrComing, CaughtAs, Steps, BeforeHandler, InPass
  <2>2. CASE future'[1] # "failed"
    BY <2>2 DEF CaughtOrComing
  <2> QED
    BY <2>1, <2>2
<1> QED
  BY <1>1, <1>2, <1>3, <1>4, OrderStands DEF TraceInv, ConfigurationKept

\* The caller registers two consumers for its one task and submits it.
LEMMA CallerKeeps ==
  ASSUME IInv, TypeOK', TryInv,
         \/ UNCHANGED allVars
         \/ \E c \in Catchable : AddCatcher(c)
         \/ FinallyAsync
         \/ TryCallerStep
         \/ Terminated /\ UNCHANGED <<tryVars, finalizer, trace>>
  PROVE  TryInv'
<1> USE DEF tryVars, allVars
<1>0. /\ TraceInv /\ TryTypeOK /\ ConsumersOfExecute /\ OneAtWork /\ Base
      /\ started \in {0, 1} /\ resources \in Nat /\ finallies \in Nat
  BY TryAssumption, IInvBase DEF TryInv, TraceInv, TryTypeOK, TypeOK
<1>1. ASSUME TraceInv', ConsumersOfExecute', OneAtWork', TryTypeOK' PROVE TryInv'
  BY <1>1 DEF TryInv, TraceInv
<1>2. ASSUME UNCHANGED vars, UNCHANGED <<finalizer, trace>>
      PROVE  ConsumersOfExecute' /\ OneAtWork'
  <2>1. UNCHANGED <<consumers, queue, future, worker, started, callerPc>>
    BY <1>2 DEF vars, executorVars, callerVars
  <2> QED
    BY <1>0, <2>1 DEF ConsumersOfExecute, OneAtWork, Handler, UserConsumer
<1>3. CASE UNCHANGED allVars \/ (Terminated /\ UNCHANGED <<tryVars, finalizer, trace>>)
  <2>1. UNCHANGED <<vars, tryVars, finalizer, trace>>
    BY <1>3 DEF Terminated
  <2>2. UNCHANGED <<worker, reports, delivered, builder, future>>
    BY <2>1 DEF vars, executorVars, callerVars, outputs
  <2>3. TryTypeOK'
    BY <1>0, <2>1 DEF TryTypeOK
  <2> QED
    BY <1>0, <1>1, <1>2, <2>1, <2>2, <2>3, CallerTraced
<1>4. CASE (\E c \in Catchable : AddCatcher(c)) \/ FinallyAsync
  <2>1. /\ UNCHANGED vars /\ started = 0
        /\ resources' = resources /\ finalizer' = finalizer /\ trace' = trace
    BY <1>4 DEF AddCatcher, FinallyAsync, Configuring
  <2>2. UNCHANGED <<worker, reports, delivered, builder, future>> /\ future[1] = "none"
    BY <1>0, <2>1 DEF vars, executorVars, callerVars, outputs, ConsumersOfExecute
  <2>3. TryTypeOK'
    <3>0. exceptionConsumers' \subseteq Catchable
      BY <1>0, <1>4 DEF AddCatcher, FinallyAsync, TryTypeOK
    <3>1. finallies' \in 0 .. MaxFinallies /\ finallies' >= finallies
      <4>1. CASE FinallyAsync
        BY <1>0, <4>1, TryAssumption DEF FinallyAsync
      <4>2. CASE UNCHANGED finallies
        BY <1>0, <4>2 DEF TryTypeOK
      <4> QED
        BY <1>4, <4>1, <4>2 DEF AddCatcher
    <3>2. finalizer' \in 1 .. resources' + finallies' + 1
      <4>1. finalizer \in 1 .. resources + finallies + 1
        BY <1>0 DEF TryTypeOK
      <4>2. finallies' \in Nat
        BY <3>1, TryAssumption
      <4>3. finallies \in Nat /\ resources \in Nat /\ finallies' >= finallies
        BY <1>0, <3>1
      <4>4. finalizer \in 1 .. resources + finallies' + 1
        BY <4>1, <4>2, <4>3, FinalizerRange
      <4> QED
        BY <2>1, <4>4
    <3> QED
      BY <1>0, <2>1, <3>0, <3>1, <3>2 DEF TryTypeOK
  <2> QED
    BY <1>0, <1>1, <1>2, <2>1, <2>2, <2>3, CallerTraced
<1>5. CASE TryCallerStep
  <2>0. UNCHANGED <<tryVars, finalizer, trace>> /\ Execute
    BY <1>5 DEF TryCallerStep
  <2>1. TryTypeOK'
    BY <1>0, <2>0 DEF TryTypeOK
  <2> USE <1>0, <2>0 DEF OneAtWork
  <2>2. CASE Start
    <3>1. UNCHANGED <<worker, queue, reports, delivered, builder, future>> /\ started = 0 /\ future[1] = "none"
      BY <2>2, StartAppends, TryAssumption DEF Start, ConsumersOfExecute
    <3>2. ConsumersOfExecute'
      <4>1. consumers = <<>>
        BY <3>1 DEF ConsumersOfExecute
      <4>2. consumers' = <<Handler(1)>> /\ started' = 1 /\ callerPc' = "firstAdded"
        BY <2>2, <3>1, <4>1, StartAppends
      <4> QED
        BY <3>1, <4>2 DEF ConsumersOfExecute, Handler
    <3> QED
      BY <1>1, <2>1, <3>1, <3>2, CallerTraced
  <2>3. CASE RegisterAfterExecute
    <3>1. /\ UNCHANGED <<worker, queue, reports, delivered, builder, future, started>>
          /\ callerPc = "firstAdded" /\ callerPc' = "registered"
      BY <2>3, RegisterAppends
    <3>2. future[1] = "none" /\ started = 1
      BY <3>1, CoreFacts DEF ConsumersOfExecute
    <3>3. ConsumersOfExecute'
      <4>1. consumers = <<Handler(1)>>
        BY <3>1 DEF ConsumersOfExecute
      <4>2. consumers' = Append(consumers, UserConsumer(1))
        <5>1. builder.afterExecuteConsumer
          BY TryAssumption DEF TryInv, ConfigurationKept, ExecuteConfiguration
        <5>2. consumers' = Append(consumers, UserConsumer(started))
          BY <2>3, <5>1 DEF RegisterAfterExecute, AddAfterExecuteConsumer
        <5> QED
          BY <3>2, <5>2 DEF UserConsumer
      <4>3. consumers' = <<Handler(1), UserConsumer(1)>>
        BY <4>1, <4>2, AppendSecond
      <4> QED
        BY <3>1, <3>2, <4>3 DEF ConsumersOfExecute, Handler, UserConsumer
    <3> QED
      BY <1>1, <2>1, <3>1, <3>3, CallerTraced
  <2>4. CASE Submit
    <3>1. /\ UNCHANGED <<worker, consumers, reports, delivered, builder, started>>
          /\ callerPc = "registered" /\ callerPc' = "submitted"
          /\ future[started] = "none" /\ future' = [future EXCEPT ![started] = "new"]
          /\ queue' = Append(queue, started)
      BY <2>4 DEF Submit, SubmitTask, outputs
    <3>2. started = 1
      BY <3>1 DEF ConsumersOfExecute
    <3>3. future[1] = "none" /\ future'[1] = "new"
      BY <3>1, <3>2, OneTask DEF Base, TypeOK, ExecutorTypeOK
    <3>4. queue = <<>> /\ \A w \in Worker : worker[w].pc = "idle"
      BY <3>3, CoreFacts
    <3>5. Len(queue') = 1
      BY <3>1, <3>4
    <3>6. OneAtWork'
      BY <3>1, <3>3, <3>4, <3>5
    <3>7. ConsumersOfExecute'
      BY <3>1, <3>2, <3>3 DEF ConsumersOfExecute, Handler, UserConsumer
    <3> QED
      BY <1>1, <2>1, <3>1, <3>3, <3>6, <3>7, CallerTraced
  <2>5. CASE SetHolder \/ Publish
    <3>1. /\ UNCHANGED <<worker, queue, consumers, reports, delivered, builder, started, future>>
          /\ callerPc \in {"submitted", "holderSet"} /\ callerPc' \in {"holderSet", "idle"}
      BY <2>5 DEF SetHolder, Publish, executorVars, outputs
    <3>2. started = 1
      BY <3>1 DEF ConsumersOfExecute
    <3>3. ConsumersOfExecute'
      BY <3>1, <3>2 DEF ConsumersOfExecute, Handler, UserConsumer
    <3> QED
      BY <1>1, <2>1, <3>1, <3>3, CallerTraced
  <2> QED
    BY <2>2, <2>3, <2>4, <2>5 DEF Execute
<1> QED
  BY <1>3, <1>4, <1>5

-------------------------------------------------------------------------------
(* The steps of the worker. *)

\* Away from the finalizers the next pass over them starts with the first.
LEMMA FinalizerReset ==
  ASSUME IInv, OneAtWork, FinalizersTraced, NEW w \in Worker, worker[w].pc # "idle",
         ~ (InPass(w) /\ worker[w].pos = 2)
  PROVE  finalizer = 1
<1>1. \A v \in Worker : InPass(v) => v = w
  BY OthersIdle DEF InPass
<1> QED
  BY <1>1 DEF FinalizersTraced

\* What each step of a worker leaves to be shown: the types of the trace, and
\* what it says of the worker itself.
LEMMA WorkerKeeps ==
  ASSUME IInv, TypeOK', TryInv, NEW w \in Worker, worker[w].pc # "idle",
         \A v \in Worker \ {w} : worker'[v] = worker[v],
         worker'[w].pc \in {"taken", "running"} => future'[1] = "new",
         future'[1] = "none" <=> future[1] = "none",
         UNCHANGED <<consumers, queue, callerVars, tryVars>>,
         trace' \in Seq(Call), finalizer' \in 1 .. resources + finallies + 1,
         TryFirst',
         worker'[w].pc = "inConsumer" => worker'[w].pos = 1 /\ ~ worker'[w].thrown,
         BeforeHandler(w)' => Len(trace') = 1 /\ reports' = {} /\ delivered' = {},
         worker'[w].pc = "dying" \/ (InPass(w)' /\ worker'[w].thrown) => HasError',
         finalizer' # 1 => InPass(w)' /\ worker'[w].pos = 2,
         InPass(w)' /\ worker'[w].pos <= 2 =>
           \A i, j \in Steps("finally")' :
             /\ ~ worker'[w].thrown => trace'[i].finalizer < finalizer'
             /\ i < j => \/ trace'[i].finalizer < trace'[j].finalizer
                         \/ worker'[w].thrown /\ (trace'[i].finalizer # trace'[j].finalizer
                                                  \/ trace'[i].finalizer < finalizer'),
         CaughtOrComing', CatchBeforeFinally', CatchOnce', FinallyOnce'
  PROVE  TryInv'
<1>1. \A v \in Worker : v # w => worker'[v].pc = "idle"
  BY OthersIdle DEF TryInv
<1>2. TryTypeOK'
  BY DEF TryInv, TryTypeOK, tryVars
<1>3. ConfigurationKept' /\ ConsumersOfExecute'
  BY DEF TryInv, ConfigurationKept, ConsumersOfExecute, callerVars, Handler, UserConsumer
<1>4. OneAtWork'
  <2>1. queue' = <<>>
    BY DEF TryInv, OneAtWork
  <2> QED
    BY <1>1, <2>1 DEF OneAtWork
<1>5. PassesTraced'
  BY <1>1 DEF PassesTraced, InPass, BeforeHandler
<1>6. FinalizersTraced'
  <2>1. finalizer' # 1 => \E v \in Worker : InPass(v)' /\ worker'[v].pos = 2
    OBVIOUS
  <2>2. \A v \in Worker : InPass(v)' => v = w
    BY <1>1 DEF InPass
  <2> QED
    BY <2>1, <2>2 DEF FinalizersTraced
<1> QED
  BY <1>2, <1>3, <1>4, <1>5, <1>6 DEF TryInv

\* A worker takes the one task.
LEMMA TakeKeeps ==
  ASSUME IInv, TypeOK', TryInv, NEW w \in Worker, Take(w),
         UNCHANGED <<callerVars, threadResult, outputs, trace, tryVars, finalizer>>
  PROVE  TryInv'
<1>1. /\ queue # <<>> /\ Len(queue) = 1 /\ queue' = Tail(queue)
      /\ future[1] = "new" /\ UNCHANGED <<future, consumers>>
      /\ \A v \in Worker : worker[v].pc = "idle"
  BY DEF TryInv, OneAtWork, Take
<1>2. queue' = <<>>
  BY <1>1 DEF IInv, TypeOK, ExecutorTypeOK
<1>3. /\ worker'[w].pc = "taken"
      /\ \A v \in Worker \ {w} : worker'[v].pc = "idle"
  <2>1. \E r : r.pc = "taken" /\ worker' = [worker EXCEPT ![w] = r]
    BY DEF Take
  <2>2. DOMAIN worker = Worker
    BY DEF IInv, TypeOK, ExecutorTypeOK
  <2> QED
    BY <1>1, <2>1, <2>2
<1>4. \A v \in Worker : worker'[v].pc \in {"idle", "taken"} /\ ~ InPass(v) /\ ~ InPass(v)'
                        /\ ~ BeforeHandler(v)'
  BY <1>1, <1>3 DEF InPass, BeforeHandler
<1>5. TryTypeOK' /\ ConfigurationKept'
  BY DEF TryInv, TryTypeOK, ConfigurationKept, tryVars, callerVars
<1>6. ConsumersOfExecute'
  BY <1>1 DEF TryInv, ConsumersOfExecute, callerVars, Handler, UserConsumer
<1>7. OneAtWork'
  BY <1>1, <1>2, <1>3 DEF OneAtWork
<1>8. TryFirst'
  BY <1>1 DEF TryInv, TryFirst, outputs
<1>9. PassesTraced' /\ FinalizersTraced'
  <2>1. finalizer' = 1
    BY <1>4 DEF TryInv, FinalizersTraced
  <2>2. PassesTraced'
    BY <1>4 DEF PassesTraced, InPass
  <2> QED
    BY <1>4, <2>1, <2>2 DEF FinalizersTraced
<1>10. CaughtOrComing'
  BY <1>1 DEF CaughtOrComing
<1> QED
  BY <1>5, <1>6, <1>7, <1>8, <1>9, <1>10, OrderStands DEF TryInv

\* It runs the try-block, which ends as the trace has it.
LEMMA StartBodyKeeps ==
  ASSUME IInv, TypeOK', TryInv, NEW w \in Worker, StartBody(w),
         UNCHANGED <<callerVars, threadResult, outputs, trace, tryVars, finalizer>>
  PROVE  TryInv'
<1>1. /\ worker[w].pc = "taken" /\ future[1] = "new" /\ trace = <<>> /\ trace' = <<>>
      /\ UNCHANGED <<consumers, queue, future>>
  BY DEF StartBody, TryInv, OneAtWork, TryFirst
<1>2. finalizer = 1
  BY <1>1, FinalizerReset DEF TryInv, InPass
<1>3. /\ \A v \in Worker \ {w} : worker'[v] = worker[v]
      /\ worker'[w].pc = "running"
  BY <1>1, CoreFacts DEF StartBody, TypeOK, ExecutorTypeOK
<1>4. TryFirst' /\ CaughtOrComing'
  BY <1>1 DEF TryInv, TryFirst, outputs, CaughtOrComing
<1>5. ~ InPass(w)' /\ ~ BeforeHandler(w)'
  BY <1>3 DEF InPass, BeforeHandler
<1>6. trace' \in Seq(Call) /\ finalizer' \in 1 .. resources + finallies + 1
  BY DEF TryInv, TryTypeOK
<1>7. CatchBeforeFinally' /\ CatchOnce' /\ FinallyOnce'
  BY OrderStands DEF TryInv
<1> QED
  BY <1>1, <1>2, <1>3, <1>4, <1>5, <1>6, <1>7, WorkerKeeps

LEMMA AttemptKeeps ==
  ASSUME IInv, TypeOK', TryInv, NEW w \in Worker, Attempt(w),
         UNCHANGED <<callerVars, threadResult, outputs, tryVars, finalizer>>
  PROVE  TryInv'
<1>1. /\ worker[w].pc = "running" /\ worker[w].task = 1 /\ future[1] = "new" /\ trace = <<>>
      /\ reports = {} /\ delivered = {}
  BY CoreFacts DEF Attempt, EndBody, TryInv, OneAtWork, TryFirst
<1>2. finalizer = 1
  BY <1>1, FinalizerReset DEF TryInv, InPass
<1>3. PICK thrown \in Failures \cup {"none"} :
        /\ trace' = Append(trace, [step |-> "try", thrown |-> thrown])
        /\ \/ EndBody(w, "ok")
           \/ EndBody(w, "failed") /\ thrown \in Failures
  BY DEF Attempt
<1> DEFINE c == [step |-> "try", thrown |-> thrown]
<1>4. c \in Call /\ c.step = "try" /\ c.thrown = thrown /\ trace' = Append(trace, c)
  BY <1>3 DEF Call
<1> HIDE DEF c
<1>5. /\ trace' \in Seq(Call) /\ DOMAIN trace' = 1 .. 1 /\ Len(trace') = 1 /\ trace'[1] = c
      /\ trace' # <<>>
  BY <1>1, <1>4
<1>6. /\ \A v \in Worker \ {w} : worker'[v] = worker[v]
      /\ worker'[w].pc = "ended"
      /\ UNCHANGED <<consumers, queue>>
      /\ future'[1] = "ok" \/ (future'[1] = "failed" /\ thrown \in Failures)
  BY <1>1, <1>3, CoreFacts, OneTask DEF EndBody, TypeOK, ExecutorTypeOK
<1>7. TryFirst'
  BY <1>4, <1>5, <1>6 DEF TryFirst
<1>8. Steps("finally")' = {} /\ Steps("catch")' = {} /\ Steps("result")' = {}
  BY <1>4, <1>5 DEF Steps
<1>9. CatchBeforeFinally' /\ CatchOnce' /\ FinallyOnce'
  BY <1>8 DEF CatchBeforeFinally, CatchOnce, FinallyOnce
<1>10. BeforeHandler(w)' /\ ~ InPass(w)' /\ reports' = {} /\ delivered' = {}
  BY <1>1, <1>6 DEF BeforeHandler, InPass, outputs
<1>11. CaughtOrComing'
  BY <1>10 DEF CaughtOrComing
<1>12. finalizer' \in 1 .. resources + finallies + 1
  BY DEF TryInv, TryTypeOK
<1> QED
  BY <1>1, <1>2, <1>5, <1>6, <1>7, <1>9, <1>10, <1>11, <1>12, WorkerKeeps

\* It begins the first pass over the consumers.
LEMMA BeginKeeps ==
  ASSUME IInv, TypeOK', TryInv, NEW w \in Worker, BeginAfterExecute(w),
         UNCHANGED <<callerVars, threadResult, outputs, trace, tryVars, finalizer>>
  PROVE  TryInv'
<1>1. /\ worker[w].pc = "ended" /\ UNCHANGED <<consumers, queue, future>>
      /\ worker' = StartPass(w, FALSE)
  BY DEF BeginAfterExecute
<1>2. finalizer = 1 /\ future[1] # "none"
  BY <1>1, FinalizerReset, CoreFacts DEF TryInv, InPass
<1>3. /\ \A v \in Worker \ {w} : worker'[v] = worker[v]
      /\ worker'[w].pc = "iterating" /\ worker'[w].pos = 1 /\ worker'[w].thrown = FALSE
  BY <1>1, CoreFacts DEF StartPass, TypeOK, ExecutorTypeOK
<1>4. TryFirst'
  BY <1>1 DEF TryInv, TryFirst, outputs
<1>5. Len(trace) = 1 /\ reports = {} /\ delivered = {}
  BY <1>1 DEF TryInv, PassesTraced, BeforeHandler
<1>6. trace' \in Seq(Call) /\ finalizer' \in 1 .. resources + finallies + 1
  BY DEF TryInv, TryTypeOK
<1>7. CatchBeforeFinally' /\ CatchOnce' /\ FinallyOnce'
  BY OrderStands DEF TryInv
<1>8. Steps("finally")' = {}
  <2>1. \A i \in DOMAIN trace : trace[i].step = "try" <=> i = 1
    BY DEF TryInv, TryFirst
  <2>2. DOMAIN trace = 1 .. 1
    BY <1>5, <1>6
  <2> QED
    BY <2>1, <2>2 DEF Steps
<1>9. CaughtOrComing'
  BY <1>3 DEF CaughtOrComing, BeforeHandler, InPass
<1>10. reports' = {} /\ delivered' = {} /\ Len(trace') = 1
  BY <1>5 DEF outputs
<1> QED
  BY <1>1, <1>2, <1>3, <1>4, <1>6, <1>7, <1>8, <1>9, <1>10, WorkerKeeps

\* It is through with them, or dies if it went over them again.
LEMMA EndKeeps ==
  ASSUME IInv, TypeOK', TryInv, NEW w \in Worker, EndAfterExecute(w),
         UNCHANGED <<callerVars, threadResult, outputs, trace, tryVars, finalizer>>
  PROVE  TryInv'
<1>1. /\ InPass(w) /\ worker[w].pos > Len(consumers) /\ UNCHANGED <<consumers, queue, future>>
      /\ worker' = IF worker[w].thrown THEN [worker EXCEPT ![w].pc = "dying"]
                                       ELSE [worker EXCEPT ![w] = Idle]
      /\ worker[w].pc = "iterating"
  BY DEF EndAfterExecute, InPass
<1>2. Len(consumers) = 2 /\ future[1] # "none"
  BY <1>1, CoreFacts, TwoConsumers DEF TryInv, InPass
<1>3. worker[w].pos > 2
  BY <1>1, <1>2
<1>4. finalizer = 1
  BY <1>1, <1>3, FinalizerReset, CoreFacts DEF TryInv
<1>5. /\ \A v \in Worker \ {w} : worker'[v] = worker[v]
      /\ worker'[w].pc \in {"dying", "idle"}
      /\ worker'[w].pc = "dying" => worker[w].thrown
  BY <1>1, CoreFacts DEF Idle, TypeOK, ExecutorTypeOK
<1>6. TryFirst'
  BY <1>1 DEF TryInv, TryFirst, outputs
<1>7. trace' \in Seq(Call) /\ finalizer' \in 1 .. resources + finallies + 1
  BY DEF TryInv, TryTypeOK
<1>8. CatchBeforeFinally' /\ CatchOnce' /\ FinallyOnce'
  BY OrderStands DEF TryInv
<1>9. ~ InPass(w)' /\ ~ BeforeHandler(w)' /\ ~ BeforeHandler(w)
  BY <1>1, <1>3, <1>5 DEF BeforeHandler, InPass
<1>10. worker'[w].pc = "dying" => HasError'
  BY <1>1, <1>5 DEF TryInv, PassesTraced, HasError
<1>11. CaughtOrComing'
  <2>1. \A v \in Worker : ~ BeforeHandler(v)
    <3> SUFFICES ASSUME NEW v \in Worker, v # w PROVE ~ BeforeHandler(v)
      BY <1>9
    <3>1. worker[v].pc = "idle"
      BY <1>1, OthersIdle DEF TryInv
    <3> QED
      BY <3>1 DEF BeforeHandler, InPass
  <2> QED
    BY <1>1, <2>1 DEF TryInv, CaughtOrComing, CaughtAs, Steps, outputs, callerVars, tryVars
<1> QED
  BY <1>1, <1>4, <1>5, <1>6, <1>7, <1>8, <1>9, <1>10, <1>11, WorkerKeeps

-------------------------------------------------------------------------------
(* The steps of the worker over the consumers. *)

\* Where a worker stands after one of them.
LEMMA AfterCall ==
  ASSUME IInv, NEW w \in Worker, InPass(w), worker' \in {Returned(w), Escaped(w)}
  PROVE  /\ \A v \in Worker \ {w} : worker'[v] = worker[v]
         /\ worker' = Returned(w) =>
              /\ worker'[w].pc = "iterating"
              /\ worker'[w].pos = worker[w].pos + 1
              /\ worker'[w].thrown = worker[w].thrown
         /\ worker' = Escaped(w) =>
              \/ worker'[w].pc = "dying" /\ worker[w].thrown
              \/ /\ worker'[w].pc = "iterating" /\ worker'[w].pos = 1
                 /\ worker'[w].thrown /\ ~ worker[w].thrown
<1> USE CoreFacts DEF TypeOK, ExecutorTypeOK
<1>1. CASE worker' = Returned(w)
  <2> QED
    BY <1>1 DEF Returned, Escaped, StartPass
<1>2. CASE worker' = Escaped(w)
  <2>1. CASE worker[w].thrown
    BY <1>2, <2>1 DEF Returned, Escaped
  <2>2. CASE ~ worker[w].thrown
    BY <1>2, <2>2 DEF Returned, Escaped, StartPass
  <2> QED
    BY <2>1, <2>2
<1> QED
  BY <1>1, <1>2

\* A call of a first pass, and no more than one of each kind.
LEMMA FirstCallsAreCalls ==
  ASSUME TryTypeOK, NEW R \in ResultCalls, NEW C \in LookupResults
  PROVE  /\ R \in Seq(Call) /\ Len(R) \in {0, 1}
         /\ C \in Seq(Call) /\ Len(C) \in {0, 1}
         /\ \A i \in DOMAIN R : R[i].step = "result"
         /\ \A i \in DOMAIN C : C[i].step = "catch"
<1>1. ASSUME R = <<>>
      PROVE  R \in Seq(Call) /\ Len(R) = 0 /\ \A i \in DOMAIN R : R[i].step = "result"
  BY <1>1
<1>2. ASSUME NEW e \in Ending, R = <<[step |-> "result", ended |-> e]>>
      PROVE  /\ R \in Seq(Call) /\ Len(R) = 1
             /\ \A i \in DOMAIN R : R[i].step = "result"
  <2>1. [step |-> "result", ended |-> e] \in Call
    BY DEF Call
  <2> QED
    BY <1>2, <2>1
<1>3. ASSUME C = <<>>
      PROVE  C \in Seq(Call) /\ Len(C) = 0 /\ \A i \in DOMAIN C : C[i].step = "catch"
  BY <1>3
<1>4. ASSUME NEW c \in exceptionConsumers, NEW o \in Class, NEW e \in Ending,
             C = <<[step |-> "catch", catcher |-> c, origin |-> o, ended |-> e]>>
      PROVE  /\ C \in Seq(Call) /\ Len(C) = 1
             /\ \A i \in DOMAIN C : C[i].step = "catch"
  <2>1. [step |-> "catch", catcher |-> c, origin |-> o, ended |-> e] \in Call
    BY TryAssumption DEF Call, TryTypeOK
  <2> QED
    BY <1>4, <2>1
<1>5. R = <<>> \/ \E e \in Ending : R = <<[step |-> "result", ended |-> e]>>
  BY DEF ResultCalls
<1>6. C = <<>> \/ \E c \in exceptionConsumers, o \in Class, e \in Ending :
                    C = <<[step |-> "catch", catcher |-> c, origin |-> o, ended |-> e]>>
  BY DEF LookupResults
<1> QED
  BY <1>1, <1>2, <1>3, <1>4, <1>5, <1>6

\* What the trace is after the first pass over the handler.
LEMMA FirstCallsTraced ==
  ASSUME TryTypeOK, TryFirst, Len(trace) = 1, NEW w \in Worker, FirstCalls(w)
  PROVE  /\ trace' \in Seq(Call)
         /\ trace' # <<>>
         /\ trace'[1] = trace[1]
         /\ \A i \in DOMAIN trace' : trace'[i].step = "try" <=> i = 1
         /\ Steps("finally")' = {}
         /\ \A i, j \in Steps("catch")' : i = j
         /\ worker' = Escaped(w) => HasError'
<1>1. PICK R \in ResultCalls, C \in LookupResults :
        /\ trace' = trace \o R \o C
        /\ worker' = Escaped(w) => \/ R # <<>> /\ R[1].ended = "error"
                                   \/ C # <<>> /\ C[1].ended = "error"
  BY DEF FirstCalls
<1>2. /\ R \in Seq(Call) /\ Len(R) \in {0, 1}
      /\ C \in Seq(Call) /\ Len(C) \in {0, 1}
      /\ \A i \in DOMAIN R : R[i].step = "result"
      /\ \A i \in DOMAIN C : C[i].step = "catch"
  BY FirstCallsAreCalls
<1>3. trace \in Seq(Call) /\ trace[1].step = "try"
  BY DEF TryTypeOK, TryFirst
<1>4. /\ trace' \in Seq(Call)
      /\ Len(trace') = 1 + Len(R) + Len(C)
      /\ trace'[1] = trace[1]
      /\ Len(R) = 1 => trace'[2] = R[1]
      /\ Len(C) = 1 => trace'[2 + Len(R)] = C[1]
  <2> DEFINE S == trace \o R
  <2>1. /\ S \in Seq(Call) /\ Len(S) = 1 + Len(R) /\ S[1] = trace[1]
        /\ Len(R) = 1 => S[2] = R[1]
    BY <1>2, <1>3, ConcatProperties
  <2>2. trace' = S \o C
    BY <1>1
  <2> HIDE DEF S
  <2>3. /\ trace' \in Seq(Call) /\ Len(trace') = Len(S) + Len(C)
        /\ \A i \in 1 .. Len(S) : trace'[i] = S[i]
        /\ Len(C) = 1 => trace'[Len(S) + 1] = C[1]
    BY <1>2, <2>1, <2>2, ConcatProperties
  <2>4. trace'[1] = S[1] /\ (Len(R) = 1 => trace'[2] = S[2])
    BY <1>2, <2>1, <2>3
  <2> QED
    BY <1>2, <2>1, <2>3, <2>4
<1>5. /\ Len(R) = 1 => R[1].step = "result"
      /\ Len(C) = 1 => C[1].step = "catch"
  BY <1>2
<1>6. \A i \in DOMAIN trace' :
        \/ i = 1
        \/ i = 2 /\ Len(R) = 1 /\ trace'[i].step = "result"
        \/ i = 2 + Len(R) /\ Len(C) = 1 /\ trace'[i].step = "catch"
  <2> SUFFICES ASSUME NEW i \in 1 .. 1 + Len(R) + Len(C)
               PROVE  \/ i = 1
                      \/ i = 2 /\ Len(R) = 1 /\ trace'[i].step = "result"
                      \/ i = 2 + Len(R) /\ Len(C) = 1 /\ trace'[i].step = "catch"
    BY <1>4
  <2>1. \/ i = 1
        \/ i = 2 /\ Len(R) = 1
        \/ i = 2 + Len(R) /\ Len(C) = 1
    BY <1>2
  <2> QED
    BY <1>4, <1>5, <2>1
<1>7. \A i \in DOMAIN trace' : trace'[i].step = "try" <=> i = 1
  BY <1>3, <1>4, <1>6
<1>8. Steps("finally")' = {}
  BY <1>3, <1>4, <1>6 DEF Steps
<1>9. \A i, j \in Steps("catch")' : i = j
  BY <1>3, <1>4, <1>6 DEF Steps
<1>10. worker' = Escaped(w) => HasError'
  <2>1. ASSUME R # <<>>, R[1].ended = "error" PROVE HasError'
    <3>1. Len(R) = 1 /\ trace'[2] = R[1] /\ 2 \in DOMAIN trace'
      BY <1>2, <1>4, <2>1
    <3> QED
      BY <1>5, <2>1, <3>1 DEF HasError
  <2>2. ASSUME C # <<>>, C[1].ended = "error" PROVE HasError'
    <3>1. Len(C) = 1 /\ trace'[2 + Len(R)] = C[1] /\ 2 + Len(R) \in DOMAIN trace'
      BY <1>2, <1>4, <2>2
    <3> QED
      BY <1>5, <2>2, <3>1 DEF HasError
  <2> QED
    BY <1>1, <2>1, <2>2
<1>11. trace' # <<>>
  BY <1>4
<1> QED
  BY <1>4, <1>7, <1>8, <1>9, <1>10, <1>11

\* The handler of the exceptions.
LEMMA HandleKeeps ==
  ASSUME IInv, TypeOK', TryInv, NEW w \in Worker, TryHandle(w), UNCHANGED <<tryVars, finalizer>>
  PROVE  TryInv'
<1>0. /\ IInv /\ TryTypeOK /\ ConsumersOfExecute /\ OneAtWork /\ TryFirst /\ PassesTraced
      /\ FinalizersTraced /\ CaughtOrComing
  BY DEF TryInv
<1>1. /\ InPass(w) /\ worker[w].pos = 1
      /\ UNCHANGED <<consumers, queue, future, callerVars>>
      /\ \/ /\ UNCHANGED <<trace, reports, delivered>>
            /\ \/ worker' = Returned(w) /\ (worker[w].thrown \/ future[1] # "failed")
               \/ worker' = [worker EXCEPT ![w].pc = "inConsumer"] /\ ~ worker[w].thrown
         \/ FirstCalls(w) /\ Catches
  BY <1>0, HandleTraced
<1>2. finalizer = 1 /\ worker[w].pc # "idle"
  BY <1>0, <1>1, FinalizerReset DEF InPass
<1>3. \A v \in Worker : BeforeHandler(v) => v = w
  BY <1>0, <1>2, OthersIdle DEF BeforeHandler, InPass
<1>4. finalizer' \in 1 .. resources + finallies + 1
  BY <1>0 DEF TryTypeOK
<1>5. \/ worker' \in {Returned(w), Escaped(w)}
      \/ worker' = [worker EXCEPT ![w].pc = "inConsumer"] /\ ~ worker[w].thrown
  BY <1>1 DEF FirstCalls
<1>6. /\ \A v \in Worker \ {w} : worker'[v] = worker[v]
      /\ InPass(w)' \/ worker'[w].pc = "dying"
      /\ worker'[w].pc = "inConsumer" => worker'[w].pos = 1 /\ ~ worker'[w].thrown
      /\ worker'[w].pc = "inConsumer" \/ ~ BeforeHandler(w)'
      /\ ~ (worker'[w].pc \in {"taken", "running"})
  <2>1. CASE worker' \in {Returned(w), Escaped(w)}
    BY <1>1, <2>1, AfterCall DEF InPass, BeforeHandler
  <2>2. CASE worker' = [worker EXCEPT ![w].pc = "inConsumer"] /\ ~ worker[w].thrown
    BY <1>1, <2>2, CoreFacts DEF InPass, TypeOK, ExecutorTypeOK
  <2> QED
    BY <1>5, <2>1, <2>2
<1>7. CASE FirstCalls(w) /\ Catches
  <2>1. ~ worker[w].thrown /\ Len(trace) = 1 /\ worker' \in {Returned(w), Escaped(w)}
    BY <1>0, <1>1, <1>7 DEF FirstCalls, PassesTraced, BeforeHandler
  <2>2. /\ trace' \in Seq(Call) /\ trace' # <<>> /\ trace'[1] = trace[1]
        /\ \A i \in DOMAIN trace' : trace'[i].step = "try" <=> i = 1
        /\ Steps("finally")' = {}
        /\ \A i, j \in Steps("catch")' : i = j
        /\ worker' = Escaped(w) => HasError'
    BY <1>0, <1>7, <2>1, FirstCallsTraced
  <2>3. TryFirst'
    <3>1. future[1] \in {"ok", "failed"}
      BY <1>0, <1>1, CoreFacts DEF InPass, TryFirst
    <3> QED
      BY <1>0, <1>1, <2>2, <3>1 DEF TryFirst
  <2>4. /\ ~ BeforeHandler(w)'
        /\ worker'[w].pc = "dying" \/ (InPass(w)' /\ worker'[w].thrown) => HasError'
    BY <1>1, <2>1, <2>2, AfterCall DEF InPass, BeforeHandler
  <2>5. CatchBeforeFinally' /\ CatchOnce' /\ FinallyOnce'
    <3>1. CatchBeforeFinally' /\ FinallyOnce'
      BY <2>2 DEF CatchBeforeFinally, FinallyOnce
    <3>2. CatchOnce'
      <4> SUFFICES ASSUME NEW i \in Steps("catch")', NEW j \in Steps("catch")', i < j PROVE FALSE
        BY DEF CatchOnce
      <4>1. i = j /\ i \in 1 .. Len(trace')
        BY <2>2 DEF Steps
      <4> QED
        BY <4>1
    <3> QED
      BY <3>1, <3>2
  <2>6. CaughtOrComing'
    <3> SUFFICES ASSUME builder.executionType = "CALLABLE", future[1] = "failed",
                        \A r \in reports' : r.what # "null",
                        \E c \in exceptionConsumers : AssignableFrom(c, trace[1].thrown)
                 PROVE  \E i \in Steps("catch")' :
                          trace'[i].catcher \in exceptionConsumers /\ CaughtAs(trace'[i].catcher)
      BY <1>1, <2>2 DEF CaughtOrComing, CaughtAs, callerVars, tryVars
    <3>1. PICK c \in exceptionConsumers, o \in Class, e \in Ending :
            /\ CaughtAs(c)
            /\ trace' = trace \o <<>> \o <<[step |-> "catch", catcher |-> c, origin |-> o, ended |-> e]>>
      BY <1>7 DEF Catches
    <3> DEFINE k == [step |-> "catch", catcher |-> c, origin |-> o, ended |-> e]
    <3>2. k.step = "catch" /\ k.catcher = c /\ k \in Call
      BY <1>0, TryAssumption DEF TryTypeOK, Call
    <3>3. trace' = trace \o <<>> \o <<k>> /\ trace \in Seq(Call)
      BY <1>0, <3>1 DEF TryTypeOK
    <3> HIDE DEF k
    <3>4. Len(trace') = 2 /\ trace'[2] = k
      <4>1. trace \o <<>> = trace
        BY <3>3
      <4>2. trace' = trace \o <<k>> /\ <<k>> \in Seq(Call)
        BY <3>2, <3>3, <4>1
      <4>3. Len(<<k>>) = 1 /\ <<k>>[1] = k
        OBVIOUS
      <4> QED
        BY <2>1, <3>3, <4>2, <4>3, ConcatProperties
    <3>5. 2 \in Steps("catch")'
      BY <2>2, <3>2, <3>4 DEF Steps
    <3>6. trace'[2].catcher = c /\ CaughtAs(c)
      BY <3>1, <3>2, <3>4
    <3> QED
      BY <3>5, <3>6
  <2> QED
    BY <1>1, <1>2, <1>4, <1>6, <2>2, <2>3, <2>4, <2>5, <2>6, WorkerKeeps
<1>8. CASE /\ UNCHANGED <<trace, reports, delivered>>
           /\ \/ worker' = Returned(w) /\ (worker[w].thrown \/ future[1] # "failed")
              \/ worker' = [worker EXCEPT ![w].pc = "inConsumer"] /\ ~ worker[w].thrown
  <2>1. worker'[w].thrown = worker[w].thrown /\ worker'[w].pc # "dying"
    BY <1>1, <1>8, AfterCall, CoreFacts DEF TypeOK, ExecutorTypeOK
  <2>2. worker'[w].pc = "inConsumer" => ~ worker[w].thrown
    BY <1>6, <2>1
  <2>3. trace' \in Seq(Call) /\ TryFirst' /\ CatchBeforeFinally' /\ CatchOnce' /\ FinallyOnce'
    BY <1>0, <1>1, <1>8, OrderStands DEF TryInv, TryTypeOK, TryFirst
  <2>4. BeforeHandler(w)' => Len(trace') = 1 /\ reports' = {} /\ delivered' = {}
    <3>1. BeforeHandler(w)' => BeforeHandler(w)
      BY <1>1, <1>6, <2>2 DEF BeforeHandler
    <3> QED
      BY <1>0, <1>8, <3>1 DEF PassesTraced
  <2>5. worker'[w].pc = "dying" \/ (InPass(w)' /\ worker'[w].thrown) => HasError'
    BY <1>0, <1>1, <1>8, <2>1 DEF PassesTraced, HasError
  <2>6. \A i, j \in Steps("finally")' :
          /\ ~ worker'[w].thrown => trace'[i].finalizer < finalizer'
          /\ i < j => \/ trace'[i].finalizer < trace'[j].finalizer
                      \/ worker'[w].thrown /\ (trace'[i].finalizer # trace'[j].finalizer
                                               \/ trace'[i].finalizer < finalizer')
    BY <1>0, <1>1, <1>8, <2>1 DEF FinalizersTraced, Steps
  <2>7. CaughtOrComing'
    <3> SUFFICES ASSUME builder.executionType = "CALLABLE", future[1] = "failed",
                        \A r \in reports : r.what # "null",
                        \E c \in exceptionConsumers : AssignableFrom(c, trace[1].thrown)
                 PROVE  \/ \E i \in Steps("catch") :
                               trace[i].catcher \in exceptionConsumers /\ CaughtAs(trace[i].catcher)
                        \/ \E v \in Worker : BeforeHandler(v)'
      BY <1>1, <1>8 DEF CaughtOrComing, CaughtAs, callerVars, tryVars, Steps
    <3>1. \/ \E i \in Steps("catch") :
                 trace[i].catcher \in exceptionConsumers /\ CaughtAs(trace[i].catcher)
          \/ BeforeHandler(w)
      BY <1>0, <1>3 DEF CaughtOrComing
    <3>2. ASSUME BeforeHandler(w) PROVE BeforeHandler(w)'
      <4>1. ~ worker[w].thrown
        BY <1>1, <3>2 DEF BeforeHandler, InPass
      <4>2. worker' = [worker EXCEPT ![w].pc = "inConsumer"]
        BY <1>8, <4>1
      <4> QED
        BY <1>1, <4>1, <4>2, CoreFacts DEF BeforeHandler, InPass, TypeOK, ExecutorTypeOK
    <3> QED
      BY <3>1, <3>2
  <2> QED
    BY <1>1, <1>2, <1>4, <1>6, <2>3, <2>4, <2>5, <2>6, <2>7, WorkerKeeps
<1> QED
  BY <1>1, <1>7, <1>8

-------------------------------------------------------------------------------
(* The finalizers, and the death of the thread. *)

\* What was caught stays caught, and no handler was still to come.
LEMMA CaughtStays ==
  ASSUME CaughtOrComing, trace \in Seq(Call), NEW c \in Call, trace' = Append(trace, c),
         \A v \in Worker : ~ BeforeHandler(v), reports \subseteq reports', trace # <<>>,
         UNCHANGED <<builder, future, exceptionConsumers>>
  PROVE  CaughtOrComing'
<1>1. trace'[1] = trace[1]
  OBVIOUS
<1> SUFFICES ASSUME builder.executionType = "CALLABLE", future[1] = "failed",
                    \A r \in reports' : r.what # "null",
                    \E d \in exceptionConsumers : AssignableFrom(d, trace[1].thrown)
             PROVE  \E i \in Steps("catch")' :
                      trace'[i].catcher \in exceptionConsumers /\ CaughtAs(trace'[i].catcher)
  BY <1>1 DEF CaughtOrComing, CaughtAs
<1>2. PICK i \in Steps("catch") :
        trace[i].catcher \in exceptionConsumers /\ CaughtAs(trace[i].catcher)
  BY DEF CaughtOrComing
<1>3. i \in Steps("catch")' /\ trace'[i] = trace[i]
  BY <1>2, TraceGrows DEF Steps
<1> QED
  BY <1>2, <1>3

\* One call more and the try-block is still first.
LEMMA TryFirstStays ==
  ASSUME TryFirst, trace \in Seq(Call), NEW c \in Call, trace' = Append(trace, c), c.step # "try",
         trace # <<>>, UNCHANGED future
  PROVE  TryFirst'
<1>1. /\ trace' # <<>> /\ trace'[1] = trace[1]
      /\ Len(trace) \in Nat /\ Len(trace) # 0
  OBVIOUS
<1>2. \A i \in DOMAIN trace' : trace'[i].step = "try" <=> i = 1
  <2> SUFFICES ASSUME NEW i \in DOMAIN trace' PROVE trace'[i].step = "try" <=> i = 1
    OBVIOUS
  <2>1. CASE i = Len(trace) + 1
    BY <1>1, <2>1, TraceGrows
  <2>2. CASE i \in DOMAIN trace
    BY <2>2, TraceGrows DEF TryFirst
  <2> QED
    BY <2>1, <2>2, TraceGrows
<1> QED
  BY <1>1, <1>2 DEF TryFirst

\* The finalizers that were called, and the next.
LEMMA FinalizersAreNumbers ==
  ASSUME TryTypeOK
  PROVE  /\ finalizer \in Nat /\ resources \in Nat /\ finallies \in Nat
         /\ \A i \in Steps("finally") : trace[i].finalizer \in Nat
<1>1. finalizer \in Nat /\ resources \in Nat /\ finallies \in Nat
  BY TryAssumption DEF TryTypeOK
<1>2. ASSUME NEW i \in Steps("finally") PROVE trace[i].finalizer \in Nat
  <2>1. trace[i] \in Call /\ trace[i].step = "finally"
    BY DEF Steps, TryTypeOK
  <2>2. trace[i].finalizer \in Finalizer
    BY <2>1 DEF Call
  <2> QED
    BY <2>2 DEF Finalizer
<1> QED
  BY <1>1, <1>2

\* One finalizer more.
LEMMA FinalizerKeeps ==
  ASSUME IInv, TypeOK', TryInv, NEW w \in Worker, RunFinalizers(w), UNCHANGED tryVars
  PROVE  TryInv'
<1>0. /\ IInv /\ TryTypeOK /\ ConsumersOfExecute /\ OneAtWork /\ TryFirst /\ PassesTraced
      /\ FinalizersTraced /\ CaughtOrComing /\ CatchBeforeFinally /\ CatchOnce /\ FinallyOnce
  BY DEF TryInv
<1>1. PICK e \in Ending :
        /\ EndsFinalizer(w, e)
        /\ \/ e = "returned" /\ finalizer' = finalizer + 1 /\ UNCHANGED worker
           \/ e = "exception" /\ finalizer' = 1 /\ worker' = Returned(w)
           \/ e = "error" /\ finalizer' = 1 /\ worker' = Escaped(w)
  BY DEF RunFinalizers, Ending
<1>2. /\ InPass(w) /\ worker[w].pos = 2 /\ worker[w].pc = "iterating"
      /\ finalizer <= resources + finallies
      /\ trace \in Seq(Call)
      /\ UNCHANGED <<consumers, queue, future, callerVars, reports, delivered>>
  <2>1. InPass(w) /\ worker[w].pos <= Len(consumers) /\ Called(w) = UserConsumer(1)
        /\ worker[w].pc = "iterating"
    BY DEF RunFinalizers, InFinalizers, Calling, HasNext, InPass
  <2> QED
    BY <1>0, <1>1, <2>1, PositionsOfCalls DEF RunFinalizers, EndsFinalizer, TryTypeOK, outputs
<1>3. \A v \in Worker : ~ BeforeHandler(v)
  <2> SUFFICES ASSUME NEW v \in Worker, v # w PROVE ~ BeforeHandler(v)
    BY <1>2 DEF BeforeHandler, InPass
  <2>1. worker[v].pc = "idle"
    BY <1>0, <1>2, OthersIdle DEF InPass
  <2> QED
    BY <2>1 DEF BeforeHandler, InPass
<1> DEFINE c == [step |-> "finally", finalizer |-> finalizer, ended |-> e]
           n == Len(trace) + 1
<1>4. c \in Call /\ c.step = "finally" /\ c.finalizer = finalizer /\ c.ended = e
  <2>1. finalizer \in Finalizer
    BY <1>0, <1>2, TryAssumption DEF TryTypeOK, Finalizer
  <2> QED
    BY <2>1 DEF Call
<1>5. trace' = Append(trace, c)
  BY <1>1 DEF EndsFinalizer
<1> HIDE DEF c
<1>6. trace' \in Seq(Call) /\ trace # <<>>
  <2>1. future[1] \in {"ok", "failed"}
    BY <1>0, <1>2, CoreFacts DEF TryFirst, InPass
  <2> QED
    BY <1>0, <1>2, <1>4, <1>5, <2>1 DEF TryFirst
<1>7. TryFirst' /\ CaughtOrComing'
  BY <1>0, <1>2, <1>3, <1>4, <1>5, <1>6, TryFirstStays, CaughtStays DEF callerVars, tryVars
<1>8. \A i \in Steps("finally") : ~ worker[w].thrown => trace[i].finalizer < finalizer
  BY <1>0, <1>2 DEF FinalizersTraced
<1>9. \A i, j \in Steps("finally") :
        i < j => \/ trace[i].finalizer < trace[j].finalizer
                 \/ worker[w].thrown /\ (trace[i].finalizer # trace[j].finalizer
                                         \/ trace[i].finalizer < finalizer)
  BY <1>0, <1>2 DEF FinalizersTraced
<1>10. worker[w].thrown => HasError
  BY <1>0, <1>2 DEF PassesTraced
<1>11. CatchBeforeFinally' /\ CatchOnce'
  BY <1>0, <1>2, <1>4, <1>5, CatchBeforeFinallyGrows, CatchOnceGrows
<1>12. FinallyOnce'
  <2>1. HasError \/ \A i \in Steps("finally") : trace[i].finalizer < c.finalizer
    BY <1>0, <1>4, <1>8, <1>10, CoreFacts
  <2>2. \A i, j \in Steps("finally") :
          i < j => ~ (trace[i].finalizer = trace[j].finalizer /\ trace[j].finalizer = c.finalizer)
    BY <1>0, <1>4, <1>9, FinalizersAreNumbers
  <2> QED
    BY <1>0, <1>2, <1>4, <1>5, <2>1, <2>2, FinallyOnceGrows
<1>13. (HasError \/ e = "error") => HasError'
  BY <1>2, <1>4, <1>5, ErrorsGrow
<1>14. ASSUME NEW i \in Steps("finally")'
       PROVE  \/ i \in Steps("finally") /\ i < n /\ trace'[i].finalizer = trace[i].finalizer
                 /\ i \in Nat
              \/ i = n /\ trace'[i].finalizer = finalizer
  BY <1>2, <1>4, <1>5, StepsGrow
<1>15. finalizer' \in 1 .. resources + finallies + 1
  BY <1>0, <1>1, <1>2, FinalizersAreNumbers
<1>16. CASE e = "returned" /\ finalizer' = finalizer + 1 /\ UNCHANGED worker
  <2>1. \A i, j \in Steps("finally")' :
          /\ ~ worker[w].thrown => trace'[i].finalizer < finalizer'
          /\ i < j => \/ trace'[i].finalizer < trace'[j].finalizer
                      \/ worker[w].thrown /\ (trace'[i].finalizer # trace'[j].finalizer
                                              \/ trace'[i].finalizer < finalizer')
    <3> SUFFICES ASSUME NEW i \in Steps("finally")', NEW j \in Steps("finally")'
                 PROVE  /\ ~ worker[w].thrown => trace'[i].finalizer < finalizer'
                        /\ i < j => \/ trace'[i].finalizer < trace'[j].finalizer
                                    \/ worker[w].thrown /\ (trace'[i].finalizer # trace'[j].finalizer
                                                            \/ trace'[i].finalizer < finalizer')
      OBVIOUS
    <3>1. n \in Nat
      BY <1>2
    <3> HIDE DEF n
    <3>2. ~ worker[w].thrown => trace'[i].finalizer < finalizer'
      BY <1>0, <1>8, <1>14, <1>16, FinalizersAreNumbers
    <3>3. ASSUME i < j
          PROVE  \/ trace'[i].finalizer < trace'[j].finalizer
                 \/ worker[w].thrown /\ (trace'[i].finalizer # trace'[j].finalizer
                                         \/ trace'[i].finalizer < finalizer')
      <4>1. i \in Steps("finally") /\ trace'[i].finalizer = trace[i].finalizer
        BY <1>14, <3>1, <3>3
      <4>2. CASE j \in Steps("finally") /\ trace'[j].finalizer = trace[j].finalizer
        BY <1>0, <1>9, <1>16, <3>3, <4>1, <4>2, FinalizersAreNumbers
      <4>3. CASE j = n /\ trace'[j].finalizer = finalizer
        BY <1>0, <1>8, <1>16, <4>1, <4>3, FinalizersAreNumbers, CoreFacts
      <4> QED
        BY <1>14, <4>2, <4>3
    <3> QED
      BY <3>2, <3>3
  <2>2. InPass(w)' /\ worker'[w].pos = 2 /\ worker'[w].pc = "iterating" /\ ~ BeforeHandler(w)'
    BY <1>2, <1>16 DEF InPass, BeforeHandler
  <2> QED
    BY <1>2, <1>6, <1>7, <1>10, <1>11, <1>12, <1>13, <1>15, <1>16, <2>1, <2>2, WorkerKeeps
<1>17. CASE e = "exception" /\ finalizer' = 1 /\ worker' = Returned(w)
  <2>1. /\ \A v \in Worker \ {w} : worker'[v] = worker[v]
        /\ worker'[w].pc = "iterating" /\ worker'[w].pos = 3
        /\ worker'[w].thrown = worker[w].thrown
    BY <1>2, <1>17, AfterCall
  <2>2. ~ BeforeHandler(w)'
    BY <2>1 DEF BeforeHandler, InPass
  <2> QED
    BY <1>2, <1>6, <1>7, <1>10, <1>11, <1>12, <1>13, <1>15, <1>17, <2>1, <2>2, WorkerKeeps
<1>18. CASE e = "error" /\ finalizer' = 1 /\ worker' = Escaped(w)
  <2>1. /\ \A v \in Worker \ {w} : worker'[v] = worker[v]
        /\ \/ worker'[w].pc = "dying"
           \/ /\ worker'[w].pc = "iterating" /\ worker'[w].pos = 1
              /\ worker'[w].thrown /\ ~ worker[w].thrown
    BY <1>2, <1>18, AfterCall
  <2>2. ~ BeforeHandler(w)'
    BY <2>1 DEF BeforeHandler, InPass
  <2>3. ASSUME InPass(w)' /\ worker'[w].pos <= 2
        PROVE  \A i, j \in Steps("finally")' :
                 /\ ~ worker'[w].thrown => trace'[i].finalizer < finalizer'
                 /\ i < j => trace'[i].finalizer < trace'[j].finalizer
    <3>0. worker'[w].thrown /\ ~ worker[w].thrown
      BY <2>1, <2>3 DEF InPass
    <3> SUFFICES ASSUME NEW i \in Steps("finally")', NEW j \in Steps("finally")', i < j
                 PROVE  trace'[i].finalizer < trace'[j].finalizer
      BY <3>0
    <3>1. n \in Nat
      BY <1>2
    <3> HIDE DEF n
    <3>2. i \in Steps("finally") /\ trace'[i].finalizer = trace[i].finalizer
      BY <1>14, <3>1
    <3> QED
      BY <1>0, <1>8, <1>9, <1>14, <3>0, <3>2, FinalizersAreNumbers
  <2> QED
    BY <1>2, <1>6, <1>7, <1>11, <1>12, <1>13, <1>15, <1>18, <2>1, <2>2, <2>3, WorkerKeeps
<1> QED
  BY <1>1, <1>16, <1>17, <1>18

\* No finalizer is left.
LEMMA FinalizersEndKeeps ==
  ASSUME IInv, TypeOK', TryInv, NEW w \in Worker, FinalizersEnd(w), UNCHANGED tryVars
  PROVE  TryInv'
<1>0. /\ IInv /\ TryTypeOK /\ ConsumersOfExecute /\ OneAtWork /\ TryFirst /\ PassesTraced
      /\ CaughtOrComing
  BY DEF TryInv
<1>1. /\ InPass(w) /\ worker[w].pos = 2 /\ worker[w].pc = "iterating" /\ worker' = Returned(w)
      /\ finalizer' = 1
      /\ UNCHANGED <<consumers, queue, future, callerVars, reports, delivered, trace>>
  <2>1. InPass(w) /\ worker[w].pos <= Len(consumers) /\ Called(w) = UserConsumer(1)
        /\ worker[w].pc = "iterating"
    BY DEF FinalizersEnd, InFinalizers, Calling, HasNext, InPass
  <2> QED
    BY <1>0, <2>1, PositionsOfCalls DEF FinalizersEnd, outputs
<1>2. /\ \A v \in Worker \ {w} : worker'[v] = worker[v]
      /\ worker'[w].pc = "iterating" /\ worker'[w].pos = 3
      /\ worker'[w].thrown = worker[w].thrown
  BY <1>1, AfterCall
<1>3. ~ BeforeHandler(w)'
  BY <1>2 DEF BeforeHandler, InPass
<1>4. \A v \in Worker : ~ BeforeHandler(v)
  <2> SUFFICES ASSUME NEW v \in Worker, v # w PROVE ~ BeforeHandler(v)
    BY <1>1 DEF BeforeHandler, InPass
  <2>1. worker[v].pc = "idle"
    BY <1>0, <1>1, OthersIdle DEF InPass
  <2> QED
    BY <2>1 DEF BeforeHandler, InPass
<1>5. TryFirst' /\ CaughtOrComing'
  BY <1>0, <1>1, <1>4 DEF TryFirst, CaughtOrComing, CaughtAs, Steps, callerVars, tryVars
<1>6. worker'[w].thrown => HasError'
  BY <1>0, <1>1, <1>2 DEF PassesTraced, HasError
<1>7. CatchBeforeFinally' /\ CatchOnce' /\ FinallyOnce'
  BY <1>1, OrderStands DEF TryInv
<1>8. trace' \in Seq(Call) /\ finalizer' \in 1 .. resources + finallies + 1
  BY <1>0, <1>1, FinalizersAreNumbers DEF TryTypeOK
<1> QED
  BY <1>1, <1>2, <1>3, <1>5, <1>6, <1>7, <1>8, WorkerKeeps

\* The thread dies of an Error, and the JVM asks for a catcher once more.
LEMMA DieKeeps ==
  ASSUME IInv, TypeOK', TryInv, NEW w \in Worker, TryDie(w), UNCHANGED <<tryVars, finalizer>>
  PROVE  TryInv'
<1>0. /\ IInv /\ TryTypeOK /\ ConsumersOfExecute /\ OneAtWork /\ TryFirst /\ PassesTraced
      /\ FinalizersTraced /\ CaughtOrComing /\ CatchBeforeFinally /\ CatchOnce /\ FinallyOnce
  BY DEF TryInv
<1>1. /\ Die(w) /\ worker[w].pc = "dying" /\ worker' = [worker EXCEPT ![w] = Idle]
      /\ UNCHANGED <<consumers, queue, future, callerVars, delivered>>
      /\ reports \subseteq reports'
  BY DEF TryDie, Die, ReplaceWorker
<1>2. finalizer = 1 /\ HasError /\ trace \in Seq(Call)
  BY <1>0, <1>1, FinalizerReset DEF InPass, PassesTraced, TryTypeOK
<1>3. /\ \A v \in Worker \ {w} : worker'[v] = worker[v]
      /\ worker'[w].pc = "idle"
  BY <1>1, CoreFacts DEF Idle, TypeOK, ExecutorTypeOK
<1>4. \A v \in Worker : ~ BeforeHandler(v)
  <2> SUFFICES ASSUME NEW v \in Worker, v # w PROVE ~ BeforeHandler(v)
    BY <1>1 DEF BeforeHandler, InPass
  <2>1. worker[v].pc = "idle"
    BY <1>0, <1>1, OthersIdle
  <2> QED
    BY <2>1 DEF BeforeHandler, InPass
<1>5. trace # <<>>
  BY <1>2 DEF HasError
<1>6. finalizer' \in 1 .. resources + finallies + 1
  BY <1>0 DEF TryTypeOK
<1>7. ~ InPass(w)' /\ ~ BeforeHandler(w)'
  BY <1>3 DEF BeforeHandler, InPass
<1>8. PICK calls \in ReportCalls : trace' = trace \o calls
  BY DEF TryDie
<1>9. \/ calls = <<>>
      \/ \E c \in Call : c.step = "catch" /\ c.origin = "Error" /\ calls = <<c>>
  <2>1. CASE reports' = reports
    BY <2>1 DEF ReportCalls
  <2>2. CASE reports' # reports
    <3> DEFINE r == [by |-> worker[w].task, about |-> worker[w].task, what |-> "death",
                     to |-> IF factory = "consumer" THEN "consumer" ELSE "logger"]
    <3>1. reports' = reports \cup {r} /\ r.what = "death"
      BY <1>1 DEF Die
    <3> HIDE DEF r
    <3>2. r \notin reports
      BY <2>2, <3>1
    <3>3. PICK o \in Origins("death") : calls \in CatchCalls(o)
      BY <3>1, <3>2, CallsOfReport
    <3>4. o.class \in Class /\ o.class = "Error"
      BY <3>3, OriginClasses DEF Cause
    <3>5. CASE calls = <<>>
      BY <3>5
    <3>6. ASSUME NEW d \in Matching(o), NEW e \in Ending, calls = <<CatchCall(o, d, e)>>
          PROVE  \E c \in Call : c.step = "catch" /\ c.origin = "Error" /\ calls = <<c>>
      BY <1>0, <3>4, <3>6, CatchCallIsCall
    <3> QED
      BY <3>3, <3>5, <3>6, LookupCalls
  <2> QED
    BY <2>1, <2>2
<1>10. CASE calls = <<>>
  <2>1. trace' = trace
    BY <1>2, <1>8, <1>10, ConcatEmptySeq
  <2>2. TryFirst' /\ CaughtOrComing'
    <3>1. TryFirst'
      BY <1>0, <1>1, <1>5, <2>1 DEF TryFirst
    <3>2. CaughtOrComing'
      BY <1>0, <1>1, <1>4, <2>1 DEF CaughtOrComing, CaughtAs, Steps, callerVars, tryVars
    <3> QED
      BY <3>1, <3>2
  <2>3. CatchBeforeFinally' /\ CatchOnce' /\ FinallyOnce'
    BY <1>0, <2>1, OrderStands
  <2> QED
    BY <1>1, <1>2, <1>3, <1>6, <1>7, <2>1, <2>2, <2>3, WorkerKeeps
<1>11. ASSUME NEW c \in Call, c.step = "catch", c.origin = "Error", calls = <<c>>
       PROVE  TryInv'
  <2>1. trace' = Append(trace, c) /\ trace' \in Seq(Call)
    <3>1. trace \o <<c>> = Append(trace, c)
      BY <1>2, AppendIsConcat
    <3> QED
      BY <1>2, <1>8, <1>11, <3>1
  <2>2. TryFirst' /\ CaughtOrComing'
    BY <1>0, <1>1, <1>2, <1>4, <1>5, <1>11, <2>1, TryFirstStays, CaughtStays DEF callerVars, tryVars
  <2>3. CatchBeforeFinally' /\ CatchOnce' /\ FinallyOnce'
    BY <1>0, <1>2, <1>11, <2>1, CatchBeforeFinallyGrows, CatchOnceGrows, FinallyOnceGrows
  <2> QED
    BY <1>1, <1>2, <1>3, <1>6, <1>7, <2>1, <2>2, <2>3, WorkerKeeps
<1> QED
  BY <1>9, <1>10, <1>11

-------------------------------------------------------------------------------
(* The theorems. *)

LEMMA WorkerStepKeeps ==
  ASSUME IInv, TypeOK', TryInv, NEW w \in Worker, TryWorkerStep(w)
  PROVE  TryInv'
<1>1. CASE PoolStep(w) /\ UNCHANGED <<tryVars, finalizer>>
  BY <1>1, TakeKeeps, StartBodyKeeps, BeginKeeps, EndKeeps DEF PoolStep
<1>2. CASE (TryDie(w) \/ TryHandle(w)) /\ UNCHANGED <<tryVars, finalizer>>
  BY <1>2, DieKeeps, HandleKeeps
<1>3. CASE Attempt(w) /\ UNCHANGED <<callerVars, threadResult, outputs, tryVars, finalizer>>
  BY <1>3, AttemptKeeps
<1>4. CASE (RunFinalizers(w) \/ FinalizersEnd(w)) /\ UNCHANGED tryVars
  BY <1>4, FinalizerKeeps, FinalizersEndKeeps
<1> QED
  BY <1>1, <1>2, <1>3, <1>4 DEF TryWorkerStep

LEMMA TryInitInv == TryInit => TryInv
<1> SUFFICES ASSUME TryInit PROVE TryInv
  OBVIOUS
<1>1. /\ Init /\ trace = <<>> /\ finalizer = 1 /\ finallies = 0 /\ exceptionConsumers = {}
      /\ resources \in 0 .. MaxResources
  BY TryAssumption DEF TryInit
<1>2. /\ future[1] = "none" /\ queue = <<>> /\ \A w \in Worker : worker[w].pc = "idle"
      /\ started = 0 /\ callerPc = "idle" /\ consumers = <<>> /\ reports = {} /\ delivered = {}
      /\ builder \in Configurations
  BY <1>1, OneTask DEF Init, ExecutorInit, Idle
<1>3. TypeOK /\ TryTypeOK
  <2>1. TypeOK
    BY <1>1, InitBase DEF Base
  <2>2. finalizer \in 1 .. resources + finallies + 1
    BY <1>1, TryAssumption
  <2> QED
    BY <1>1, <2>1, <2>2, TryAssumption DEF TryTypeOK
<1>4. \A w \in Worker : ~ InPass(w) /\ ~ BeforeHandler(w)
  BY <1>2 DEF InPass, BeforeHandler
<1>5. \A step : Steps(step) = {}
  BY <1>1 DEF Steps
<1>6. ConfigurationKept /\ ConsumersOfExecute /\ OneAtWork /\ TryFirst
  BY <1>1, <1>2 DEF ConfigurationKept, ConsumersOfExecute, OneAtWork, TryFirst
<1>7. PassesTraced /\ FinalizersTraced /\ CaughtOrComing
  BY <1>1, <1>2, <1>4 DEF PassesTraced, FinalizersTraced, CaughtOrComing
<1>8. CatchBeforeFinally /\ CatchOnce /\ FinallyOnce
  BY <1>5 DEF CatchBeforeFinally, CatchOnce, FinallyOnce
<1> QED
  BY <1>3, <1>6, <1>7, <1>8 DEF TryInv

\* The inductive invariant of the try-async builders.
THEOREM TryInvariance == TrySpec => []TryInv
<1>1. TryInit => TryInv
  BY TryInitInv
<1>2. IInv /\ TypeOK' /\ TryInv /\ [TryNext]_allVars => TryInv'
  <2> SUFFICES ASSUME IInv, TypeOK', TryInv, [TryNext]_allVars PROVE TryInv'
    OBVIOUS
  <2>1. CASE \E w \in Worker : TryWorkerStep(w)
    BY <2>1, WorkerStepKeeps
  <2>2. CASE ~ \E w \in Worker : TryWorkerStep(w)
    BY <2>2, CallerKeeps DEF TryNext
  <2> QED
    BY <2>1, <2>2
<1>3. TrySpec => []IInv /\ []TypeOK
  BY TryAsyncImplementsBuilder, Invariance, Typing, PTL
<1> QED
  BY <1>1, <1>2, <1>3, PTL DEF TrySpec

\* The values of the variables, among them that every call traced is one of the
\* builder's own catchers or finalizers.
THEOREM TryTyping == TrySpec => []TryTypeOK
<1>1. TryInv => TryTypeOK
  BY DEF TryInv
<1> QED
  BY <1>1, TryInvariance, PTL

\* No catcher is called once a finalizer was entered, but for the JVM's report of
\* an Error, after an Error of a callback.
THEOREM CatchesComeFirst == TrySpec => []CatchBeforeFinally
<1>1. TryInv => CatchBeforeFinally
  BY DEF TryInv
<1> QED
  BY <1>1, TryInvariance, PTL

\* One catcher at most is called for one failure of the try-block.
THEOREM OneCatcher == TrySpec => []CatchOnce
<1>1. TryInv => CatchOnce
  BY DEF TryInv
<1> QED
  BY <1>1, TryInvariance, PTL

\* Finalizers run in order and once each, twice only after an Error.
THEOREM FinalizersInOrder == TrySpec => []FinallyOnce
<1>1. TryInv => FinallyOnce
  BY DEF TryInv
<1> QED
  BY <1>1, TryInvariance, PTL

\* A callable's failure that a catcher is there for was given, by the time the
\* worker is through with the task, to a catcher of its own class or of one that it
\* or the ExecutionException around it extends.
THEOREM FailuresAreCaught == TrySpec => []CallableCaught
<1>1. IInv /\ TryInv => CallableCaught
  <2> SUFFICES ASSUME IInv, TryInv, Released(1),
                      builder.executionType = "CALLABLE", future[1] = "failed",
                      \A r \in reports : r.what # "null",
                      \E c \in exceptionConsumers : AssignableFrom(c, trace[1].thrown)
               PROVE  \E i \in Steps("catch") :
                        trace[i].catcher \in exceptionConsumers /\ CaughtAs(trace[i].catcher)
    BY DEF CallableCaught
  <2>1. \A w \in Worker : ~ BeforeHandler(w)
    <3> SUFFICES ASSUME NEW w \in Worker, worker[w].pc # "idle" PROVE FALSE
      BY DEF BeforeHandler, InPass
    <3>1. worker[w].task = 1
      BY CoreFacts
    <3> QED
      BY <3>1 DEF Released, Holds
  <2> QED
    BY <2>1 DEF TryInv, CaughtOrComing
<1>2. TrySpec => []IInv
  BY TryAsyncImplementsBuilder, Invariance, PTL
<1> QED
  BY <1>1, <1>2, TryInvariance, PTL
===============================================================================
