-------------------- MODULE LegacyThreadBuilderAnswerProofs --------------------
(***************************************************************************)
(* What a thread of the deprecated builder tells, and how often: theorems  *)
(* about LegacyThreadBuilder for any number of starts and configurations.  *)
(***************************************************************************)
EXTENDS LegacyThreadBuilderProofs

USE LegacyAssumption DEF Task, Settled

-------------------------------------------------------------------------------
(* The consumers registered for a task. *)

ConsumerLists == {<<>>, <<"handler">>, <<"handler", "user">>}

\* The handler is first, and a user's consumer only second.
LEMMA ConsumerPlaces ==
  ASSUME NEW cs \in ConsumerLists
  PROVE  /\ Len(cs) \in 0 .. 2
         /\ cs # <<>> => Len(cs) > 0
         /\ \A i \in 1 .. Len(cs) : (cs[i] = "handler" <=> i = 1) /\ (cs[i] = "user" <=> i = 2)
BY DEF ConsumerLists

\* How the caller extends them.
LEMMA ConsumersGrow ==
  Append(<<>>, "handler") = <<"handler">> /\ Append(<<"handler">>, "user") = <<"handler", "user">>
<1>1. Append(<<>>, "handler") = <<"handler">>
  OBVIOUS
<1>2. Append(<<"handler">>, "user") = <<"handler", "user">>
  <2> DEFINE S == {"handler", "user"}
             appended == Append(<<"handler">>, "user")
             both == <<"handler", "user">>
  <2>1. <<"handler">> \in Seq(S) /\ both \in Seq(S) /\ Len(<<"handler">>) = 1 /\ Len(both) = 2
    OBVIOUS
  <2>2. appended \in Seq(S) /\ Len(appended) = 2 /\ appended[2] = "user"
    BY <2>1, AppendProperties
  <2>3. appended[1] = <<"handler">>[1]
    BY <2>1, AppendProperties
  <2>4. \A i \in 1 .. 2 : appended[i] = both[i]
    BY <2>2, <2>3
  <2> QED
    BY <2>1, <2>2, <2>4, SeqEqual
<1> QED
  BY <1>1, <1>2

-------------------------------------------------------------------------------
(* The steps of the other actors. *)

\* The builder before its first start.
LEMMA InitLegacyAnswerInv == Init => LegacyAnswerInv
<1> SUFFICES ASSUME Init PROVE LegacyAnswerInv
  OBVIOUS
<1>1. LegacyInv
  BY InitLegacyInv
<1>2. HandlerRegistered
  BY DEF Init, HandlerRegistered, Idle, InStart
<1>3. NeverComodified /\ CallsCounted
  BY DEF Init, NeverComodified, CallsCounted, Idle
<1>4. FailuresTold
  BY DEF Init, FailuresTold
<1>5. TimerCallsCounted
  BY DEF Init, TimerCallsCounted, MostTimerCalls
<1> QED
  BY <1>1, <1>2, <1>3, <1>4, <1>5 DEF LegacyAnswerInv

\* Whoever has the ExecutorResult, and the timers: they settle tasks as cancelled,
\* take them from queues, and tell of them.
OutsideStep ==
  /\ UNCHANGED <<builder, reconfigs, started, callerPc, consumers, periodic, delayed, worker, calls, threw>>
  /\ queued' \subseteq queued /\ told \subseteq told'
  /\ \A t \in Task : future'[t] = future[t] \/ (future[t] = "new" /\ future'[t] = "cancelled")

\* Each of their actions is such a step.
LEMMA OutsideSteps ==
  ASSUME LegacyInv, NEW t \in Task,
         \/ Cancel(t)
         \/ \E state \in {"shutdown", "stop"} : Shutdown(t, state)
         \/ StopTimer(t)
         \/ TimerStep(t)
  PROVE  OutsideStep
<1> USE DEF LegacyInv, LegacyTypeOK, callerVars, poolVars, outputs, OutsideStep
<1>1. CASE Cancel(t)
  BY <1>1 DEF Cancel
<1>2. ASSUME NEW state \in {"shutdown", "stop"}, Shutdown(t, state)
      PROVE  OutsideStep
  BY <1>2 DEF Shutdown
<1>3. CASE StopTimer(t)
  BY <1>3 DEF StopTimer
<1>4. CASE CancelFuture(t)
  BY <1>4 DEF CancelFuture
<1>5. CASE TimerHandles(t)
  BY <1>5 DEF TimerHandles, Tell
<1> QED
  BY <1>1, <1>2, <1>3, <1>4, <1>5 DEF TimerStep

\* They leave the invariant alone.
LEMMA OutsideKeeps ==
  ASSUME LegacyAnswerInv, OutsideStep
  PROVE  HandlerRegistered' /\ NeverComodified' /\ FailuresTold' /\ CallsCounted'
<1> USE DEF OutsideStep, LegacyAnswerInv
<1>1. HandlerRegistered' /\ NeverComodified'
  BY DEF HandlerRegistered, NeverComodified, InStart
<1>2. FailuresTold'
  BY DEF FailuresTold, ThreadTold
<1>3. CallsCounted'
  <2>1. \A t \in Task : IsDone(t) => IsDone(t)'
    BY DEF IsDone
  <2>2. ASSUME NEW t \in delayed, calls[t] <= MostCalls(t)
        PROVE  calls[t] <= MostCalls(t)'
    <3>1. CallsOfPass(t)' = CallsOfPass(t) /\ CallsOfTurn(t)' = CallsOfTurn(t)
      BY DEF CallsOfPass, CallsOfTurn
    <3>2. calls[t] \in Nat /\ CallsOfPass(t) \in 0 .. 2 /\ CallsOfTurn(t) \in {1, 3}
      <4>1. delayed \subseteq Task /\ calls \in [Task -> Nat]
        BY DEF LegacyInv, LegacyTypeOK
      <4> HIDE DEF LegacyAnswerInv, OutsideStep
      <4> QED
        BY <4>1 DEF CallsOfPass, CallsOfTurn
    <3>3. MostCalls(t) <= MostCalls(t)' /\ MostCalls(t) \in Nat /\ MostCalls(t)' \in Nat
      BY <3>1, <3>2 DEF MostCalls
    <3> QED
      BY <2>2, <3>2, <3>3
  <2> QED
    BY <2>1, <2>2 DEF CallsCounted
<1> QED
  BY <1>1, <1>2, <1>3

-------------------------------------------------------------------------------
(* The caller. *)

\* The caller registers consumers while the thread, because of the delay, waits.
LEMMA CallerRegistersOnce ==
  ASSUME LegacyAnswerInv,
         \/ \E field \in Field, value \in BOOLEAN : Set(field, value)
         \/ Start
         \/ CallerStep
  PROVE  HandlerRegistered' /\ NeverComodified'
<1> USE DEF LegacyAnswerInv, callerVars, poolVars, outputs
<1>0. /\ started \in 0 .. MaxStarts /\ consumers \in [Task -> Seq({"handler", "user"})]
      /\ delayed \subseteq Task
      /\ callerPc # "idle" => started \in Task
      /\ callerPc = "scheduled" => consumers[started] = <<>>
      /\ callerPc \in {"handled", "armed", "published"} => consumers[started] = <<"handler">>
  <2>1. LegacyTypeOK /\ Registration
    BY DEF LegacyInv
  <2> HIDE DEF LegacyAnswerInv
  <2>2. started \in 0 .. MaxStarts /\ consumers \in [Task -> Seq({"handler", "user"})] /\ delayed \subseteq Task
    BY <2>1 DEF LegacyTypeOK
  <2> QED
    BY <2>1, <2>2 DEF Registration
<1>1. ASSUME NEW field \in Field, NEW value \in BOOLEAN, Set(field, value)
      PROVE  HandlerRegistered' /\ NeverComodified'
  BY <1>1 DEF Set, HandlerRegistered, NeverComodified, InStart
<1>2. CASE Start
  <2>1. /\ callerPc = "idle" /\ callerPc' # "idle" /\ started' = started + 1
        /\ UNCHANGED <<consumers, worker>>
        /\ queued' = queued \cup {started'}
        /\ delayed' \subseteq delayed \cup {started'}
    BY <1>2 DEF Start
  <2>2. started' \in Task /\ worker[started'].pc = "idle"
    BY <1>0, <1>2, <2>1 DEF Start, HandlerRegistered
  <2>3. HandlerRegistered'
    <3> SUFFICES ASSUME NEW t \in Task
                 PROVE  /\ consumers[t] \in {<<>>, <<"handler">>, <<"handler", "user">>}
                        /\ t <= started' /\ ~ (started' = t) => consumers[t] # <<>>
                        /\ t > started' => t \notin queued' \cup delayed' /\ worker[t].pc = "idle"
      BY <2>1, Zenon DEF HandlerRegistered, InStart
    <3> QED
      BY <1>0, <2>1 DEF HandlerRegistered, InStart
  <2>4. NeverComodified'
    BY <1>0, <2>1, <2>2 DEF NeverComodified, InStart
  <2> QED
    BY <2>3, <2>4
<1>3. ASSUME NEW cs \in ConsumerLists, cs # <<>>, callerPc # "idle",
             consumers' = [consumers EXCEPT ![started] = cs],
             UNCHANGED <<started, queued, delayed, worker>>
      PROVE  HandlerRegistered' /\ NeverComodified'
  <2>1. started \in Task /\ consumers'[started] = cs /\ \A t \in Task : t # started => consumers'[t] = consumers[t]
    BY <1>0, <1>3
  <2>2. HandlerRegistered'
    <3> SUFFICES ASSUME NEW t \in Task
                 PROVE  /\ consumers'[t] \in ConsumerLists
                        /\ t <= started => consumers'[t] # <<>>
                        /\ t > started => t \notin queued \cup delayed /\ worker[t].pc = "idle"
      BY <1>3 DEF HandlerRegistered, ConsumerLists
    <3> QED
      BY <1>0, <1>3, <2>1 DEF HandlerRegistered, InStart, ConsumerLists
  <2>3. NeverComodified'
    BY <1>0, <1>3, <2>1 DEF NeverComodified, InStart
  <2> QED
    BY <2>2, <2>3
<1>4. CASE AddHandler
  <2>1. <<"handler">> \in ConsumerLists /\ <<"handler">> # <<>>
    BY DEF ConsumerLists
  <2>2. consumers' = [consumers EXCEPT ![started] = <<"handler">>]
    BY <1>0, <1>4, ConsumersGrow DEF AddHandler, Register
  <2>3. callerPc # "idle" /\ UNCHANGED <<started, queued, delayed, worker>>
    BY <1>4 DEF AddHandler, Register
  <2> QED
    BY <1>3, <2>1, <2>2, <2>3
<1>5. CASE HandleInterruption \/ Publish
  BY <1>5 DEF HandleInterruption, Publish, HandlerRegistered, NeverComodified, InStart
<1>6. CASE AddUserConsumer
  <2>1. /\ <<"handler">> \in ConsumerLists /\ <<"handler">> # <<>>
        /\ <<"handler", "user">> \in ConsumerLists /\ <<"handler", "user">> # <<>>
    BY DEF ConsumerLists
  <2>2. \/ consumers' = [consumers EXCEPT ![started] = <<"handler">>]
        \/ consumers' = [consumers EXCEPT ![started] = <<"handler", "user">>]
    BY <1>0, <1>6, ConsumersGrow DEF AddUserConsumer, Register
  <2>3. callerPc # "idle" /\ UNCHANGED <<started, queued, delayed, worker>>
    BY <1>6 DEF AddUserConsumer, Register
  <2> QED
    BY <1>3, <2>1, <2>2, <2>3
<1> QED
  BY <1>1, <1>2, <1>4, <1>5, <1>6 DEF CallerStep

\* A start with an exception consumer delays its task; a setter ends the promise.
LEMMA CallerTellsNothing ==
  ASSUME LegacyAnswerInv,
         \/ \E field \in Field, value \in BOOLEAN : Set(field, value)
         \/ Start
         \/ CallerStep
  PROVE  FailuresTold' /\ CallsCounted'
<1> USE DEF LegacyAnswerInv, callerVars, poolVars, outputs
<1>0. /\ started \in 0 .. MaxStarts /\ reconfigs \in 0 .. MaxReconfigs
      /\ delayed \subseteq Task /\ periodic \subseteq Task
      /\ future \in [Task -> {"none", "new"} \cup Settled]
      /\ calls \in [Task -> Nat]
  BY DEF LegacyInv, LegacyTypeOK
<1>1. ASSUME NEW field \in Field, NEW value \in BOOLEAN, Set(field, value)
      PROVE  FailuresTold' /\ CallsCounted'
  <2>1. reconfigs' = reconfigs + 1 /\ reconfigs' # 0
    BY <1>0, <1>1 DEF Set
  <2>2. CallsCounted'
    BY <1>1 DEF Set, CallsCounted, MostCalls, CallsOfPass, CallsOfTurn, IsDone
  <2> QED
    BY <2>1, <2>2 DEF FailuresTold
<1>2. CASE CallerStep
  <2>1. UNCHANGED <<builder, reconfigs, started, queued, periodic, delayed, future, worker, told, calls, threw>>
    BY <1>2 DEF CallerStep, AddHandler, HandleInterruption, Publish, AddUserConsumer, Register
  <2>2. FailuresTold'
    BY <2>1 DEF FailuresTold, ThreadTold
  <2>3. CallsCounted'
    BY <2>1 DEF CallsCounted, MostCalls, CallsOfPass, CallsOfTurn, IsDone
  <2> QED
    BY <2>2, <2>3
<1>3. CASE Start
  <2>1. /\ started' = started + 1
        /\ UNCHANGED <<builder, reconfigs, worker, told, calls, threw>>
        /\ queued' = queued \cup {started'}
        /\ future' = [future EXCEPT ![started'] = "new"]
        /\ delayed' = IF HandleDelay THEN delayed \cup {started'} ELSE delayed
        /\ periodic' \in {periodic, periodic \cup {started'}}
    BY <1>3 DEF Start
  <2>2. /\ started' \in Task /\ worker[started'].pc = "idle" /\ future[started'] = "none"
        /\ started' \notin delayed
    BY <1>0, <1>3, <2>1 DEF Start, HandlerRegistered, LegacyInv, Registration
  <2>3. FailuresTold'
    <3> SUFFICES ASSUME builder.uncaughtExceptionConsumer, reconfigs = 0, NEW t \in Task
                 PROVE  /\ t <= started' => t \in delayed'
                        /\ future'[t] = "failed" =>
                             /\ worker[t].pc = "iterating" /\ worker[t].pos > 1 => ThreadTold(t)
                             /\ DelayOutlastsStart /\ worker[t].pc \in {"idle", "dying"} => ThreadTold(t)
      BY <2>1 DEF FailuresTold, ThreadTold
    <3>1. HandleDelay
      BY DEF HandleDelay
    <3>2. CASE t = started'
      BY <1>0, <2>1, <2>2, <3>1, <3>2
    <3>3. CASE t # started'
      <4>1. t <= started' => t <= started
        BY <1>0, <2>1, <3>3
      <4>2. future'[t] = future[t] /\ delayed \subseteq delayed'
        BY <1>0, <2>1, <3>3
      <4> QED
        BY <4>1, <4>2 DEF FailuresTold
    <3> QED
      BY <3>2, <3>3
  <2>4. CallsCounted'
    <3>0. \A t \in Task : IsDone(t)' = IsDone(t)
      BY <1>0, <2>1, <2>2 DEF IsDone
    <3> SUFFICES ASSUME NEW t \in delayed'
                 PROVE  /\ worker[t].pc = "running" => t \notin queued'
                        /\ worker[t].pc # "idle" /\ t \in queued' => t \in periodic'
                        /\ DelayOutlastsStart =>
                             /\ worker[t].pc = "dying" \/ (worker[t].pc = "iterating" /\ worker[t].thrown)
                                  => t \in threw
                             /\ calls[t] <= MostCalls(t)'
      BY <2>1, <3>0 DEF CallsCounted
    <3>1. CASE t # started'
      <4>1. t \in delayed /\ (t \in queued' <=> t \in queued) /\ (t \in periodic' <=> t \in periodic)
        BY <2>1, <3>1
      <4>2. MostCalls(t)' = MostCalls(t)
        BY <2>1, <4>1 DEF MostCalls, CallsOfPass, CallsOfTurn
      <4> QED
        BY <4>1, <4>2 DEF CallsCounted
    <3>2. CASE t = started'
      <4>1. worker[t].pc = "idle" /\ t \in queued' /\ ~ IsDone(t)
        BY <2>1, <2>2, <3>2 DEF IsDone
      <4>2. calls[t] = 0
        BY <2>2, <3>2, <4>1 DEF CallsCounted
      <4>3. MostCalls(t)' \in {0, 1, 3}
        BY <2>1, <4>1 DEF MostCalls, CallsOfTurn
      <4> QED
        BY <4>1, <4>2, <4>3
    <3> QED
      BY <3>1, <3>2
  <2> QED
    BY <2>3, <2>4
<1> QED
  BY <1>1, <1>2, <1>3

-------------------------------------------------------------------------------
(* The task's thread. *)

\* What the invariant says of one task, but for the registration of its consumers.
TaskInv(t) ==
  /\ t > started => t \notin queued /\ worker[t].pc = "idle"
  /\ t \in delayed /\ worker[t].pc # "idle" =>
       /\ DelayOutlastsStart => ~ InStart(t)
       /\ DelayOutlastsStart /\ worker[t].pc = "iterating" => worker[t].seen = Len(consumers[t])
  /\ builder.uncaughtExceptionConsumer /\ reconfigs = 0 /\ future[t] = "failed" =>
       /\ worker[t].pc = "iterating" /\ worker[t].pos > 1 => ThreadTold(t)
       /\ DelayOutlastsStart /\ worker[t].pc \in {"idle", "dying"} => ThreadTold(t)
  /\ ~ IsDone(t) => calls[t] = 0
  /\ worker[t].pc = "iterating" => worker[t].pos > 0
  /\ t \in delayed =>
       /\ worker[t].pc = "running" => t \notin queued
       /\ worker[t].pc # "idle" /\ t \in queued => t \in periodic
       /\ DelayOutlastsStart =>
            /\ worker[t].pc = "dying" \/ (worker[t].pc = "iterating" /\ worker[t].thrown) => t \in threw
            /\ calls[t] <= MostCalls(t)

\* A step of a task's thread is no step of another's.
OwnStep(t) ==
  /\ UNCHANGED <<builder, reconfigs, started, callerPc, consumers, periodic, delayed>>
  /\ told \subseteq told'
  /\ \A u \in Task : u # t =>
       /\ worker'[u] = worker[u] /\ future'[u] = future[u] /\ calls'[u] = calls[u]
       /\ u \in queued' <=> u \in queued
       /\ u \in threw' <=> u \in threw

\* What the types and the invariant say of one task.
LEMMA TaskFacts ==
  ASSUME LegacyAnswerInv, NEW t \in Task
  PROVE  /\ TaskInv(t)
         /\ consumers[t] \in ConsumerLists
         /\ t <= started /\ ~ InStart(t) => consumers[t] # <<>>
         /\ worker \in [Task -> WorkerState] /\ worker[t] \in WorkerState
         /\ future \in [Task -> {"none", "new"} \cup Settled]
         /\ calls \in [Task -> Nat] /\ calls[t] \in Nat
         /\ started \in 0 .. MaxStarts
         /\ delayed \subseteq Task
         /\ t > started => t \notin delayed
<1>1. /\ consumers[t] \in ConsumerLists
      /\ t <= started /\ ~ InStart(t) => consumers[t] # <<>>
      /\ t > started => t \notin queued \cup delayed /\ worker[t].pc = "idle"
  BY DEF LegacyAnswerInv, HandlerRegistered, ConsumerLists
<1>2. /\ worker \in [Task -> WorkerState] /\ future \in [Task -> {"none", "new"} \cup Settled]
      /\ calls \in [Task -> Nat] /\ started \in 0 .. MaxStarts /\ delayed \subseteq Task
  BY DEF LegacyAnswerInv, LegacyInv, LegacyTypeOK
<1>3. TaskInv(t)
  <2>1. t \in delayed /\ worker[t].pc # "idle" =>
          /\ DelayOutlastsStart => ~ InStart(t)
          /\ DelayOutlastsStart /\ worker[t].pc = "iterating" => worker[t].seen = Len(consumers[t])
    BY DEF LegacyAnswerInv, NeverComodified
  <2>2. builder.uncaughtExceptionConsumer /\ reconfigs = 0 /\ future[t] = "failed" =>
          /\ worker[t].pc = "iterating" /\ worker[t].pos > 1 => ThreadTold(t)
          /\ DelayOutlastsStart /\ worker[t].pc \in {"idle", "dying"} => ThreadTold(t)
    BY DEF LegacyAnswerInv, FailuresTold
  <2> QED
    BY <1>1, <2>1, <2>2 DEF LegacyAnswerInv, CallsCounted, TaskInv
<1> QED
  BY <1>1, <1>2, <1>3

\* So it is enough to look at its own task.
LEMMA OwnStepKeeps ==
  ASSUME LegacyAnswerInv, NEW t \in Task, OwnStep(t), TaskInv(t)'
  PROVE  HandlerRegistered' /\ NeverComodified' /\ FailuresTold' /\ CallsCounted'
<1>0. UNCHANGED <<builder, reconfigs, started, callerPc, consumers, periodic, delayed>> /\ told \subseteq told'
  BY DEF OwnStep
<1>1. ASSUME NEW u \in Task
      PROVE  TaskInv(u)'
  <2>1. CASE u = t
    BY <2>1
  <2>2. CASE u # t
    <3>1. /\ worker'[u] = worker[u] /\ future'[u] = future[u] /\ calls'[u] = calls[u]
          /\ u \in queued' <=> u \in queued
          /\ u \in threw' <=> u \in threw
      BY <2>2 DEF OwnStep
    <3>2. MostCalls(u)' = MostCalls(u)
      BY <1>0, <3>1 DEF MostCalls, CallsOfPass, CallsOfTurn
    <3>3. InStart(u)' = InStart(u) /\ IsDone(u)' = IsDone(u) /\ (ThreadTold(u) => ThreadTold(u)')
      BY <1>0, <3>1 DEF InStart, IsDone, ThreadTold
    <3>4. TaskInv(u)
      BY TaskFacts
    <3> QED
      BY <1>0, <3>1, <3>2, <3>3, <3>4 DEF TaskInv
  <2> QED
    BY <2>1, <2>2
<1>2. HandlerRegistered'
  <2>1. \A u \in Task : u > started => u \notin queued' /\ worker'[u].pc = "idle"
    BY <1>0, <1>1 DEF TaskInv
  <2> QED
    BY <1>0, <2>1 DEF LegacyAnswerInv, HandlerRegistered, InStart
<1>3. delayed' \subseteq Task
  BY <1>0, TaskFacts
<1>4. NeverComodified'
  BY <1>1, <1>3 DEF TaskInv, NeverComodified
<1>5. FailuresTold'
  BY <1>0, <1>1 DEF TaskInv, LegacyAnswerInv, FailuresTold
<1>6. CallsCounted'
  BY <1>1, <1>3 DEF TaskInv, CallsCounted
<1> QED
  BY <1>2, <1>4, <1>5, <1>6

\* The thread takes the task after the start, if the delay is what it is for.
LEMMA StartBodyKeeps ==
  ASSUME LegacyAnswerInv, NEW t \in Task, StartBody(t)
  PROVE  OwnStep(t) /\ TaskInv(t)'
<1> USE DEF callerVars, poolVars, outputs
<1>0. PICK pc \in {"running", "ended"} :
        /\ worker' = [worker EXCEPT ![t].pc = pc]
        /\ future' = future \/ (future[t] = "new" /\ future' = [future EXCEPT ![t] = "cancelled"])
  <2>1. CASE future[t] = "new" /\ CanRun(t)
    BY <2>1 DEF StartBody
  <2>2. CASE ~ (future[t] = "new" /\ CanRun(t))
    <3>1. worker' = [worker EXCEPT ![t].pc = "ended"]
      BY <2>2 DEF StartBody
    <3>2. future' = [future EXCEPT ![t] = IF @ = "new" THEN "cancelled" ELSE @]
      BY <2>2 DEF StartBody
    <3>3. future' = future \/ (future[t] = "new" /\ future' = [future EXCEPT ![t] = "cancelled"])
      BY <3>2, TaskFacts
    <3> QED
      BY <3>1, <3>3
  <2> QED
    BY <2>1, <2>2
<1>1. /\ worker[t].pc = "idle" /\ t \in queued /\ IsDue(t) /\ queued' = queued \ {t}
      /\ UNCHANGED <<callerVars, consumers, caught, pool, periodic, delayed, timer, outputs>>
  BY DEF StartBody
<1>2. /\ worker'[t].pc = pc
      /\ \A u \in Task : u # t => worker'[u] = worker[u] /\ future'[u] = future[u]
  BY <1>0, TaskFacts DEF WorkerState
<1>3. OwnStep(t)
  BY <1>1, <1>2 DEF OwnStep
<1>4. TaskInv(t) /\ calls[t] \in Nat /\ (IsDone(t) => IsDone(t)')
  BY <1>0, TaskFacts DEF IsDone
<1>5. calls[t] <= MostCalls(t) => calls[t] <= MostCalls(t)'
  <2>1. MostCalls(t)' = MostCalls(t)
    BY <1>0, <1>1, <1>2 DEF MostCalls, CallsOfPass, CallsOfTurn
  <2> QED
    BY <2>1
<1>6. DelayOutlastsStart /\ t \in delayed => ~ InStart(t)
  BY <1>1 DEF IsDue, InStart
<1>7. TaskInv(t)'
  BY <1>0, <1>1, <1>2, <1>4, <1>5, <1>6 DEF TaskInv, InStart
<1> QED
  BY <1>3, <1>7

\* The body's end, or the repetition in the queue.
LEMMA EndBodyKeeps ==
  ASSUME LegacyAnswerInv, NEW t \in Task, NEW outcome \in {"ok", "failed"}, EndBody(t, outcome)
  PROVE  OwnStep(t) /\ TaskInv(t)'
<1> USE DEF callerVars, poolVars, outputs
<1>1. /\ worker[t].pc = "running" /\ worker' = [worker EXCEPT ![t].pc = "ended"]
      /\ UNCHANGED <<callerVars, consumers, caught, pool, periodic, delayed, timer, outputs>>
  BY DEF EndBody
<1>2. \/ queued' = queued
      \/ queued' = queued \cup {t} /\ t \in periodic /\ ~ IsDone(t) /\ future' = future
  BY TaskFacts DEF EndBody, IsDone
<1>3. /\ \A u \in Task : u # t => future'[u] = future[u]
      /\ IsDone(t) => IsDone(t)'
  BY TaskFacts DEF EndBody, IsDone
<1>4. /\ worker'[t].pc = "ended" /\ \A u \in Task : u # t => worker'[u] = worker[u]
  BY <1>1, TaskFacts DEF WorkerState
<1>5. OwnStep(t)
  BY <1>1, <1>2, <1>3, <1>4 DEF OwnStep
<1>6. TaskInv(t) /\ calls[t] \in Nat
  BY TaskFacts
<1>7. t \in delayed /\ calls[t] <= MostCalls(t) => calls[t] <= MostCalls(t)'
  <2>1. CASE queued' = queued
    BY <1>1, <1>4, <2>1 DEF MostCalls, CallsOfPass, CallsOfTurn
  <2>2. CASE ~ IsDone(t) /\ t \in queued'
    <3>1. calls[t] = 0
      BY <1>6, <2>2 DEF TaskInv
    <3>2. MostCalls(t)' = 0
      BY <1>4, <2>2 DEF MostCalls, CallsOfPass
    <3> QED
      BY <3>1, <3>2
  <2> QED
    BY <1>2, <2>1, <2>2
<1>8. t <= started
  BY <1>1, <1>6, TaskFacts DEF TaskInv
<1>9. TaskInv(t)'
  BY <1>1, <1>2, <1>3, <1>4, <1>6, <1>7, <1>8, TaskFacts DEF TaskInv, InStart
<1> QED
  BY <1>5, <1>9

\* The steps inside afterExecute leave the outcomes and the queues alone.
PassStep(t) ==
  /\ UNCHANGED <<builder, reconfigs, started, callerPc, consumers, periodic, delayed, future, queued>>
  /\ told \subseteq told'
  /\ \A u \in Task : u # t => worker'[u] = worker[u]
  /\ calls' \in {calls, [calls EXCEPT ![t] = @ + 1]}
  /\ threw' \in {threw, threw \cup {t}}

\* Such a step is the thread's own.
LEMMA PassIsOwn ==
  ASSUME LegacyAnswerInv, NEW t \in Task, PassStep(t)
  PROVE  OwnStep(t)
<1>1. \A u \in Task : u # t => calls'[u] = calls[u] /\ (u \in threw' <=> u \in threw)
  BY TaskFacts DEF PassStep
<1> QED
  BY <1>1 DEF PassStep, OwnStep

\* The records a thread goes to.
LEMMA PassPlaces ==
  ASSUME LegacyAnswerInv, NEW t \in Task
  PROVE  /\ \A thrown \in BOOLEAN :
              /\ StartPass(t, thrown)[t] = [pc |-> "iterating", pos |-> 1, seen |-> Len(consumers[t]),
                                            thrown |-> thrown]
              /\ \A u \in Task : u # t => StartPass(t, thrown)[u] = worker[u]
         /\ Returned(t)[t] = [worker[t] EXCEPT !.pos = @ + 1]
         /\ \A u \in Task : u # t => Returned(t)[u] = worker[u] /\ Escaped(t)[u] = worker[u]
         /\ IF worker[t].thrown THEN Escaped(t)[t] = [worker[t] EXCEPT !.pc = "dying"]
            ELSE Escaped(t) = StartPass(t, TRUE)
<1>1. worker \in [Task -> WorkerState] /\ worker[t] \in WorkerState
  BY TaskFacts
<1>2. \A thrown \in BOOLEAN :
        /\ StartPass(t, thrown)[t] = [pc |-> "iterating", pos |-> 1, seen |-> Len(consumers[t]),
                                      thrown |-> thrown]
        /\ \A u \in Task : u # t => StartPass(t, thrown)[u] = worker[u]
  BY <1>1 DEF StartPass
<1>3. /\ Returned(t)[t] = [worker[t] EXCEPT !.pos = @ + 1]
      /\ \A u \in Task : u # t => Returned(t)[u] = worker[u]
  BY <1>1 DEF Returned
<1>4. /\ \A u \in Task : u # t => Escaped(t)[u] = worker[u]
      /\ IF worker[t].thrown THEN Escaped(t)[t] = [worker[t] EXCEPT !.pc = "dying"]
         ELSE Escaped(t) = StartPass(t, TRUE)
  BY <1>1, <1>2 DEF Escaped
<1> QED
  BY <1>2, <1>3, <1>4

\* A pass begins with nothing told in it, the second after something was thrown.
LEMMA PassBegins ==
  ASSUME LegacyAnswerInv, NEW t \in Task, PassStep(t),
         NEW thrown \in BOOLEAN, worker' = StartPass(t, thrown),
         worker[t].pc # "idle", worker[t].pc # "dying",
         t \in delayed /\ DelayOutlastsStart =>
           /\ thrown => t \in threw'
           /\ calls'[t] <= (IF thrown THEN 1 ELSE 0)
                             + (IF t \in queued \/ t \notin periodic THEN 0 ELSE CallsOfTurn(t)'),
         ~ IsDone(t) => calls'[t] = calls[t],
         worker[t].pc # "running"
  PROVE  TaskInv(t)'
<1>1. /\ worker'[t] = [pc |-> "iterating", pos |-> 1, seen |-> Len(consumers[t]), thrown |-> thrown]
  BY PassPlaces
<1>2. TaskInv(t) /\ calls[t] \in Nat
  BY TaskFacts
<1>3. UNCHANGED <<builder, reconfigs, started, callerPc, consumers, periodic, delayed, future, queued>>
  BY DEF PassStep
<1>4. t \in delayed /\ DelayOutlastsStart => calls'[t] <= MostCalls(t)'
  BY <1>1, <1>3 DEF MostCalls, CallsOfPass
<1>5. (IsDone(t)' = IsDone(t)) /\ (InStart(t)' = InStart(t))
  BY <1>3 DEF IsDone, InStart
<1> QED
  BY <1>1, <1>2, <1>3, <1>4, <1>5 DEF TaskInv

\* A consumer that returned leads to the next.
LEMMA PassGoesOn ==
  ASSUME LegacyAnswerInv, NEW t \in Task, PassStep(t),
         HasNext(t), worker' = Returned(t),
         worker[t].pos = 1 /\ builder.uncaughtExceptionConsumer /\ reconfigs = 0 /\ future[t] = "failed"
           => ThreadTold(t)',
         \/ worker[t].pos = 1 /\ (~ IsDone(t) => calls'[t] = calls[t])
         \/ calls'[t] = calls[t]
  PROVE  TaskInv(t)'
<1>1. /\ worker'[t] = [worker[t] EXCEPT !.pos = @ + 1] /\ worker[t] \in WorkerState
      /\ worker[t].pc = "iterating"
  BY PassPlaces, TaskFacts DEF HasNext
<1>2. TaskInv(t) /\ calls[t] \in Nat /\ calls \in [Task -> Nat]
  BY TaskFacts
<1>3. /\ UNCHANGED <<builder, reconfigs, started, callerPc, consumers, periodic, delayed, future, queued>>
      /\ told \subseteq told' /\ threw \subseteq threw'
      /\ calls'[t] \in {calls[t], calls[t] + 1}
  BY <1>2 DEF PassStep
<1>4. /\ worker'[t].pc = "iterating" /\ worker'[t].pos = worker[t].pos + 1
      /\ worker'[t].thrown = worker[t].thrown /\ worker'[t].seen = worker[t].seen
      /\ worker[t].pos \in 0 .. 3
  BY <1>1 DEF WorkerState
<1>5. ASSUME t \in delayed, DelayOutlastsStart PROVE calls'[t] <= MostCalls(t)'
  <2>1. worker[t].pos > 0 /\ calls[t] <= MostCalls(t)
    BY <1>1, <1>2, <1>5 DEF TaskInv
  <2>2. CallsOfTurn(t) <= CallsOfTurn(t)' /\ CallsOfTurn(t) \in {1, 3} /\ CallsOfTurn(t)' \in {1, 3}
    BY <1>3 DEF CallsOfTurn
  <2>3. CASE worker[t].pos = 1
    <3>1. CallsOfPass(t)' = CallsOfPass(t) + 1 /\ CallsOfPass(t) \in {0, 1}
      BY <1>1, <1>4, <2>3 DEF CallsOfPass
    <3>2. MostCalls(t)' >= MostCalls(t) + 1 /\ MostCalls(t) \in Nat /\ MostCalls(t)' \in Nat
      BY <1>1, <1>3, <1>4, <2>2, <3>1 DEF MostCalls
    <3> QED
      BY <1>2, <1>3, <2>1, <3>2
  <2>4. CASE worker[t].pos > 1
    <3>1. CallsOfPass(t)' = CallsOfPass(t) /\ CallsOfPass(t) \in {1, 2}
      BY <1>1, <1>4, <2>4 DEF CallsOfPass
    <3>2. MostCalls(t)' >= MostCalls(t) /\ MostCalls(t) \in Nat /\ MostCalls(t)' \in Nat
      BY <1>1, <1>3, <1>4, <2>2, <3>1 DEF MostCalls
    <3>3. calls'[t] = calls[t]
      BY <2>4
    <3> QED
      BY <1>2, <2>1, <3>2, <3>3
  <2> QED
    BY <1>4, <2>1, <2>3, <2>4
<1>6. (IsDone(t)' = IsDone(t)) /\ (InStart(t)' = InStart(t)) /\ (ThreadTold(t) => ThreadTold(t)')
  BY <1>3 DEF IsDone, InStart, ThreadTold
<1>7. /\ t > started => t \notin queued /\ worker[t].pc = "idle"
      /\ builder.uncaughtExceptionConsumer /\ reconfigs = 0 /\ future[t] = "failed" => ThreadTold(t)'
      /\ ~ IsDone(t) => calls'[t] = 0
  <2>1. worker[t].pos = 1 \/ worker[t].pos > 1
    BY <1>1, <1>2, <1>4 DEF TaskInv
  <2> QED
    BY <1>1, <1>2, <1>3, <1>4, <1>6, <2>1 DEF TaskInv
<1> QED
  BY <1>1, <1>2, <1>3, <1>4, <1>5, <1>6, <1>7 DEF TaskInv

\* A thread dies of what is thrown in the second pass.
LEMMA PassFails ==
  ASSUME LegacyAnswerInv, NEW t \in Task, PassStep(t),
         worker[t].pc = "iterating", worker[t].thrown, worker'[t] = [worker[t] EXCEPT !.pc = "dying"],
         DelayOutlastsStart /\ builder.uncaughtExceptionConsumer /\ reconfigs = 0 /\ future[t] = "failed"
           => ThreadTold(t)',
         \/ worker[t].pos = 1 /\ (~ IsDone(t) => calls'[t] = calls[t])
         \/ calls'[t] = calls[t]
  PROVE  TaskInv(t)'
<1>1. worker'[t].pc = "dying" /\ worker[t] \in WorkerState
  BY TaskFacts DEF WorkerState
<1>2. TaskInv(t) /\ calls[t] \in Nat /\ calls \in [Task -> Nat]
  BY TaskFacts
<1>3. /\ UNCHANGED <<builder, reconfigs, started, callerPc, consumers, periodic, delayed, future, queued>>
      /\ told \subseteq told' /\ threw \subseteq threw'
      /\ calls'[t] \in {calls[t], calls[t] + 1}
  BY <1>2 DEF PassStep
<1>4. ASSUME t \in delayed, DelayOutlastsStart PROVE calls'[t] <= MostCalls(t)'
  <2>1. calls[t] <= MostCalls(t)
    BY <1>2, <1>4 DEF TaskInv
  <2>2. CallsOfTurn(t) <= CallsOfTurn(t)' /\ CallsOfTurn(t) \in {1, 3} /\ CallsOfTurn(t)' \in {1, 3}
    BY <1>3 DEF CallsOfTurn
  <2>3. CallsOfPass(t)' = 2 /\ CallsOfPass(t) = (IF worker[t].pos > 1 THEN 2 ELSE 1)
    BY <1>1 DEF CallsOfPass
  <2>4. /\ MostCalls(t)' >= MostCalls(t) /\ MostCalls(t) \in Nat /\ MostCalls(t)' \in Nat
        /\ worker[t].pos = 1 => MostCalls(t)' >= MostCalls(t) + 1
    BY <1>1, <1>3, <2>2, <2>3 DEF MostCalls
  <2> QED
    BY <1>2, <1>3, <2>1, <2>4
<1>5. (IsDone(t)' = IsDone(t)) /\ (InStart(t)' = InStart(t)) /\ (ThreadTold(t) => ThreadTold(t)')
  BY <1>3 DEF IsDone, InStart, ThreadTold
<1> QED
  BY <1>1, <1>2, <1>3, <1>4, <1>5 DEF TaskInv

\* With an exception consumer kept, the delay keeps the thread from an unfinished
\* registration.
LEMMA ConsumersThere ==
  ASSUME LegacyAnswerInv, NEW t \in Task, DelayOutlastsStart, worker[t].pc # "idle",
         t \in delayed \/ (builder.uncaughtExceptionConsumer /\ reconfigs = 0)
  PROVE  /\ t \in delayed
         /\ Len(consumers[t]) > 0
         /\ worker[t].pc = "iterating" => worker[t].seen = Len(consumers[t])
<1>1. TaskInv(t)
  BY TaskFacts
<1>2. t <= started
  BY <1>1, TaskFacts DEF TaskInv
<1>3. t \in delayed
  BY <1>2 DEF LegacyAnswerInv, FailuresTold
<1> QED
  BY <1>1, <1>2, <1>3, TaskFacts, ConsumerPlaces DEF TaskInv

\* Which consumer is called where.
LEMMA CallingPlaces ==
  ASSUME LegacyAnswerInv, NEW t \in Task
  PROVE  /\ Calling(t, "handler") => HasNext(t) /\ worker[t].pos = 1
         /\ Calling(t, "user") => HasNext(t) /\ worker[t].pos = 2
<1>1. TaskInv(t) /\ worker[t].pos \in 0 .. 3 /\ consumers[t] \in ConsumerLists
  BY TaskFacts DEF WorkerState
<1>2. HasNext(t) => worker[t].pos \in 1 .. Len(consumers[t])
  BY <1>1, ConsumerPlaces DEF HasNext, TaskInv
<1> QED
  BY <1>1, <1>2, ConsumerPlaces DEF Calling

\* What is thrown leads to the second pass or to the thread's death.
LEMMA EscapeKeeps ==
  ASSUME LegacyAnswerInv, NEW t \in Task, PassStep(t), worker' = Escaped(t),
         worker[t].pc = "iterating",
         t \in delayed /\ DelayOutlastsStart => t \in threw',
         DelayOutlastsStart /\ builder.uncaughtExceptionConsumer /\ reconfigs = 0 /\ future[t] = "failed"
           => ThreadTold(t)',
         \/ worker[t].pos = 1 /\ (~ IsDone(t) => calls'[t] = calls[t])
         \/ calls'[t] = calls[t]
  PROVE  TaskInv(t)'
<1>1. CASE worker[t].thrown
  <2>1. worker'[t] = [worker[t] EXCEPT !.pc = "dying"]
    BY <1>1, PassPlaces
  <2> QED
    BY <1>1, <2>1, PassFails
<1>2. CASE ~ worker[t].thrown
  <2>1. worker' = StartPass(t, TRUE)
    BY <1>2, PassPlaces
  <2>2. TaskInv(t) /\ worker[t].pos \in 0 .. 3 /\ calls[t] \in Nat /\ calls \in [Task -> Nat]
    BY TaskFacts DEF WorkerState
  <2>3. ASSUME t \in delayed, DelayOutlastsStart
        PROVE  calls'[t] <= 1 + (IF t \in queued \/ t \notin periodic THEN 0 ELSE CallsOfTurn(t)')
    <3>1. calls[t] <= MostCalls(t)
      BY <2>2, <2>3 DEF TaskInv
    <3>2. CallsOfPass(t) = IF worker[t].pos > 1 THEN 1 ELSE 0
      BY <1>2 DEF CallsOfPass
    <3>3. /\ CallsOfTurn(t) <= CallsOfTurn(t)' /\ CallsOfTurn(t) \in {1, 3} /\ CallsOfTurn(t)' \in {1, 3}
          /\ calls'[t] \in {calls[t], calls[t] + 1}
      BY <2>2 DEF CallsOfTurn, PassStep
    <3> DEFINE before == IF t \in queued \/ t \notin periodic THEN 0 ELSE CallsOfTurn(t)
               later == IF t \in queued \/ t \notin periodic THEN 0 ELSE CallsOfTurn(t)'
    <3>4. /\ MostCalls(t) = CallsOfPass(t) + before
          /\ before <= later /\ before \in Nat /\ later \in Nat
      BY <3>3 DEF MostCalls
    <3> HIDE DEF before, later
    <3>5. calls'[t] <= 1 + later
      BY <2>2, <3>1, <3>2, <3>3, <3>4
    <3> QED
      BY <3>5 DEF later
  <2>4. ~ IsDone(t) => calls'[t] = calls[t]
    OBVIOUS
  <2> QED
    BY <2>1, <2>3, <2>4, PassBegins
<1> QED
  BY <1>1, <1>2

\* The thread is free again.
LEMMA ReleaseKeeps ==
  ASSUME LegacyAnswerInv, NEW t \in Task, PassStep(t), worker' = [worker EXCEPT ![t] = Idle],
         worker[t].pc \in {"iterating", "dying"},
         t \in delayed /\ DelayOutlastsStart =>
           calls'[t] <= (IF t \in threw THEN 3 ELSE 1) + (IF t \in queued \/ t \notin periodic THEN 0 ELSE CallsOfTurn(t)),
         DelayOutlastsStart /\ builder.uncaughtExceptionConsumer /\ reconfigs = 0 /\ future[t] = "failed"
           => ThreadTold(t),
         ~ IsDone(t) => calls'[t] = calls[t],
         threw' = threw
  PROVE  TaskInv(t)'
<1>1. worker'[t] = Idle /\ TaskInv(t) /\ calls[t] \in Nat
  BY TaskFacts
<1>2. worker'[t].pc = "idle"
  BY <1>1 DEF Idle
<1>3. UNCHANGED <<builder, reconfigs, started, callerPc, consumers, periodic, delayed, future, queued>> /\ told \subseteq told'
  BY DEF PassStep
<1>4. t \in delayed /\ DelayOutlastsStart => calls'[t] <= MostCalls(t)'
  <2>1. t \in delayed /\ t \in queued => t \in periodic
    BY <1>1 DEF TaskInv
  <2>2. MostCalls(t)' = (IF t \in queued THEN 0 ELSE CallsOfTurn(t)) + (IF t \in periodic THEN CallsOfTurn(t) ELSE 0)
    BY <1>2, <1>3 DEF MostCalls, CallsOfTurn
  <2>3. CallsOfTurn(t) = (IF t \in threw THEN 3 ELSE 1)
    BY DEF CallsOfTurn
  <2> QED
    BY <2>1, <2>2, <2>3
<1>5. (IsDone(t)' = IsDone(t)) /\ (ThreadTold(t) => ThreadTold(t)')
  BY <1>3 DEF IsDone, ThreadTold
<1> QED
  BY <1>1, <1>2, <1>3, <1>4, <1>5 DEF TaskInv

\* The steps of afterExecute, one by one.
LEMMA AfterExecuteKeeps ==
  ASSUME LegacyAnswerInv, NEW t \in Task,
         \/ BeginAfterExecute(t) \/ Comodified(t) \/ HandleQuietly(t) \/ HandleException(t)
         \/ CallUserConsumer(t) \/ EndAfterExecute(t) \/ Die(t)
  PROVE  OwnStep(t) /\ TaskInv(t)'
<1> USE DEF callerVars, poolVars, outputs
<1>0. TaskInv(t) /\ calls[t] \in Nat /\ calls \in [Task -> Nat] /\ worker[t] \in WorkerState
  BY TaskFacts
<1> DEFINE Kept == /\ UNCHANGED <<builder, reconfigs, started, callerPc, consumers, periodic, delayed>>
                   /\ UNCHANGED <<future, queued>>
           Failing == builder.uncaughtExceptionConsumer /\ reconfigs = 0 /\ future[t] = "failed"
<1>1. ASSUME BeginAfterExecute(t) PROVE PassStep(t) /\ TaskInv(t)'
  <2>1. /\ Kept /\ worker[t].pc = "ended" /\ worker' = StartPass(t, FALSE)
        /\ UNCHANGED <<told, calls, threw>>
    BY <1>1 DEF BeginAfterExecute
  <2>2. PassStep(t)
    BY <2>1, PassPlaces DEF PassStep
  <2>3. ASSUME t \in delayed, DelayOutlastsStart
        PROVE  calls[t] <= 0 + (IF t \in queued \/ t \notin periodic THEN 0 ELSE CallsOfTurn(t))
    <3>1. CallsOfPass(t) = 0 /\ CallsOfTurn(t) \in {1, 3}
      BY <2>1 DEF CallsOfPass, CallsOfTurn
    <3> QED
      BY <1>0, <2>1, <2>3, <3>1 DEF TaskInv, MostCalls
  <2>4. CallsOfTurn(t)' = CallsOfTurn(t)
    BY <2>1 DEF CallsOfTurn
  <2>5. TaskInv(t)'
    BY <2>1, <2>2, <2>3, <2>4, PassBegins
  <2> QED
    BY <2>2, <2>5
<1>2. ASSUME Comodified(t) PROVE PassStep(t) /\ TaskInv(t)'
  <2>1. /\ Kept /\ worker[t].pc = "iterating" /\ worker[t].seen # Len(consumers[t]) /\ worker' = Escaped(t)
        /\ UNCHANGED <<told, calls, threw>>
    BY <1>2 DEF Comodified, HasNext
  <2>2. PassStep(t)
    BY <2>1, PassPlaces DEF PassStep
  <2>3. ~ (t \in delayed /\ DelayOutlastsStart) /\ ~ (DelayOutlastsStart /\ Failing)
    BY <2>1, ConsumersThere
  <2> QED
    BY <2>1, <2>2, <2>3, EscapeKeeps
<1>3. ASSUME HandleQuietly(t) PROVE PassStep(t) /\ TaskInv(t)'
  <2>1. /\ Kept /\ worker' = Returned(t) /\ ~ Tells(t) /\ HasNext(t) /\ worker[t].pos = 1
        /\ UNCHANGED <<told, calls, threw>>
    BY <1>3, CallingPlaces DEF HandleQuietly
  <2>2. PassStep(t)
    BY <2>1, PassPlaces DEF PassStep
  <2>3. ~ Failing
    BY <2>1 DEF Tells
  <2> QED
    BY <2>1, <2>2, <2>3, PassGoesOn
<1>4. ASSUME HandleException(t) PROVE PassStep(t) /\ TaskInv(t)'
  <2>1. /\ Kept /\ HasNext(t) /\ worker[t].pos = 1 /\ worker[t].pc = "iterating"
        /\ told' = told \cup {[by |-> "thread", about |-> t, what |-> future[t]]}
        /\ calls' = [calls EXCEPT ![t] = @ + 1]
        /\ \/ worker' = Returned(t) /\ UNCHANGED threw
           \/ worker' = Escaped(t) /\ threw' = threw \cup {t}
    BY <1>4, CallingPlaces DEF HandleException, Tell, HasNext
  <2>2. IsDone(t)
    BY <1>4 DEF HandleException, Tells, IsDone
  <2>3. PassStep(t)
    <3>1. \A u \in Task : u # t => worker'[u] = worker[u]
      <4>1. worker' = Returned(t) \/ worker' = Escaped(t)
        BY <2>1
      <4>2. \A u \in Task : u # t => Returned(t)[u] = worker[u] /\ Escaped(t)[u] = worker[u]
        BY PassPlaces
      <4> QED
        BY <4>1, <4>2
    <3>2. told \subseteq told' /\ threw' \in {threw, threw \cup {t}}
      BY <2>1
    <3> QED
      BY <2>1, <3>1, <3>2 DEF PassStep
  <2>4. Failing => ThreadTold(t)'
    BY <2>1 DEF ThreadTold
  <2>5. CASE worker' = Returned(t)
    BY <2>1, <2>2, <2>3, <2>4, <2>5, PassGoesOn
  <2>6. CASE worker' = Escaped(t) /\ threw' = threw \cup {t}
    BY <2>1, <2>2, <2>3, <2>4, <2>6, EscapeKeeps
  <2> QED
    BY <2>1, <2>5, <2>6
<1>5. ASSUME CallUserConsumer(t) PROVE PassStep(t) /\ TaskInv(t)'
  <2>1. /\ Kept /\ HasNext(t) /\ worker[t].pos = 2 /\ worker[t].pc = "iterating"
        /\ told' = told /\ calls' = calls
        /\ \/ worker' = Returned(t) /\ UNCHANGED threw
           \/ worker' = Escaped(t) /\ threw' = threw \cup {t}
    BY <1>5, CallingPlaces DEF CallUserConsumer, HasNext
  <2>2. PassStep(t)
    <3>1. \A u \in Task : u # t => worker'[u] = worker[u]
      <4>1. worker' = Returned(t) \/ worker' = Escaped(t)
        BY <2>1
      <4>2. \A u \in Task : u # t => Returned(t)[u] = worker[u] /\ Escaped(t)[u] = worker[u]
        BY PassPlaces
      <4> QED
        BY <4>1, <4>2
    <3>2. threw' \in {threw, threw \cup {t}}
      BY <2>1
    <3> QED
      BY <2>1, <3>1, <3>2 DEF PassStep
  <2>3. Failing => ThreadTold(t)'
    BY <1>0, <2>1 DEF TaskInv, ThreadTold
  <2>4. CASE worker' = Returned(t)
    BY <2>1, <2>2, <2>3, <2>4, PassGoesOn
  <2>5. CASE worker' = Escaped(t) /\ threw' = threw \cup {t}
    BY <2>1, <2>2, <2>3, <2>5, EscapeKeeps
  <2> QED
    BY <2>1, <2>4, <2>5
<1>6. ASSUME EndAfterExecute(t) PROVE PassStep(t) /\ TaskInv(t)'
  <2>1. /\ Kept /\ ~ HasNext(t) /\ worker[t].pc = "iterating"
        /\ UNCHANGED <<told, calls, threw>>
        /\ worker' = IF worker[t].thrown THEN [worker EXCEPT ![t].pc = "dying"]
                     ELSE [worker EXCEPT ![t] = Idle]
    BY <1>6 DEF EndAfterExecute
  <2>2. PassStep(t)
    BY <2>1, TaskFacts DEF PassStep
  <2>3. DelayOutlastsStart /\ Failing => ThreadTold(t)
    <3>1. SUFFICES ASSUME DelayOutlastsStart, Failing PROVE ThreadTold(t)
      OBVIOUS
    <3>2. Len(consumers[t]) > 0
      BY <2>1, <3>1, ConsumersThere
    <3>3. worker[t].pos > Len(consumers[t])
      BY <1>0, <2>1, TaskFacts, ConsumerPlaces DEF HasNext, WorkerState
    <3>4. worker[t].pos > 1
      BY <1>0, <3>2, <3>3, TaskFacts, ConsumerPlaces DEF WorkerState
    <3> QED
      BY <1>0, <2>1, <3>1, <3>4 DEF TaskInv
  <2>4. CASE worker[t].thrown
    <3>1. worker'[t] = [worker[t] EXCEPT !.pc = "dying"]
      BY <2>1, <2>4, TaskFacts
    <3>2. DelayOutlastsStart /\ Failing => ThreadTold(t)'
      BY <2>1, <2>3 DEF ThreadTold
    <3> QED
      BY <2>1, <2>2, <2>4, <3>1, <3>2, PassFails
  <2>5. CASE ~ worker[t].thrown
    <3>1. ASSUME t \in delayed, DelayOutlastsStart
          PROVE  calls[t] <= (IF t \in threw THEN 3 ELSE 1)
                               + (IF t \in queued \/ t \notin periodic THEN 0 ELSE CallsOfTurn(t))
      <4> DEFINE before == IF t \in queued \/ t \notin periodic THEN 0 ELSE CallsOfTurn(t)
      <4>1. CallsOfPass(t) \in {0, 1} /\ CallsOfTurn(t) \in {1, 3}
        BY <2>1, <2>5 DEF CallsOfPass, CallsOfTurn
      <4>2. MostCalls(t) = CallsOfPass(t) + before /\ before \in Nat /\ calls[t] <= MostCalls(t)
        BY <1>0, <2>1, <3>1, <4>1 DEF MostCalls, TaskInv
      <4> HIDE DEF before
      <4>3. calls[t] <= (IF t \in threw THEN 3 ELSE 1) + before
        BY <1>0, <4>1, <4>2
      <4> QED
        BY <4>3 DEF before
    <3> QED
      BY <2>1, <2>2, <2>3, <2>5, <3>1, ReleaseKeeps
  <2> QED
    BY <2>2, <2>4, <2>5
<1>7. ASSUME Die(t) PROVE PassStep(t) /\ TaskInv(t)'
  <2>1. /\ Kept /\ worker[t].pc = "dying" /\ worker' = [worker EXCEPT ![t] = Idle]
        /\ calls' = [calls EXCEPT ![t] = IF t \in caught /\ IsDone(t) THEN @ + 1 ELSE @]
        /\ UNCHANGED <<told, threw>>
    BY <1>7 DEF Die
  <2>2. /\ calls' \in {calls, [calls EXCEPT ![t] = @ + 1]} /\ calls'[t] \in {calls[t], calls[t] + 1}
        /\ ~ IsDone(t) => calls'[t] = calls[t]
    BY <1>0, <2>1
  <2>3. PassStep(t)
    BY <2>1, <2>2, TaskFacts DEF PassStep
  <2>4. DelayOutlastsStart /\ Failing => ThreadTold(t)
    BY <1>0, <2>1 DEF TaskInv
  <2>5. ASSUME t \in delayed, DelayOutlastsStart
        PROVE  calls'[t] <= (IF t \in threw THEN 3 ELSE 1)
                              + (IF t \in queued \/ t \notin periodic THEN 0 ELSE CallsOfTurn(t))
    <3> DEFINE before == IF t \in queued \/ t \notin periodic THEN 0 ELSE CallsOfTurn(t)
    <3>1. CallsOfPass(t) = 2 /\ t \in threw /\ CallsOfTurn(t) = 3
      BY <1>0, <2>1, <2>5 DEF CallsOfPass, CallsOfTurn, TaskInv
    <3>2. MostCalls(t) = CallsOfPass(t) + before /\ before \in Nat /\ calls[t] <= MostCalls(t)
      BY <1>0, <2>1, <2>5, <3>1 DEF MostCalls, TaskInv
    <3> HIDE DEF before
    <3>3. calls'[t] <= 3 + before
      BY <1>0, <2>2, <3>1, <3>2
    <3> QED
      BY <3>1, <3>3 DEF before
  <2> QED
    BY <2>1, <2>2, <2>3, <2>4, <2>5, ReleaseKeeps
<1> QED
  BY <1>1, <1>2, <1>3, <1>4, <1>5, <1>6, <1>7, PassIsOwn

-------------------------------------------------------------------------------
(* The timeouts. *)

\* A timeout is armed by the start it belongs to, and its handler goes back at most
\* once: its calls of the consumer are counted by where it is.
LEMMA TimerCallsStep ==
  ASSUME LegacyAnswerInv, [Next]_vars
  PROVE  TimerCallsCounted'
<1>0. /\ timerCalls \in [Task -> Nat] /\ started \in Nat
      /\ timer \in [Task -> {"none", "armed", "fired", "again", "done", "stopped"}]
      /\ TimerCallsCounted
  BY DEF LegacyAnswerInv, LegacyInv, LegacyTypeOK
<1> USE DEF TimerCallsCounted, MostTimerCalls
<1>1. ASSUME UNCHANGED <<timer, timerCalls, started, callerPc>>
      PROVE  TimerCallsCounted'
  BY <1>0, <1>1
<1>2. CASE Start
  <2>1. UNCHANGED <<timer, timerCalls>> /\ started' = started + 1
    BY <1>2 DEF Start, outputs
  <2> QED
    BY <1>0, <2>1
<1>3. CASE HandleInterruption
  <2>1. /\ callerPc = "handled" /\ callerPc' = "armed" /\ UNCHANGED <<timerCalls, started>>
        /\ timer' \in {timer, [timer EXCEPT ![started] = "armed"]}
    BY <1>3 DEF HandleInterruption, outputs
  <2> QED
    BY <1>0, <2>1
<1>4. CASE AddHandler \/ Publish \/ AddUserConsumer
  <2>1. /\ UNCHANGED <<timer, timerCalls, started>>
        /\ callerPc' = "handled" => callerPc = "scheduled"
        /\ callerPc' # "scheduled"
    BY <1>4 DEF AddHandler, Publish, AddUserConsumer, Register, outputs
  <2> QED
    BY <1>0, <2>1
<1>5. ASSUME NEW field \in Field, NEW value \in BOOLEAN, Set(field, value)
      PROVE  TimerCallsCounted'
  BY <1>1, <1>5 DEF Set, outputs
<1>6. ASSUME NEW t \in Task, StopTimer(t) \/ CancelFuture(t)
      PROVE  TimerCallsCounted'
  <2>1. /\ UNCHANGED <<timerCalls, started, callerPc>> /\ timer[t] = "armed"
        /\ timer' \in {[timer EXCEPT ![t] = "stopped"], [timer EXCEPT ![t] = "fired"]}
    BY <1>6 DEF StopTimer, CancelFuture, callerVars, outputs
  <2> QED
    BY <1>0, <2>1
<1>7. ASSUME NEW t \in Task, TimerHandles(t)
      PROVE  TimerCallsCounted'
  <2>1. UNCHANGED <<started, callerPc>> /\ timer[t] \in {"fired", "again"}
    BY <1>7 DEF TimerHandles, callerVars
  <2>2. \/ /\ timerCalls' = [timerCalls EXCEPT ![t] = @ + 1]
           /\ timer' \in {[timer EXCEPT ![t] = "done"],
                          [timer EXCEPT ![t] = IF @ = "fired" THEN "again" ELSE "done"]}
        \/ timerCalls' = timerCalls /\ timer' = [timer EXCEPT ![t] = "done"]
    BY <1>7 DEF TimerHandles
  <2>3. /\ timerCalls'[t] \in Nat /\ timerCalls'[t] <= MostTimerCalls(t)'
        /\ ~ (t > started \/ (t = started /\ callerPc \in {"scheduled", "handled"}))
    BY <1>0, <2>1, <2>2
  <2>4. \A u \in Task \ {t} : timerCalls'[u] = timerCalls[u] /\ timer'[u] = timer[u]
    BY <1>0, <2>2
  <2>5. ASSUME NEW u \in Task
        PROVE  /\ timerCalls'[u] <= MostTimerCalls(u)'
               /\ u > started \/ (u = started /\ callerPc \in {"scheduled", "handled"}) => timer'[u] = "none"
    BY <1>0, <2>3, <2>4
  <2> QED
    BY <2>1, <2>5
<1>8. ASSUME NEW t \in Task,
             \/ Cancel(t) \/ ThreadStep(t)
             \/ \E state \in {"shutdown", "stop"} : Shutdown(t, state)
             \/ \E outcome \in {"ok", "failed"} : EndBody(t, outcome)
      PROVE  TimerCallsCounted'
  <2>1. UNCHANGED <<timer, timerCalls, callerVars>>
    BY <1>8 DEF Cancel, Shutdown, EndBody, ThreadStep, StartBody, BeginAfterExecute, Comodified,
                HandleQuietly, HandleException, CallUserConsumer, EndAfterExecute, Die, outputs
  <2> QED
    BY <1>1, <2>1 DEF callerVars
<1>9. CASE UNCHANGED vars
  BY <1>1, <1>9 DEF vars, callerVars, outputs
<1> QED
  BY <1>2, <1>3, <1>4, <1>5, <1>6, <1>7, <1>8, <1>9 DEF Next, CallerStep, TimerStep, Terminated

-------------------------------------------------------------------------------
(* The theorems. *)

\* Every step keeps the invariant.
LEMMA LegacyAnswerInvStep ==
  ASSUME LegacyAnswerInv, [Next]_vars
  PROVE  LegacyAnswerInv'
<1>1. LegacyInv'
  BY LegacyTypeOKStep, RegistrationStep, ToldIsTrueStep DEF LegacyAnswerInv, LegacyInv
<1> DEFINE Rest == HandlerRegistered' /\ NeverComodified' /\ FailuresTold' /\ CallsCounted'
<1>7. TimerCallsCounted'
  BY TimerCallsStep
<1>2. CASE \/ \E field \in Field, value \in BOOLEAN : Set(field, value)
           \/ Start
           \/ CallerStep
  <2>1. Rest
    BY <1>2, CallerRegistersOnce, CallerTellsNothing
  <2> QED
    BY <1>1, <1>7, <2>1 DEF LegacyAnswerInv
<1>3. ASSUME NEW t \in Task,
             \/ Cancel(t) \/ StopTimer(t) \/ TimerStep(t)
             \/ \E state \in {"shutdown", "stop"} : Shutdown(t, state)
      PROVE  Rest
  <2>1. LegacyInv
    BY DEF LegacyAnswerInv
  <2>2. OutsideStep
    BY <1>3, <2>1, OutsideSteps
  <2> QED
    BY <2>2, OutsideKeeps
<1>4. ASSUME NEW t \in Task, ThreadStep(t) \/ \E outcome \in {"ok", "failed"} : EndBody(t, outcome)
      PROVE  Rest
  <2>1. OwnStep(t) /\ TaskInv(t)'
    BY <1>4, StartBodyKeeps, EndBodyKeeps, AfterExecuteKeeps DEF ThreadStep
  <2> QED
    BY <2>1, OwnStepKeeps
<1>5. ASSUME UNCHANGED vars
      PROVE  Rest
  <2>1. OutsideStep
    BY <1>5 DEF OutsideStep, vars, callerVars, poolVars, outputs
  <2> QED
    BY <2>1, OutsideKeeps
<1> HIDE DEF Rest
<1>6. CASE Rest
  BY <1>1, <1>6, <1>7 DEF Rest, LegacyAnswerInv
<1> QED
  BY <1>2, <1>3, <1>4, <1>5, <1>6 DEF Next, Terminated

\* In every reachable state the handler is first in each executor's list, a pass
\* beyond it has told the failure, and the calls of the consumer are counted by where
\* the thread is; with a delay that outlasts start() the registration is complete
\* before afterExecute.
THEOREM LegacyAnswers == Spec => []LegacyAnswerInv
<1>1. LegacyAnswerInv /\ [Next]_vars => LegacyAnswerInv'
  BY LegacyAnswerInvStep
<1> QED
  BY <1>1, InitLegacyAnswerInv, PTL DEF Spec

\* As long as a delay outlasts start(), a consumer configured all along is told of
\* every failure before the thread is free again, although handleException is
\* registered after the task was scheduled.
THEOREM FailuresAreTold ==
  ASSUME DelayOutlastsStart
  PROVE  Spec => []FailureTold
<1>1. LegacyAnswerInv => FailureTold
  BY DEF LegacyAnswerInv, FailuresTold, FailureTold, Released, ThreadTold
<1> QED
  BY <1>1, LegacyAnswers, PTL

\* The thread tells it once per turn, and three times at most when a callback throws,
\* and the handler of a timeout twice at most, for any number of starts.
THEOREM FailuresAreToldOnce ==
  ASSUME DelayOutlastsStart
  PROVE  Spec => []ReportedOnce
<1>1. ASSUME LegacyAnswerInv PROVE ReportedOnce
  <2>7. \A t \in Task : timerCalls[t] <= 2
    <3>1. TimerCallsCounted /\ timerCalls \in [Task -> Nat]
      BY <1>1 DEF LegacyAnswerInv, LegacyInv, LegacyTypeOK
    <3> QED
      BY <3>1 DEF TimerCallsCounted, MostTimerCalls
  <2> SUFFICES ASSUME NEW t \in delayed
               PROVE  calls[t] <= (IF t \in threw THEN 3 ELSE 1) * (IF t \in periodic THEN 2 ELSE 1)
    BY <2>7 DEF ReportedOnce
  <2> DEFINE turn == IF t \in threw THEN 3 ELSE 1
             before == IF t \in periodic THEN turn ELSE 0
  <2>0. t \in Task
    BY <1>1 DEF LegacyAnswerInv, LegacyInv, LegacyTypeOK
  <2>1. TaskInv(t) /\ calls[t] \in Nat /\ worker[t] \in WorkerState
    BY <1>1, <2>0, TaskFacts
  <2>2. CallsOfTurn(t) = turn /\ turn \in {1, 3} /\ (t \notin threw => turn = 1)
    BY DEF CallsOfTurn
  <2>3. CallsOfPass(t) <= turn /\ CallsOfPass(t) \in 0 .. 2
    BY <2>1, <2>2 DEF CallsOfPass, TaskInv
  <2>4. calls[t] <= MostCalls(t)
    BY <2>1 DEF TaskInv
  <2>5. MostCalls(t) <= turn + before /\ MostCalls(t) \in Nat /\ before \in Nat
    BY <2>2, <2>3 DEF MostCalls
  <2>6. turn + before = turn * (IF t \in periodic THEN 2 ELSE 1)
    BY <2>2
  <2> QED
    BY <2>1, <2>2, <2>4, <2>5, <2>6
<1> QED
  BY <1>1, LegacyAnswers, PTL

\* Whatever the delay does, no user's consumer is called for a failed task before the
\* exception consumer was told of the failure, in neither pass.
THEOREM LegacyReportsComeFirst == Spec => []ReportFirst
<1>1. ASSUME LegacyAnswerInv PROVE ReportFirst
  BY <1>1, CallingPlaces DEF LegacyAnswerInv, FailuresTold, ReportFirst, ThreadTold, HasNext
<1> QED
  BY <1>1, LegacyAnswers, PTL
===============================================================================
