------------------------ MODULE LegacyThreadBuilderProofs ------------------------
(***************************************************************************)
(* Theorems about LegacyThreadBuilder, for any number of starts and any    *)
(* configuration: its types, and that it implements TaskOutcome.           *)
(***************************************************************************)
EXTENDS LegacyThreadBuilder, SequenceTheorems, TLAPS

USE LegacyAssumption DEF Task, Settled

-------------------------------------------------------------------------------
(* The inductive invariant, conjunct by conjunct. *)

\* A thread before its task.
LEMMA IdleType == Idle \in WorkerState
BY DEF Idle, WorkerState

\* A thread that goes on to another place stays typed.
LEMMA PcType ==
  ASSUME worker \in [Task -> WorkerState], NEW t \in Task,
         NEW pc \in {"idle", "running", "ended", "iterating", "dying"}
  PROVE  [worker EXCEPT ![t].pc = pc] \in [Task -> WorkerState]
BY DEF WorkerState

\* The builder before its first start satisfies the invariant.
LEMMA InitLegacyInv == Init => LegacyInv
<1> SUFFICES ASSUME Init PROVE LegacyInv
  OBVIOUS
<1>1. LegacyTypeOK
  <2>1. consumers \in [Task -> Seq({"handler", "user"})]
    BY DEF Init
  <2>2. worker \in [Task -> WorkerState]
    BY IdleType DEF Init
  <2>3. calls \in [Task -> Nat] /\ timerCalls \in [Task -> Nat]
    BY DEF Init
  <2>4. /\ future \in [Task -> {"none", "new"} \cup Settled]
        /\ pool \in [Task -> {"running", "shutdown", "stop"}]
        /\ timer \in [Task -> {"none", "armed", "fired", "again", "done", "stopped"}]
    BY DEF Init
  <2>5. /\ builder \in [Field -> BOOLEAN] /\ reconfigs \in 0 .. MaxReconfigs
        /\ started \in 0 .. MaxStarts /\ callerPc = "idle"
    BY DEF Init
  <2>6. /\ executorResult \in Task \cup {0}
        /\ futures \cup caught \cup queued \cup periodic \cup delayed \cup threw \subseteq Task
        /\ told \subseteq [by : {"thread", "timer"}, about : Task, what : Settled]
    BY DEF Init
  <2> QED
    BY <2>1, <2>2, <2>3, <2>4, <2>5, <2>6 DEF LegacyTypeOK
<1>2. Registration /\ ToldIsTrue
  BY DEF Init, Registration, ToldIsTrue
<1> QED
  BY <1>1, <1>2 DEF LegacyInv

\* A pass begins at the first consumer.
LEMMA StartPassType ==
  ASSUME LegacyInv, NEW t \in Task, NEW thrown \in BOOLEAN
  PROVE  StartPass(t, thrown) \in [Task -> WorkerState]
<1>1. Len(consumers[t]) \in 0 .. 2
  <2>1. consumers[t] \in Seq({"handler", "user"})
    BY DEF LegacyInv, LegacyTypeOK
  <2>2. Len(consumers[t]) <= 2
    BY DEF LegacyInv, Registration
  <2>3. Len(consumers[t]) \in Nat
    BY <2>1, LenProperties
  <2>4. \A n \in Nat : n <= 2 => n \in 0 .. 2
    OBVIOUS
  <2> QED
    BY <2>2, <2>3, <2>4
<1>2. worker \in [Task -> WorkerState]
  BY DEF LegacyInv, LegacyTypeOK
<1> QED
  BY <1>1, <1>2 DEF StartPass, WorkerState

\* The caller's steps keep the types.
LEMMA CallerTypeOK ==
  ASSUME LegacyInv,
         \/ \E field \in Field, value \in BOOLEAN : Set(field, value)
         \/ Start
         \/ CallerStep
  PROVE  LegacyTypeOK'
<1> USE DEF LegacyInv, LegacyTypeOK, callerVars, poolVars, outputs
<1>1. ASSUME NEW field \in Field, NEW value \in BOOLEAN, Set(field, value)
      PROVE  LegacyTypeOK'
  <2>1. UNCHANGED <<started, callerPc, executorResult, futures, poolVars, worker, timer, outputs>>
    BY <1>1 DEF Set
  <2>2. builder' \in [Field -> BOOLEAN] /\ reconfigs' \in 0 .. MaxReconfigs
    BY <1>1 DEF Set
  <2> QED
    BY <2>1, <2>2
<1>2. CASE Start
  <2>1. started' \in 0 .. MaxStarts /\ started' \in Task /\ callerPc' = "scheduled"
    BY <1>2 DEF Start
  <2>2. future' \in [Task -> {"none", "new"} \cup Settled]
    BY <1>2, <2>1 DEF Start
  <2>3. futures' \cup caught' \cup queued' \cup periodic' \cup delayed' \cup threw' \subseteq Task
    BY <1>2, <2>1 DEF Start
  <2>4. UNCHANGED <<builder, reconfigs, executorResult, futures, consumers, pool, worker, timer, outputs>>
    BY <1>2 DEF Start
  <2> QED
    BY <2>1, <2>2, <2>3, <2>4
<1>3. CASE AddHandler
  <2>1. consumers' \in [Task -> Seq({"handler", "user"})]
    <3>1. started \in Task
      BY <1>3 DEF AddHandler, Registration
    <3>2. Append(consumers[started], "handler") \in Seq({"handler", "user"})
      BY <3>1, AppendProperties
    <3> QED
      BY <1>3, <3>1, <3>2 DEF AddHandler, Register
  <2>2. UNCHANGED <<builder, reconfigs, started, executorResult, futures, caught, pool, queued,
                    periodic, delayed, future, worker, timer, outputs>> /\ callerPc' = "handled"
    BY <1>3 DEF AddHandler, Register
  <2> QED
    BY <2>1, <2>2
<1>4. CASE HandleInterruption
  BY <1>4 DEF HandleInterruption, Registration
<1>5. CASE Publish
  <2>1. started \in Task
    BY <1>5 DEF Publish, Registration
  <2>2. executorResult' \in Task \cup {0} /\ futures' \subseteq Task
    BY <1>5, <2>1 DEF Publish
  <2>3. UNCHANGED <<builder, reconfigs, started, poolVars, worker, timer, outputs>> /\ callerPc' = "published"
    BY <1>5 DEF Publish
  <2> QED
    BY <2>2, <2>3
<1>6. CASE AddUserConsumer
  <2>1. consumers' \in [Task -> Seq({"handler", "user"})]
    <3>1. started \in Task
      BY <1>6 DEF AddUserConsumer, Registration
    <3>2. consumers[started] \in Seq({"handler", "user"})
      BY <3>1
    <3>3. Append(consumers[started], "user") \in Seq({"handler", "user"})
      BY <3>2, AppendProperties
    <3> QED
      BY <1>6, <3>1, <3>2, <3>3 DEF AddUserConsumer, Register
  <2>2. UNCHANGED <<builder, reconfigs, started, executorResult, futures, caught, pool, queued,
                    periodic, delayed, future, worker, timer, outputs>> /\ callerPc' = "idle"
    BY <1>6 DEF AddUserConsumer, Register
  <2> QED
    BY <2>1, <2>2
<1> QED
  BY <1>1, <1>2, <1>3, <1>4, <1>5, <1>6 DEF CallerStep

\* So do those of whoever has the ExecutorResult.
LEMMA HolderTypeOK ==
  ASSUME LegacyInv, NEW t \in Task,
         \/ Cancel(t)
         \/ \E state \in {"shutdown", "stop"} : Shutdown(t, state)
         \/ StopTimer(t)
         \/ TimerStep(t)
  PROVE  LegacyTypeOK'
<1> USE DEF LegacyInv, LegacyTypeOK, callerVars, poolVars, outputs
<1>1. CASE Cancel(t)
  BY <1>1 DEF Cancel
<1>2. ASSUME NEW state \in {"shutdown", "stop"}, Shutdown(t, state)
      PROVE  LegacyTypeOK'
  BY <1>2 DEF Shutdown
<1>3. CASE StopTimer(t)
  BY <1>3 DEF StopTimer
<1>4. CASE CancelFuture(t)
  BY <1>4 DEF CancelFuture
<1>5. CASE TimerHandles(t)
  <2>1. timer' \in [Task -> {"none", "armed", "fired", "again", "done", "stopped"}]
    <3>1. \E next \in {"again", "done"} : timer' = [timer EXCEPT ![t] = next]
      BY <1>5 DEF TimerHandles
    <3>2. timer \in [Task -> {"none", "armed", "fired", "again", "done", "stopped"}]
      OBVIOUS
    <3> HIDE DEF LegacyInv, LegacyTypeOK
    <3> QED
      BY <3>1, <3>2
  <2>2. told' \subseteq [by : {"thread", "timer"}, about : Task, what : Settled]
    <3>1. told' = told \/ (future[t] \in Settled /\ told' = told \cup {[by |-> "timer", about |-> t, what |-> future[t]]})
      BY <1>5 DEF TimerHandles, Tells, Tell
    <3>2. told \subseteq [by : {"thread", "timer"}, about : Task, what : Settled]
      OBVIOUS
    <3> HIDE DEF LegacyInv, LegacyTypeOK
    <3> QED
      BY <3>1, <3>2
  <2>3. timerCalls' \in [Task -> Nat]
    <3>1. timerCalls' = [timerCalls EXCEPT ![t] = @ + 1] \/ timerCalls' = timerCalls
      BY <1>5 DEF TimerHandles
    <3>2. timerCalls \in [Task -> Nat]
      OBVIOUS
    <3> HIDE DEF LegacyInv, LegacyTypeOK
    <3> QED
      BY <3>1, <3>2
  <2>4. UNCHANGED <<callerVars, poolVars, worker, calls, threw>>
    BY <1>5 DEF TimerHandles
  <2> QED
    BY <2>1, <2>2, <2>3, <2>4
<1> QED
  BY <1>1, <1>2, <1>3, <1>4, <1>5 DEF TimerStep

\* Where a thread goes when something was thrown.
LEMMA EscapedType ==
  ASSUME LegacyInv, NEW t \in Task
  PROVE  Escaped(t) \in [Task -> WorkerState]
<1>1. CASE worker[t].thrown
  <2>1. worker \in [Task -> WorkerState]
    BY DEF LegacyInv, LegacyTypeOK
  <2> QED
    BY <1>1, <2>1 DEF Escaped, WorkerState
<1>2. CASE ~ worker[t].thrown
  BY <1>2, StartPassType DEF Escaped
<1> QED
  BY <1>1, <1>2

\* Where a thread goes when a consumer returned.
LEMMA ReturnedType ==
  ASSUME LegacyInv, NEW t \in Task, HasNext(t)
  PROVE  Returned(t) \in [Task -> WorkerState]
<1>1. worker[t].pos + 1 \in 0 .. 3
  <2>1. consumers[t] \in Seq({"handler", "user"}) /\ worker[t] \in WorkerState
    BY DEF LegacyInv, LegacyTypeOK
  <2>2. Len(consumers[t]) <= 2
    BY DEF LegacyInv, Registration
  <2> QED
    BY <2>1, <2>2 DEF HasNext, WorkerState
<1>2. worker \in [Task -> WorkerState]
  BY DEF LegacyInv, LegacyTypeOK
<1> QED
  BY <1>1, <1>2 DEF Returned, WorkerState

\* The steps of the task's thread keep the types.
LEMMA ThreadTypeOK ==
  ASSUME LegacyInv, NEW t \in Task,
         ThreadStep(t) \/ \E outcome \in {"ok", "failed"} : EndBody(t, outcome)
  PROVE  LegacyTypeOK'
<1> USE DEF LegacyInv, LegacyTypeOK, callerVars, poolVars, outputs
<1>1. CASE StartBody(t)
  <2>0. \/ worker' = [worker EXCEPT ![t].pc = "running"] /\ UNCHANGED future
        \/ /\ worker' = [worker EXCEPT ![t].pc = "ended"]
           /\ future' = [future EXCEPT ![t] = IF @ = "new" THEN "cancelled" ELSE @]
    BY <1>1, Zenon DEF StartBody
  <2>1. worker' \in [Task -> WorkerState]
    <3>1. /\ [worker EXCEPT ![t].pc = "running"] \in [Task -> WorkerState]
          /\ [worker EXCEPT ![t].pc = "ended"] \in [Task -> WorkerState]
      BY PcType
    <3> QED
      BY <2>0, <3>1
  <2>2. future' \in [Task -> {"none", "new"} \cup Settled]
    <3>1. future \in [Task -> {"none", "new"} \cup Settled]
      OBVIOUS
    <3> HIDE DEF LegacyInv, LegacyTypeOK
    <3>2. ASSUME future' = [future EXCEPT ![t] = IF @ = "new" THEN "cancelled" ELSE @]
          PROVE  future' \in [Task -> {"none", "new"} \cup Settled]
      BY <3>1, <3>2
    <3> QED
      BY <2>0, <3>1, <3>2
  <2>3. queued' \subseteq Task
    BY <1>1 DEF StartBody
  <2>4. UNCHANGED <<callerVars, consumers, caught, pool, periodic, delayed, timer, outputs>>
    BY <1>1 DEF StartBody
  <2> QED
    BY <2>1, <2>2, <2>3, <2>4
<1>2. ASSUME NEW outcome \in {"ok", "failed"}, EndBody(t, outcome)
      PROVE  LegacyTypeOK'
  <2>1. worker' \in [Task -> WorkerState]
    BY <1>2, PcType DEF EndBody
  <2>2. future' \in [Task -> {"none", "new"} \cup Settled] /\ queued' \subseteq Task
    BY <1>2 DEF EndBody
  <2> QED
    BY <1>2, <2>1, <2>2 DEF EndBody
<1>3. CASE BeginAfterExecute(t)
  BY <1>3, StartPassType DEF BeginAfterExecute
<1>4. CASE Comodified(t)
  BY <1>4, EscapedType DEF Comodified
<1>5. CASE HandleQuietly(t)
  BY <1>5, ReturnedType DEF HandleQuietly, Calling
<1>6. CASE HandleException(t)
  <2>1. told' \subseteq [by : {"thread", "timer"}, about : Task, what : Settled]
    BY <1>6 DEF HandleException, Tells, Tell
  <2>2. worker' \in [Task -> WorkerState] /\ threw' \subseteq Task
    <3> HIDE DEF LegacyInv
    <3>1. Returned(t) \in [Task -> WorkerState] /\ Escaped(t) \in [Task -> WorkerState]
      BY <1>6, ReturnedType, EscapedType DEF HandleException, Calling
    <3>2. threw \subseteq Task
      BY DEF LegacyInv
    <3> QED
      BY <1>6, <3>1, <3>2 DEF HandleException
  <2>3. calls' \in [Task -> Nat]
    <3>1. calls' = [calls EXCEPT ![t] = @ + 1]
      BY <1>6 DEF HandleException
    <3>2. calls \in [Task -> Nat]
      OBVIOUS
    <3> HIDE DEF LegacyInv, LegacyTypeOK
    <3> QED
      BY <3>1, <3>2
  <2>4. UNCHANGED <<callerVars, poolVars, timer, timerCalls>>
    BY <1>6 DEF HandleException
  <2> QED
    BY <2>1, <2>2, <2>3, <2>4
<1>7. CASE CallUserConsumer(t)
  <2>1. worker' \in [Task -> WorkerState] /\ threw' \subseteq Task
    <3> HIDE DEF LegacyInv
    <3>1. Returned(t) \in [Task -> WorkerState] /\ Escaped(t) \in [Task -> WorkerState]
      BY <1>7, ReturnedType, EscapedType DEF CallUserConsumer, Calling
    <3>2. threw \subseteq Task
      BY DEF LegacyInv
    <3> QED
      BY <1>7, <3>1, <3>2 DEF CallUserConsumer
  <2>2. UNCHANGED <<callerVars, poolVars, timer, told, calls, timerCalls>>
    BY <1>7 DEF CallUserConsumer
  <2> QED
    BY <2>1, <2>2
<1>8. CASE EndAfterExecute(t)
  <2>1. worker' \in [Task -> WorkerState]
    BY <1>8, IdleType, PcType DEF EndAfterExecute
  <2> QED
    BY <1>8, <2>1 DEF EndAfterExecute
<1>9. CASE Die(t)
  <2>1. worker' \in [Task -> WorkerState]
    BY <1>9, IdleType DEF Die
  <2>2. calls' \in [Task -> Nat]
    BY <1>9 DEF Die
  <2> QED
    BY <1>9, <2>1, <2>2 DEF Die
<1> QED
  BY <1>1, <1>2, <1>3, <1>4, <1>5, <1>6, <1>7, <1>8, <1>9 DEF ThreadStep

\* Every step keeps the types.
LEMMA LegacyTypeOKStep ==
  ASSUME LegacyInv, [Next]_vars
  PROVE  LegacyTypeOK'
<1>1. CASE UNCHANGED vars
  BY <1>1 DEF LegacyInv, LegacyTypeOK, vars, callerVars, poolVars, outputs
<1> QED
  BY <1>1, CallerTypeOK, HolderTypeOK, ThreadTypeOK DEF Next, Terminated

-------------------------------------------------------------------------------
(* What the futures and the reports do in a step. *)

\* A step settles one outcome, tells the consumer of one, or does neither.
SettlesOne(t) ==
  /\ future[t] \in {"none", "new"}
  /\ \E o \in {"none", "new"} \cup Settled : future' = [future EXCEPT ![t] = o]
  /\ UNCHANGED told

TellsOne(t) ==
  /\ future[t] \in Settled
  /\ \E by \in {"thread", "timer"} :
       told' = told \cup {[by |-> by, about |-> t, what |-> future[t]]}
  /\ UNCHANGED future

\* A step settles one task, tells of one, or does neither.
LEMMA OutcomeCases ==
  ASSUME LegacyInv, [Next]_vars
  PROVE  UNCHANGED <<future, told>> \/ \E t \in Task : SettlesOne(t) \/ TellsOne(t)
<1> USE DEF callerVars, poolVars, outputs
<1>1. ASSUME NEW field \in Field, NEW value \in BOOLEAN, Set(field, value)
      PROVE  UNCHANGED <<future, told>>
  BY <1>1 DEF Set
<1>2. CASE Start
  <2>1. started + 1 \in Task /\ future[started + 1] = "none"
    BY <1>2 DEF Start, LegacyInv, LegacyTypeOK, Registration
  <2>2. SettlesOne(started + 1)
    BY <1>2, <2>1 DEF Start, SettlesOne
  <2> QED
    BY <2>1, <2>2
<1>3. CASE CallerStep
  BY <1>3 DEF CallerStep, AddHandler, HandleInterruption, Publish, AddUserConsumer, Register
<1>4. ASSUME NEW t \in Task, Cancel(t) \/ CancelFuture(t)
      PROVE  UNCHANGED <<future, told>> \/ SettlesOne(t)
  BY <1>4 DEF Cancel, CancelFuture, SettlesOne, LegacyInv, LegacyTypeOK
<1>5. ASSUME NEW t \in Task, NEW state \in {"shutdown", "stop"}, Shutdown(t, state)
      PROVE  UNCHANGED <<future, told>> \/ SettlesOne(t)
  BY <1>5 DEF Shutdown, SettlesOne
<1>6. ASSUME NEW t \in Task, StopTimer(t)
      PROVE  UNCHANGED <<future, told>>
  BY <1>6 DEF StopTimer
<1>7. ASSUME NEW t \in Task, StartBody(t)
      PROVE  UNCHANGED <<future, told>> \/ SettlesOne(t)
  BY <1>7 DEF StartBody, SettlesOne, LegacyInv, LegacyTypeOK
<1>8. ASSUME NEW t \in Task, NEW outcome \in {"ok", "failed"}, EndBody(t, outcome)
      PROVE  UNCHANGED <<future, told>> \/ SettlesOne(t)
  BY <1>8 DEF EndBody, SettlesOne, LegacyInv, LegacyTypeOK
<1>9. ASSUME NEW t \in Task,
             \/ BeginAfterExecute(t) \/ Comodified(t) \/ HandleQuietly(t)
             \/ CallUserConsumer(t) \/ EndAfterExecute(t) \/ Die(t)
      PROVE  UNCHANGED <<future, told>>
  BY <1>9 DEF BeginAfterExecute, Comodified, HandleQuietly, CallUserConsumer,
              EndAfterExecute, Die
<1>10. ASSUME NEW t \in Task, HandleException(t)
       PROVE  TellsOne(t)
  BY <1>10 DEF HandleException, Tells, Tell, TellsOne
<1>11. ASSUME NEW t \in Task, TimerHandles(t)
       PROVE  UNCHANGED <<future, told>> \/ TellsOne(t)
  BY <1>11 DEF TimerHandles, Tells, Tell, TellsOne
<1>12. CASE UNCHANGED vars
  BY <1>12 DEF vars
<1> QED
  BY <1>1, <1>2, <1>3, <1>4, <1>5, <1>6, <1>7, <1>8, <1>9, <1>10, <1>11, <1>12
     DEF Next, ThreadStep, TimerStep, Terminated

\* What was told stays true, and only what is true is told.
LEMMA ToldIsTrueStep ==
  ASSUME LegacyInv, [Next]_vars
  PROVE  ToldIsTrue'
<1>1. CASE UNCHANGED <<future, told>>
  BY <1>1 DEF LegacyInv, ToldIsTrue
<1>2. ASSUME NEW t \in Task, SettlesOne(t)
      PROVE  ToldIsTrue'
  BY <1>2 DEF LegacyInv, LegacyTypeOK, ToldIsTrue, SettlesOne
<1>3. ASSUME NEW t \in Task, TellsOne(t)
      PROVE  ToldIsTrue'
  BY <1>3 DEF LegacyInv, ToldIsTrue, TellsOne
<1> QED
  BY <1>1, <1>2, <1>3, OutcomeCases

\* One consumer is registered, then at most another.
LEMMA OneConsumer == Len(<<"handler">>) <= 2 /\ Len(Append(<<"handler">>, "user")) <= 2
<1> DEFINE S == {"handler", "user"}
<1>1. <<>> \in Seq(S) /\ Len(<<>>) = 0
  BY EmptySeq
<1>2. Append(<<>>, "handler") = <<"handler">>
  OBVIOUS
<1>3. <<"handler">> \in Seq(S) /\ Len(<<"handler">>) = 1
  BY <1>1, <1>2, AppendProperties
<1>4. Len(Append(<<"handler">>, "user")) = 2
  BY <1>3, AppendProperties
<1> QED
  BY <1>3, <1>4

\* Only the caller's steps change what is registered.
LEMMA RegistrationStep ==
  ASSUME LegacyInv, [Next]_vars
  PROVE  Registration'
<1> USE DEF callerVars, poolVars, outputs
<1> DEFINE Unregistered ==
      /\ UNCHANGED <<started, callerPc, consumers>>
      /\ \A t \in Task : future[t] = "none" => future'[t] = "none"
<1>1. CASE Unregistered
  BY <1>1 DEF LegacyInv, Registration
<1>a. /\ \A t \in Task : t > started => future[t] = "none" /\ consumers[t] = <<>>
      /\ \A t \in Task : Len(consumers[t]) <= 2
      /\ callerPc # "idle" => started > 0
      /\ callerPc = "scheduled" => consumers[started] = <<>>
      /\ callerPc \in {"handled", "armed", "published"} => consumers[started] = <<"handler">>
      /\ started \in 0 .. MaxStarts
      /\ consumers \in [Task -> Seq({"handler", "user"})]
      /\ future \in [Task -> {"none", "new"} \cup Settled]
  BY DEF LegacyInv, LegacyTypeOK, Registration
<1>b. ASSUME NEW cs, Len(cs) <= 2, started \in Task, consumers' = [consumers EXCEPT ![started] = cs],
             UNCHANGED <<started, future>>
      PROVE  /\ \A t \in Task : t > started' => future'[t] = "none" /\ consumers'[t] = <<>>
             /\ \A t \in Task : Len(consumers'[t]) <= 2
             /\ started' > 0
             /\ consumers'[started'] = cs
  <2>1. \A t \in Task : consumers'[t] = IF t = started THEN cs ELSE consumers[t]
    BY <1>a, <1>b
  <2>2. started' = started /\ future' = future /\ started > 0
    BY <1>b
  <2>3. ASSUME NEW t \in Task, t > started PROVE future[t] = "none" /\ consumers'[t] = <<>>
    <3>1. t # started
      BY <1>a, <2>3
    <3> QED
      BY <1>a, <2>1, <2>3, <3>1
  <2>4. \A t \in Task : Len(consumers'[t]) <= 2
    BY <1>a, <1>b, <2>1
  <2>5. consumers'[started] = cs
    BY <1>b, <2>1
  <2> QED
    BY <2>2, <2>3, <2>4, <2>5
<1>2. CASE Start
  <2>1. /\ started < MaxStarts /\ started' = started + 1 /\ callerPc' = "scheduled"
        /\ consumers' = consumers
        /\ future' = [future EXCEPT ![started'] = "new"]
    BY <1>2 DEF Start
  <2>2. started' \in Task /\ started' > started
    BY <2>1, <1>a
  <2>3. \A t \in Task : t > started' => t > started /\ t # started'
    BY <2>1, <1>a
  <2>4. \A t \in Task : t > started' => future'[t] = "none" /\ consumers'[t] = <<>>
    BY <2>1, <2>3, <1>a
  <2>5. consumers'[started'] = <<>>
    BY <2>1, <2>2, <1>a
  <2> QED
    BY <2>1, <2>2, <2>4, <2>5, <1>a DEF Registration
<1>3. CASE AddHandler
  <2>1. callerPc = "scheduled" /\ callerPc' = "handled" /\ UNCHANGED <<started, future>>
    BY <1>3 DEF AddHandler, Register
  <2>2. started \in Task /\ consumers[started] = <<>>
    BY <2>1, <1>a
  <2>3. consumers' = [consumers EXCEPT ![started] = <<"handler">>]
    <3>1. Append(<<>>, "handler") = <<"handler">>
      OBVIOUS
    <3> QED
      BY <1>3, <2>2, <3>1 DEF AddHandler, Register
  <2>4. Len(<<"handler">>) <= 2
    BY OneConsumer
  <2> QED
    BY <2>1, <2>2, <2>3, <2>4, <1>b DEF Registration
<1>4. CASE HandleInterruption
  BY <1>4 DEF HandleInterruption, LegacyInv, Registration
<1>5. CASE Publish
  BY <1>5 DEF Publish, LegacyInv, Registration
<1>6. CASE AddUserConsumer
  <2>1. callerPc = "published" /\ callerPc' = "idle" /\ UNCHANGED <<started, future>>
    BY <1>6 DEF AddUserConsumer, Register
  <2>2. started \in Task /\ consumers[started] = <<"handler">>
    BY <2>1, <1>a
  <2>3. PICK cs \in {Append(<<"handler">>, "user"), <<"handler">>} :
          consumers' = [consumers EXCEPT ![started] = cs]
    BY <1>6, <2>2 DEF AddUserConsumer, Register
  <2>4. Len(cs) <= 2
    BY <2>3, OneConsumer
  <2> QED
    BY <2>1, <2>2, <2>3, <2>4, <1>b DEF Registration
<1>7. ASSUME NEW field \in Field, NEW value \in BOOLEAN, Set(field, value)
      PROVE  Unregistered
  BY <1>7 DEF Set
<1>8. ASSUME NEW t \in Task, Cancel(t) \/ StopTimer(t) \/ CancelFuture(t) \/ TimerHandles(t)
      PROVE  Unregistered
  BY <1>8 DEF Cancel, StopTimer, CancelFuture, TimerHandles, LegacyInv, LegacyTypeOK
<1>9. ASSUME NEW t \in Task, NEW state \in {"shutdown", "stop"}, Shutdown(t, state)
      PROVE  Unregistered
  BY <1>9 DEF Shutdown, LegacyInv, LegacyTypeOK
<1>10. ASSUME NEW t \in Task, StartBody(t)
       PROVE  Unregistered
  BY <1>10 DEF StartBody, LegacyInv, LegacyTypeOK
<1>11. ASSUME NEW t \in Task, NEW outcome \in {"ok", "failed"}, EndBody(t, outcome)
       PROVE  Unregistered
  BY <1>11 DEF EndBody, LegacyInv, LegacyTypeOK
<1>12. ASSUME NEW t \in Task,
              \/ BeginAfterExecute(t) \/ Comodified(t) \/ HandleQuietly(t) \/ HandleException(t)
              \/ CallUserConsumer(t) \/ EndAfterExecute(t) \/ Die(t)
       PROVE  Unregistered
  BY <1>12 DEF BeginAfterExecute, Comodified, HandleQuietly, HandleException,
               CallUserConsumer, EndAfterExecute, Die
<1>13. CASE UNCHANGED vars
  BY <1>13 DEF vars, LegacyInv, Registration
<1> QED
  BY <1>1, <1>2, <1>3, <1>4, <1>5, <1>6, <1>7, <1>8, <1>9, <1>10, <1>11, <1>12, <1>13
     DEF Next, CallerStep, ThreadStep, TimerStep, Terminated

-------------------------------------------------------------------------------
(* The theorems. *)

\* The inductive invariant holds in every reachable state.
THEOREM LegacyInvariance == Spec => []LegacyInv
<1>1. LegacyInv /\ [Next]_vars => LegacyInv'
  BY LegacyTypeOKStep, RegistrationStep, ToldIsTrueStep DEF LegacyInv
<1> QED
  BY <1>1, InitLegacyInv, PTL DEF Spec

\* The variables keep their types, however many starts there are and however they
\* are configured: no task has more than the two consumers of its own start.
THEOREM LegacyTyping == Spec => []LegacyTypeOK
<1>1. LegacyInv => LegacyTypeOK
  BY DEF LegacyInv
<1> QED
  BY <1>1, LegacyInvariance, PTL

\* Outcomes are settled once and told truly: by the pool's thread and the timeout
\* executor's, which race for each task, for any number of tasks.
THEOREM LegacyRefinement == Spec => LegacyOutcomesAreSettled
<1>1. Init => LegacyOutcome!Init
  BY DEF Init, LegacyOutcome!Init, IsDone
<1>2. LegacyInv /\ [Next]_vars => [LegacyOutcome!Next]_LegacyOutcome!vars
  <2> SUFFICES ASSUME LegacyInv, [Next]_vars
               PROVE  [LegacyOutcome!Next]_LegacyOutcome!vars
    OBVIOUS
  <2>1. CASE UNCHANGED <<future, told>>
    BY <2>1 DEF LegacyOutcome!vars, IsDone
  <2>2. ASSUME NEW t \in Task, SettlesOne(t)
        PROVE  [LegacyOutcome!Next]_LegacyOutcome!vars
    <3>1. PICK o \in {"none", "new"} \cup Settled : future' = [future EXCEPT ![t] = o]
      BY <2>2 DEF SettlesOne
    <3>2. future \in [Task -> {"none", "new"} \cup Settled] /\ future[t] \in {"none", "new"} /\ told' = told
      BY <2>2 DEF SettlesOne, LegacyInv, LegacyTypeOK
    <3>3. CASE o \in Settled
      <4>1. LegacyOutcome!Settle(t)
        BY <3>1, <3>2, <3>3 DEF LegacyOutcome!Settle, LegacyOutcome!Settled, IsDone
      <4> QED
        BY <4>1 DEF LegacyOutcome!Next
    <3>4. CASE o \in {"none", "new"}
      BY <3>1, <3>2, <3>4 DEF LegacyOutcome!vars, IsDone
    <3> QED
      BY <3>3, <3>4
  <2>3. ASSUME NEW t \in Task, TellsOne(t)
        PROVE  [LegacyOutcome!Next]_LegacyOutcome!vars
    <3>1. PICK by \in {"thread", "timer"} :
            told' = told \cup {[by |-> by, about |-> t, what |-> future[t]]}
      BY <2>3 DEF TellsOne
    <3>2. {<<r.about, r.what>> : r \in told'} =
            {<<r.about, r.what>> : r \in told} \cup {<<t, future[t]>>}
      <4> DEFINE new == [by |-> by, about |-> t, what |-> future[t]]
      <4>1. new.about = t /\ new.what = future[t]
        OBVIOUS
      <4>2. told' = told \cup {new}
        BY <3>1
      <4> HIDE DEF new
      <4> QED
        BY <4>1, <4>2, ZenonT(20)
    <3>3. LegacyOutcome!Tell(t)
      BY <2>3, <3>2 DEF TellsOne, LegacyOutcome!Tell, IsDone
    <3> QED
      BY <3>3 DEF LegacyOutcome!Next
  <2> QED
    BY <2>1, <2>2, <2>3, OutcomeCases
<1> QED
  BY <1>1, <1>2, LegacyInvariance, PTL
     DEF Spec, LegacyOutcomesAreSettled, LegacyOutcome!Spec
===============================================================================
