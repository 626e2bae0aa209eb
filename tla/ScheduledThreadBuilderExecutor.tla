-------------------- MODULE ScheduledThreadBuilderExecutor --------------------
(***************************************************************************)
(* core/ScheduledThreadBuilderExecutor: a JDK ScheduledThreadPoolExecutor  *)
(* whose afterExecute hook calls every registered consumer, in the order   *)
(* of registration, after every task.                                      *)
(*                                                                         *)
(* The JDK half (queue, FutureTask, worker loop; JDK 11, the one the build *)
(* uses) is external: a task is taken, its body is run unless it was       *)
(* cancelled, and afterExecute(task, null) follows.  When that call throws *)
(* the worker calls afterExecute(task, error) a second time, dies and is   *)
(* replaced.  FutureTask keeps what the body throws, so the first call     *)
(* never carries a throwable.                                              *)
(*                                                                         *)
(* The list of consumers is a plain LinkedList: an iterator remembers the  *)
(* modification count it started with, and next() throws a                 *)
(* ConcurrentModificationException when a consumer was added meanwhile.    *)
(* Consumers are only ever added, so the length stands for that count.     *)
(*                                                                         *)
(* A module that EXTENDS this one says what the consumers do.              *)
(***************************************************************************)
EXTENDS Integers, Sequences

CONSTANTS MaxSubmissions,  \* bound: how many tasks are ever submitted
          Worker           \* the pool's threads (corePoolSize of them)

ASSUME ExecutorAssumption == MaxSubmissions \in Nat \ {0} /\ Worker # {}

\* A task is named by the position of its start() call.
Task == 1 .. MaxSubmissions

VARIABLES consumers,  \* afterExecuteConsumers
          queue,      \* the work queue: tasks no worker has taken yet
          pool,       \* "running", "shutdown" (orderly) or "stop" (shutdownNow)
          future,     \* state of each task's Future
          worker      \* what each pool thread is doing

executorVars == <<consumers, queue, pool, future, worker>>

Outcome == {"ok", "failed", "cancelled"}

Idle == [pc |-> "idle", task |-> 0, pos |-> 0, seen |-> 0, thrown |-> FALSE]

ExecutorTypeOK ==
  /\ queue \in Seq(Task)
  /\ pool \in {"running", "shutdown", "stop"}
  /\ future \in [Task -> {"none", "new"} \cup Outcome]
  /\ worker \in [Worker -> [pc : {"idle", "taken", "running", "ended",
                                  "iterating", "inConsumer", "dying"},
                            task : Task \cup {0},
                            pos : Nat, seen : Nat, thrown : BOOLEAN]]

ExecutorInit ==
  /\ consumers = <<>>
  /\ queue = <<>>
  /\ pool = "running"
  /\ future = [t \in Task |-> "none"]
  /\ worker = [w \in Worker |-> Idle]

-------------------------------------------------------------------------------
(* Operations called from other threads. *)

AddFirst(c) ==
  /\ consumers' = <<c>> \o consumers
  /\ UNCHANGED <<queue, pool, future, worker>>

\* addAfterExecuteConsumer: no lock is taken.
AddAfterExecuteConsumer(c) ==
  /\ consumers' = Append(consumers, c)
  /\ UNCHANGED <<queue, pool, future, worker>>

\* submit on a pool that is not shut down; otherwise it throws and nothing changes.
SubmitTask(t) ==
  /\ pool = "running"
  /\ future[t] = "none"
  /\ future' = [future EXCEPT ![t] = "new"]
  /\ queue' = Append(queue, t)
  /\ UNCHANGED <<consumers, pool, worker>>

\* Future.cancel: wins only while no outcome is set, also while the body runs.
\* The task stays in the queue (removeOnCancelPolicy is false).
CancelFuture(t) ==
  /\ future[t] = "new"
  /\ future' = [future EXCEPT ![t] = "cancelled"]
  /\ UNCHANGED <<consumers, queue, pool, worker>>

\* shutdown: queued tasks still run.
ShutdownPool ==
  /\ pool = "running"
  /\ pool' = "shutdown"
  /\ UNCHANGED <<consumers, queue, future, worker>>

\* shutdownNow: the queue is drained and the futures in it never complete.
ShutdownPoolNow ==
  /\ pool # "stop"
  /\ pool' = "stop"
  /\ queue' = <<>>
  /\ UNCHANGED <<consumers, future, worker>>

-------------------------------------------------------------------------------
(* The worker loop. *)

Take(w) ==
  /\ worker[w].pc = "idle"
  /\ queue # <<>>
  /\ worker' = [worker EXCEPT ![w] =
                  [pc |-> "taken", task |-> Head(queue), pos |-> 0, seen |-> 0, thrown |-> FALSE]]
  /\ queue' = Tail(queue)
  /\ UNCHANGED <<consumers, pool, future>>

StartBody(w) ==
  /\ worker[w].pc = "taken"
  /\ future[worker[w].task] = "new"
  /\ pool # "stop"
  /\ worker' = [worker EXCEPT ![w].pc = "running"]
  /\ UNCHANGED <<consumers, queue, pool, future>>

\* ScheduledFutureTask.run cancels a task it may not run any more; a task
\* that is already cancelled is left as it is.
SkipBody(w) ==
  /\ worker[w].pc = "taken"
  /\ \/ /\ future[worker[w].task] = "new"
        /\ pool = "stop"
        /\ future' = [future EXCEPT ![worker[w].task] = "cancelled"]
     \/ /\ future[worker[w].task] # "new"
        /\ UNCHANGED future
  /\ worker' = [worker EXCEPT ![w].pc = "ended"]
  /\ UNCHANGED <<consumers, queue, pool>>

\* The body returns or throws; a cancellation that came first keeps its place.
EndBody(w, outcome) ==
  /\ worker[w].pc = "running"
  /\ future' = [future EXCEPT ![worker[w].task] = IF @ = "new" THEN outcome ELSE @]
  /\ worker' = [worker EXCEPT ![w].pc = "ended"]
  /\ UNCHANGED <<consumers, queue, pool>>

-------------------------------------------------------------------------------
(* afterExecute: one pass over the consumers. *)

StartPass(w, thrown) ==
  [worker EXCEPT ![w] = [pc |-> "iterating", task |-> worker[w].task,
                         pos |-> 1, seen |-> Len(consumers), thrown |-> thrown]]

BeginAfterExecute(w) ==
  /\ worker[w].pc = "ended"
  /\ worker' = StartPass(w, FALSE)
  /\ UNCHANGED <<consumers, queue, pool, future>>

HasNext(w) ==
  /\ worker[w].pc = "iterating"
  /\ worker[w].pos <= Len(consumers)

\* next() succeeds: the worker calls consumers[pos].
Calling(w) == HasNext(w) /\ worker[w].seen = Len(consumers)
Called(w) == consumers[worker[w].pos]

\* The consumer returned, or threw an Exception that the loop logs.
Returned(w) ==
  [worker EXCEPT ![w] = [pc |-> "iterating", task |-> worker[w].task,
                         pos |-> worker[w].pos + 1, seen |-> worker[w].seen,
                         thrown |-> worker[w].thrown]]

\* Something escaped from afterExecute: the second pass, then death.
Escaped(w) ==
  IF worker[w].thrown
  THEN [worker EXCEPT ![w].pc = "dying"]
  ELSE StartPass(w, TRUE)

Comodified(w) ==
  /\ HasNext(w)
  /\ worker[w].seen # Len(consumers)
  /\ worker' = Escaped(w)
  /\ UNCHANGED <<consumers, queue, pool, future>>

EndAfterExecute(w) ==
  /\ worker[w].pc = "iterating"
  /\ worker[w].pos > Len(consumers)
  /\ worker' = IF worker[w].thrown
               THEN [worker EXCEPT ![w].pc = "dying"]
               ELSE [worker EXCEPT ![w] = Idle]
  /\ UNCHANGED <<consumers, queue, pool, future>>

\* The uncaught throwable ends the thread; the pool starts another in its place.
ReplaceWorker(w) ==
  /\ worker[w].pc = "dying"
  /\ worker' = [worker EXCEPT ![w] = Idle]
  /\ UNCHANGED <<consumers, queue, pool, future>>

\* The worker's steps outside the consumers.
WorkerLoop(w) ==
  \/ Take(w)
  \/ StartBody(w)
  \/ SkipBody(w)
  \/ \E outcome \in {"ok", "failed"} : EndBody(w, outcome)
  \/ BeginAfterExecute(w)
  \/ Comodified(w)
  \/ EndAfterExecute(w)

IsDone(t) == future[t] \in Outcome
Holds(w, t) == worker[w].task = t
===============================================================================
