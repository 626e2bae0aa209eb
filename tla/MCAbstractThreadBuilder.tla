------------------------ MODULE MCAbstractThreadBuilder ------------------------
(***************************************************************************)
(* Instances of AbstractThreadBuilder for TLC.                             *)
(***************************************************************************)
EXTENDS AbstractThreadBuilder, TLC

\* Builders with an execution, of the given type, everything else open.
Configured(type) == {b \in Builder : b.execution /\ b.executionType = type}

\* A callable builder with every consumer set.
AllConsumers == {b \in Configured("CALLABLE") :
                   /\ b.afterExecuteConsumer
                   /\ b.uncaughtExceptionConsumer
                   /\ b.threadResultConsumer
                   /\ ~ b.silentInterruption}

\* Both kinds of builder, with or without a user consumer, and a silent one of
\* runnables; a setter call can turn the rest off.
Plain == {b \in Builder :
            /\ b.execution
            /\ b.uncaughtExceptionConsumer
            /\ b.threadResultConsumer
            /\ b.silentInterruption => ~ b.afterExecuteConsumer /\ b.executionType = "RUNNABLE"}

Threads == Permutations(Worker)
===============================================================================
