--------------------- MODULE MCAbstractTimingThreadBuilder ---------------------
(***************************************************************************)
(* Instances of AbstractTimingThreadBuilder for TLC.                       *)
(***************************************************************************)
EXTENDS AbstractTimingThreadBuilder

\* Builders with an execution and an exception consumer that is told of
\* cancellations too.
Loud == {b \in Builder :
           b.execution /\ b.uncaughtExceptionConsumer /\ ~ b.silentInterruption}

\* A builder of each kind with every consumer it can have.
AllConsumers == {b \in Loud :
                   /\ b.afterExecuteConsumer
                   /\ b.threadResultConsumer <=> b.executionType = "CALLABLE"}

\* A runnable builder without a user's consumer.
PlainRunnable == {b \in Loud :
                    /\ b.executionType = "RUNNABLE"
                    /\ ~ b.afterExecuteConsumer
                    /\ ~ b.threadResultConsumer}

Untimed == {t \in Timing : ~ t.delay /\ ~ t.timeout /\ ~ t.interval}
===============================================================================
