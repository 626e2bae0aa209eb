-------------------------- MODULE MCLegacyThreadBuilder --------------------------
(***************************************************************************)
(* Instances of LegacyThreadBuilder for TLC.                               *)
(***************************************************************************)
EXTENDS LegacyThreadBuilder

\* With an exception consumer, and a timeout or both an interval and a user's
\* consumer.
WithConsumer ==
  {[f \in Field |-> f \in {"execution", "uncaughtExceptionConsumer"} \cup more] :
     more \in {{"timeout"}, {"interval", "afterExecuteConsumer"}}}

\* With it the second task is delayed and told of.
TheConsumer == {"uncaughtExceptionConsumer"}
===============================================================================
