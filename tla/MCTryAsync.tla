------------------------------- MODULE MCTryAsync -------------------------------
(***************************************************************************)
(* Instances of TryAsync for TLC.                                          *)
(***************************************************************************)
EXTENDS TryAsync

\* Every way to execute().
AllBuilders == ExecuteConfiguration

Runnables == {b \in ExecuteConfiguration : b.executionType = "RUNNABLE"}

Callables == {b \in ExecuteConfiguration : b.executionType = "CALLABLE" /\ b.threadResultConsumer}

\* A checked exception, an unchecked one and an Error.
Thrown == {"IOException", "RuntimeException", "Error"}

\* The class of a failure, a superclass of it, and a class apart.
Caught == {"IOException", "Exception", "Error"}
===============================================================================
