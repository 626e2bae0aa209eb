------------------------------ MODULE TaskOutcome ------------------------------
(***************************************************************************)
(* What a thread builder promises about outcomes, whatever the schedule:   *)
(* a started task settles at most once, and whoever is told the outcome of *)
(* a task is told the one it settled on, after it settled.                 *)
(***************************************************************************)
EXTENDS Naturals

CONSTANT Task

VARIABLES outcome,  \* "pending" or what the task settled on
          told      \* pairs <<task, outcome>> the callbacks were given

vars == <<outcome, told>>

Settled == {"ok", "failed", "cancelled"}

TypeOK ==
  /\ outcome \in [Task -> {"pending"} \cup Settled]
  /\ told \subseteq Task \X Settled

Init ==
  /\ outcome = [t \in Task |-> "pending"]
  /\ told = {}

Settle(t) ==
  /\ outcome[t] = "pending"
  /\ \E o \in Settled : outcome' = [outcome EXCEPT ![t] = o]
  /\ UNCHANGED told

Tell(t) ==
  /\ outcome[t] # "pending"
  /\ told' = told \cup {<<t, outcome[t]>>}
  /\ UNCHANGED outcome

Next == \E t \in Task : Settle(t) \/ Tell(t)

Spec == Init /\ [][Next]_vars
===============================================================================
