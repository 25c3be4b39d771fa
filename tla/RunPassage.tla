----------------------------- MODULE RunPassage -----------------------------
(***************************************************************************)
(* What the executor promises about a run's way to its verdict, whatever   *)
(* the steps of its workflow are:                                          *)
(*                                                                         *)
(*   - a run may be told to stop until it is reported, and cannot be told  *)
(*     to go on again;                                                     *)
(*   - a run whose steps have begun is decided "cancelled" exactly when it *)
(*     has been told to stop by then;                                      *)
(*   - the verdict is reported once and never changes.                     *)
(*                                                                         *)
(* WorkflowExecutor implements it (WorkflowExecutor!Passage), and it is    *)
(* what RuleScheduler assumes of the executor.                             *)
(***************************************************************************)
CONSTANT Run

VARIABLES
  stage,    \* "new", "running", "decided" or "reported"
  told,     \* runs that were told to stop
  verdict   \* "none", "completed", "cancelled" or "crashed"

vars == <<stage, told, verdict>>

Init ==
  /\ stage = [r \in Run |-> "new"]
  /\ told = {}
  /\ verdict = [r \in Run |-> "none"]

Decide(r, v) ==
  /\ stage' = [stage EXCEPT ![r] = "decided"]
  /\ verdict' = [verdict EXCEPT ![r] = v]
  /\ UNCHANGED told

(* A run that was told to stop does not begin; one that cannot be prepared  *)
(* crashes.                                                                 *)
Begin(r) ==
  /\ stage[r] = "new"
  /\ \/ r \in told /\ Decide(r, "cancelled")
     \/ Decide(r, "crashed")
     \/ /\ r \notin told
        /\ stage' = [stage EXCEPT ![r] = "running"]
        /\ UNCHANGED <<told, verdict>>

End(r) ==
  /\ stage[r] = "running"
  /\ Decide(r, IF r \in told THEN "cancelled" ELSE "completed")

Report(r) ==
  /\ stage[r] = "decided"
  /\ stage' = [stage EXCEPT ![r] = "reported"]
  /\ UNCHANGED <<told, verdict>>

(* Somebody, or the run itself, sets the run's cancel event.                *)
Tell(r) ==
  /\ stage[r] # "reported"
  /\ told' = told \cup {r}
  /\ UNCHANGED <<stage, verdict>>

Next == \E r \in Run : Begin(r) \/ End(r) \/ Report(r) \/ Tell(r)

Spec == Init /\ [][Next]_vars
=============================================================================
