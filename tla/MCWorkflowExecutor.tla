------------------------- MODULE MCWorkflowExecutor -------------------------
(* Small instances of WorkflowExecutor for TLC.                             *)
EXTENDS WorkflowExecutor

Steps == {"fetch", "warn", "choose", "save", "undo", "tell", "set", "done"}

StepKind == [s \in Steps |-> IF s = "choose" THEN "if"
                             ELSE IF s = "set" THEN "assign" ELSE "action"]

(* A retried, timed action that may fail without stopping the workflow, a   *)
(* branch, failure actions inside and outside of it, a last action.         *)
Branching == [r \in Run |-> <<"fetch", "choose", "done">>]

(* Two short workflows that share the engine.                               *)
Short == [r \in Run |-> <<"save", "done">>]
NoBranches == [s \in Steps |-> <<>>]

ThenSteps == [s \in Steps |-> IF s = "choose" THEN <<"save", "tell">> ELSE <<>>]
ElseSteps == [s \in Steps |-> IF s = "choose" THEN <<"set">> ELSE <<>>]
FailureSteps ==
  [s \in Steps |-> CASE s = "fetch" -> <<"warn">>
                     [] s = "save" -> <<"undo">>
                     [] OTHER -> <<>>]
ContinuingSteps == {"fetch", "choose", "tell"}
ManyRetries == [s \in Steps |-> IF s = "fetch" THEN 3 ELSE 0]
NoRetries == [s \in Steps |-> 0]
=============================================================================
