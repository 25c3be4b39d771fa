----------------------------- MODULE ManualRuns -----------------------------
(* A rule started by hand, whole or in part (api/services/rule_runs.py): the  *)
(* request brings what skipped steps and triggers would have made, and is     *)
(* checked against the references of the part that runs; the engine then      *)
(* executes that part (run_manual_rule_snapshot). Every small rule and        *)
(* request is judged and, when accepted, run with every outcome.              *)
(* The rule: steps a, b and c in order; b may be an "if" around step d.       *)
EXTENDS Integers, Sequences, FiniteSets

CONSTANTS MaxUses,       \* bound: references in the rule
          MaxAssertions  \* bound: result checks of a request (50 in the code)

ASSUME ManualConstants == MaxUses \in Nat /\ MaxAssertions \in Nat

TopSteps == <<"a", "b", "c">>
RuleSteps == {"a", "b", "c", "d"}
Place(s) == IF s = "a" THEN 1 ELSE IF s = "c" THEN 3 ELSE 2     \* d lies in b

(* A reference to a field of a step's output, of a trigger's or of the event;  *)
(* without the data it takes a default or its step is skipped.                *)
NoUse == [scope |-> "none", node |-> "", sure |-> TRUE, policy |-> "none"]
Uses == {[scope |-> sc, node |-> n, sure |-> sure, policy |-> p] :
           sc \in {"step"}, n \in {"a", "b"}, sure \in BOOLEAN, p \in {"none", "default"}}
          \cup {[NoUse EXCEPT !.scope = sc, !.sure = sure, !.policy = p] :
                  sc \in {"trigger", "event"}, sure \in BOOLEAN, p \in {"none", "default"}}

(* What a request gives for a source: nothing, an object with every declared  *)
(* field, one without the optional field, one without the required field, or  *)
(* one with a value of another type.                                          *)
Supplies == {"nothing", "whole", "no optional", "no required", "mistyped"}

VARIABLES plan,          \* the saved rule: branch, version, use of each step
          ask,           \* the request
          ruling,        \* "none", "accepted", or why it was refused
          made,          \* context["steps"]: of each step
          step,          \* the step at work, "" when the run is over
          uses,          \* history: <<step, what became of its reference>>
          checks         \* the result of the assertions

manualVars == <<plan, ask, ruling, made, step, uses, checks>>

InPlan(s) == s # "d" \/ plan.branch
NotMade == "not made"

(* References go to steps completed before (RuleBindings).                    *)
FitsPlan(p) ==
  /\ Cardinality({s \in RuleSteps : p.use[s] # NoUse}) <= MaxUses
  /\ ~p.branch => p.use["d"] = NoUse
  /\ \A s \in RuleSteps : p.use[s].scope = "step" =>
       /\ Place(p.use[s].node) < Place(s) /\ (p.use[s].node = "b" => ~p.branch)
  /\ \A s \in RuleSteps : ~p.use[s].sure => p.use[s].policy # "none"

Plans ==
  {p \in [branch : BOOLEAN, version : {1}, use : [RuleSteps -> Uses \cup {NoUse}]] : FitsPlan(p)}

NothingAsked ==
  /\ ask = [start |-> "", end |-> "", outputs |-> [s \in {"a", "b"} |-> "nothing"],
            trigger |-> "nothing", event |-> "nothing", asserts |-> {}, version |-> 1]
  /\ ruling = "none" /\ made = [s \in RuleSteps |-> NotMade] /\ step = "" /\ uses = {}
  /\ checks = "none"

ManualInit == plan \in Plans /\ NothingAsked

----------------------------------------------------------------------------
(* The service's view of a request q.                                         *)
StartOf(q) == IF q.start = "" THEN 1 ELSE Place(q.start)
EndOf(q) == IF q.end = "" THEN Len(TopSteps) ELSE Place(q.end)
Selected(q) == {s \in RuleSteps : InPlan(s) /\ Place(s) \in StartOf(q)..EndOf(q)}
Upstream(q) == {TopSteps[i] : i \in 1..(StartOf(q) - 1)}

(* iter_references of the selected actions, their branches included.          *)
References(q) == {plan.use[s] : s \in Selected(q)} \ {NoUse}

Required(q, scope) == {u \in References(q) : u.scope = scope /\ u.policy = "none"}

(* _validate_upstream_outputs: for a reference into skipped steps, its field  *)
(* must be there unless it may be missing; what is there must fit its type.   *)
UpstreamFits(q) ==
  \A u \in References(q) : (u.scope = "step" /\ u.node \in Upstream(q)) =>
    CASE q.outputs[u.node] = "mistyped" -> FALSE
      [] q.outputs[u.node] = "nothing" -> u.policy # "none"
      [] q.outputs[u.node] = "no required" -> ~u.sure \/ u.policy # "none"
      [] OTHER -> TRUE

(* check_payload_contract of a trigger that is referred to.                   *)
TriggersFit(q) ==
  (\E u \in References(q) : u.scope = "trigger") => q.trigger \notin {"no required", "mistyped"}

(* The order of the refusals is the code's.                                   *)
Verdict(q) ==
  CASE q.version # plan.version -> "changed meanwhile"
    [] StartOf(q) > EndOf(q) -> "start after end"
    [] \E s \in {"a", "b"} : q.outputs[s] # "nothing" /\ s \notin Upstream(q) -> "not upstream"
    [] \E u \in Required(q, "step") :
         u.node \in Upstream(q) /\ q.outputs[u.node] = "nothing" -> "missing upstream"
    [] ~UpstreamFits(q) -> "upstream does not fit"
    [] Cardinality(q.asserts) > MaxAssertions \/ ~(q.asserts \subseteq Selected(q)) -> "bad assertions"
    [] Required(q, "trigger") # {} /\ q.trigger = "nothing" -> "missing context"
    [] Required(q, "event") # {} /\ q.event = "nothing" -> "missing context"
    [] ~TriggersFit(q) -> "trigger does not fit"
    [] OTHER -> "accepted"

(* Data that nothing refers to are not given.                                 *)
Referred(scope, node) == \E s \in RuleSteps : plan.use[s].scope = scope /\ plan.use[s].node = node
Offers(scope, node) == IF Referred(scope, node) THEN Supplies ELSE {"nothing"}

Requests ==
  {[start |-> s, end |-> e, outputs |-> [n \in {"a", "b"} |-> IF n = "a" THEN oa ELSE ob],
    trigger |-> t, event |-> v, asserts |-> x, version |-> 1] :
     s \in {"", "b", "c"}, e \in {"", "a", "b"}, oa \in Offers("step", "a"),
     ob \in Offers("step", "b"), t \in Offers("trigger", ""),
     v \in Offers("event", "") \ {"mistyped", "no optional"},
     x \in {{}, {"b"}}}

AskToRun(q) ==
  LET verdict == Verdict(q) IN
  /\ ruling = "none" /\ ruling' = verdict
  /\ IF verdict = "accepted"
     THEN /\ ask' = q /\ step' = TopSteps[StartOf(q)]
          /\ made' = [s \in RuleSteps |-> IF s \in Upstream(q) /\ q.outputs[s] # "nothing"
                                          THEN q.outputs[s] ELSE NotMade]
     ELSE UNCHANGED <<ask, step, made>>
  /\ UNCHANGED <<plan, uses, checks>>

(* The rule is saved in another version before the request arrives.           *)
SaveMeanwhile ==
  /\ ruling = "none" /\ plan.version = 1 /\ plan' = [plan EXCEPT !.version = 2]
  /\ UNCHANGED <<ask, ruling, made, step, uses, checks>>

----------------------------------------------------------------------------
(* The run.                                                                   *)
Has(state, sure) == state = "whole" \/ (sure /\ state = "no optional") \/ (~sure /\ state = "no required")
Found(u) ==
  CASE u.scope = "step" -> Has(made[u.node], u.sure)
    [] u.scope = "trigger" -> Has(ask.trigger, u.sure)
    [] OTHER -> Has(ask.event, u.sure)

(* unavailable_references and resolve_value, as in RuleBindings.              *)
Outcome(u) ==
  IF u = NoUse THEN "literal"
  ELSE IF Found(u) THEN "value"
  ELSE IF u.policy # "none" /\ u.scope = "step" /\ made[u.node] = "failed" THEN "error"
  ELSE IF u.policy = "none" THEN "missing" ELSE u.policy

After(s) ==
  IF Place(s) = EndOf(ask) \/ Place(s) = 3 THEN "" ELSE TopSteps[Place(s) + 1]

(* One step; d belongs to b, whose predicate is read first and may choose the *)
(* other branch. A failure ends the run.                                      *)
PerformManual ==
  /\ ruling = "accepted" /\ step # ""
  /\ LET how == Outcome(plan.use[step]) IN
     /\ uses' = uses \cup {<<step, how>>}
     /\ \/ /\ how = "missing" /\ made' = [made EXCEPT ![step] = "skipped"]
           /\ step' = After(step)
        \/ /\ how # "missing"
           /\ made' = [made EXCEPT ![step] = "failed"] /\ step' = ""
        \/ /\ how \notin {"missing", "error"} /\ step = "b" /\ plan.branch
           /\ step' = "d" /\ UNCHANGED made
        \/ /\ how \notin {"missing", "error"}
           /\ \E output \in {"whole"} \cup (Offers("step", step) \cap {"no optional"}) :
                made' = [made EXCEPT ![step] = output]
           /\ step' = After(step)
  /\ UNCHANGED <<plan, ask, ruling, checks>>

(* evaluate_test_assertions.                                                  *)
CheckResults ==
  /\ ruling = "accepted" /\ step = "" /\ checks = "none" /\ ask.asserts # {}
  /\ checks' = IF \A s \in ask.asserts : made[s] \in {"whole", "no optional"}
               THEN "passed" ELSE "failed"
  /\ UNCHANGED <<plan, ask, ruling, made, step, uses>>

ManualNext == (ruling = "none" /\ \E q \in Requests : AskToRun(q)) \/ SaveMeanwhile \/ PerformManual \/ CheckResults
ManualSpec == ManualInit /\ [][ManualNext]_manualVars

----------------------------------------------------------------------------
(* Properties.                                                                *)
(* An accepted request gives what its part of the rule needs: a reference     *)
(* finds nothing only if the step it names ran in this part and was skipped,  *)
(* failed or made no such field, or if the (unchecked) event lacks the field. *)
(* Steps outside the part do not run, and what was given is not overwritten.  *)
ManualRunsFounded ==
  ruling = "accepted" =>
    /\ \A r \in uses : r[2] = "missing" =>
         LET u == plan.use[r[1]] IN
         u.scope = "event" \/ (u.scope = "step" /\ u.node \in Selected(ask))
    /\ \A s \in RuleSteps \ Selected(ask) :
         made[s] = IF s \in Upstream(ask) /\ ask.outputs[s] # "nothing" THEN ask.outputs[s] ELSE NotMade
    /\ checks = "passed" => \A s \in ask.asserts : s \in Selected(ask)
=============================================================================
