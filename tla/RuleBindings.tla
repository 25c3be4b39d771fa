---------------------------- MODULE RuleBindings ----------------------------
(* References in a rule's actions (core/bindings.py, binding_schema.py,       *)
(* variables.py): a rule is accepted when every reference names a source that *)
(* is known and, for a step, completed on the way there; the executor then    *)
(* resolves them against what the run has produced. Every small rule is       *)
(* checked and, when accepted, run with every outcome of its actions.         *)
(* The rule: steps a, b and c in order. Step b is an action with the failure  *)
(* action f, or an "if" with branches <<d>> and <<e>>, or an assignment.      *)
EXTENDS Integers, Sequences, FiniteSets, SequencesExt

CONSTANT MaxReads        \* bound: steps of a rule that refer to data

VARIABLES document,      \* the rule
          frames,        \* the sequences being executed, innermost last
          records,       \* context["steps"]: what is recorded of each step
          variable,      \* context["variables"]: the run's one variable
          marked,        \* the sources marked as sensitive
          reads          \* history: <<reader, outcome>> of every resolution

bindingVars == <<document, frames, records, variable, marked, reads>>

Triggers == {"t1", "t2"}
StepIds == {"a", "b", "c", "d", "e", "f"}
NoRef == [scope |-> "none"]
Ref(scope, node, sure, policy) ==
  [scope |-> scope, node |-> node, sure |-> sure, policy |-> policy]
Policies == {"none", "skip", "default"}       \* on_missing; "none" raises

(* A field of a trigger may be declared sensitive: that of t2. A step's field *)
(* is one its output always has, or may lack.                                 *)
Refs == {Ref("trigger", t, TRUE, p) : t \in Triggers, p \in Policies}
          \cup {Ref("step", s, sure, p) : s \in StepIds, sure \in BOOLEAN, p \in Policies}
          \cup {Ref("variable", "v", TRUE, p) : p \in Policies}

----------------------------------------------------------------------------
(* check_rule_bindings: the walk of sequence() and the check of one           *)
(* reference with the steps completed so far.                                 *)
Steps(doc) == {"a", "b", "c"} \cup CASE doc.kind = "if" -> {"d", "e"}
                                     [] doc.kind = "action" -> {"f"}
                                     [] OTHER -> {}

(* Mutant: what a branch or a failure action completed stays available.       *)
AvailableAfterwards(doc, s) ==
  IF s = "a" THEN {} ELSE IF s = "c" THEN Steps(doc) \ {"c"} ELSE {"a"}

AvailableAt(doc, s) ==
  IF s = "a" THEN {}
  ELSE IF s = "c" THEN {"a"} \cup IF doc.kind = "if" THEN {} ELSE {"b"}
  ELSE {"a"}

ReferenceFits(doc, s) ==
  LET ref == doc.read[s] IN
  \/ ref.scope = "none"
  \/ /\ ref.scope = "step" => ref.node \in AvailableAt(doc, s)
     /\ ref.sure \/ ref.policy # "none"

Accepted(doc) == \A s \in Steps(doc) : ReferenceFits(doc, s)

----------------------------------------------------------------------------
(* Resolving a reference (unavailable_references, resolve_reference).         *)
NotThere == [present |-> FALSE]
Value(secret) == [present |-> TRUE, secret |-> secret]

Source(ref) ==
  CASE ref.scope = "trigger" -> IF ref.node \in document.fired THEN Value(ref.node = "t2") ELSE NotThere
    [] ref.scope = "variable" -> variable
    [] ref.scope = "step" ->
         IF records[ref.node].status = "ok" /\ (ref.sure \/ records[ref.node].full)
         THEN Value(records[ref.node].secret) ELSE NotThere

SourceFailed(ref) == ref.scope = "step" /\ records[ref.node].status = "failed"

(* What becomes of a reference in an action or an assignment: its value; the  *)
(* default; the step is skipped; or it fails.                                 *)
Resolution(ref) ==
  IF ref.scope = "none" THEN "literal"
  ELSE IF ref.policy # "none"
  THEN IF SourceFailed(ref) THEN "error"
       ELSE IF Source(ref).present THEN "value"
       ELSE ref.policy
  ELSE IF ref.scope = "variable" THEN IF variable.present THEN "value" ELSE "error"
  ELSE IF ref.scope = "step" /\ records[ref.node].status # "ok" THEN "skip"
  ELSE IF Source(ref).present THEN "value"
  ELSE "skip"

(* The outcome decides whether the datum is the source's.                     *)
Datum(ref) == IF Resolution(ref) = "value" THEN Source(ref).secret ELSE FALSE

(* expression_is_sensitive: the source is marked, used or not.                *)
Sensitive(ref) ==
  \/ ref.scope = "trigger" /\ ref.node = "t2"
  \/ ref.scope \in {"step", "variable"} /\ ref.node \in marked

----------------------------------------------------------------------------
(* The executor. A frame is a sequence being executed: the step that owns it, *)
(* whether its outcome counts for that step, what is left and whether all     *)
(* went well.                                                                 *)
Frame(owner, rest) == [owner |-> owner, rest |-> rest, ok |-> TRUE]
Top == frames[Len(frames)]
CurrentStep == Head(Top.rest)
Below == Front(frames)
Unrecorded == [status |-> "none", full |-> FALSE, secret |-> FALSE]
StepRecord(status, full, secret) == [status |-> status, full |-> full, secret |-> secret]

(* The frames after the current step ended; a failure ends its sequence       *)
(* unless the step says "continue".                                           *)
Advanced(fs, ok) ==
  LET n == Len(fs)
      s == Head(fs[n].rest) IN
  [fs EXCEPT ![n].rest = IF ok \/ s \in document.continues THEN Tail(@) ELSE <<>>,
             ![n].ok = @ /\ ok]

(* The second of two references follows up what the first one may have made.  *)
Chained == {r \in Refs : r.scope # "trigger" /\ r.policy # "skip"}

NoReads == [s \in StepIds |-> NoRef]
Documents ==
  UNION {[kind : {"action", "if", "assignment"}, fired : {{"t1"}, {"t2"}},
          continues : {{}, {"a", "b"}}, initial : BOOLEAN,
          read : {[NoReads EXCEPT ![s] = r, ![u] = q] : r \in Refs, q \in Chained \cup {NoRef}}] :
           s \in StepIds, u \in StepIds \ {"e"}}

(* Whether an output lacks its optional field matters if somebody reads it.   *)
Optional(s) == \E u \in StepIds : document.read[u].scope = "step" /\ document.read[u].node = s
                                     /\ ~document.read[u].sure

BindingsInit ==
  /\ document \in {doc \in Documents :
       /\ Cardinality({s \in StepIds : doc.read[s] # NoRef}) <= MaxReads
       /\ {s \in StepIds : doc.read[s] # NoRef} \subseteq Steps(doc)
       /\ doc.initial => \E s \in StepIds : doc.read[s].scope = "variable"
       /\ "t2" \in doc.fired => \E s \in StepIds : doc.read[s].scope = "trigger"
       /\ Accepted(doc)}
  /\ frames = <<Frame("rule", <<"a", "b", "c">>)>>
  /\ records = [s \in StepIds |-> Unrecorded]
  /\ variable = IF document.initial THEN Value(FALSE) ELSE NotThere
  /\ marked = {} /\ reads = {}

(* One action: skipped, not prepared (its data cannot be resolved), failed or *)
(* done, with all its outputs or without the optional one. What it was given  *)
(* it may give back.                                                          *)
PerformAction ==
  /\ frames # <<>> /\ Top.rest # <<>>
  /\ ~(CurrentStep = "b" /\ document.kind # "action")
  /\ LET s == CurrentStep
         ref == document.read[s]
         how == Resolution(ref) IN
     /\ reads' = reads \cup {<<s, how>>}
     /\ \E status \in {"ok", "failed", "skipped"}, full \in BOOLEAN :
          /\ (status = "skipped") = (how = "skip")
          /\ how = "error" => status = "failed"
          /\ full = (status = "ok") \/ (~full /\ Optional(s))
          /\ records' = [records EXCEPT ![s] = StepRecord(status, full, status = "ok" /\ Datum(ref))]
          /\ marked' = IF status = "ok" /\ Sensitive(ref) THEN marked \cup {s} ELSE marked
          /\ frames' = IF status = "failed" /\ s = "b"
                       THEN Append(Advanced(frames, FALSE), Frame("failure", <<"f">>))
                       ELSE Advanced(frames, status # "failed")
     /\ UNCHANGED <<document, variable>>

(* _execute_assignment and assign_variable.                                   *)
Assign ==
  /\ frames # <<>> /\ Top.rest # <<>> /\ CurrentStep = "b" /\ document.kind = "assignment"
  /\ LET ref == document.read["b"]
         how == Resolution(ref) IN
     /\ reads' = reads \cup {<<"b", how>>}
     /\ \E status \in {"ok", "failed", "skipped"} :
          /\ (status = "skipped") = (how = "skip")
          /\ how = "error" => status = "failed"
          /\ records' = [records EXCEPT !["b"] = StepRecord(status, status = "ok", status = "ok" /\ Datum(ref))]
          /\ variable' = IF status = "ok" THEN Value(Datum(ref)) ELSE variable
          /\ marked' = IF status # "ok" THEN marked
                       ELSE IF Sensitive(ref) THEN marked \cup {"v", "b"} ELSE marked \ {"v"}
          /\ frames' = Advanced(frames, status # "failed")
     /\ UNCHANGED document

(* _execute_if: a predicate over data that is not there fails the step.       *)
Decide ==
  /\ frames # <<>> /\ Top.rest # <<>> /\ CurrentStep = "b" /\ document.kind = "if"
  /\ LET how == Resolution(document.read["b"]) IN
     /\ reads' = reads \cup {<<"b", how>>}
     /\ IF how \in {"skip", "error"}
        THEN /\ frames' = Advanced(frames, FALSE)
             /\ records' = [records EXCEPT !["b"] = StepRecord("failed", FALSE, FALSE)]
        ELSE /\ \E branch \in {"d", "e"} : frames' = Append(frames, Frame("b", <<branch>>))
             /\ UNCHANGED records
  /\ UNCHANGED <<document, variable, marked>>

(* The end of a sequence: an "if" takes over its branch's outcome.            *)
EndSequence ==
  /\ frames # <<>> /\ Top.rest = <<>>
  /\ frames' = IF Top.owner = "b" THEN Advanced(Below, Top.ok) ELSE Below
  /\ records' = IF Top.owner = "b"
                THEN [records EXCEPT !["b"] = StepRecord(IF Top.ok THEN "ok" ELSE "failed", TRUE, FALSE)]
                ELSE records
  /\ UNCHANGED <<document, variable, marked, reads>>

BindingsNext == PerformAction \/ Assign \/ Decide \/ EndSequence
BindingsSpec == BindingsInit /\ [][BindingsNext]_bindingVars

----------------------------------------------------------------------------
(* Properties.                                                                *)

(* Every reference an accepted rule follows while it runs is founded: a step  *)
(* it names has been reached on this very path, so that its data are absent   *)
(* only because the step was skipped or failed, or lacks an optional output.  *)
SourcesReached ==
  \A s \in {r[1] : r \in reads} :
    document.read[s].scope = "step" => records[document.read[s].node].status # "none"

(* A default replaces data that are not there; it never hides that the step   *)
(* which should have made them failed.                                        *)
DefaultsHideNoFailure ==
  \A s \in StepIds : <<s, "default">> \in reads => ~SourceFailed(document.read[s])

(* Whatever was made of a sensitive source is marked as sensitive itself,     *)
(* through any chain of steps and assignments.                                *)
SecretsFollowed ==
  /\ \A s \in StepIds : records[s].secret => s \in marked
  /\ variable.present /\ variable.secret => "v" \in marked

BindingsHold == SourcesReached /\ DefaultsHideNoFailure /\ SecretsFollowed
=============================================================================
