-------------------------- MODULE WorkflowExecutor --------------------------
(***************************************************************************)
(* Execution of workflows: core/workflow_executor.py, with the cooperative *)
(* cancellation of core/workflow.py.                                       *)
(*                                                                         *)
(* Each run is interpreted on a worker thread of its own: a stack of       *)
(* action sequences (the workflow, the branch of an if, the failure        *)
(* actions of a step).  The threads share the shutdown event, the count of *)
(* active actions with its lock, and one cancel event per run.  What an    *)
(* action computes, binds or reports is a choice; whether and when the     *)
(* plugin is called, and what becomes of its answer, is not.               *)
(***************************************************************************)
EXTENDS Integers, Sequences, FiniteSets

CONSTANTS
  Run,         \* runs, each on its own thread
  Step,        \* the steps of the workflows; each occurs once
  Kind,        \* "action", "assign" (set_variable) or "if"
  Main,        \* the workflow of each run
  Then, Else,  \* the branches of an if
  OnFail,      \* failure_actions of an action
  Continuing,  \* steps with on_error: continue
  Retries,     \* retry of an action, 0 to 3
  Timed,       \* actions with timeout_seconds
  Asserted     \* runs that are manual tests with assertions

ASSUME ProgramAssumption ==
  /\ IsFiniteSet(Run)
  /\ Kind \in [Step -> {"action", "assign", "if"}]
  /\ Main \in [Run -> Seq(Step)]
  /\ Then \in [Step -> Seq(Step)]
  /\ Else \in [Step -> Seq(Step)]
  /\ OnFail \in [Step -> Seq(Step)]
  /\ Continuing \subseteq Step
  /\ Retries \in [Step -> 0..3]
  /\ Timed \subseteq Step
  /\ Asserted \subseteq Run

StepsOf(q) == {q[i] : i \in DOMAIN q}
Distinct(q) == \A i, j \in DOMAIN q : q[i] = q[j] => i = j
Branches(s) == StepsOf(Then[s]) \cup StepsOf(Else[s])
Children(s) == Branches(s) \cup StepsOf(OnFail[s])

(* Rules are refused unless the binding id of every step, nested ones       *)
(* included, is its own.                                                    *)
ASSUME EachStepOnce ==
  /\ \A r \in Run : Distinct(Main[r])
  /\ \A s \in Step : /\ Distinct(Then[s]) /\ Distinct(Else[s]) /\ Distinct(OnFail[s])
                     /\ Branches(s) \cap StepsOf(OnFail[s]) = {}
  /\ \A s, t \in Step : s # t => Children(s) \cap Children(t) = {}
  /\ \A r \in Run, s \in Step : StepsOf(Main[r]) \cap Children(s) = {}

(* Where a run's thread is: "new" before execute_workflow, "step" at the    *)
(* head of a sequence's loop, "entering" before and "trying", "calling",    *)
(* "leaving" while the action is counted as active, "settling" back in the  *)
(* loop with its answer, "over" past the actions, "decided" with a verdict, *)
(* "ended" past _finish_run.                                                *)
Phases == {"new", "step", "entering", "trying", "calling", "leaving",
           "settling", "over", "decided", "ended"}
Counted == {"trying", "calling", "leaving"}

Answers == {"ok", "failed", "cancelled", "timed_out"}
Statuses == Answers \cup {"none", "skipped"}
Verdicts == {"none", "succeeded", "failed", "cancelled", "rejected"}

(* An action sequence being executed: the steps left, all_ok so far,        *)
(* run_failure_actions, and what to do when it is over.                     *)
Roles == {"main", "branch", "failure"}
Frame == [todo : Seq(Step), ok : BOOLEAN, handles : BOOLEAN, role : Roles]

VARIABLES
  phase,          \* where each run's thread is
  stack,          \* its action sequences, innermost first
  status,         \* context["steps"][step]["status"]
  answer,         \* what run_action answers for the current action
  attempt,        \* attempts that failed already
  expired,        \* runs whose current action's deadline has passed
  cancelled,      \* runs whose cancel event is set
  verdict,        \* status of the run's terminal event
  shutdown,       \* the engine's shutdown event
  activeActions,  \* _active_actions
  drained         \* has wait_active_actions returned True?

vars == <<phase, stack, status, answer, attempt, expired, cancelled, verdict,
          shutdown, activeActions, drained>>

Init ==
  /\ phase = [r \in Run |-> "new"]
  /\ stack = [r \in Run |-> <<>>]
  /\ status = [r \in Run |-> [s \in Step |-> "none"]]
  /\ answer = [r \in Run |-> "failed"]
  /\ attempt = [r \in Run |-> 0]
  /\ expired = {}
  /\ cancelled = {}
  /\ verdict = [r \in Run |-> "none"]
  /\ shutdown = FALSE
  /\ activeActions = 0
  /\ drained = FALSE

Top(r) == Head(stack[r])
Current(r) == Head(Top(r).todo)

Goto(r, p) == phase' = [phase EXCEPT ![r] = p]
Mark(r, s, st) == status' = [status EXCEPT ![r] = [@ EXCEPT ![s] = st]]
Push(r, steps, handles, role) ==
  stack' = [stack EXCEPT ![r] =
    <<[todo |-> steps, ok |-> TRUE, handles |-> handles, role |-> role]>> \o @]

(* Mutant: the last step alone decides.                                     *)
AdvanceForgetful(f, good) ==
  [f EXCEPT !.ok = good,
            !.todo = IF good \/ Head(@) \in Continuing THEN Tail(@) ELSE <<>>]
(* Mutant: on_error: continue repeats the step.                             *)
AdvanceRepeating(f, good) ==
  [f EXCEPT !.ok = @ /\ good,
            !.todo = IF good THEN Tail(@) ELSE IF Head(@) \in Continuing THEN @ ELSE <<>>]

(* A sequence after its current step: a failure stops it unless the step    *)
(* says on_error: continue.                                                 *)
Advance(f, good) ==
  [f EXCEPT !.ok = @ /\ good,
            !.todo = IF good \/ Head(@) \in Continuing THEN Tail(@) ELSE <<>>]
StepOver(r, good) ==
  stack' = [stack EXCEPT ![r] = <<Advance(Head(@), good)>> \o Tail(@)]

-----------------------------------------------------------------------------
(* Entering execute_workflow.  A run whose bindings cannot be prepared is   *)
(* rejected; one whose cancel event is set already does not begin.          *)
Start(r) ==
  /\ phase[r] = "new"
  /\ \/ /\ Goto(r, "decided")
        /\ verdict' = [verdict EXCEPT ![r] = "rejected"]
        /\ UNCHANGED stack
     \/ /\ r \in cancelled
        /\ Goto(r, "decided")
        /\ verdict' = [verdict EXCEPT ![r] = "cancelled"]
        /\ UNCHANGED stack
     \/ /\ r \notin cancelled
        /\ Goto(r, "step")
        /\ Push(r, Main[r], TRUE, "main")
        /\ UNCHANGED verdict
  /\ UNCHANGED <<status, answer, attempt, expired, cancelled, shutdown,
                 activeActions, drained>>

-----------------------------------------------------------------------------
(* The loop of _execute_action_sequence.                                    *)

AtStep(r, kind) ==
  /\ phase[r] = "step"
  /\ Top(r).todo # <<>>
  /\ r \notin cancelled
  /\ Kind[Current(r)] = kind

(* The data a step refers to did not take part in this run.                 *)
SkipStep(r) ==
  /\ AtStep(r, "action") \/ AtStep(r, "assign")
  /\ Mark(r, Current(r), "skipped")
  /\ StepOver(r, TRUE)
  /\ UNCHANGED <<phase, answer, attempt, expired, cancelled, verdict, shutdown,
                 activeActions, drained>>

Assign(r) ==
  /\ AtStep(r, "assign")
  /\ \E good \in BOOLEAN :
       /\ Mark(r, Current(r), IF good THEN "ok" ELSE "failed")
       /\ StepOver(r, good)
  /\ UNCHANGED <<phase, answer, attempt, expired, cancelled, verdict, shutdown,
                 activeActions, drained>>

(* The condition of an if selects a branch or cannot be evaluated.          *)
EvaluateIf(r) ==
  /\ AtStep(r, "if")
  /\ \/ /\ \E steps \in {Then[Current(r)], Else[Current(r)]} :
             Push(r, steps, Top(r).handles, "branch")
        /\ UNCHANGED status
     \/ /\ Mark(r, Current(r), "failed")
        /\ StepOver(r, FALSE)
  /\ UNCHANGED <<phase, answer, attempt, expired, cancelled, verdict, shutdown,
                 activeActions, drained>>

(* run_action up to the lock: refused during shutdown; the parameters may   *)
(* not be prepared.                                                         *)
RunAction(r) ==
  /\ AtStep(r, "action")
  /\ \/ /\ Goto(r, "settling")
        /\ answer' = [answer EXCEPT ![r] = "failed"]
     \/ /\ ~shutdown
        /\ Goto(r, "entering")
        /\ UNCHANGED answer
  /\ UNCHANGED <<stack, status, attempt, expired, cancelled, verdict, shutdown,
                 activeActions, drained>>

(* Mutant: shutdown is not looked at under the lock.                        *)
EnterUnchecked(r) ==
  /\ phase[r] = "entering"
  /\ Goto(r, "trying")
  /\ activeActions' = activeActions + 1
  /\ attempt' = [attempt EXCEPT ![r] = 0]
  /\ expired' = expired \ {r}
  /\ UNCHANGED <<stack, status, answer, cancelled, verdict, shutdown, drained>>

(* run_action under the lock: shutdown is looked at again before the action *)
(* counts as active.                                                        *)
Enter(r) ==
  /\ phase[r] = "entering"
  /\ IF shutdown
     THEN /\ Goto(r, "settling")
          /\ answer' = [answer EXCEPT ![r] = "failed"]
          /\ UNCHANGED <<activeActions, attempt, expired>>
     ELSE /\ Goto(r, "trying")
          /\ activeActions' = activeActions + 1
          /\ attempt' = [attempt EXCEPT ![r] = 0]
          /\ expired' = expired \ {r}
          /\ UNCHANGED answer
  /\ UNCHANGED <<stack, status, cancelled, verdict, shutdown, drained>>

-----------------------------------------------------------------------------
(* One action while it is active.                                           *)

(* ActionCancellation.reason: a shutdown or the run's cancel event comes    *)
(* before the action's own deadline.                                        *)
Stopped(r) == shutdown \/ r \in cancelled \/ r \in expired
StopAnswer(r) == IF shutdown \/ r \in cancelled THEN "cancelled" ELSE "timed_out"

Reply(r, a) ==
  /\ Goto(r, "leaving")
  /\ answer' = [answer EXCEPT ![r] = a]
  /\ UNCHANGED attempt

(* The next attempt: after a pause, which ends early when the action is     *)
(* stopped, the plugin is called unless it is stopped.                      *)
Try(r) ==
  /\ phase[r] = "trying"
  /\ IF Stopped(r) THEN Reply(r, StopAnswer(r))
     ELSE Goto(r, "calling") /\ UNCHANGED <<answer, attempt>>
  /\ UNCHANGED <<stack, status, expired, cancelled, verdict, shutdown,
                 activeActions, drained>>

(* The plugin returns; its result is thrown away if the action has been     *)
(* stopped meanwhile.                                                       *)
CallReturns(r) ==
  /\ phase[r] = "calling"
  /\ Reply(r, IF Stopped(r) THEN StopAnswer(r) ELSE "ok")
  /\ UNCHANGED <<stack, status, expired, cancelled, verdict, shutdown,
                 activeActions, drained>>

(* The plugin raises what the cancellation object told it.                  *)
CallGivesUp(r) ==
  /\ phase[r] = "calling"
  /\ Stopped(r)
  /\ Reply(r, StopAnswer(r))
  /\ UNCHANGED <<stack, status, expired, cancelled, verdict, shutdown,
                 activeActions, drained>>

(* Mutant: every attempt has a deadline of its own.                         *)
CallFailsAfresh(r) ==
  /\ phase[r] = "calling"
  /\ \/ /\ attempt[r] < Retries[Current(r)]
        /\ attempt' = [attempt EXCEPT ![r] = @ + 1]
        /\ expired' = expired \ {r}
        /\ Goto(r, "trying")
        /\ UNCHANGED answer
     \/ Reply(r, "failed") /\ UNCHANGED expired
  /\ UNCHANGED <<stack, status, cancelled, verdict, shutdown, activeActions, drained>>

(* The plugin fails: another attempt, unless there is none left or          *)
(* administrator rights were refused.                                       *)
CallFails(r) ==
  /\ phase[r] = "calling"
  /\ \/ /\ attempt[r] < Retries[Current(r)]
        /\ attempt' = [attempt EXCEPT ![r] = @ + 1]
        /\ Goto(r, "trying")
        /\ UNCHANGED answer
     \/ Reply(r, "failed")
  /\ UNCHANGED <<stack, status, expired, cancelled, verdict, shutdown,
                 activeActions, drained>>

(* The deadline of the current action passes; it covers every attempt.      *)
Expire(r) ==
  /\ phase[r] \in {"trying", "calling"}
  /\ Current(r) \in Timed
  /\ expired' = expired \cup {r}
  /\ UNCHANGED <<phase, stack, status, answer, attempt, cancelled, verdict,
                 shutdown, activeActions, drained>>

(* Mutant: only a successful action is taken out of the count.              *)
LeaveWhenOk(r) ==
  /\ phase[r] = "leaving"
  /\ Goto(r, "settling")
  /\ activeActions' = IF answer[r] = "ok" THEN activeActions - 1 ELSE activeActions
  /\ UNCHANGED <<stack, status, answer, attempt, expired, cancelled, verdict,
                 shutdown, drained>>

(* The finally block of run_action.                                         *)
Leave(r) ==
  /\ phase[r] = "leaving"
  /\ Goto(r, "settling")
  /\ activeActions' = activeActions - 1
  /\ UNCHANGED <<stack, status, answer, attempt, expired, cancelled, verdict,
                 shutdown, drained>>

-----------------------------------------------------------------------------
(* Mutant: whatever is not a success has failure actions.                   *)
HasFailureActionsUnlessOk(r) ==
  answer[r] # "ok" /\ Top(r).handles /\ OnFail[Current(r)] # <<>>

(* Failure actions follow a plain failure only.                             *)
HasFailureActions(r) ==
  answer[r] = "failed" /\ Top(r).handles /\ OnFail[Current(r)] # <<>>

(* Back in the loop with the answer: a cancelled action, also one stopped   *)
(* by the engine's shutdown, cancels the run.                               *)
Settle(r) ==
  /\ phase[r] = "settling"
  /\ Goto(r, "step")
  /\ Mark(r, Current(r), answer[r])
  /\ cancelled' = IF answer[r] = "cancelled" THEN cancelled \cup {r} ELSE cancelled
  /\ IF HasFailureActions(r)
     THEN Push(r, OnFail[Current(r)], FALSE, "failure")
     ELSE StepOver(r, answer[r] = "ok")
  /\ UNCHANGED <<answer, attempt, expired, verdict, shutdown, activeActions, drained>>

(* The loop ends: no step left, or the cancel event is set before the next. *)
Finished(r) ==
  /\ phase[r] = "step"
  /\ Top(r).todo = <<>> \/ r \in cancelled
AllOk(r) == Top(r).ok /\ Top(r).todo = <<>>

(* Back to the sequence that contains the one that ended.                   *)
BackTo(r, good) ==
  stack' = [stack EXCEPT ![r] = <<Advance(@[2], good)>> \o Tail(Tail(@))]

MainEnds(r) ==
  /\ Finished(r)
  /\ Top(r).role = "main"
  /\ Goto(r, "over")
  /\ verdict' = [verdict EXCEPT ![r] = IF AllOk(r) THEN "succeeded" ELSE "failed"]
  /\ stack' = [stack EXCEPT ![r] = <<>>]
  /\ UNCHANGED <<status, answer, attempt, expired, cancelled, shutdown,
                 activeActions, drained>>

BranchEnds(r) ==
  /\ Finished(r)
  /\ Top(r).role = "branch"
  /\ Mark(r, Head(stack[r][2].todo), IF AllOk(r) THEN "ok" ELSE "failed")
  /\ BackTo(r, AllOk(r))
  /\ UNCHANGED <<phase, answer, attempt, expired, cancelled, verdict, shutdown,
                 activeActions, drained>>

(* The result of failure actions does not matter: their step has failed.    *)
FailureActionsEnd(r) ==
  /\ Finished(r)
  /\ Top(r).role = "failure"
  /\ BackTo(r, FALSE)
  /\ UNCHANGED <<phase, status, answer, attempt, expired, cancelled, verdict,
                 shutdown, activeActions, drained>>

-----------------------------------------------------------------------------
(* Mutant: the cancel event is not looked at again after the actions.       *)
JudgeDeaf(r) ==
  /\ phase[r] = "over"
  /\ Goto(r, "decided")
  /\ \/ UNCHANGED verdict
     \/ r \in Asserted /\ verdict' = [verdict EXCEPT ![r] = "failed"]
  /\ UNCHANGED <<stack, status, answer, attempt, expired, cancelled, shutdown,
                 activeActions, drained>>

(* The end of execute_workflow: the cancel event is looked at for the last  *)
(* time after the assertions of a manual test were evaluated.               *)
Judge(r) ==
  /\ phase[r] = "over"
  /\ Goto(r, "decided")
  /\ IF r \in cancelled
     THEN verdict' = [verdict EXCEPT ![r] = "cancelled"]
     ELSE \/ UNCHANGED verdict
          \/ r \in Asserted /\ verdict' = [verdict EXCEPT ![r] = "failed"]
  /\ UNCHANGED <<stack, status, answer, attempt, expired, cancelled, shutdown,
                 activeActions, drained>>

(* _finish_run, then the terminal event.                                    *)
Finish(r) ==
  /\ phase[r] = "decided"
  /\ Goto(r, "ended")
  /\ UNCHANGED <<stack, status, answer, attempt, expired, cancelled, verdict,
                 shutdown, activeActions, drained>>

(* cancel_run finds the event of every run that was prepared (which the     *)
(* scheduler does before the run starts) and is not finished.               *)
CancelRun(r) ==
  /\ phase[r] # "ended"
  /\ cancelled' = cancelled \cup {r}
  /\ UNCHANGED <<phase, stack, status, answer, attempt, expired, verdict,
                 shutdown, activeActions, drained>>

(* The engine: set the shutdown event, then wait_active_actions.            *)
BeginShutdown ==
  /\ shutdown' = TRUE
  /\ UNCHANGED <<phase, stack, status, answer, attempt, expired, cancelled,
                 verdict, activeActions, drained>>

Drain ==
  /\ shutdown
  /\ activeActions = 0
  /\ drained' = TRUE
  /\ UNCHANGED <<phase, stack, status, answer, attempt, expired, cancelled,
                 verdict, shutdown, activeActions>>

-----------------------------------------------------------------------------
Loop(r) ==
  \/ SkipStep(r) \/ Assign(r) \/ EvaluateIf(r) \/ RunAction(r) \/ Settle(r)
  \/ MainEnds(r) \/ BranchEnds(r) \/ FailureActionsEnd(r)

Plugin(r) == CallReturns(r) \/ CallGivesUp(r) \/ CallFails(r)

Thread(r) ==
  \/ Start(r) \/ Loop(r) \/ Enter(r) \/ Try(r) \/ Leave(r) \/ Judge(r) \/ Finish(r)

Next ==
  \/ \E r \in Run : Thread(r) \/ Plugin(r) \/ Expire(r) \/ CancelRun(r)
  \/ BeginShutdown
  \/ Drain

Spec == Init /\ [][Next]_vars

(* Threads keep going and the engine waits for them; a plugin may hang, and *)
(* nobody has to cancel anything or to shut the engine down.                *)
FairSpec ==
  /\ Spec
  /\ \A r \in Run : WF_vars(Thread(r))
  /\ WF_vars(Drain)

-----------------------------------------------------------------------------
(* Properties.                                                              *)

(* The type invariant; an action is tried at most Retries + 1 times and     *)
(* every run counts for at most one active action.                          *)
TypeOK ==
  /\ phase \in [Run -> Phases]
  /\ stack \in [Run -> Seq(Frame)]
  /\ status \in [Run -> [Step -> Statuses]]
  /\ answer \in [Run -> Answers]
  /\ attempt \in [Run -> 0..3]
  /\ expired \subseteq Run
  /\ cancelled \subseteq Run
  /\ verdict \in [Run -> Verdicts]
  /\ shutdown \in BOOLEAN
  /\ activeActions \in 0..Cardinality(Run)
  /\ drained \in BOOLEAN

(* Once the engine has seen no active action after setting its shutdown     *)
(* event, and so may tear the plugins down, no plugin is being called and   *)
(* none will be (workflow_executor.py 842-862, 920-929).                    *)
QuietAfterDrain ==
  drained => activeActions = 0 /\ \A r \in Run : phase[r] \notin Counted

Went(r, statuses) == {s \in Step : status[r][s] \in statuses}

(* The verdict is borne out by the steps, through branches, failure         *)
(* actions and on_error: continue: success means that every step of the     *)
(* workflow was done or skipped and nothing anywhere failed, failure that   *)
(* something failed or ran out of time or an assertion did not hold, a      *)
(* cancelled run was told to stop, a rejected one did nothing.              *)
VerdictJustified ==
  \A r \in Run : phase[r] \in {"decided", "ended"} =>
    /\ verdict[r] = "succeeded" =>
         /\ Went(r, {"none", "ok", "skipped"}) = Step
         /\ \A i \in DOMAIN Main[r] : status[r][Main[r][i]] # "none"
    /\ verdict[r] = "failed" => Went(r, {"failed", "timed_out"}) # {} \/ r \in Asserted
    /\ verdict[r] = "cancelled" => r \in cancelled
    /\ verdict[r] = "rejected" => Went(r, {"none"}) = Step

(* Failure actions are only ever run for a step that failed: not for one    *)
(* that was cancelled, ran out of time or has not been run                  *)
(* (workflow_executor.py 484-502).                                          *)
FailureActionsJustified ==
  \A r \in Run, s \in Step : \A i \in DOMAIN OnFail[s] :
    status[r][OnFail[s][i]] # "none" => status[r][s] = "failed"

(* An action that has been stopped - by its deadline, which covers all      *)
(* attempts, by its run's cancel event or by the engine's shutdown - stays  *)
(* stopped, is not called again and does not report success                 *)
(* (workflow_executor.py 707-718, 878-910).                                 *)
StoppedActionsGiveUp ==
  [][\A r \in Run : Stopped(r) /\ phase[r] \in {"trying", "calling"} =>
       /\ Stopped(r)'
       /\ phase'[r] = "calling" => phase[r] = "calling"
       /\ phase'[r] = "leaving" => answer'[r] # "ok"]_vars

(* Every run ends, unless a plugin it called hangs for ever.                *)
RunsEnd ==
  \A r \in Run : (phase[r] # "ended" ~> phase[r] = "ended") \/ <>[](phase[r] = "calling")

(* After the shutdown event the wait for active actions ends, unless a      *)
(* plugin hangs for ever.                                                   *)
ShutdownCompletes ==
  (shutdown ~> drained) \/ \E r \in Run : <>[](phase[r] = "calling")

-----------------------------------------------------------------------------
(* The executor implements RunPassage.                                      *)
Stage(p) ==
  CASE p = "new" -> "new"
    [] p = "decided" -> "decided"
    [] p = "ended" -> "reported"
    [] OTHER -> "running"
Said(v) ==
  CASE v = "cancelled" -> "cancelled"
    [] v = "rejected" -> "crashed"
    [] OTHER -> "completed"

Passage == INSTANCE RunPassage WITH
  stage <- [r \in Run |-> Stage(phase[r])],
  told <- cancelled,
  verdict <- [r \in Run |->
    IF phase[r] \in {"decided", "ended"} THEN Said(verdict[r]) ELSE "none"]

(* A run whose steps have begun is decided "cancelled" exactly when its     *)
(* cancel event has been set by then, and a verdict is final.               *)
ImplementsPassage == Passage!Spec
=============================================================================
