----------------------- MODULE WorkflowExecutor_proofs ----------------------
(***************************************************************************)
(* Proofs about WorkflowExecutor, for every program and any number of      *)
(* runs: the quiet after the drain; its types, with the shape of the       *)
(* stacks they depend on; that stopped actions give up; that it implements *)
(* RunPassage; and that failure actions and verdicts are borne out by the  *)
(* statuses of the steps.                                                  *)
(***************************************************************************)
EXTENDS WorkflowExecutor, FiniteSetTheorems, TLAPS

(* The shape of a run's stack: the workflow at the bottom, and under every  *)
(* other sequence the step that started it.                                 *)
WellStacked(s) ==
  /\ s \in Seq(Frame)
  /\ \A i \in 1..Len(s) :
       /\ s[i].role = "main" <=> i = Len(s)
       /\ i # 1 => s[i].todo # <<>>

LEMMA FrameFields ==
  ASSUME NEW f \in Frame
  PROVE  /\ f.todo \in Seq(Step)
         /\ f.ok \in BOOLEAN
         /\ f.handles \in BOOLEAN
         /\ f.role \in Roles
  BY DEF Frame

LEMMA AdvanceType ==
  ASSUME NEW f \in Frame, f.todo # <<>>, NEW good \in BOOLEAN
  PROVE  Advance(f, good) \in Frame /\ Advance(f, good).role = f.role
<1>1. Tail(f.todo) \in Seq(Step) /\ <<>> \in Seq(Step)
  BY FrameFields
<1>2. (f.ok /\ good) \in BOOLEAN
  OBVIOUS
<1>3. ASSUME NEW b \in BOOLEAN, NEW t \in Seq(Step)
      PROVE  /\ [f EXCEPT !.ok = b, !.todo = t] \in Frame
             /\ [f EXCEPT !.ok = b, !.todo = t].role = f.role
  BY DEF Frame
<1> QED
  BY <1>1, <1>2, <1>3 DEF Advance

LEMMA PutOnTop ==
  ASSUME NEW s \in Seq(Frame), NEW f \in Frame
  PROVE  /\ <<f>> \o s \in Seq(Frame)
         /\ Len(<<f>> \o s) = Len(s) + 1
         /\ (<<f>> \o s)[1] = f
         /\ \A i \in 2..Len(s) + 1 : (<<f>> \o s)[i] = s[i - 1]
         /\ Head(<<f>> \o s) = f
         /\ <<f>> \o s # <<>>
  OBVIOUS

LEMMA Pushed ==
  ASSUME NEW s, WellStacked(s), s # <<>>, Head(s).todo # <<>>,
         NEW f \in Frame, f.role # "main"
  PROVE  WellStacked(<<f>> \o s)
<1>1. s \in Seq(Frame) /\ Len(s) \in Nat /\ Len(s) > 0 /\ s[1].todo # <<>>
  BY DEF WellStacked
<1>2. ASSUME NEW i \in 1..Len(s) + 1
      PROVE  /\ (<<f>> \o s)[i].role = "main" <=> i = Len(s) + 1
             /\ i # 1 => (<<f>> \o s)[i].todo # <<>>
  <2>1. CASE i = 1
    BY <1>1, <2>1, PutOnTop
  <2>2. CASE i # 1
    <3>1. (<<f>> \o s)[i] = s[i - 1] /\ i - 1 \in 1..Len(s)
      BY <1>1, <2>2, PutOnTop
    <3> QED
      BY <1>1, <2>2, <3>1 DEF WellStacked
  <2> QED
    BY <2>1, <2>2
<1> QED
  BY <1>1, <1>2, PutOnTop DEF WellStacked

(* Dropping frames from the top and putting one in their place that has the *)
(* role of the last one dropped.                                            *)
LEMMA Replaced ==
  ASSUME NEW s, WellStacked(s), NEW n \in 1..Len(s), NEW f \in Frame,
         f.role = s[n].role, NEW t, t \in Seq(Frame), Len(t) = Len(s) - n,
         \A i \in 1..Len(t) : t[i] = s[i + n]
  PROVE  WellStacked(<<f>> \o t)
<1>1. s \in Seq(Frame) /\ Len(s) \in Nat /\ Len(t) \in Nat /\ n \in Nat
  BY DEF WellStacked
<1>2. ASSUME NEW i \in 1..Len(t) + 1
      PROVE  /\ (<<f>> \o t)[i].role = "main" <=> i = Len(t) + 1
             /\ i # 1 => (<<f>> \o t)[i].todo # <<>>
  <2>1. CASE i = 1
    <3>1. (<<f>> \o t)[i] = f
      BY <2>1, PutOnTop
    <3>2. f.role = "main" <=> n = Len(s)
      BY DEF WellStacked
    <3> QED
      BY <1>1, <2>1, <3>1, <3>2
  <2>2. CASE i # 1
    <3>1. (<<f>> \o t)[i] = t[i - 1] /\ i - 1 \in 1..Len(t)
      BY <1>1, <2>2, PutOnTop
    <3>2. (<<f>> \o t)[i] = s[i - 1 + n] /\ i - 1 + n \in 1..Len(s) /\ i - 1 + n # 1
      BY <1>1, <3>1
    <3>3. /\ s[i - 1 + n].role = "main" <=> i - 1 + n = Len(s)
          /\ s[i - 1 + n].todo # <<>>
      BY <3>2 DEF WellStacked
    <3> QED
      BY <1>1, <2>2, <3>2, <3>3
  <2> QED
    BY <2>1, <2>2
<1>3. <<f>> \o t \in Seq(Frame) /\ Len(<<f>> \o t) = Len(t) + 1
  BY PutOnTop
<1> QED
  BY <1>2, <1>3 DEF WellStacked

LEMMA TopReplaced ==
  ASSUME NEW s, WellStacked(s), s # <<>>, Head(s).todo # <<>>, NEW good \in BOOLEAN
  PROVE  /\ WellStacked(<<Advance(Head(s), good)>> \o Tail(s))
         /\ <<Advance(Head(s), good)>> \o Tail(s) # <<>>
<1>1. /\ s \in Seq(Frame) /\ Head(s) = s[1] /\ Head(s) \in Frame /\ 1 \in 1..Len(s)
      /\ Tail(s) \in Seq(Frame) /\ Len(Tail(s)) = Len(s) - 1
      /\ \A i \in 1..Len(Tail(s)) : Tail(s)[i] = s[i + 1]
  BY DEF WellStacked
<1>2. Advance(Head(s), good) \in Frame /\ Advance(Head(s), good).role = s[1].role
  BY <1>1, AdvanceType
<1>3. WellStacked(<<Advance(Head(s), good)>> \o Tail(s))
  BY <1>1, <1>2, Replaced
<1> QED
  BY <1>1, <1>2, <1>3, PutOnTop

LEMMA SecondReplaced ==
  ASSUME NEW s, WellStacked(s), s # <<>>, Head(s).role # "main", NEW good \in BOOLEAN
  PROVE  /\ s[2].todo \in Seq(Step) /\ s[2].todo # <<>>
         /\ WellStacked(<<Advance(s[2], good)>> \o Tail(Tail(s)))
         /\ <<Advance(s[2], good)>> \o Tail(Tail(s)) # <<>>
<1>1. s \in Seq(Frame) /\ Head(s) = s[1] /\ 1 \in 1..Len(s) /\ Len(s) \in Nat
  BY DEF WellStacked
<1>2. Len(s) # 1
  BY <1>1 DEF WellStacked
<1>3. 2 \in 1..Len(s) /\ s[2] \in Frame
  BY <1>1, <1>2
<1>4. s[2].todo \in Seq(Step) /\ s[2].todo # <<>>
  BY <1>3, FrameFields DEF WellStacked
<1>5. /\ Tail(Tail(s)) \in Seq(Frame) /\ Len(Tail(Tail(s))) = Len(s) - 2
      /\ \A i \in 1..Len(Tail(Tail(s))) : Tail(Tail(s))[i] = s[i + 2]
  <2>1. /\ Tail(s) \in Seq(Frame) /\ Len(Tail(s)) = Len(s) - 1
        /\ \A i \in 1..Len(Tail(s)) : Tail(s)[i] = s[i + 1]
    BY <1>1
  <2>2. PICK t \in Seq(Frame) : t = Tail(s)
    BY <2>1
  <2>3. /\ Tail(t) \in Seq(Frame) /\ Len(Tail(t)) = Len(t) - 1
        /\ \A i \in 1..Len(Tail(t)) : Tail(t)[i] = t[i + 1] /\ i + 1 \in 1..Len(t)
    <3>1. Len(t) = Len(s) - 1 /\ Len(s) >= 2
      BY <1>1, <1>3, <2>1, <2>2
    <3> QED
      BY <3>1
  <2> QED
    BY <1>1, <2>1, <2>2, <2>3
<1>6. Advance(s[2], good) \in Frame /\ Advance(s[2], good).role = s[2].role
  BY <1>3, <1>4, AdvanceType
<1>7. WellStacked(<<Advance(s[2], good)>> \o Tail(Tail(s)))
  BY <1>3, <1>5, <1>6, Replaced
<1> QED
  BY <1>4, <1>5, <1>6, <1>7, PutOnTop

-----------------------------------------------------------------------------
(* Quiet after the drain: the count of active actions is the number of runs *)
(* that are inside an action, and no run gets inside during a shutdown.     *)

CountedRuns == {r \in Run : phase[r] \in Counted}

DrainInv ==
  /\ phase \in [Run -> Phases]
  /\ shutdown \in BOOLEAN
  /\ drained \in BOOLEAN
  /\ activeActions = Cardinality(CountedRuns)
  /\ drained => shutdown /\ CountedRuns = {}

LEMMA CountedFinite ==
  IsFiniteSet(CountedRuns) /\ Cardinality(CountedRuns) \in Nat
  BY ProgramAssumption, FS_Subset, FS_CardinalityType DEF CountedRuns

LEMMA CountedSame ==
  ASSUME DrainInv, NEW r \in Run, NEW p \in Phases, Goto(r, p),
         p \in Counted <=> phase[r] \in Counted
  PROVE  phase' \in [Run -> Phases] /\ CountedRuns' = CountedRuns
  BY DEF DrainInv, Goto, CountedRuns

LEMMA DrainKept ==
  ASSUME DrainInv, phase' \in [Run -> Phases], CountedRuns' = CountedRuns,
         shutdown' = shutdown, drained' = drained, activeActions' = activeActions
  PROVE  DrainInv'
  BY DEF DrainInv

LEMMA DrainInvStep == DrainInv /\ [Next]_vars => DrainInv'
<1> SUFFICES ASSUME DrainInv, [Next]_vars PROVE DrainInv'
  OBVIOUS
<1>0. phase \in [Run -> Phases]
  BY DEF DrainInv
<1>1. ASSUME NEW r \in Run, Start(r) PROVE DrainInv'
  BY <1>1, CountedSame, DrainKept DEF Start, Phases, Counted
<1>2. ASSUME NEW r \in Run, SkipStep(r) \/ Assign(r) \/ EvaluateIf(r) \/ BranchEnds(r)
                            \/ FailureActionsEnd(r) \/ Expire(r) \/ CancelRun(r)
      PROVE  DrainInv'
  <2>1. UNCHANGED <<phase, shutdown, drained, activeActions>>
    BY <1>2 DEF SkipStep, Assign, EvaluateIf, BranchEnds, FailureActionsEnd, Expire, CancelRun
  <2> QED
    BY <2>1 DEF DrainInv, CountedRuns
<1>3. ASSUME NEW r \in Run, RunAction(r) PROVE DrainInv'
  BY <1>3, CountedSame, DrainKept DEF RunAction, AtStep, Phases, Counted
<1>4. ASSUME NEW r \in Run, Settle(r) PROVE DrainInv'
  BY <1>4, CountedSame, DrainKept DEF Settle, Phases, Counted
<1>5. ASSUME NEW r \in Run, MainEnds(r) PROVE DrainInv'
  BY <1>5, CountedSame, DrainKept DEF MainEnds, Finished, Phases, Counted
<1>6. ASSUME NEW r \in Run, Judge(r) PROVE DrainInv'
  BY <1>6, CountedSame, DrainKept DEF Judge, Phases, Counted
<1>7. ASSUME NEW r \in Run, Finish(r) PROVE DrainInv'
  BY <1>7, CountedSame, DrainKept DEF Finish, Phases, Counted
<1>8. ASSUME NEW r \in Run, Try(r) PROVE DrainInv'
  BY <1>8, CountedSame, DrainKept DEF Try, Reply, Phases, Counted
<1>9. ASSUME NEW r \in Run, Plugin(r) PROVE DrainInv'
  BY <1>9, CountedSame, DrainKept
  DEF Plugin, CallReturns, CallGivesUp, CallFails, Reply, Phases, Counted
<1>10. ASSUME NEW r \in Run, Enter(r) PROVE DrainInv'
  <2>1. CASE shutdown
    BY <1>10, <2>1, CountedSame, DrainKept DEF Enter, Phases, Counted
  <2>2. CASE ~shutdown
    <3>1. /\ phase' = [phase EXCEPT ![r] = "trying"] /\ r \notin CountedRuns
          /\ activeActions' = activeActions + 1
          /\ UNCHANGED <<shutdown, drained>>
      BY <1>10, <2>2 DEF Enter, Goto, CountedRuns, Counted
    <3>2. CountedRuns' = CountedRuns \cup {r} /\ phase' \in [Run -> Phases]
      BY <1>0, <3>1 DEF CountedRuns, Counted, Phases
    <3>3. Cardinality(CountedRuns') = Cardinality(CountedRuns) + 1
      BY <3>1, <3>2, CountedFinite, FS_AddElement
    <3> QED
      BY <2>2, <3>1, <3>2, <3>3 DEF DrainInv
  <2> QED
    BY <2>1, <2>2
<1>11. ASSUME NEW r \in Run, Leave(r) PROVE DrainInv'
  <2>1. /\ phase' = [phase EXCEPT ![r] = "settling"] /\ r \in CountedRuns
        /\ activeActions' = activeActions - 1
        /\ UNCHANGED <<shutdown, drained>>
    BY <1>11 DEF Leave, Goto, CountedRuns, Counted
  <2>2. CountedRuns' = CountedRuns \ {r} /\ phase' \in [Run -> Phases]
    BY <1>0, <2>1 DEF CountedRuns, Counted, Phases
  <2>3. Cardinality(CountedRuns') = Cardinality(CountedRuns) - 1
    BY <2>1, <2>2, CountedFinite, FS_RemoveElement
  <2> QED
    BY <2>1, <2>2, <2>3 DEF DrainInv
<1>12. CASE BeginShutdown
  BY <1>12 DEF BeginShutdown, DrainInv, CountedRuns
<1>13. CASE Drain
  <2>1. CountedRuns = {}
    BY <1>13, CountedFinite, FS_EmptySet DEF Drain, DrainInv
  <2> QED
    BY <1>13, <2>1 DEF Drain, DrainInv, CountedRuns
<1>14. CASE UNCHANGED vars
  BY <1>14 DEF vars, DrainInv, CountedRuns
<1> QED
  BY <1>1, <1>2, <1>3, <1>4, <1>5, <1>6, <1>7, <1>8, <1>9, <1>10, <1>11, <1>12,
     <1>13, <1>14 DEF Next, Thread, Loop

(* Once wait_active_actions has returned True during a shutdown, no plugin  *)
(* is being called and none will be, whatever the workflows are.            *)
THEOREM QuietCorrect == Spec => []QuietAfterDrain
<1>1. Init => DrainInv
  <2> SUFFICES ASSUME Init PROVE DrainInv
    OBVIOUS
  <2>1. CountedRuns = {}
    BY DEF Init, CountedRuns, Counted
  <2> QED
    BY <2>1, FS_EmptySet DEF Init, DrainInv, Phases
<1>2. DrainInv => QuietAfterDrain
  <2> SUFFICES ASSUME DrainInv, drained PROVE QuietAfterDrain
    BY DEF QuietAfterDrain
  <2>1. CountedRuns = {} /\ activeActions = Cardinality(CountedRuns)
    BY DEF DrainInv
  <2> QED
    BY <2>1, FS_EmptySet DEF QuietAfterDrain, CountedRuns
<1> QED
  BY <1>1, <1>2, DrainInvStep, PTL DEF Spec

-----------------------------------------------------------------------------
(* Types: a thread inside a step has that step at the head of its top       *)
(* sequence, and every sequence but the workflow waits for a step below.    *)

InStep == {"entering", "trying", "calling", "leaving", "settling"}

StackInv ==
  \A r \in Run :
    /\ WellStacked(stack[r])
    /\ phase[r] \in InStep \cup {"step"} => stack[r] # <<>>
    /\ phase[r] \in InStep => Top(r).todo # <<>>
    /\ phase[r] = "new" => stack[r] = <<>>

DataInv ==
  /\ stack \in [Run -> Seq(Frame)]
  /\ status \in [Run -> [Step -> Statuses]]
  /\ answer \in [Run -> Answers]
  /\ attempt \in [Run -> 0..3]
  /\ expired \subseteq Run
  /\ cancelled \subseteq Run
  /\ verdict \in [Run -> Verdicts]

TypeInv == DrainInv /\ DataInv /\ StackInv

LEMMA TopType ==
  ASSUME TypeInv, NEW r \in Run, stack[r] # <<>>
  PROVE  /\ Top(r) \in Frame
         /\ Top(r).todo \in Seq(Step)
         /\ Top(r).todo # <<>> => Current(r) \in Step
<1>1. stack[r] \in Seq(Frame)
  BY DEF TypeInv, DataInv
<1>2. Top(r) \in Frame
  BY <1>1 DEF Top
<1>3. Top(r).todo \in Seq(Step)
  BY <1>2, FrameFields
<1> QED
  BY <1>2, <1>3 DEF Current

LEMMA MarkType ==
  ASSUME TypeInv, NEW r \in Run, NEW s \in Step, NEW st \in Statuses, Mark(r, s, st)
  PROVE  status' \in [Run -> [Step -> Statuses]]
<1>1. [status[r] EXCEPT ![s] = st] \in [Step -> Statuses]
  BY DEF TypeInv, DataInv
<1> QED
  BY <1>1 DEF TypeInv, DataInv, Mark

(* What a step of the thread of r may do to its stack and its phase.        *)
LEMMA StackStep ==
  ASSUME TypeInv, NEW r \in Run, NEW p \in Phases, NEW t,
         WellStacked(t), Goto(r, p), stack' = [stack EXCEPT ![r] = t],
         p \in InStep \cup {"step"} => t # <<>>,
         p \in InStep => Head(t).todo # <<>>,
         p = "new" => t = <<>>
  PROVE  StackInv' /\ stack' \in [Run -> Seq(Frame)]
<1>1. t \in Seq(Frame)
  BY DEF WellStacked
<1>2. stack' \in [Run -> Seq(Frame)]
  BY <1>1 DEF TypeInv, DataInv
<1>3. ASSUME NEW q \in Run
      PROVE  /\ WellStacked(stack'[q])
             /\ phase'[q] \in InStep \cup {"step"} => stack'[q] # <<>>
             /\ phase'[q] \in InStep => Head(stack'[q]).todo # <<>>
             /\ phase'[q] = "new" => stack'[q] = <<>>
  <2>1. CASE q = r
    <3>1. stack'[q] = t /\ phase'[q] = p
      BY <2>1 DEF TypeInv, DataInv, DrainInv, Goto
    <3> QED
      BY <3>1
  <2>2. CASE q # r
    <3>1. stack'[q] = stack[q] /\ phase'[q] = phase[q]
      BY <2>2 DEF TypeInv, DataInv, DrainInv, Goto
    <3> QED
      BY <3>1 DEF TypeInv, StackInv, Top
  <2> QED
    BY <2>1, <2>2
<1> QED
  BY <1>2, <1>3 DEF StackInv, Top

(* Steps that leave every stack alone.                                      *)
LEMMA StackSame ==
  ASSUME TypeInv, NEW r \in Run, NEW p \in Phases, Goto(r, p), UNCHANGED stack,
         p \in InStep \cup {"step"} => stack[r] # <<>>,
         p \in InStep => Top(r).todo # <<>>,
         p # "new"
  PROVE  StackInv' /\ stack' \in [Run -> Seq(Frame)]
<1>1. WellStacked(stack[r])
  BY DEF TypeInv, StackInv
<1>2. stack' = [stack EXCEPT ![r] = stack[r]]
  BY DEF TypeInv, DataInv
<1> QED
  BY <1>1, <1>2, StackStep DEF Top

(* A sequence started for the current step, and the current step done with. *)
LEMMA PushType ==
  ASSUME TypeInv, NEW r \in Run, stack[r] # <<>>, Top(r).todo # <<>>,
         NEW steps \in Seq(Step), NEW handles \in BOOLEAN,
         NEW role \in {"branch", "failure"},
         Goto(r, "step"), Push(r, steps, handles, role)
  PROVE  StackInv' /\ stack' \in [Run -> Seq(Frame)]
<1> DEFINE f == [todo |-> steps, ok |-> TRUE, handles |-> handles, role |-> role]
<1>1. f \in Frame /\ f.role # "main"
  BY DEF Frame, Roles
<1>2. WellStacked(stack[r]) /\ stack[r] \in Seq(Frame)
  BY DEF TypeInv, StackInv, WellStacked
<1>3. WellStacked(<<f>> \o stack[r])
  BY <1>1, <1>2, Pushed DEF Top
<1>4. <<f>> \o stack[r] # <<>>
  BY <1>1, <1>2, PutOnTop
<1>5. stack' = [stack EXCEPT ![r] = <<f>> \o stack[r]]
  BY DEF Push, TypeInv, DataInv
<1> HIDE DEF f
<1> QED
  BY <1>3, <1>4, <1>5, StackStep DEF Phases, InStep

LEMMA StepOverType ==
  ASSUME TypeInv, NEW r \in Run, stack[r] # <<>>, Top(r).todo # <<>>,
         NEW good \in BOOLEAN, Goto(r, "step"), StepOver(r, good)
  PROVE  StackInv' /\ stack' \in [Run -> Seq(Frame)]
<1>1. WellStacked(stack[r])
  BY DEF TypeInv, StackInv
<1>2. PICK t : t = <<Advance(Head(stack[r]), good)>> \o Tail(stack[r])
  OBVIOUS
<1>3. WellStacked(t) /\ t # <<>>
  BY <1>1, <1>2, TopReplaced DEF Top
<1>4. stack' = [stack EXCEPT ![r] = t]
  BY <1>2 DEF StepOver, TypeInv, DataInv
<1> QED
  BY <1>3, <1>4, StackStep DEF Phases, InStep

LEMMA BackToType ==
  ASSUME TypeInv, NEW r \in Run, stack[r] # <<>>, Top(r).role # "main",
         NEW good \in BOOLEAN, Goto(r, "step"), BackTo(r, good)
  PROVE  /\ StackInv' /\ stack' \in [Run -> Seq(Frame)]
         /\ Head(stack[r][2].todo) \in Step
<1>1. WellStacked(stack[r])
  BY DEF TypeInv, StackInv
<1>2. PICK t : t = <<Advance(stack[r][2], good)>> \o Tail(Tail(stack[r]))
  OBVIOUS
<1>3. /\ WellStacked(t) /\ t # <<>>
      /\ stack[r][2].todo \in Seq(Step) /\ stack[r][2].todo # <<>>
  BY <1>1, <1>2, SecondReplaced DEF Top
<1>4. stack' = [stack EXCEPT ![r] = t]
  BY <1>2 DEF BackTo, TypeInv, DataInv
<1>5. StackInv' /\ stack' \in [Run -> Seq(Frame)]
  BY <1>3, <1>4, StackStep DEF Phases, InStep
<1>6. Head(stack[r][2].todo) \in Step
  BY <1>3
<1> QED
  BY <1>5, <1>6

(* A step in which the thread stays in the loop.                            *)
LEMMA StaysInLoop ==
  ASSUME TypeInv, NEW r \in Run, phase[r] = "step", UNCHANGED phase
  PROVE  Goto(r, "step")
  BY DEF Goto, TypeInv, DrainInv

LEMMA TypeInvStep == TypeInv /\ [Next]_vars => TypeInv'
<1> SUFFICES ASSUME TypeInv, [Next]_vars PROVE TypeInv'
  OBVIOUS
<1>0. DrainInv'
  BY DrainInvStep DEF TypeInv
<1> USE DEF Statuses, Answers, Verdicts
<1>1. ASSUME NEW r \in Run, Start(r) PROVE TypeInv'
  <2>1. CASE Goto(r, "step") /\ Push(r, Main[r], TRUE, "main")
    <3> DEFINE f == [todo |-> Main[r], ok |-> TRUE, handles |-> TRUE, role |-> "main"]
    <3>1. f \in Frame /\ f.role = "main"
      BY ProgramAssumption DEF Frame, Roles
    <3>2. stack[r] = <<>> /\ <<f>> \o <<>> = <<f>>
      BY <1>1, <3>1 DEF Start, TypeInv, StackInv
    <3>3. WellStacked(<<f>>) /\ <<f>> # <<>>
      BY <3>1 DEF WellStacked
    <3>4. stack' = [stack EXCEPT ![r] = <<f>>]
      BY <2>1, <3>2 DEF Push, TypeInv, DataInv
    <3> HIDE DEF f
    <3>5. StackInv' /\ stack' \in [Run -> Seq(Frame)]
      BY <2>1, <3>3, <3>4, StackStep DEF Phases, InStep
    <3> QED
      BY <1>0, <1>1, <2>1, <3>5 DEF Start, TypeInv, DataInv
  <2>2. CASE Goto(r, "decided") /\ UNCHANGED stack
    <3>1. StackInv' /\ stack' \in [Run -> Seq(Frame)]
      BY <2>2, StackSame DEF Phases, InStep
    <3> QED
      BY <1>0, <1>1, <3>1 DEF Start, TypeInv, DataInv
  <2> QED
    BY <1>1, <2>1, <2>2 DEF Start
<1>2. ASSUME NEW r \in Run, SkipStep(r) PROVE TypeInv'
  <2>1. stack[r] # <<>> /\ Top(r).todo # <<>> /\ Current(r) \in Step /\ Goto(r, "step")
    BY <1>2, TopType, StaysInLoop DEF SkipStep, AtStep, TypeInv, StackInv
  <2>2. StackInv' /\ stack' \in [Run -> Seq(Frame)]
    BY <1>2, <2>1, StepOverType DEF SkipStep
  <2>3. status' \in [Run -> [Step -> Statuses]]
    BY <1>2, <2>1, MarkType DEF SkipStep
  <2> QED
    BY <1>0, <1>2, <2>2, <2>3 DEF SkipStep, TypeInv, DataInv
<1>3. ASSUME NEW r \in Run, Assign(r) PROVE TypeInv'
  <2>1. stack[r] # <<>> /\ Top(r).todo # <<>> /\ Current(r) \in Step /\ Goto(r, "step")
    BY <1>3, TopType, StaysInLoop DEF Assign, AtStep, TypeInv, StackInv
  <2>2. PICK good \in BOOLEAN : /\ Mark(r, Current(r), IF good THEN "ok" ELSE "failed")
                                /\ StepOver(r, good)
    BY <1>3 DEF Assign
  <2>3. StackInv' /\ stack' \in [Run -> Seq(Frame)]
    BY <2>1, <2>2, StepOverType
  <2>4. status' \in [Run -> [Step -> Statuses]]
    BY <2>1, <2>2, MarkType
  <2> QED
    BY <1>0, <1>3, <2>3, <2>4 DEF Assign, TypeInv, DataInv
<1>4. ASSUME NEW r \in Run, EvaluateIf(r) PROVE TypeInv'
  <2>1. stack[r] # <<>> /\ Top(r).todo # <<>> /\ Current(r) \in Step /\ Goto(r, "step")
    BY <1>4, TopType, StaysInLoop DEF EvaluateIf, AtStep, TypeInv, StackInv
  <2>2. ASSUME NEW steps \in {Then[Current(r)], Else[Current(r)]},
               Push(r, steps, Top(r).handles, "branch"), UNCHANGED status
        PROVE  StackInv' /\ stack' \in [Run -> Seq(Frame)] /\ status' \in [Run -> [Step -> Statuses]]
    <3>1. steps \in Seq(Step) /\ Top(r).handles \in BOOLEAN
      BY <2>1, ProgramAssumption, TopType, FrameFields
    <3> QED
      BY <2>1, <2>2, <3>1, PushType DEF TypeInv, DataInv
  <2>3. ASSUME Mark(r, Current(r), "failed"), StepOver(r, FALSE)
        PROVE  StackInv' /\ stack' \in [Run -> Seq(Frame)] /\ status' \in [Run -> [Step -> Statuses]]
    BY <2>1, <2>3, StepOverType, MarkType
  <2> QED
    BY <1>0, <1>4, <2>2, <2>3 DEF EvaluateIf, TypeInv, DataInv
<1>5. ASSUME NEW r \in Run, RunAction(r) PROVE TypeInv'
  <2>1. StackInv' /\ stack' \in [Run -> Seq(Frame)]
    BY <1>5, StackSame DEF RunAction, AtStep, TypeInv, StackInv, Phases, InStep
  <2> QED
    BY <1>0, <1>5, <2>1 DEF RunAction, TypeInv, DataInv
<1>6. ASSUME NEW r \in Run, Enter(r) PROVE TypeInv'
  <2>1. StackInv' /\ stack' \in [Run -> Seq(Frame)]
    BY <1>6, StackSame DEF Enter, TypeInv, StackInv, Phases, InStep
  <2>2. answer' \in [Run -> Answers]
    BY <1>6 DEF Enter, TypeInv, DataInv
  <2>3. attempt' \in [Run -> 0..3]
    <3>1. 0 \in 0..3 /\ attempt \in [Run -> 0..3]
      BY DEF TypeInv, DataInv
    <3>2. attempt' = attempt \/ attempt' = [attempt EXCEPT ![r] = 0]
      BY <1>6 DEF Enter
    <3> QED
      BY <3>1, <3>2
  <2>4. expired' \subseteq Run
    BY <1>6 DEF Enter, TypeInv, DataInv
  <2> QED
    BY <1>0, <1>6, <2>1, <2>2, <2>3, <2>4 DEF Enter, TypeInv, DataInv
<1>7. ASSUME NEW r \in Run, Try(r) PROVE TypeInv'
  <2>1. StackInv' /\ stack' \in [Run -> Seq(Frame)]
    BY <1>7, StackSame DEF Try, Reply, TypeInv, StackInv, Phases, InStep
  <2> QED
    BY <1>0, <1>7, <2>1 DEF Try, Reply, StopAnswer, TypeInv, DataInv
<1>8. ASSUME NEW r \in Run, CallReturns(r) \/ CallGivesUp(r) PROVE TypeInv'
  <2>1. StackInv' /\ stack' \in [Run -> Seq(Frame)]
    BY <1>8, StackSame DEF CallReturns, CallGivesUp, Reply, TypeInv, StackInv, Phases, InStep
  <2> QED
    BY <1>0, <1>8, <2>1 DEF CallReturns, CallGivesUp, Reply, StopAnswer, TypeInv, DataInv
<1>9. ASSUME NEW r \in Run, CallFails(r) PROVE TypeInv'
  <2>1. StackInv' /\ stack' \in [Run -> Seq(Frame)]
    BY <1>9, StackSame DEF CallFails, Reply, TypeInv, StackInv, Phases, InStep
  <2>2. Current(r) \in Step
    BY <1>9, TopType DEF CallFails, TypeInv, StackInv, InStep
  <2>3. attempt' \in [Run -> 0..3]
    <3>1. Retries[Current(r)] \in 0..3 /\ attempt[r] \in 0..3
      BY <2>2, ProgramAssumption DEF TypeInv, DataInv
    <3> QED
      BY <1>9, <3>1 DEF CallFails, Reply, TypeInv, DataInv
  <2> QED
    BY <1>0, <1>9, <2>1, <2>3 DEF CallFails, Reply, TypeInv, DataInv
<1>10. ASSUME NEW r \in Run, Expire(r) \/ CancelRun(r) PROVE TypeInv'
  <2>1. UNCHANGED <<phase, stack>>
    BY <1>10 DEF Expire, CancelRun
  <2>2. StackInv'
    BY <2>1 DEF TypeInv, StackInv, Top
  <2> QED
    BY <1>0, <1>10, <2>2 DEF Expire, CancelRun, TypeInv, DataInv
<1>11. ASSUME NEW r \in Run, Leave(r) PROVE TypeInv'
  <2>1. StackInv' /\ stack' \in [Run -> Seq(Frame)]
    BY <1>11, StackSame DEF Leave, TypeInv, StackInv, Phases, InStep
  <2> QED
    BY <1>0, <1>11, <2>1 DEF Leave, TypeInv, DataInv
<1>12. ASSUME NEW r \in Run, Settle(r) PROVE TypeInv'
  <2>1. /\ stack[r] # <<>> /\ Top(r).todo # <<>> /\ Current(r) \in Step
        /\ Goto(r, "step") /\ answer[r] \in Answers
    BY <1>12, TopType DEF Settle, TypeInv, StackInv, DataInv, InStep
  <2>2. StackInv' /\ stack' \in [Run -> Seq(Frame)]
    <3>1. CASE Push(r, OnFail[Current(r)], FALSE, "failure")
      BY <2>1, <3>1, ProgramAssumption, PushType
    <3>2. CASE StepOver(r, answer[r] = "ok")
      BY <2>1, <3>2, StepOverType
    <3> QED
      BY <1>12, <3>1, <3>2 DEF Settle
  <2>3. status' \in [Run -> [Step -> Statuses]]
    BY <1>12, <2>1, MarkType DEF Settle
  <2> QED
    BY <1>0, <1>12, <2>2, <2>3 DEF Settle, TypeInv, DataInv
<1>13. ASSUME NEW r \in Run, MainEnds(r) PROVE TypeInv'
  <2>1. WellStacked(<<>>)
    BY DEF WellStacked
  <2>2. StackInv' /\ stack' \in [Run -> Seq(Frame)]
    BY <1>13, <2>1, StackStep DEF MainEnds, Phases, InStep
  <2> QED
    BY <1>0, <1>13, <2>2 DEF MainEnds, TypeInv, DataInv
<1>14. ASSUME NEW r \in Run, BranchEnds(r) PROVE TypeInv'
  <2>1. stack[r] # <<>> /\ Top(r).role # "main" /\ Goto(r, "step") /\ AllOk(r) \in BOOLEAN
    BY <1>14, TopType, FrameFields, StaysInLoop DEF BranchEnds, Finished, AllOk, TypeInv, StackInv
  <2>2. /\ StackInv' /\ stack' \in [Run -> Seq(Frame)]
        /\ Head(stack[r][2].todo) \in Step
    BY <1>14, <2>1, BackToType DEF BranchEnds
  <2>3. status' \in [Run -> [Step -> Statuses]]
    BY <1>14, <2>2, MarkType DEF BranchEnds
  <2> QED
    BY <1>0, <1>14, <2>2, <2>3 DEF BranchEnds, TypeInv, DataInv
<1>15. ASSUME NEW r \in Run, FailureActionsEnd(r) PROVE TypeInv'
  <2>1. stack[r] # <<>> /\ Top(r).role # "main" /\ Goto(r, "step")
    BY <1>15, StaysInLoop DEF FailureActionsEnd, Finished, TypeInv, StackInv
  <2>2. StackInv' /\ stack' \in [Run -> Seq(Frame)]
    BY <1>15, <2>1, BackToType DEF FailureActionsEnd
  <2> QED
    BY <1>0, <1>15, <2>2 DEF FailureActionsEnd, TypeInv, DataInv
<1>16. ASSUME NEW r \in Run, Judge(r) PROVE TypeInv'
  <2>1. StackInv' /\ stack' \in [Run -> Seq(Frame)]
    BY <1>16, StackSame DEF Judge, Phases, InStep
  <2> QED
    BY <1>0, <1>16, <2>1 DEF Judge, TypeInv, DataInv
<1>17. ASSUME NEW r \in Run, Finish(r) PROVE TypeInv'
  <2>1. StackInv' /\ stack' \in [Run -> Seq(Frame)]
    BY <1>17, StackSame DEF Finish, Phases, InStep
  <2> QED
    BY <1>0, <1>17, <2>1 DEF Finish, TypeInv, DataInv
<1>18. CASE BeginShutdown \/ Drain \/ UNCHANGED vars
  <2>1. UNCHANGED <<phase, stack, status, answer, attempt, expired, cancelled, verdict>>
    BY <1>18 DEF BeginShutdown, Drain, vars
  <2>2. StackInv'
    BY <2>1 DEF TypeInv, StackInv, Top
  <2> QED
    BY <1>0, <2>1, <2>2 DEF TypeInv, DataInv
<1> QED
  BY <1>1, <1>2, <1>3, <1>4, <1>5, <1>6, <1>7, <1>8, <1>9, <1>10, <1>11, <1>12,
     <1>13, <1>14, <1>15, <1>16, <1>17, <1>18 DEF Next, Thread, Loop, Plugin

LEMMA TypeInvInit == Init => TypeInv
<1> SUFFICES ASSUME Init PROVE TypeInv
  OBVIOUS
<1>1. CountedRuns = {}
  BY DEF Init, CountedRuns, Counted
<1>2. DrainInv
  BY <1>1, FS_EmptySet DEF Init, DrainInv, Phases
<1>3. WellStacked(<<>>)
  BY DEF WellStacked
<1>4. StackInv
  BY <1>3 DEF Init, StackInv, InStep
<1> QED
  BY <1>2, <1>4 DEF Init, TypeInv, DataInv, Statuses, Answers, Verdicts

(* The executor's state keeps its types for every program: only steps of    *)
(* the program are marked, attempts stay within the retry limit, and no     *)
(* more actions count as active than there are runs.                        *)
THEOREM ExecutorTypeCorrect == Spec => []TypeOK
<1>1. TypeInv => TypeOK
  <2> SUFFICES ASSUME TypeInv PROVE TypeOK
    OBVIOUS
  <2>1. Cardinality(CountedRuns) <= Cardinality(Run) /\ Cardinality(CountedRuns) \in Nat
    BY ProgramAssumption, FS_Subset, FS_CardinalityType DEF CountedRuns
  <2>2. Cardinality(Run) \in Nat
    BY ProgramAssumption, FS_CardinalityType
  <2> QED
    BY <2>1, <2>2 DEF TypeInv, DrainInv, DataInv, TypeOK
<1> QED
  BY <1>1, TypeInvInit, TypeInvStep, PTL DEF Spec

-----------------------------------------------------------------------------
(* A stopped action stays stopped: nothing takes a stop back but the start  *)
(* of the next action of the same run.                                      *)

GivesUp(r) ==
  Stopped(r) /\ phase[r] \in {"trying", "calling"} =>
    /\ Stopped(r)'
    /\ phase'[r] = "calling" => phase[r] = "calling"
    /\ phase'[r] = "leaving" => answer'[r] # "ok"

(* Stops are only taken back for a run at the entry of its next action.     *)
LEMMA StopsStay ==
  ASSUME TypeInv, [Next]_vars
  PROVE  /\ shutdown => shutdown'
         /\ cancelled \subseteq cancelled'
         /\ \A q \in Run : q \in expired /\ phase[q] # "entering" => q \in expired'
<1>1. ASSUME NEW r \in Run, Enter(r)
      PROVE  /\ UNCHANGED <<shutdown, cancelled>>
             /\ phase[r] = "entering" /\ expired \ {r} \subseteq expired'
  BY <1>1 DEF Enter
<1>2. ASSUME NEW r \in Run,
             Start(r) \/ Loop(r) \/ Try(r) \/ Leave(r) \/ Judge(r) \/ Finish(r)
             \/ Plugin(r) \/ Expire(r) \/ CancelRun(r)
      PROVE  /\ UNCHANGED shutdown
             /\ cancelled \subseteq cancelled' /\ expired \subseteq expired'
  BY <1>2 DEF Start, Loop, SkipStep, Assign, EvaluateIf, RunAction, Settle, MainEnds,
     BranchEnds, FailureActionsEnd, Try, Leave, Judge, Finish, Plugin, CallReturns,
     CallGivesUp, CallFails, Expire, CancelRun
<1>3. ASSUME BeginShutdown \/ Drain \/ UNCHANGED vars
      PROVE  /\ shutdown => shutdown'
             /\ UNCHANGED <<cancelled, expired>>
  BY <1>3 DEF BeginShutdown, Drain, vars
<1> QED
  BY <1>1, <1>2, <1>3 DEF Next, Thread

(* A thread that tries or calls is moved by Try and by the plugin alone.    *)
LEMMA OthersAway ==
  ASSUME TypeInv, [Next]_vars, NEW q \in Run, phase[q] \in {"trying", "calling"}
  PROVE  Try(q) \/ Plugin(q) \/ phase'[q] = phase[q]
<1> USE DEF TypeInv, DrainInv, Goto
<1>1. ASSUME NEW r \in Run, Start(r) \/ RunAction(r) \/ Settle(r) \/ MainEnds(r) \/ Enter(r)
                            \/ Leave(r) \/ Judge(r) \/ Finish(r)
      PROVE  phase'[q] = phase[q]
  BY <1>1 DEF Start, RunAction, AtStep, Settle, MainEnds, Finished, Enter, Leave, Judge, Finish
<1>2. ASSUME NEW r \in Run, SkipStep(r) \/ Assign(r) \/ EvaluateIf(r) \/ BranchEnds(r)
                            \/ FailureActionsEnd(r) \/ Expire(r) \/ CancelRun(r)
      PROVE  phase'[q] = phase[q]
  BY <1>2 DEF SkipStep, Assign, EvaluateIf, BranchEnds, FailureActionsEnd, Expire, CancelRun
<1>3. ASSUME NEW r \in Run, r # q, Try(r) \/ Plugin(r)
      PROVE  phase'[q] = phase[q]
  BY <1>3 DEF Try, Plugin, CallReturns, CallGivesUp, CallFails, Reply
<1>4. ASSUME BeginShutdown \/ Drain \/ UNCHANGED vars
      PROVE  phase'[q] = phase[q]
  BY <1>4 DEF BeginShutdown, Drain, vars
<1> QED
  BY <1>1, <1>2, <1>3, <1>4 DEF Next, Thread, Loop

(* Once stopped, an action is not called again and does not report success, *)
(* whatever the program, the retries and the timing of the stop.            *)
THEOREM StopsHonoured == Spec => StoppedActionsGiveUp
<1>1. ASSUME TypeInv, [Next]_vars, NEW q \in Run PROVE GivesUp(q)
  <2> SUFFICES ASSUME Stopped(q), phase[q] \in {"trying", "calling"}
               PROVE  /\ Stopped(q)'
                      /\ phase'[q] = "calling" => phase[q] = "calling"
                      /\ phase'[q] = "leaving" => answer'[q] # "ok"
    BY DEF GivesUp
  <2>1. Stopped(q)'
    BY <1>1, StopsStay DEF Stopped
  <2>2. CASE phase'[q] = phase[q]
    BY <2>1, <2>2
  <2>3. CASE Try(q)
    BY <1>1, <2>1, <2>3 DEF Try, Reply, Goto, StopAnswer, TypeInv, DrainInv, DataInv
  <2>4. CASE CallReturns(q) \/ CallGivesUp(q)
    BY <1>1, <2>1, <2>4
    DEF CallReturns, CallGivesUp, Reply, Goto, StopAnswer, TypeInv, DrainInv, DataInv
  <2>5. CASE CallFails(q)
    BY <1>1, <2>1, <2>5 DEF CallFails, Reply, Goto, TypeInv, DrainInv, DataInv
  <2> QED
    BY <1>1, <2>2, <2>3, <2>4, <2>5, OthersAway DEF Plugin
<1>2. TypeInv /\ [Next]_vars => [\A r \in Run : GivesUp(r)]_vars
  BY <1>1
<1>3. Spec => []TypeInv
  BY TypeInvInit, TypeInvStep, PTL DEF Spec
<1>4. Spec => [][\A r \in Run : GivesUp(r)]_vars
  BY <1>2, <1>3, PTL DEF Spec
<1> QED
  BY <1>4 DEF StoppedActionsGiveUp, GivesUp

-----------------------------------------------------------------------------
(* The executor implements RunPassage, step by step.                        *)

(* What RunPassage sees of the runs.                                        *)
Stages == [r \in Run |-> Stage(phase[r])]
Sayings ==
  [r \in Run |-> IF phase[r] \in {"decided", "ended"} THEN Said(verdict[r]) ELSE "none"]

LEMMA PassageSeen ==
  /\ [r \in Run |-> Stage(phase[r])] = Stages
  /\ [r \in Run |-> Stage(phase'[r])] = Stages'
  /\ [r \in Run |-> IF phase[r] \in {"decided", "ended"} THEN Said(verdict[r]) ELSE "none"]
       = Sayings
  /\ [r \in Run |-> IF phase'[r] \in {"decided", "ended"} THEN Said(verdict'[r]) ELSE "none"]
       = Sayings'
  BY DEF Stages, Sayings

(* Between its start and its verdict a run looks the same from outside.     *)
Inside == {"step", "entering", "trying", "calling", "leaving", "settling", "over"}

LEMMA StageIs ==
  /\ Stage("new") = "new" /\ Stage("decided") = "decided" /\ Stage("ended") = "reported"
  /\ \A p \in Inside : Stage(p) = "running"
<1>1. Stage("new") = "new"
  BY DEF Stage
<1>2. Stage("decided") = "decided"
  BY DEF Stage
<1>3. Stage("ended") = "reported"
  BY DEF Stage
<1>4. \A p \in Inside : Stage(p) = "running"
  BY DEF Stage, Inside
<1> QED
  BY <1>1, <1>2, <1>3, <1>4

LEMMA SaidIs ==
  /\ Said("cancelled") = "cancelled"
  /\ Said("rejected") = "crashed"
  /\ \A v \in {"succeeded", "failed"} : Said(v) = "completed"
<1>1. Said("cancelled") = "cancelled"
  BY DEF Said
<1>2. Said("rejected") = "crashed"
  BY DEF Said
<1>3. Said("succeeded") = "completed"
  BY DEF Said
<1>4. Said("failed") = "completed"
  BY DEF Said
<1> QED
  BY <1>1, <1>2, <1>3, <1>4

LEMMA SeenStutter ==
  ASSUME UNCHANGED <<Stages, Sayings, cancelled>>
  PROVE  UNCHANGED Passage!vars
  BY PassageSeen DEF Passage!vars

LEMMA SeenTell ==
  ASSUME NEW r \in Run, Stages[r] # "reported", cancelled' = cancelled \cup {r},
         UNCHANGED <<Stages, Sayings>>
  PROVE  Passage!Tell(r)
  BY PassageSeen DEF Passage!Tell

LEMMA SeenReport ==
  ASSUME NEW r \in Run, Stages[r] = "decided", Stages' = [Stages EXCEPT ![r] = "reported"],
         UNCHANGED <<cancelled, Sayings>>
  PROVE  Passage!Report(r)
  BY PassageSeen DEF Passage!Report

LEMMA SeenBegin ==
  ASSUME NEW r \in Run, Stages[r] = "new", UNCHANGED cancelled,
         \/ /\ r \in cancelled /\ Stages' = [Stages EXCEPT ![r] = "decided"]
            /\ Sayings' = [Sayings EXCEPT ![r] = "cancelled"]
         \/ /\ Stages' = [Stages EXCEPT ![r] = "decided"]
            /\ Sayings' = [Sayings EXCEPT ![r] = "crashed"]
         \/ /\ r \notin cancelled /\ Stages' = [Stages EXCEPT ![r] = "running"]
            /\ UNCHANGED Sayings
  PROVE  Passage!Begin(r)
  BY PassageSeen DEF Passage!Begin, Passage!Decide

LEMMA SeenEnd ==
  ASSUME NEW r \in Run, Stages[r] = "running", Stages' = [Stages EXCEPT ![r] = "decided"],
         Sayings' = [Sayings EXCEPT ![r] = IF r \in cancelled THEN "cancelled" ELSE "completed"],
         UNCHANGED cancelled
  PROVE  Passage!End(r)
  BY PassageSeen DEF Passage!End, Passage!Decide

(* A step of one run's thread seen from outside.                            *)
LEMMA SeenMove ==
  ASSUME TypeInv, NEW r \in Run, NEW p \in Phases, Goto(r, p),
         NEW v, verdict' = [verdict EXCEPT ![r] = v]
  PROVE  /\ Stages' = [Stages EXCEPT ![r] = Stage(p)]
         /\ p \in {"decided", "ended"} => Sayings' = [Sayings EXCEPT ![r] = Said(v)]
  BY DEF TypeInv, DrainInv, DataInv, Goto, Stages, Sayings

LEMMA SeenInside ==
  ASSUME TypeInv, NEW r \in Run, NEW p \in Inside, Goto(r, p), phase[r] \in Inside,
         NEW v, verdict' = [verdict EXCEPT ![r] = v]
  PROVE  UNCHANGED <<Stages, Sayings>> /\ Stages[r] = "running"
  BY StageIs DEF TypeInv, DrainInv, DataInv, Goto, Stages, Sayings, Inside

LEMMA SeenSame ==
  ASSUME UNCHANGED <<phase, verdict>>
  PROVE  UNCHANGED <<Stages, Sayings>>
  BY DEF Stages, Sayings

(* A run past its actions has a verdict of its own until it is judged.      *)
OverOK == \A r \in Run : phase[r] = "over" => verdict[r] \in {"succeeded", "failed"}
PassageInv == TypeInv /\ OverOK

LEMMA OverKept ==
  ASSUME PassageInv, [Next]_vars
  PROVE  OverOK'
<1> USE DEF PassageInv, OverOK, TypeInv, DrainInv, DataInv, Goto
<1>1. ASSUME NEW r \in Run, Start(r) PROVE OverOK'
  BY <1>1 DEF Start
<1>2. ASSUME NEW r \in Run, MainEnds(r) PROVE OverOK'
  BY <1>2 DEF MainEnds
<1>3. ASSUME NEW r \in Run, Judge(r) PROVE OverOK'
  BY <1>3 DEF Judge
<1>4. ASSUME NEW r \in Run, \/ RunAction(r) \/ Enter(r) \/ Try(r) \/ Plugin(r) \/ Leave(r)
                            \/ Settle(r) \/ Finish(r)
      PROVE  OverOK'
  BY <1>4 DEF RunAction, Enter, Try, Plugin, CallReturns, CallGivesUp, CallFails, Reply, Leave,
              Settle, Finish
<1>5. ASSUME NEW r \in Run, SkipStep(r) \/ Assign(r) \/ EvaluateIf(r) \/ BranchEnds(r)
                            \/ FailureActionsEnd(r) \/ Expire(r) \/ CancelRun(r)
      PROVE  OverOK'
  BY <1>5 DEF SkipStep, Assign, EvaluateIf, BranchEnds, FailureActionsEnd, Expire, CancelRun
<1>6. CASE BeginShutdown \/ Drain \/ UNCHANGED vars
  BY <1>6 DEF BeginShutdown, Drain, vars
<1> QED
  BY <1>1, <1>2, <1>3, <1>4, <1>5, <1>6 DEF Next, Thread, Loop

LEMMA PassageStep ==
  ASSUME PassageInv, [Next]_vars
  PROVE  [Passage!Next]_(Passage!vars)
<1>0. TypeInv /\ phase \in [Run -> Phases] /\ verdict \in [Run -> Verdicts]
  BY DEF PassageInv, TypeInv, DrainInv, DataInv
<1>1. ASSUME NEW r \in Run, Start(r) PROVE Passage!Begin(r)
  <2>1. Stages[r] = "new" /\ UNCHANGED cancelled
    BY <1>0, <1>1, StageIs DEF Start, Stages
  <2>2. ASSUME NEW v, Goto(r, "decided"), verdict' = [verdict EXCEPT ![r] = v]
        PROVE  /\ Stages' = [Stages EXCEPT ![r] = "decided"]
               /\ Sayings' = [Sayings EXCEPT ![r] = Said(v)]
    <3>1. Stage("decided") = "decided" /\ "decided" \in Phases
      BY StageIs DEF Phases
    <3> QED
      BY ZenonT(60), <1>0, <2>2, <3>1, SeenMove
  <2>3. ASSUME Goto(r, "step"), UNCHANGED verdict
        PROVE  Stages' = [Stages EXCEPT ![r] = "running"] /\ UNCHANGED Sayings
    BY <1>0, <1>1, <2>3, StageIs DEF Start, Goto, Stages, Sayings, Inside
  <2>4. \/ Goto(r, "decided") /\ verdict' = [verdict EXCEPT ![r] = "rejected"]
        \/ /\ r \in cancelled /\ Goto(r, "decided")
           /\ verdict' = [verdict EXCEPT ![r] = "cancelled"]
        \/ r \notin cancelled /\ Goto(r, "step") /\ UNCHANGED verdict
    BY <1>1 DEF Start
  <2>5. \/ /\ Stages' = [Stages EXCEPT ![r] = "decided"]
           /\ Sayings' = [Sayings EXCEPT ![r] = Said("rejected")]
        \/ /\ r \in cancelled /\ Stages' = [Stages EXCEPT ![r] = "decided"]
           /\ Sayings' = [Sayings EXCEPT ![r] = Said("cancelled")]
        \/ /\ r \notin cancelled /\ Stages' = [Stages EXCEPT ![r] = "running"]
           /\ UNCHANGED Sayings
    BY <2>2, <2>3, <2>4
  <2>6. Said("rejected") = "crashed" /\ Said("cancelled") = "cancelled"
    BY SaidIs
  <2> QED
    BY <2>1, <2>5, <2>6, SeenBegin
<1>2. ASSUME NEW r \in Run, Judge(r) PROVE Passage!End(r)
  <2>1. /\ Stages[r] = "running" /\ UNCHANGED cancelled /\ Goto(r, "decided")
        /\ verdict[r] \in {"succeeded", "failed"}
    BY <1>0, <1>2, StageIs DEF Judge, Stages, PassageInv, OverOK, Inside
  <2>2. PICK v \in {"cancelled", "succeeded", "failed"} :
          /\ verdict' = [verdict EXCEPT ![r] = v]
          /\ v = "cancelled" <=> r \in cancelled
    BY <1>0, <1>2, <2>1 DEF Judge
  <2>3. Said(v) = IF r \in cancelled THEN "cancelled" ELSE "completed"
    BY <2>2, SaidIs
  <2>4. Stage("decided") = "decided" /\ "decided" \in Phases
    BY StageIs DEF Phases
  <2>5. /\ Stages' = [Stages EXCEPT ![r] = "decided"]
        /\ Sayings' = [Sayings EXCEPT ![r] = Said(v)]
    BY ZenonT(60), <1>0, <2>1, <2>2, <2>4, SeenMove
  <2> QED
    BY <2>1, <2>3, <2>5, SeenEnd
<1>3. ASSUME NEW r \in Run, Finish(r) PROVE Passage!Report(r)
  <2>1. /\ Stages[r] = "decided" /\ UNCHANGED cancelled
        /\ Stages' = [Stages EXCEPT ![r] = "reported"] /\ UNCHANGED Sayings
    BY <1>0, <1>3, StageIs DEF Finish, Goto, Stages, Sayings
  <2> QED
    BY <2>1, SeenReport
<1>4. ASSUME NEW r \in Run, Settle(r)
      PROVE  Passage!Tell(r) \/ UNCHANGED Passage!vars
  <2>1. /\ Goto(r, "step") /\ UNCHANGED verdict /\ phase[r] \in Inside
        /\ cancelled' \in {cancelled, cancelled \cup {r}}
    BY <1>4 DEF Settle, Inside
  <2>2. verdict' = [verdict EXCEPT ![r] = verdict[r]]
    BY <1>0, <2>1
  <2>3. UNCHANGED <<Stages, Sayings>> /\ Stages[r] = "running"
    BY <1>0, <2>1, <2>2, SeenInside DEF Inside
  <2> QED
    BY <2>1, <2>3, SeenStutter, SeenTell
<1>5. ASSUME NEW r \in Run, CancelRun(r) PROVE Passage!Tell(r)
  <2>1. /\ UNCHANGED <<phase, verdict>> /\ cancelled' = cancelled \cup {r} /\ phase[r] # "ended"
    BY <1>5 DEF CancelRun
  <2>2. Stages[r] # "reported"
    BY <1>0, <2>1, StageIs DEF Stages, Phases, Inside
  <2> QED
    BY <2>1, <2>2, SeenSame, SeenTell
<1>6. ASSUME NEW r \in Run, \/ RunAction(r) \/ Enter(r) \/ Try(r) \/ Plugin(r) \/ Leave(r)
                            \/ MainEnds(r)
      PROVE  UNCHANGED Passage!vars
  <2>1. PICK p \in Inside : Goto(r, p)
    BY <1>6 DEF RunAction, Enter, Try, Plugin, CallReturns, CallGivesUp, CallFails, Reply, Leave,
                MainEnds, Inside
  <2>2. /\ phase[r] \in Inside /\ UNCHANGED cancelled
        /\ UNCHANGED verdict \/ \E v : verdict' = [verdict EXCEPT ![r] = v]
    BY <1>6 DEF RunAction, AtStep, Enter, Try, Plugin, CallReturns, CallGivesUp, CallFails, Leave,
                MainEnds, Finished, Inside
  <2>3. UNCHANGED verdict => verdict' = [verdict EXCEPT ![r] = verdict[r]]
    BY <1>0
  <2>4. PICK v : verdict' = [verdict EXCEPT ![r] = v]
    BY <2>2, <2>3
  <2>5. UNCHANGED <<Stages, Sayings>>
    BY <1>0, <2>1, <2>2, <2>4, SeenInside
  <2> QED
    BY <2>2, <2>5, SeenStutter
<1>7. ASSUME NEW r \in Run, SkipStep(r) \/ Assign(r) \/ EvaluateIf(r) \/ BranchEnds(r)
                            \/ FailureActionsEnd(r) \/ Expire(r)
      PROVE  UNCHANGED Passage!vars
  <2>1. UNCHANGED <<phase, verdict, cancelled>>
    BY <1>7 DEF SkipStep, Assign, EvaluateIf, BranchEnds, FailureActionsEnd, Expire
  <2> QED
    BY <2>1, SeenSame, SeenStutter
<1>8. CASE BeginShutdown \/ Drain \/ UNCHANGED vars
  <2>1. UNCHANGED <<phase, verdict, cancelled>>
    BY <1>8 DEF BeginShutdown, Drain, vars
  <2> QED
    BY <2>1, SeenSame, SeenStutter
<1> QED
  BY <1>1, <1>2, <1>3, <1>4, <1>5, <1>6, <1>7, <1>8 DEF Next, Thread, Loop, Passage!Next

(* Every behaviour of the executor is one of RunPassage's: a run whose      *)
(* steps have begun is decided "cancelled" exactly when its cancel event    *)
(* has been set by then, whether by the API, by an action or by the         *)
(* engine's shutdown; a verdict is reported once and never changes          *)
(* (workflow_executor.py 232-345) - whatever the workflows are.             *)
THEOREM ExecutorRefines == Spec => ImplementsPassage
<1>1. Init => PassageInv /\ Passage!Init
  <2> SUFFICES ASSUME Init PROVE PassageInv /\ Passage!Init
    OBVIOUS
  <2>1. PassageInv
    BY TypeInvInit DEF Init, PassageInv, OverOK
  <2>2. Stages = [r \in Run |-> "new"] /\ Sayings = [r \in Run |-> "none"]
    BY StageIs DEF Init, Stages, Sayings
  <2> QED
    BY <2>1, <2>2, PassageSeen DEF Init, Passage!Init
<1>2. PassageInv /\ [Next]_vars => PassageInv'
  BY OverKept, TypeInvStep DEF PassageInv
<1>3. PassageInv /\ [Next]_vars => [Passage!Next]_(Passage!vars)
  BY PassageStep
<1> QED
  BY <1>1, <1>2, <1>3, PTL DEF Spec, ImplementsPassage, Passage!Spec

-----------------------------------------------------------------------------
(* Verdicts and failure actions.  What a run's stack says of the statuses   *)
(* of its steps, as predicates of the stack st, the statuses w and the set  *)
(* told of the runs that are to stop; m is the run's workflow.              *)

(* The sequences on the stack are remainders of the program's, and a branch *)
(* waits below for its if, failure actions for the step that failed.        *)
Owned(m, st, w) ==
  \A i \in 1..Len(st) :
    /\ Distinct(st[i].todo)
    /\ i = Len(st) => StepsOf(st[i].todo) \subseteq StepsOf(m)
    /\ i < Len(st) =>
         LET h == Head(st[i + 1].todo) IN
         \/ /\ st[i].role = "branch" /\ w[h] = "none"
            /\ StepsOf(st[i].todo) \subseteq Branches(h)
         \/ /\ st[i].role = "failure" /\ w[h] = "failed"
            /\ StepsOf(st[i].todo) \subseteq StepsOf(OnFail[h])

(* No step is on two sequences, and those still ahead have no status.       *)
Apart(st) ==
  \A i, j \in 1..Len(st) : i # j => StepsOf(st[i].todo) \cap StepsOf(st[j].todo) = {}
Ahead(st, w) ==
  \A i \in 1..Len(st) : \A x \in StepsOf(st[i].todo) :
    i = 1 \/ x # Head(st[i].todo) => w[x] = "none"

(* Nested steps were reached through their step: an if that is done or      *)
(* open, a step that failed.                                                *)
Opened(st) == {Head(st[i].todo) : i \in 2..Len(st)}
Descends(st, w) ==
  \A s \in Step :
    /\ \A x \in Branches(s) : w[x] # "none" => w[s] # "none" \/ s \in Opened(st)
    /\ \A x \in StepsOf(OnFail[s]) : w[x] # "none" => w[s] = "failed"

(* What went wrong is remembered on the stack, and what the stack remembers *)
(* as wrong went wrong.                                                     *)
Bad == {"failed", "cancelled", "timed_out"}
FailedSomewhere(w) == \E s \in Step : w[s] \in {"failed", "timed_out"}
BadShown(st, w) ==
  st # <<>> /\ (\E s \in Step : w[s] \in Bad) =>
    \E i \in 1..Len(st) : ~st[i].ok \/ st[i].role = "failure"
OkHonest(r, st, w, told) ==
  \A i \in 1..Len(st) : ~st[i].ok => r \in told \/ FailedSomewhere(w)

(* While nothing failed, the workflow's steps are done or still to do.      *)
MainDone(m, st, w) ==
  st # <<>> /\ st[Len(st)].ok =>
    \A x \in StepsOf(m) : w[x] # "none" \/ x \in StepsOf(st[Len(st)].todo)

Walk(r, st, w, told) ==
  /\ Owned(Main[r], st, w) /\ Apart(st) /\ Ahead(st, w) /\ Descends(st, w)
  /\ BadShown(st, w) /\ OkHonest(r, st, w, told) /\ MainDone(Main[r], st, w)

LEMMA StepsOfSeq ==
  ASSUME NEW q \in Seq(Step)
  PROVE  /\ StepsOf(q) \subseteq Step
         /\ StepsOf(<<>>) = {} /\ Distinct(<<>>)
         /\ q # <<>> =>
              /\ Head(q) \in StepsOf(q)
              /\ StepsOf(q) = {Head(q)} \cup StepsOf(Tail(q))
              /\ Distinct(q) => Distinct(Tail(q)) /\ Head(q) \notin StepsOf(Tail(q))
<1>1. StepsOf(q) \subseteq Step /\ StepsOf(<<>>) = {} /\ Distinct(<<>>)
  BY DEF StepsOf, Distinct
<1>2. ASSUME q # <<>>
      PROVE  /\ Head(q) \in StepsOf(q)
             /\ StepsOf(q) = {Head(q)} \cup StepsOf(Tail(q))
             /\ Distinct(q) => Distinct(Tail(q)) /\ Head(q) \notin StepsOf(Tail(q))
  <2>1. /\ Len(q) \in Nat /\ Len(q) > 0 /\ DOMAIN q = 1..Len(q) /\ Head(q) = q[1]
        /\ DOMAIN Tail(q) = 1..Len(q) - 1
        /\ \A i \in 1..Len(q) - 1 : Tail(q)[i] = q[i + 1]
    BY <1>2
  <2>2. Head(q) \in StepsOf(q)
    BY <2>1 DEF StepsOf
  <2>3. StepsOf(Tail(q)) \subseteq StepsOf(q)
    BY <2>1 DEF StepsOf
  <2>4. ASSUME NEW x \in StepsOf(q), x # Head(q) PROVE x \in StepsOf(Tail(q))
    <3>1. PICK i \in 1..Len(q) : x = q[i]
      BY <2>1, <2>4 DEF StepsOf
    <3>2. i - 1 \in 1..Len(q) - 1 /\ Tail(q)[i - 1] = x
      BY <2>1, <2>4, <3>1
    <3> QED
      BY <2>1, <3>2 DEF StepsOf
  <2>5. ASSUME Distinct(q) PROVE Distinct(Tail(q)) /\ Head(q) \notin StepsOf(Tail(q))
    BY <2>1, <2>5 DEF StepsOf, Distinct
  <2> QED
    BY <2>2, <2>3, <2>4, <2>5
<1> QED
  BY <1>1, <1>2

(* A frame after its current step.                                          *)
LEMMA AdvanceDoes ==
  ASSUME NEW f \in Frame, f.todo # <<>>, Distinct(f.todo), NEW good \in BOOLEAN,
         NEW a, a = Advance(f, good)
  PROVE  /\ a \in Frame /\ a.role = f.role /\ (a.ok <=> f.ok /\ good)
         /\ Distinct(a.todo)
         /\ StepsOf(a.todo) \subseteq StepsOf(f.todo) \ {Head(f.todo)}
         /\ good => StepsOf(a.todo) = StepsOf(f.todo) \ {Head(f.todo)}
<1>1. f.todo \in Seq(Step) /\ f.ok \in BOOLEAN
  BY FrameFields
<1>2. /\ Advance(f, good).ok = (f.ok /\ good)
      /\ \/ Advance(f, good).todo = Tail(f.todo)
         \/ ~good /\ Advance(f, good).todo = <<>>
  BY DEF Advance, Frame
<1>3. Advance(f, good) \in Frame /\ Advance(f, good).role = f.role
  BY AdvanceType
<1> QED
  BY <1>1, <1>2, <1>3, StepsOfSeq

(* A nested step that is on the stack is there because its step is below.   *)
LEMMA OwnerOf ==
  ASSUME NEW r \in Run, NEW st, WellStacked(st), NEW w, Owned(Main[r], st, w),
         NEW n \in 1..Len(st), NEW s \in Step, NEW x \in StepsOf(st[n].todo),
         x \in Children(s)
  PROVE  /\ n < Len(st) /\ n + 1 \in 2..Len(st) /\ Head(st[n + 1].todo) = s
         /\ st[n].role = "branch" => w[s] = "none" /\ x \in Branches(s)
         /\ st[n].role = "failure" => w[s] = "failed" /\ x \in StepsOf(OnFail[s])
         /\ st[n].role \in {"branch", "failure"}
<1>1. st \in Seq(Frame) /\ Len(st) \in Nat
  BY DEF WellStacked
<1>2. n # Len(st)
  BY EachStepOnce DEF Owned
<1>3. n < Len(st) /\ n + 1 \in 2..Len(st) /\ n + 1 \in 1..Len(st) /\ n + 1 # 1
  BY <1>1, <1>2
<1>4. PICK h : h = Head(st[n + 1].todo)
  OBVIOUS
<1>5. h \in Step
  <2>1. st[n + 1] \in Frame /\ st[n + 1].todo # <<>>
    BY <1>1, <1>3 DEF WellStacked
  <2> QED
    BY <1>4, <2>1, FrameFields
<1>6. \/ st[n].role = "branch" /\ w[h] = "none" /\ StepsOf(st[n].todo) \subseteq Branches(h)
      \/ /\ st[n].role = "failure" /\ w[h] = "failed"
         /\ StepsOf(st[n].todo) \subseteq StepsOf(OnFail[h])
  BY <1>3, <1>4 DEF Owned
<1>7. x \in Children(h)
  BY <1>6 DEF Children
<1>8. h = s
  BY <1>5, <1>7, EachStepOnce
<1> QED
  BY <1>3, <1>4, <1>6, <1>8

(* The stack t is a over what is left of st without its first n sequences;  *)
(* the current step of the n-th sequence gets its status v and the sequence *)
(* goes on, good or not; the sequence f is started for h.                   *)
Over(t, a, st, n) ==
  /\ t \in Seq(Frame) /\ Len(t) = Len(st) - n + 1 /\ t[1] = a
  /\ \A i \in 2..Len(t) : t[i] = st[i + n - 1]
Passing(r, st, w, told, n, v, t, u, now) ==
  /\ WellStacked(st) /\ w \in [Step -> Statuses] /\ Walk(r, st, w, told)
  /\ n \in {1, 2} /\ n \in 1..Len(st) /\ st[n].todo # <<>>
  /\ r \in told => r \in now
  /\ \E good \in BOOLEAN, h \in {Head(st[n].todo)} :
       /\ v # "none" /\ (w[h] = "none" \/ (w[h] = "failed" /\ v = "failed"))
       /\ u = [w EXCEPT ![h] = v]
       /\ good => v \in {"ok", "skipped"}
       /\ ~good => v \in {"failed", "timed_out"} \/ r \in now
       /\ n = 2 /\ good => st[1].ok /\ st[1].role # "failure"
       /\ Over(t, Advance(st[n], good), st, n)
Starts(f, h, w, u) ==
  /\ f.ok /\ Distinct(f.todo)
  /\ \/ f.role = "branch" /\ StepsOf(f.todo) \subseteq Branches(h) /\ u = w
     \/ /\ f.role = "failure" /\ StepsOf(f.todo) \subseteq StepsOf(OnFail[h])
        /\ u = [w EXCEPT ![h] = "failed"]

LEMMA WalkFrames ==
  ASSUME NEW st, WellStacked(st), NEW i \in 1..Len(st)
  PROVE  /\ st \in Seq(Frame) /\ Len(st) \in Nat /\ st[i] \in Frame
         /\ st[i].todo \in Seq(Step) /\ StepsOf(st[i].todo) \subseteq Step
         /\ st[i].ok \in BOOLEAN
         /\ st[i].role = "main" <=> i = Len(st)
         /\ i # 1 \/ st[i].todo # <<>> =>
              Head(st[i].todo) \in StepsOf(st[i].todo) /\ Head(st[i].todo) \in Step
  BY FrameFields, StepsOfSeq DEF WellStacked

(* Positions on a stack of l sequences and, when the first n - 1 are gone,  *)
(* on the remaining one of k.                                               *)
LEMMA Positions ==
  ASSUME NEW l \in Nat, NEW k \in Nat, NEW n \in Nat, n >= 1, n <= l, k = l - n + 1
  PROVE  /\ k >= 1 /\ 1 \in 1..k /\ n \in 1..l
         /\ k = 1 <=> n = l
         /\ \A i \in 1..k :
              /\ i + n - 1 \in 1..l
              /\ i # 1 => i + n - 1 # 1 /\ i + n - 1 # n /\ i \in 2..k
              /\ i = 1 => i + n - 1 = n
              /\ i = k <=> i + n - 1 = l
              /\ i < k <=> i + n - 1 < l
              /\ i < k => /\ i + 1 \in 2..k /\ (i + 1) + n - 1 = (i + n - 1) + 1
                         /\ (i + n - 1) + 1 \in 1..l
                         /\ (i + n - 1) + 1 # n /\ (i + n - 1) + 1 # 1
  OBVIOUS

LEMMA WalkPassed ==
  ASSUME NEW r \in Run, NEW st, NEW w, NEW told, NEW n, NEW v, NEW t, NEW u, NEW now,
         Passing(r, st, w, told, n, v, t, u, now)
  PROVE  Walk(r, t, u, now)
<1>0. PICK good \in BOOLEAN, h \in {Head(st[n].todo)} :
         /\ v # "none" /\ (w[h] = "none" \/ (w[h] = "failed" /\ v = "failed"))
         /\ u = [w EXCEPT ![h] = v]
         /\ good => v \in {"ok", "skipped"}
         /\ ~good => v \in {"failed", "timed_out"} \/ r \in now
         /\ n = 2 /\ good => st[1].ok /\ st[1].role # "failure"
         /\ t \in Seq(Frame) /\ Len(t) = Len(st) - n + 1 /\ t[1] = Advance(st[n], good)
         /\ \A i \in 2..Len(t) : t[i] = st[i + n - 1]
  BY DEF Passing, Over
<1>p. /\ WellStacked(st) /\ w \in [Step -> Statuses] /\ Walk(r, st, w, told)
      /\ n \in {1, 2} /\ n \in 1..Len(st) /\ st[n].todo # <<>>
      /\ r \in told => r \in now
      /\ h = Head(st[n].todo)
  BY <1>0 DEF Passing
<1> USE <1>0, <1>p
<1>1. /\ st \in Seq(Frame) /\ Len(st) \in Nat /\ n \in Nat /\ n <= Len(st) /\ Len(t) \in Nat
      /\ n >= 1 /\ Len(t) >= 1 /\ st[n] \in Frame /\ Len(t) = Len(st) - n + 1
  BY WalkFrames
<1>a. /\ 1 \in 1..Len(t)
      /\ Len(t) = 1 <=> n = Len(st)
      /\ \A i \in 1..Len(t) :
           /\ i + n - 1 \in 1..Len(st)
           /\ i # 1 => i + n - 1 # 1 /\ i + n - 1 # n /\ i \in 2..Len(t)
           /\ i = 1 => i + n - 1 = n
           /\ i = Len(t) <=> i + n - 1 = Len(st)
           /\ i < Len(t) <=> i + n - 1 < Len(st)
           /\ i < Len(t) => /\ i + 1 \in 2..Len(t) /\ (i + 1) + n - 1 = (i + n - 1) + 1
                           /\ (i + n - 1) + 1 \in 1..Len(st)
                           /\ (i + n - 1) + 1 # n /\ (i + n - 1) + 1 # 1
  BY <1>1, Positions
<1>2. /\ h \in StepsOf(st[n].todo) /\ h \in Step
      /\ Distinct(st[n].todo)
  BY WalkFrames DEF Walk, Owned
<1>3. /\ t[1].role = st[n].role /\ (t[1].ok <=> st[n].ok /\ good)
      /\ Distinct(t[1].todo)
      /\ StepsOf(t[1].todo) \subseteq StepsOf(st[n].todo) \ {h}
      /\ good => StepsOf(t[1].todo) = StepsOf(st[n].todo) \ {h}
  <2>1. PICK f \in Frame : f = st[n]
    BY <1>1
  <2>2. PICK a : a = Advance(f, good)
    OBVIOUS
  <2>3. t[1] = a /\ f.todo # <<>> /\ Distinct(f.todo) /\ h = Head(f.todo)
    BY <1>2, <2>1, <2>2
  <2>4. a.role = f.role
    BY <2>1, <2>2, <2>3, AdvanceDoes
  <2>5. a.ok <=> f.ok /\ good
    BY <2>1, <2>2, <2>3, AdvanceDoes
  <2>6. Distinct(a.todo)
    BY <2>1, <2>2, <2>3, AdvanceDoes
  <2>7. StepsOf(a.todo) \subseteq StepsOf(f.todo) \ {Head(f.todo)}
    BY <2>1, <2>2, <2>3, AdvanceDoes
  <2>8. good => StepsOf(a.todo) = StepsOf(f.todo) \ {Head(f.todo)}
    BY <2>1, <2>2, <2>3, AdvanceDoes
  <2> QED
    BY <2>1, <2>3, <2>4, <2>5, <2>6, <2>7, <2>8
<1>4. u[h] = v /\ \A x \in Step : x # h => u[x] = w[x]
  BY <1>2
<1>5. ASSUME NEW i \in 1..Len(t)
      PROVE  /\ i + n - 1 \in 1..Len(st)
             /\ i # 1 => i + n - 1 # 1 /\ i + n - 1 # n /\ t[i] = st[i + n - 1]
             /\ i = 1 => i + n - 1 = n
             /\ i = Len(t) <=> i + n - 1 = Len(st)
             /\ i < Len(t) => i + 1 \in 2..Len(t) /\ t[i + 1] = st[i + n - 1 + 1]
             /\ i < Len(t) <=> i + n - 1 < Len(st)
             /\ StepsOf(t[i].todo) \subseteq StepsOf(st[i + n - 1].todo) \ {h}
             /\ t[i].role = st[i + n - 1].role
             /\ Distinct(t[i].todo)
  <2>1. CASE i = 1
    BY ZenonT(60), <1>3, <1>a, <2>1
  <2>2. CASE i # 1
    <3>1. PICK k : k = i + n - 1
      OBVIOUS
    <3>2. k \in 1..Len(st) /\ k # n /\ k # 1 /\ t[i] = st[k]
      BY <1>a, <2>2, <3>1
    <3>3. h \notin StepsOf(st[k].todo)
      BY <1>2, <3>2 DEF Walk, Apart
    <3>4. Distinct(t[i].todo)
      BY <3>2 DEF Walk, Owned
    <3>5. StepsOf(t[i].todo) \subseteq StepsOf(st[k].todo) \ {h}
      BY <3>2, <3>3
    <3>6. i < Len(t) => i + 1 \in 2..Len(t) /\ t[i + 1] = st[k + 1]
      <4> SUFFICES ASSUME i < Len(t) PROVE i + 1 \in 2..Len(t) /\ t[i + 1] = st[k + 1]
        OBVIOUS
      <4>1. i + 1 \in 2..Len(t) /\ (i + 1) + n - 1 = k + 1
        BY <1>a, <3>1
      <4> QED
        BY <4>1
    <3> QED
      BY <1>a, <3>1, <3>2, <3>4, <3>5, <3>6
  <2> QED
    BY <2>1, <2>2
<1>6. Owned(Main[r], t, u)
  <2>1. ASSUME NEW i \in 1..Len(t)
        PROVE  i = Len(t) => StepsOf(t[i].todo) \subseteq StepsOf(Main[r])
    BY <1>5 DEF Walk, Owned
  <2>2. ASSUME NEW i \in 1..Len(t), i < Len(t)
        PROVE  \/ /\ t[i].role = "branch" /\ u[Head(t[i + 1].todo)] = "none"
                  /\ StepsOf(t[i].todo) \subseteq Branches(Head(t[i + 1].todo))
               \/ /\ t[i].role = "failure" /\ u[Head(t[i + 1].todo)] = "failed"
                  /\ StepsOf(t[i].todo) \subseteq StepsOf(OnFail[Head(t[i + 1].todo)])
    <3>1. PICK k : k = i + n - 1
      OBVIOUS
    <3>2. /\ k \in 1..Len(st) /\ k < Len(st) /\ t[i + 1] = st[k + 1] /\ t[i].role = st[k].role
          /\ StepsOf(t[i].todo) \subseteq StepsOf(st[k].todo) /\ k + 1 \in 1..Len(st)
          /\ k + 1 # n /\ k + 1 # 1
      BY <1>a, <1>5, <2>2, <3>1
    <3>3. PICK p : p = Head(st[k + 1].todo)
      OBVIOUS
    <3>4. p \in Step /\ p \in StepsOf(st[k + 1].todo)
      BY <3>2, <3>3, WalkFrames
    <3>5. p # h
      BY <1>2, <3>2, <3>4 DEF Walk, Apart
    <3>6. u[p] = w[p]
      BY <1>4, <3>4, <3>5
    <3>7. \/ st[k].role = "branch" /\ w[p] = "none" /\ StepsOf(st[k].todo) \subseteq Branches(p)
          \/ /\ st[k].role = "failure" /\ w[p] = "failed"
             /\ StepsOf(st[k].todo) \subseteq StepsOf(OnFail[p])
      BY <3>2, <3>3 DEF Walk, Owned
    <3>8. p = Head(t[i + 1].todo)
      BY <3>2, <3>3
    <3> QED
      BY <3>2, <3>6, <3>7, <3>8
  <2>3. \A i \in 1..Len(t) : Distinct(t[i].todo)
    BY <1>5
  <2> QED
    BY <2>1, <2>2, <2>3 DEF Owned
<1>7. Apart(t)
  <2> SUFFICES ASSUME NEW i \in 1..Len(t), NEW j \in 1..Len(t), i # j
               PROVE  StepsOf(t[i].todo) \cap StepsOf(t[j].todo) = {}
    BY DEF Apart
  <2>1. i + n - 1 # j + n - 1
    BY <1>1
  <2>2. StepsOf(st[i + n - 1].todo) \cap StepsOf(st[j + n - 1].todo) = {}
    BY ZenonT(60), <1>5, <2>1 DEF Walk, Apart
  <2> QED
    BY <1>5, <2>2
<1>8. Ahead(t, u)
  <2> SUFFICES ASSUME NEW i \in 1..Len(t), NEW x \in StepsOf(t[i].todo),
                      i = 1 \/ x # Head(t[i].todo)
               PROVE  u[x] = "none"
    BY DEF Ahead
  <2>0. /\ StepsOf(t[i].todo) \subseteq StepsOf(st[i + n - 1].todo) \ {h}
        /\ i + n - 1 \in 1..Len(st)
    BY <1>5
  <2>1. x \in StepsOf(st[i + n - 1].todo) /\ x # h /\ i + n - 1 \in 1..Len(st)
    BY <2>0
  <2>2. x \in Step
    BY <2>1, WalkFrames
  <2>3. x # Head(st[i + n - 1].todo)
    BY <1>5, <2>1
  <2>4. w[x] = "none"
    BY <2>1, <2>3 DEF Walk, Ahead
  <2> QED
    BY <1>4, <2>1, <2>2, <2>4
<1>9. Descends(t, u)
  <2>1. \A i \in 2..Len(st) : i # n => Head(st[i].todo) \in Opened(t)
    <3> SUFFICES ASSUME NEW i \in 2..Len(st), i # n PROVE Head(st[i].todo) \in Opened(t)
      OBVIOUS
    <3>1. i - n + 1 \in 2..Len(t) /\ t[i - n + 1] = st[i]
      <4>1. i - n + 1 \in 2..Len(t) /\ i - n + 1 + n - 1 = i
        BY <1>1
      <4> QED
        BY <4>1
    <3> QED
      BY <3>1 DEF Opened
  <2>2. ASSUME NEW s \in Step, NEW x \in Branches(s), u[x] # "none"
        PROVE  u[s] # "none" \/ s \in Opened(t)
    <3>1. CASE x = h
      <4>1. n + 1 \in 2..Len(st) /\ Head(st[n + 1].todo) = s
        <5>1. x \in Children(s) /\ x \in StepsOf(st[n].todo) /\ Owned(Main[r], st, w)
          BY <1>2, <3>1 DEF Walk, Children
        <5> QED
          BY <5>1, OwnerOf
      <4> QED
        BY <1>1, <2>1, <4>1
    <3>2. CASE x # h
      <4>1. x \in Step
        BY ProgramAssumption, StepsOfSeq DEF Branches
      <4>2. w[s] # "none" \/ s \in Opened(st)
        BY <1>4, <2>2, <3>2, <4>1 DEF Walk, Descends
      <4>3. CASE w[s] # "none"
        BY <1>4, <4>3
      <4>4. CASE s \in Opened(st)
        BY <1>4, <2>1, <4>4 DEF Opened
      <4> QED
        BY <4>2, <4>3, <4>4
    <3> QED
      BY <3>1, <3>2
  <2>3. ASSUME NEW s \in Step, NEW x \in StepsOf(OnFail[s]), u[x] # "none"
        PROVE  u[s] = "failed"
    <3>1. CASE x = h
      <4>1. /\ n + 1 \in 1..Len(st) /\ n + 1 # 1 /\ n + 1 # n /\ Head(st[n + 1].todo) = s
            /\ st[n].role = "branch" => x \in Branches(s)
            /\ st[n].role = "failure" => w[s] = "failed"
            /\ st[n].role \in {"branch", "failure"}
        <5>1. x \in Children(s) /\ x \in StepsOf(st[n].todo) /\ Owned(Main[r], st, w)
          BY <1>2, <3>1 DEF Walk, Children
        <5>2. n + 1 # 1 /\ n + 1 # n /\ \A i \in 2..Len(st) : i \in 1..Len(st)
          BY <1>1
        <5> QED
          BY <5>1, <5>2, OwnerOf
      <4>2. w[s] = "failed"
        BY <4>1, EachStepOnce
      <4>3. s \in StepsOf(st[n + 1].todo)
        BY <4>1, WalkFrames
      <4>4. s # h
        BY <1>2, <4>1, <4>3 DEF Walk, Apart
      <4> QED
        BY <1>4, <4>2, <4>4
    <3>2. CASE x # h
      <4>1. x \in Step
        BY ProgramAssumption, StepsOfSeq
      <4>2. w[s] = "failed"
        BY <1>4, <2>3, <3>2, <4>1 DEF Walk, Descends
      <4> QED
        BY <1>4, <4>2
    <3> QED
      BY <3>1, <3>2
  <2> QED
    BY <2>2, <2>3 DEF Descends
<1>10. BadShown(t, u)
  <2> SUFFICES ASSUME NEW s \in Step, u[s] \in Bad
               PROVE  \E i \in 1..Len(t) : ~t[i].ok \/ t[i].role = "failure"
    BY DEF BadShown
  <2>1. 1 \in 1..Len(t)
    BY <1>1
  <2>2. CASE ~good
    BY <1>3, <2>1, <2>2
  <2>3. CASE good
    <3>1. s # h /\ w[s] \in Bad
      BY <1>4, <2>3 DEF Bad
    <3>2. st # <<>>
      BY <1>1
    <3>3. PICK i \in 1..Len(st) : ~st[i].ok \/ st[i].role = "failure"
      BY <3>1, <3>2 DEF Walk, BadShown
    <3>4. i >= n
      <4>1. n = 2 => i # 1
        BY <2>3, <3>3
      <4> QED
        BY <1>1, <4>1
    <3>5. CASE i = n
      BY <1>3, <2>1, <3>3, <3>5
    <3>6. CASE i # n
      <4>1. i - n + 1 \in 2..Len(t) /\ i - n + 1 \in 1..Len(t) /\ i - n + 1 + n - 1 = i
        BY <1>1, <3>4, <3>6
      <4>2. t[i - n + 1] = st[i]
        BY <4>1
      <4> QED
        BY <3>3, <4>1, <4>2
    <3> QED
      BY <3>5, <3>6
  <2> QED
    BY <2>2, <2>3
<1>11. OkHonest(r, t, u, now)
  <2>1. FailedSomewhere(w) => FailedSomewhere(u)
    <3> SUFFICES ASSUME NEW s \in Step, w[s] \in {"failed", "timed_out"}
                 PROVE  u[s] \in {"failed", "timed_out"}
      BY DEF FailedSomewhere
    <3> QED
      BY <1>2, <1>4
  <2>2. ~good => r \in now \/ FailedSomewhere(u)
    BY <1>2, <1>4 DEF FailedSomewhere
  <2>3. ASSUME NEW i \in 1..Len(t), ~t[i].ok PROVE r \in now \/ FailedSomewhere(u)
    <3>1. CASE i = 1
      <4>1. (st[n].ok /\ ~good) \/ ~st[n].ok
        BY <1>3, <2>3, <3>1
      <4> QED
        BY <2>1, <2>2, <4>1 DEF Walk, OkHonest
    <3>2. CASE i # 1
      <4>1. i + n - 1 \in 1..Len(st) /\ ~st[i + n - 1].ok
        BY <1>5, <2>3, <3>2
      <4> QED
        BY <2>1, <4>1 DEF Walk, OkHonest
    <3> QED
      BY <3>1, <3>2
  <2> QED
    BY <2>3 DEF OkHonest
<1>12. MainDone(Main[r], t, u)
  <2> SUFFICES ASSUME t[Len(t)].ok, NEW x \in StepsOf(Main[r])
               PROVE  u[x] # "none" \/ x \in StepsOf(t[Len(t)].todo)
    BY DEF MainDone
  <2>1. x \in Step
    BY ProgramAssumption, StepsOfSeq
  <2>2. w[x] # "none" => u[x] # "none"
    BY <1>4, <2>1
  <2>3. Len(t) \in 1..Len(t) /\ Len(t) + n - 1 = Len(st)
    BY <1>1
  <2>4. st[Len(st)].ok /\ st # <<>>
    BY <1>1, <1>3, <1>5, <2>3
  <2>5. w[x] # "none" \/ x \in StepsOf(st[Len(st)].todo)
    BY <2>4 DEF Walk, MainDone
  <2>6. CASE Len(t) = 1
    <3>0. n = Len(st)
      BY <1>a, <2>6
    <3>1. n = Len(st) /\ good
      BY <1>3, <2>6, <3>0
    <3>2. x \in StepsOf(st[Len(st)].todo) => x = h \/ x \in StepsOf(t[Len(t)].todo)
      BY <1>3, <2>6, <3>1
    <3> QED
      BY <1>4, <2>2, <2>5, <3>2
  <2>7. CASE Len(t) # 1
    <3>1. t[Len(t)] = st[Len(st)]
      BY <1>5, <2>3, <2>7
    <3> QED
      BY <2>2, <2>5, <3>1
  <2> QED
    BY <2>6, <2>7
<1> QED
  BY <1>6, <1>7, <1>8, <1>9, <1>10, <1>11, <1>12 DEF Walk

(* A sequence f is put on top for the current step h: the branch of an if,  *)
(* or the failure actions of a step that has just failed.                   *)
LEMMA WalkPushed ==
  ASSUME NEW r \in Run, NEW st, WellStacked(st), NEW w \in [Step -> Statuses],
         NEW told, Walk(r, st, w, told),
         st # <<>>, st[1].todo # <<>>, NEW h, h = Head(st[1].todo),
         NEW f \in Frame, NEW u, Starts(f, h, w, u), NEW t, Over(t, f, st, 0)
  PROVE  Walk(r, t, u, told)
<1> USE DEF Starts
<1>0. /\ t \in Seq(Frame) /\ Len(t) = Len(st) + 1 /\ t[1] = f
      /\ \A i \in 2..Len(t) : t[i] = st[i - 1]
  <2>1. Len(st) \in Nat /\ Len(t) \in Nat
    BY DEF WellStacked, Over
  <2>2. Len(st) - 0 + 1 = Len(st) + 1 /\ \A i \in 2..Len(t) : i + 0 - 1 = i - 1
    BY <2>1
  <2> QED
    BY <2>2 DEF Over
<1> USE <1>0
<1>1. /\ st \in Seq(Frame) /\ Len(st) \in Nat /\ 1 \in 1..Len(st) /\ Len(t) \in Nat
      /\ 1 \in 1..Len(t) /\ Len(st) + 1 \in 2..Len(t) /\ Len(t) # 1 /\ t # <<>>
  BY DEF WellStacked
<1>2. /\ h \in StepsOf(st[1].todo) /\ h \in Step
  BY <1>1, WalkFrames
<1>3. w[h] = "none"
  BY <1>1, <1>2 DEF Walk, Ahead
<1>4. /\ \A x \in Step : x # h => u[x] = w[x]
      /\ u[h] = IF f.role = "branch" THEN "none" ELSE "failed"
  BY <1>2, <1>3
<1>5. ASSUME NEW i \in 1..Len(t), i # 1
      PROVE  /\ i - 1 \in 1..Len(st) /\ t[i] = st[i - 1]
             /\ i = Len(t) <=> i - 1 = Len(st)
             /\ i < Len(t) => /\ i - 1 < Len(st) /\ t[i + 1] = st[i] /\ i \in 1..Len(st)
                              /\ (i - 1) + 1 = i
  <2>1. i \in 2..Len(t) /\ i - 1 \in 1..Len(st)
    BY <1>1, <1>5
  <2>2. i = Len(t) <=> i - 1 = Len(st)
    BY <1>1
  <2>3. ASSUME i < Len(t)
        PROVE  i - 1 < Len(st) /\ t[i + 1] = st[i] /\ i \in 1..Len(st) /\ (i - 1) + 1 = i
    <3>1. i + 1 \in 2..Len(t) /\ (i + 1) - 1 = i /\ (i - 1) + 1 = i
      BY <1>1, <2>3
    <3>2. t[i + 1] = st[i]
      BY <3>1
    <3> QED
      BY <1>1, <1>5, <2>3, <3>1, <3>2
  <2> QED
    BY <2>1, <2>2, <2>3
<1>6. StepsOf(f.todo) \subseteq Children(h)
  BY DEF Children
<1>7. ASSUME NEW x \in StepsOf(f.todo)
      PROVE  /\ x \in Step /\ x # h /\ w[x] = "none"
             /\ \A j \in 1..Len(st) : x \notin StepsOf(st[j].todo)
  <2>1. x \in Children(h)
    BY <1>6
  <2>2. x \in Step
    BY FrameFields, StepsOfSeq
  <2>3. ASSUME NEW j \in 1..Len(st), x \in StepsOf(st[j].todo) PROVE FALSE
    <3>1. PICK k : k = j + 1
      OBVIOUS
    <3>2. k \in 2..Len(st) /\ Head(st[k].todo) = h
      BY <1>2, <2>1, <2>3, <3>1, OwnerOf DEF Walk
    <3>3. k \in 1..Len(st) /\ k # 1
      BY <3>2
    <3>4. h \in StepsOf(st[k].todo)
      BY <3>2, <3>3, WalkFrames
    <3> QED
      BY <1>1, <1>2, <3>3, <3>4 DEF Walk, Apart
  <2>4. x # h
    BY <1>1, <1>2, <2>3
  <2>5. h \notin Opened(st)
    <3> SUFFICES ASSUME NEW i \in 2..Len(st), h = Head(st[i].todo) PROVE FALSE
      BY DEF Opened
    <3>1. i \in 1..Len(st) /\ i # 1
      BY <1>1
    <3>2. h \in StepsOf(st[i].todo)
      BY <3>1, WalkFrames
    <3> QED
      BY <1>1, <1>2, <3>1, <3>2 DEF Walk, Apart
  <2>6. w[x] = "none"
    BY <1>2, <1>3, <2>1, <2>5 DEF Walk, Descends, Children
  <2> QED
    BY <2>2, <2>3, <2>4, <2>6
<1>8. Owned(Main[r], t, u)
  <2>1. ASSUME NEW i \in 1..Len(t)
        PROVE  /\ Distinct(t[i].todo)
               /\ i = Len(t) => StepsOf(t[i].todo) \subseteq StepsOf(Main[r])
    <3>1. CASE i = 1
      BY <1>1, <3>1
    <3>2. CASE i # 1
      BY <1>5, <3>2 DEF Walk, Owned
    <3> QED
      BY <3>1, <3>2
  <2>2. ASSUME NEW i \in 1..Len(t), i < Len(t), NEW p, p = Head(t[i + 1].todo)
        PROVE  \/ /\ t[i].role = "branch" /\ u[p] = "none"
                  /\ StepsOf(t[i].todo) \subseteq Branches(p)
               \/ /\ t[i].role = "failure" /\ u[p] = "failed"
                  /\ StepsOf(t[i].todo) \subseteq StepsOf(OnFail[p])
    <3>1. CASE i = 1
      <4>1. 2 \in 2..Len(t) /\ 2 - 1 = 1 /\ i + 1 = 2
        BY <1>1, <3>1
      <4>2. t[i + 1] = st[1]
        BY <4>1
      <4> QED
        BY <1>4, <2>2, <3>1, <4>2
    <3>2. CASE i # 1
      <4>1. PICK k : k = i - 1
        OBVIOUS
      <4>2. k \in 1..Len(st) /\ t[i] = st[k] /\ k < Len(st) /\ t[i + 1] = st[k + 1]
            /\ k + 1 = i /\ i \in 1..Len(st)
        BY <1>5, <2>2, <3>2, <4>1
      <4>3. p = Head(st[k + 1].todo)
        BY <2>2, <4>2
      <4>7. p = Head(st[i].todo)
        BY <4>2, <4>3
      <4>9. i \in 1..Len(st) /\ i # 1
        BY <3>2, <4>2
      <4>8. Head(st[i].todo) \in StepsOf(st[i].todo) /\ Head(st[i].todo) \in Step
        BY <4>9, WalkFrames
      <4>4. p \in StepsOf(st[i].todo) /\ p \in Step
        BY <4>7, <4>8
      <4>5. p # h
        BY ZenonT(60), <1>1, <1>2, <4>4, <4>9 DEF Walk, Apart
      <4>6. \/ st[k].role = "branch" /\ w[p] = "none" /\ StepsOf(st[k].todo) \subseteq Branches(p)
            \/ /\ st[k].role = "failure" /\ w[p] = "failed"
               /\ StepsOf(st[k].todo) \subseteq StepsOf(OnFail[p])
        BY <4>2, <4>3 DEF Walk, Owned
      <4> QED
        BY <1>4, <4>2, <4>4, <4>5, <4>6
    <3> QED
      BY <3>1, <3>2
  <2> QED
    BY <2>1, <2>2 DEF Owned
<1>9. Apart(t)
  <2>1. ASSUME NEW j \in 1..Len(t), j # 1
        PROVE  StepsOf(f.todo) \cap StepsOf(t[j].todo) = {}
    BY <1>5, <1>7, <2>1
  <2>2. ASSUME NEW i \in 1..Len(t), NEW j \in 1..Len(t), i # j, i # 1, j # 1
        PROVE  StepsOf(t[i].todo) \cap StepsOf(t[j].todo) = {}
    <3>1. i - 1 # j - 1
      BY <1>1, <2>2
    <3>2. /\ i - 1 \in 1..Len(st) /\ t[i] = st[i - 1]
          /\ j - 1 \in 1..Len(st) /\ t[j] = st[j - 1]
      BY <1>5, <2>2
    <3> QED
      BY <3>1, <3>2 DEF Walk, Apart
  <2> QED
    BY <2>1, <2>2 DEF Apart
<1>10. Ahead(t, u)
  <2> SUFFICES ASSUME NEW i \in 1..Len(t), NEW x \in StepsOf(t[i].todo),
                      i = 1 \/ x # Head(t[i].todo)
               PROVE  u[x] = "none"
    BY DEF Ahead
  <2>1. CASE i = 1
    BY <1>4, <1>7, <2>1
  <2>2. CASE i # 1
    <3>1. PICK k : k = i - 1
      OBVIOUS
    <3>2. k \in 1..Len(st) /\ t[i] = st[k] /\ x # Head(st[k].todo)
      BY <1>5, <2>2, <3>1
    <3>3. x \in Step /\ w[x] = "none"
      BY <3>2, WalkFrames DEF Walk, Ahead
    <3>4. x # h
      BY ZenonT(60), <1>1, <1>2, <3>2 DEF Walk, Apart
    <3> QED
      BY <1>4, <3>3, <3>4
  <2> QED
    BY <2>1, <2>2
<1>11. Descends(t, u)
  <2>1. Opened(st) \subseteq Opened(t) /\ h \in Opened(t)
    <3>1. ASSUME NEW i \in 1..Len(st) PROVE Head(st[i].todo) \in Opened(t)
      <4>1. i + 1 \in 2..Len(t) /\ (i + 1) - 1 = i
        BY <1>1
      <4>2. t[i + 1] = st[i]
        BY <4>1
      <4> QED
        BY <4>1, <4>2 DEF Opened
    <3>2. \A i \in 2..Len(st) : i \in 1..Len(st)
      BY <1>1
    <3> QED
      BY ZenonT(60), <1>1, <3>1, <3>2 DEF Opened
  <2>2. ASSUME NEW s \in Step, NEW x \in Branches(s), u[x] # "none"
        PROVE  u[s] # "none" \/ s \in Opened(t)
    <3>1. x \in Step
      BY ProgramAssumption, StepsOfSeq DEF Branches
    <3>2. CASE x = h
      <4>1. 1 + 1 \in 2..Len(st) /\ Head(st[1 + 1].todo) = s
        BY <1>1, <1>2, <3>2, OwnerOf DEF Walk, Children
      <4> QED
        BY <2>1, <4>1 DEF Opened
    <3>3. CASE x # h
      BY <1>4, <2>1, <2>2, <3>1, <3>3 DEF Walk, Descends
    <3> QED
      BY <3>2, <3>3
  <2>3. ASSUME NEW s \in Step, NEW x \in StepsOf(OnFail[s]), u[x] # "none"
        PROVE  u[s] = "failed"
    <3>1. x \in Step
      BY ProgramAssumption, StepsOfSeq
    <3>2. CASE x = h
      <4>1. /\ st[1].role = "branch" => x \in Branches(s)
            /\ st[1].role = "failure" => w[s] = "failed"
            /\ st[1].role \in {"branch", "failure"}
        <5>1. x \in Children(s) /\ x \in StepsOf(st[1].todo) /\ Owned(Main[r], st, w)
          BY <1>2, <3>2 DEF Walk, Children
        <5> QED
          BY <1>1, <5>1, OwnerOf
      <4>2. w[s] = "failed"
        BY <4>1, EachStepOnce
      <4> QED
        BY <1>3, <1>4, <4>2
    <3>3. CASE x # h
      BY <1>3, <1>4, <2>3, <3>1, <3>3 DEF Walk, Descends
    <3> QED
      BY <3>2, <3>3
  <2> QED
    BY <2>2, <2>3 DEF Descends
<1>12. BadShown(t, u)
  <2> SUFFICES ASSUME NEW s \in Step, u[s] \in Bad
               PROVE  \E i \in 1..Len(t) : ~t[i].ok \/ t[i].role = "failure"
    BY DEF BadShown
  <2>1. CASE f.role = "failure"
    BY <1>1, <2>1
  <2>2. CASE u = w
    <3>1. st # <<>>
      BY <1>1
    <3>2. PICK i \in 1..Len(st) : ~st[i].ok \/ st[i].role = "failure"
      BY <2>2, <3>1 DEF Walk, BadShown
    <3>3. i + 1 \in 2..Len(t) /\ (i + 1) - 1 = i /\ i + 1 \in 1..Len(t)
      BY <1>1
    <3>4. t[i + 1] = st[i]
      BY <3>3
    <3> QED
      BY <3>2, <3>3, <3>4
  <2> QED
    BY <2>1, <2>2
<1>13. OkHonest(r, t, u, told)
  <2>1. FailedSomewhere(w) => FailedSomewhere(u)
    <3> SUFFICES ASSUME NEW s \in Step, w[s] \in {"failed", "timed_out"}
                 PROVE  u[s] \in {"failed", "timed_out"}
      BY DEF FailedSomewhere
    <3> QED
      BY <1>3, <1>4
  <2>2. ASSUME NEW i \in 1..Len(t), ~t[i].ok PROVE r \in told \/ FailedSomewhere(u)
    <3>1. i # 1
      BY <2>2
    <3>2. i - 1 \in 1..Len(st) /\ t[i] = st[i - 1]
      BY <1>5, <3>1
    <3> QED
      BY <2>1, <2>2, <3>2 DEF Walk, OkHonest
  <2> QED
    BY <2>2 DEF OkHonest
<1>14. MainDone(Main[r], t, u)
  <2> SUFFICES ASSUME t[Len(t)].ok, NEW x \in StepsOf(Main[r])
               PROVE  u[x] # "none" \/ x \in StepsOf(t[Len(t)].todo)
    BY DEF MainDone
  <2>1. x \in Step
    BY ProgramAssumption, StepsOfSeq
  <2>2. w[x] # "none" => u[x] # "none"
    BY <1>3, <1>4, <2>1
  <2>3. t[Len(t)] = st[Len(st)]
    <3>1. Len(t) \in 1..Len(t) /\ Len(t) # 1 /\ Len(t) - 1 = Len(st)
      BY <1>1
    <3> QED
      BY <1>5, <3>1
  <2> QED
    BY <1>1, <2>2, <2>3 DEF Walk, MainDone
<1> QED
  BY <1>8, <1>9, <1>10, <1>11, <1>12, <1>13, <1>14 DEF Walk

(* A workflow that begins, one that is over, and more reason to have        *)
(* stopped.                                                                 *)
LEMMA WalkBegins ==
  ASSUME NEW r \in Run, NEW w, \A s \in Step : w[s] = "none", NEW told,
         NEW f \in Frame, f.todo = Main[r], f.ok, NEW t, t = <<f>>
  PROVE  Walk(r, t, w, told)
<1>1. /\ Len(t) = 1 /\ t[1] = f /\ \A i \in 1..Len(t) : i = 1
      /\ \A i \in 2..Len(t) : FALSE
  OBVIOUS
<1>2. f.todo \in Seq(Step) /\ StepsOf(f.todo) \subseteq Step /\ Distinct(f.todo)
  BY FrameFields, StepsOfSeq, EachStepOnce
<1>3. Owned(Main[r], t, w)
  BY <1>1, <1>2 DEF Owned
<1>4. Apart(t) /\ Ahead(t, w)
  BY <1>1, <1>2 DEF Apart, Ahead
<1>5. Descends(t, w)
  <2>1. \A s \in Step : Branches(s) \subseteq Step /\ StepsOf(OnFail[s]) \subseteq Step
    BY ProgramAssumption, StepsOfSeq DEF Branches
  <2> QED
    BY <2>1 DEF Descends
<1>6. BadShown(t, w)
  BY DEF BadShown, Bad
<1>7. OkHonest(r, t, w, told)
  BY <1>1 DEF OkHonest
<1>8. MainDone(Main[r], t, w)
  BY <1>1 DEF MainDone
<1> QED
  BY <1>3, <1>4, <1>5, <1>6, <1>7, <1>8 DEF Walk

LEMMA WalkEmpty ==
  ASSUME NEW r, NEW w, Descends(<<>>, w), NEW told
  PROVE  Walk(r, <<>>, w, told)
<1>1. Len(<<>>) = 0 /\ \A i \in 1..Len(<<>>) : FALSE
  OBVIOUS
<1>2. Owned(Main[r], <<>>, w)
  BY <1>1 DEF Owned
<1>3. Apart(<<>>) /\ Ahead(<<>>, w)
  BY <1>1 DEF Apart, Ahead
<1>4. BadShown(<<>>, w) /\ MainDone(Main[r], <<>>, w)
  BY DEF BadShown, MainDone
<1>5. OkHonest(r, <<>>, w, told)
  BY <1>1 DEF OkHonest
<1> QED
  BY <1>2, <1>3, <1>4, <1>5 DEF Walk

LEMMA WalkTold ==
  ASSUME NEW r, NEW st, NEW w, NEW told, Walk(r, st, w, told), NEW now,
         r \in told => r \in now
  PROVE  Walk(r, st, w, now)
  BY DEF Walk, OkHonest

LEMMA NothingOpened ==
  ASSUME NEW st, Len(st) \in {0, 1}
  PROVE  Opened(st) = {}
<1>1. CASE Len(st) = 0
  BY <1>1 DEF Opened
<1>2. CASE Len(st) = 1
  BY <1>2 DEF Opened
<1> QED
  BY <1>1, <1>2

(* What the end of the workflow's own sequence says of its steps.           *)
LEMMA WalkEnds ==
  ASSUME NEW r \in Run, NEW st, WellStacked(st), NEW w \in [Step -> Statuses],
         NEW told, Walk(r, st, w, told), st # <<>>, st[1].role = "main"
  PROVE  /\ Walk(r, <<>>, w, told)
         /\ st[1].ok /\ st[1].todo = <<>> =>
              (\A s \in Step : w[s] \notin Bad) /\ \A x \in StepsOf(Main[r]) : w[x] # "none"
         /\ ~st[1].ok => r \in told \/ FailedSomewhere(w)
<1>1. Len(st) = 1 /\ 1 \in 1..Len(st) /\ \A i \in 1..Len(st) : i = 1
  <2>1. st \in Seq(Frame) /\ Len(st) \in Nat /\ 1 \in 1..Len(st)
    BY DEF WellStacked
  <2>2. Len(st) = 1
    BY <2>1 DEF WellStacked
  <2> QED
    BY <2>1, <2>2
<1>2. Opened(st) = {} /\ Opened(<<>>) = {}
  <2>1. Len(<<>>) = 0
    OBVIOUS
  <2> QED
    BY <1>1, <2>1, NothingOpened
<1>3. Descends(<<>>, w)
  BY <1>2 DEF Walk, Descends
<1>4. Walk(r, <<>>, w, told)
  BY <1>3, WalkEmpty
<1>5. ASSUME st[1].ok, st[1].todo = <<>>
      PROVE  /\ \A s \in Step : w[s] \notin Bad
             /\ \A x \in StepsOf(Main[r]) : w[x] # "none"
  <2>1. \A s \in Step : w[s] \notin Bad
    BY <1>1, <1>5 DEF Walk, BadShown
  <2>2. StepsOf(st[1].todo) = {}
    BY <1>5 DEF StepsOf
  <2>3. \A x \in StepsOf(Main[r]) : w[x] # "none"
    BY <1>1, <1>5, <2>2 DEF Walk, MainDone
  <2> QED
    BY <2>1, <2>3
<1>6. ~st[1].ok => r \in told \/ FailedSomewhere(w)
  BY <1>1 DEF Walk, OkHonest
<1> QED
  BY <1>4, <1>5, <1>6

(* The verdict v of a run at p with the statuses u, and what is known of    *)
(* every run.                                                               *)
Fits(r, p, u, v, told) ==
  /\ p = "over" => v \in {"succeeded", "failed"}
  /\ v = "succeeded" =>
       (\A s \in Step : u[s] \notin Bad) /\ \A x \in StepsOf(Main[r]) : u[x] # "none"
  /\ v = "failed" => FailedSomewhere(u) \/ r \in Asserted \/ (p = "over" /\ r \in told)
  /\ v = "cancelled" => r \in told
  /\ v = "rejected" => \A s \in Step : u[s] = "none"

Past == {"over", "decided", "ended"}
Judged(r) ==
  /\ phase[r] = "new" => \A s \in Step : status[r][s] = "none"
  /\ phase[r] \in Past => Fits(r, phase[r], status[r], verdict[r], cancelled)

WalkOK(r) == Walk(r, stack[r], status[r], cancelled)
VerdictInv == TypeInv /\ \A r \in Run : WalkOK(r) /\ Judged(r)

LEMMA RunFacts ==
  ASSUME VerdictInv, NEW r \in Run
  PROVE  /\ WellStacked(stack[r]) /\ stack[r] \in Seq(Frame)
         /\ status[r] \in [Step -> Statuses]
         /\ WalkOK(r) /\ Judged(r)
         /\ phase[r] \in InStep \cup {"step"} => stack[r] # <<>>
         /\ stack[r] # <<>> => Top(r) = stack[r][1]
         /\ phase[r] = "new" => stack[r] = <<>>
  BY DEF VerdictInv, TypeInv, StackInv, DataInv, Top

(* Steps of one run leave what is known of the others alone.                *)
LEMMA OthersKept ==
  ASSUME VerdictInv, NEW r \in Run, NEW q \in Run, q # r, NEW p, NEW t, NEW u, NEW v,
         phase' = [phase EXCEPT ![r] = p], stack' = [stack EXCEPT ![r] = t],
         status' = [status EXCEPT ![r] = u], verdict' = [verdict EXCEPT ![r] = v],
         cancelled' \in {cancelled, cancelled \cup {r}}
  PROVE  WalkOK(q)' /\ Judged(q)'
<1>1. /\ phase'[q] = phase[q] /\ stack'[q] = stack[q] /\ status'[q] = status[q]
      /\ verdict'[q] = verdict[q] /\ (q \in cancelled' <=> q \in cancelled)
  BY DEF VerdictInv, TypeInv, DrainInv, DataInv
<1>2. Judged(q)'
  BY <1>1 DEF VerdictInv, Judged, Fits
<1>3. WalkOK(q)'
  BY <1>1, WalkTold DEF VerdictInv, WalkOK
<1> QED
  BY <1>2, <1>3

(* One step of the thread of r.                                             *)
LEMMA VerdictKept ==
  ASSUME VerdictInv, TypeInv', NEW r \in Run, NEW p, NEW t, NEW u, NEW v,
         phase' = [phase EXCEPT ![r] = p], stack' = [stack EXCEPT ![r] = t],
         status' = [status EXCEPT ![r] = u], verdict' = [verdict EXCEPT ![r] = v],
         cancelled' \in {cancelled, cancelled \cup {r}},
         Walk(r, t, u, cancelled'),
         p # "new", p \in Past => Fits(r, p, u, v, cancelled')
  PROVE  VerdictInv'
<1>1. phase'[r] = p /\ stack'[r] = t /\ status'[r] = u /\ verdict'[r] = v
  BY DEF VerdictInv, TypeInv, DrainInv, DataInv
<1>2. WalkOK(r)'
  BY <1>1 DEF WalkOK
<1>3. Judged(r)'
  BY <1>1 DEF Judged
<1>4. \A q \in Run : WalkOK(q)' /\ Judged(q)'
  BY <1>2, <1>3, OthersKept
<1> QED
  BY <1>4 DEF VerdictInv

(* Where only the phase, the answer or the count changes.                   *)
LEMMA VerdictStays ==
  ASSUME VerdictInv, TypeInv', NEW r \in Run, NEW p \in InStep \cup {"step"}, Goto(r, p),
         UNCHANGED <<stack, status, verdict, cancelled>>
  PROVE  VerdictInv'
<1>0. PICK t, u, v : t = stack[r] /\ u = status[r] /\ v = verdict[r]
  OBVIOUS
<1>1. /\ phase' = [phase EXCEPT ![r] = p] /\ stack' = [stack EXCEPT ![r] = t]
      /\ status' = [status EXCEPT ![r] = u]
      /\ verdict' = [verdict EXCEPT ![r] = v]
  BY <1>0 DEF Goto, VerdictInv, TypeInv, DataInv
<1>2. Walk(r, t, u, cancelled')
  BY <1>0 DEF VerdictInv, WalkOK
<1>3. cancelled' \in {cancelled, cancelled \cup {r}}
  OBVIOUS
<1>4. p # "new" /\ p \notin Past
  BY DEF InStep, Past
<1> QED
  BY <1>1, <1>2, <1>3, <1>4, VerdictKept

(* A step done with and the loop gone on: WalkPassed in the model's terms,  *)
(* for the top sequence and for the one below it.                           *)
LEMMA VerdictStepOver ==
  ASSUME VerdictInv, TypeInv', NEW r \in Run, stack[r] # <<>>, Top(r).todo # <<>>,
         NEW good \in BOOLEAN, NEW v, v # "none", Goto(r, "step"),
         Mark(r, Current(r), v), StepOver(r, good),
         cancelled' \in {cancelled, cancelled \cup {r}}, UNCHANGED verdict,
         good => v \in {"ok", "skipped"},
         ~good => v \in {"failed", "timed_out"} \/ r \in cancelled'
  PROVE  VerdictInv'
<1>1. PICK st : st = stack[r]
  OBVIOUS
<1>2. PICK h : h = Head(st[1].todo)
  OBVIOUS
<1>3. PICK w : w = status[r]
  OBVIOUS
<1>4. PICK u : u = [w EXCEPT ![h] = v]
  OBVIOUS
<1>5. /\ WellStacked(st) /\ st \in Seq(Frame) /\ w \in [Step -> Statuses] /\ st # <<>>
      /\ Walk(r, st, w, cancelled) /\ Top(r) = st[1] /\ Current(r) = h
  BY <1>1, <1>2, <1>3, RunFacts DEF WalkOK, Current
<1>6. PICK t : t = <<Advance(Head(st), good)>> \o Tail(st)
  OBVIOUS
<1>7. Head(st) = st[1] /\ 1 \in 1..Len(st) /\ st[1].todo # <<>> /\ st[1] \in Frame
  BY <1>5
<1>8. Over(t, Advance(st[1], good), st, 1)
  <2>0. Advance(st[1], good) \in Frame
    BY <1>7, AdvanceType
  <2>1. PICK a \in Frame : a = Advance(st[1], good)
    BY <2>0
  <2>a. Tail(st) \in Seq(Frame)
    BY <1>5
  <2>2. PICK s \in Seq(Frame) : s = Tail(st)
    BY <2>a
  <2>3. Len(s) = Len(st) - 1 /\ \A i \in 1..Len(s) : s[i] = st[i + 1]
    BY <1>5, <2>2
  <2>4. t = <<a>> \o s
    BY <1>6, <1>7, <2>1, <2>2
  <2>5. /\ t \in Seq(Frame) /\ Len(t) = Len(s) + 1 /\ t[1] = a
        /\ \A i \in 2..Len(s) + 1 : t[i] = s[i - 1]
    BY <2>4, PutOnTop
  <2>6. Len(st) \in Nat /\ Len(s) \in Nat
    BY <1>5
  <2>7. ASSUME NEW i \in 2..Len(t) PROVE t[i] = st[i + 1 - 1]
    <3>1. i - 1 \in 1..Len(s) /\ (i - 1) + 1 = i + 1 - 1 /\ i \in 2..Len(s) + 1
      BY <2>5, <2>6
    <3> QED
      BY <2>3, <2>5, <3>1
  <2>8. Len(t) = Len(st) - 1 + 1
    BY <2>3, <2>5, <2>6
  <2> QED
    BY <2>1, <2>5, <2>7, <2>8 DEF Over
<1>9. w[h] = "none"
  <2>1. h \in StepsOf(st[1].todo)
    BY <1>2, <1>5, <1>7, WalkFrames
  <2> QED
    BY <1>5, <1>7, <2>1 DEF Walk, Ahead
<1>10. Walk(r, t, u, cancelled')
  <2>1. r \in cancelled => r \in cancelled'
    OBVIOUS
  <2>2. h \in {Head(st[1].todo)} /\ 1 \in {1, 2} /\ 1 # 2
    BY <1>2
  <2>3. Passing(r, st, w, cancelled, 1, v, t, u, cancelled')
    BY <1>4, <1>5, <1>7, <1>8, <1>9, <2>1, <2>2, Zenon DEF Passing
  <2> QED
    BY <2>3, WalkPassed
<1>11. /\ phase' = [phase EXCEPT ![r] = "step"] /\ stack' = [stack EXCEPT ![r] = t]
       /\ status' = [status EXCEPT ![r] = u] /\ verdict' = [verdict EXCEPT ![r] = verdict[r]]
  BY <1>1, <1>3, <1>4, <1>5, <1>6 DEF Goto, Mark, StepOver, VerdictInv, TypeInv, DataInv
<1>12. "step" # "new" /\ "step" \notin Past
  BY DEF Past
<1> QED
  BY <1>10, <1>11, <1>12, VerdictKept

LEMMA VerdictPush ==
  ASSUME VerdictInv, TypeInv', NEW r \in Run, stack[r] # <<>>, Top(r).todo # <<>>,
         NEW steps \in Seq(Step), Distinct(steps), NEW handles \in BOOLEAN,
         NEW role, NEW u, Goto(r, "step"), Push(r, steps, handles, role),
         status' = [status EXCEPT ![r] = u],
         \/ /\ role = "branch" /\ StepsOf(steps) \subseteq Branches(Current(r))
            /\ u = status[r]
         \/ /\ role = "failure" /\ StepsOf(steps) \subseteq StepsOf(OnFail[Current(r)])
            /\ u = [status[r] EXCEPT ![Current(r)] = "failed"],
         UNCHANGED <<cancelled, verdict>>
  PROVE  VerdictInv'
<1>1. PICK st : st = stack[r]
  OBVIOUS
<1>2. PICK h : h = Head(st[1].todo)
  OBVIOUS
<1>3. PICK w : w = status[r]
  OBVIOUS
<1>4. PICK f : f = [todo |-> steps, ok |-> TRUE, handles |-> handles, role |-> role]
  OBVIOUS
<1>5. /\ WellStacked(st) /\ st \in Seq(Frame) /\ w \in [Step -> Statuses] /\ st # <<>>
      /\ Walk(r, st, w, cancelled) /\ Top(r) = st[1] /\ Current(r) = h /\ st[1].todo # <<>>
  BY <1>1, <1>2, <1>3, RunFacts DEF WalkOK, Current
<1>6. f \in Frame /\ f.todo = steps /\ f.ok /\ f.role = role
  BY <1>4 DEF Frame, Roles
<1>7. PICK t : t = <<f>> \o st
  OBVIOUS
<1>8. Over(t, f, st, 0)
  <2>1. Len(st) \in Nat
    BY <1>5
  <2>2. /\ t \in Seq(Frame) /\ Len(t) = Len(st) + 1 /\ t[1] = f
        /\ \A i \in 2..Len(st) + 1 : t[i] = st[i - 1]
    BY <1>5, <1>6, <1>7, PutOnTop
  <2>3. Len(t) = Len(st) - 0 + 1 /\ \A i \in 2..Len(st) + 1 : i + 0 - 1 = i - 1
    BY <2>1, <2>2
  <2> QED
    BY <2>1, <2>2, <2>3 DEF Over
<1>9. Walk(r, t, u, cancelled)
  <2>1. Starts(f, h, w, u)
    BY <1>3, <1>5, <1>6 DEF Starts
  <2> QED
    BY <1>2, <1>5, <1>6, <1>8, <2>1, WalkPushed
<1>10. /\ phase' = [phase EXCEPT ![r] = "step"] /\ stack' = [stack EXCEPT ![r] = t]
       /\ verdict' = [verdict EXCEPT ![r] = verdict[r]] /\ cancelled' = cancelled
  BY <1>1, <1>4, <1>7 DEF Goto, Push, VerdictInv, TypeInv, DataInv
<1>11. "step" # "new" /\ "step" \notin Past
  BY DEF Past
<1>12. PICK v : v = verdict[r]
  OBVIOUS
<1>13. /\ Walk(r, t, u, cancelled') /\ cancelled' \in {cancelled, cancelled \cup {r}}
       /\ verdict' = [verdict EXCEPT ![r] = v]
  BY <1>9, <1>10, <1>12
<1> QED
  BY <1>10, <1>11, <1>13, VerdictKept

LEMMA BelowMain ==
  ASSUME NEW st, WellStacked(st), st # <<>>, st[1].role # "main"
  PROVE  /\ Len(st) \in Nat /\ Len(st) >= 2 /\ 1 < Len(st) /\ 1 \in 1..Len(st) /\ 2 \in 1..Len(st)
         /\ st[2] \in Frame /\ st[2].todo # <<>>
<1>1. st \in Seq(Frame) /\ 1 \in 1..Len(st) /\ Len(st) \in Nat
  BY DEF WellStacked
<1>2. Len(st) # 1
  BY <1>1 DEF WellStacked
<1>3. Len(st) >= 2 /\ 1 < Len(st) /\ 2 \in 1..Len(st)
  BY <1>1, <1>2
<1>4. st[2] \in Frame
  BY <1>1, <1>3
<1> QED
  BY <1>1, <1>3, <1>4 DEF WellStacked

LEMMA VerdictBackTo ==
  ASSUME VerdictInv, TypeInv', NEW r \in Run, stack[r] # <<>>, Top(r).role # "main",
         NEW good \in BOOLEAN, NEW h, h = Head(stack[r][2].todo), NEW u,
         u = [status[r] EXCEPT ![h] = IF good THEN "ok" ELSE "failed"],
         Goto(r, "step"), BackTo(r, good), status' = [status EXCEPT ![r] = u],
         good => Top(r).ok /\ Top(r).role = "branch",
         UNCHANGED <<cancelled, verdict>>
  PROVE  VerdictInv'
<1>1. PICK st, w, v, vd : /\ st = stack[r] /\ w = status[r] /\ vd = verdict[r]
                          /\ v = IF good THEN "ok" ELSE "failed"
  OBVIOUS
<1>2. /\ WellStacked(st) /\ st \in Seq(Frame) /\ w \in [Step -> Statuses] /\ st # <<>>
      /\ Walk(r, st, w, cancelled) /\ Top(r) = st[1] /\ h = Head(st[2].todo)
      /\ u = [w EXCEPT ![h] = v]
  BY <1>1, RunFacts DEF WalkOK
<1>3. PICK t : t = <<Advance(st[2], good)>> \o Tail(Tail(st))
  OBVIOUS
<1>4. Len(st) \in Nat /\ Len(st) >= 2 /\ 2 \in 1..Len(st) /\ 1 \in 1..Len(st)
  BY <1>2, BelowMain
<1>5. st[2] \in Frame /\ st[2].todo # <<>> /\ h \in StepsOf(st[2].todo) /\ h \in Step
  BY <1>2, <1>4, BelowMain, WalkFrames
<1>6. Over(t, Advance(st[2], good), st, 2)
  <2>0. Advance(st[2], good) \in Frame
    BY <1>5, AdvanceType
  <2>1. PICK a \in Frame : a = Advance(st[2], good)
    BY <2>0
  <2>2. PICK s \in Seq(Frame) : s = Tail(st)
    <3>1. Tail(st) \in Seq(Frame)
      BY <1>2
    <3> QED
      BY <3>1
  <2>3. Len(s) = Len(st) - 1 /\ \A i \in 1..Len(s) : s[i] = st[i + 1]
    BY <1>2, <2>2
  <2>4. Len(s) \in Nat /\ Len(s) >= 1
    BY <1>4, <2>3
  <2>5. PICK z \in Seq(Frame) : z = Tail(s)
    <3>1. Tail(s) \in Seq(Frame)
      BY <2>4
    <3> QED
      BY <3>1
  <2>6. Len(z) = Len(s) - 1 /\ \A i \in 1..Len(z) : z[i] = s[i + 1]
    BY <2>4, <2>5
  <2>7. t = <<a>> \o z
    BY <1>3, <2>1, <2>2, <2>5
  <2>8. /\ t \in Seq(Frame) /\ Len(t) = Len(z) + 1 /\ t[1] = a
        /\ \A i \in 2..Len(z) + 1 : t[i] = z[i - 1]
    BY <2>7, PutOnTop
  <2>9. Len(t) = Len(st) - 2 + 1 /\ Len(z) \in Nat
    BY <1>4, <2>3, <2>6, <2>8
  <2>10. ASSUME NEW i \in 2..Len(t) PROVE t[i] = st[i + 2 - 1]
    <3>1. /\ i \in 2..Len(z) + 1 /\ i - 1 \in 1..Len(z) /\ (i - 1) + 1 = i
          /\ i \in 1..Len(s) /\ i + 1 = i + 2 - 1
      BY <2>4, <2>6, <2>8, <2>9
    <3>2. t[i] = z[i - 1]
      BY <2>8, <3>1
    <3>3. z[i - 1] = s[i]
      BY <2>6, <3>1
    <3>4. s[i] = st[i + 1]
      BY <2>3, <3>1
    <3> QED
      BY <3>1, <3>2, <3>3, <3>4
  <2> QED
    BY <2>1, <2>8, <2>9, <2>10 DEF Over
<1>7. w[h] = "none" \/ (w[h] = "failed" /\ v = "failed")
  <2>1. PICK n : n = 1 + 1
    OBVIOUS
  <2>2. n = 2 /\ h = Head(st[n].todo) /\ 1 < Len(st)
    BY <1>2, <1>4, <2>1
  <2>3. \/ st[1].role = "branch" /\ w[h] = "none"
        \/ st[1].role = "failure" /\ w[h] = "failed"
    BY <1>2, <1>4, <2>1, <2>2 DEF Walk, Owned
  <2> QED
    BY <1>1, <1>2, <2>3
<1>8. Walk(r, t, u, cancelled')
  <2>1. /\ h \in {Head(st[2].todo)} /\ 2 \in {1, 2} /\ v # "none"
        /\ good => v \in {"ok", "skipped"}
        /\ ~good => v \in {"failed", "timed_out"}
        /\ good => st[1].ok /\ st[1].role # "failure"
        /\ r \in cancelled => r \in cancelled'
    BY <1>1, <1>2
  <2>2. Passing(r, st, w, cancelled, 2, v, t, u, cancelled')
    BY <1>2, <1>4, <1>5, <1>6, <1>7, <2>1, Zenon DEF Passing
  <2> QED
    BY <2>2, WalkPassed
<1>9. /\ phase' = [phase EXCEPT ![r] = "step"] /\ stack' = [stack EXCEPT ![r] = t]
      /\ verdict' = [verdict EXCEPT ![r] = vd] /\ cancelled' \in {cancelled, cancelled \cup {r}}
  BY <1>1, <1>3 DEF Goto, BackTo, VerdictInv, TypeInv, DataInv
<1>10. "step" # "new" /\ "step" \notin Past
  BY DEF Past
<1> QED
  BY <1>8, <1>9, <1>10, VerdictKept

LEMMA VerdictInvStep == VerdictInv /\ [Next]_vars => VerdictInv'
<1> SUFFICES ASSUME VerdictInv, [Next]_vars PROVE VerdictInv'
  OBVIOUS
<1>t. TypeInv /\ TypeInv'
  BY TypeInvStep DEF VerdictInv
<1>1. ASSUME NEW r \in Run, Start(r) PROVE VerdictInv'
  <2>1. PICK st, w, vd : st = stack[r] /\ w = status[r] /\ vd = verdict[r]
    OBVIOUS
  <2>2. /\ st = <<>> /\ \A s \in Step : w[s] = "none"
        /\ Walk(r, st, w, cancelled) /\ UNCHANGED <<status, cancelled>>
        /\ status' = [status EXCEPT ![r] = w]
    BY <1>t, <1>1, <2>1, RunFacts DEF Start, WalkOK, Judged, TypeInv, DataInv
  <2>3. cancelled' \in {cancelled, cancelled \cup {r}} /\ Walk(r, st, w, cancelled')
    BY <2>2
  <2>4. ASSUME Goto(r, "decided"), UNCHANGED stack, NEW v, verdict' = [verdict EXCEPT ![r] = v],
               v = "rejected" \/ (v = "cancelled" /\ r \in cancelled)
        PROVE  VerdictInv'
    <3>1. phase' = [phase EXCEPT ![r] = "decided"] /\ stack' = [stack EXCEPT ![r] = st]
      BY <1>t, <2>1, <2>4 DEF Goto, TypeInv, DataInv
    <3>2. Fits(r, "decided", w, v, cancelled') /\ "decided" # "new"
      BY <2>2, <2>4 DEF Fits
    <3> QED
      BY <1>t, <2>2, <2>3, <2>4, <3>1, <3>2, VerdictKept
  <2>5. ASSUME Goto(r, "step"), Push(r, Main[r], TRUE, "main"), UNCHANGED verdict
        PROVE  VerdictInv'
    <3>1. PICK f : f = [todo |-> Main[r], ok |-> TRUE, handles |-> TRUE, role |-> "main"]
      OBVIOUS
    <3>2. f \in Frame /\ f.todo = Main[r] /\ f.ok
      BY <3>1, ProgramAssumption DEF Frame, Roles
    <3>3. PICK t : t = <<f>>
      OBVIOUS
    <3>4. Walk(r, t, w, cancelled')
      BY <2>2, <3>2, <3>3, WalkBegins
    <3>5. <<f>> \o st = t
      BY <2>2, <3>2, <3>3
    <3>6. /\ phase' = [phase EXCEPT ![r] = "step"] /\ stack' = [stack EXCEPT ![r] = t]
          /\ verdict' = [verdict EXCEPT ![r] = vd]
      BY <1>t, <2>1, <2>5, <3>1, <3>5 DEF Goto, Push, TypeInv, DataInv
    <3>7. "step" # "new" /\ "step" \notin Past
      BY DEF Past
    <3> QED
      BY <1>t, <2>2, <2>3, <3>4, <3>6, <3>7, VerdictKept
  <2> QED
    BY <1>1, <2>4, <2>5 DEF Start
<1>2. ASSUME NEW r \in Run, SkipStep(r) PROVE VerdictInv'
  <2>1. stack[r] # <<>> /\ Top(r).todo # <<>> /\ Goto(r, "step")
    BY <1>t, <1>2, StaysInLoop DEF SkipStep, AtStep, TypeInv, StackInv
  <2>2. /\ Mark(r, Current(r), "skipped") /\ StepOver(r, TRUE)
        /\ UNCHANGED verdict /\ cancelled' \in {cancelled, cancelled \cup {r}}
    BY <1>2 DEF SkipStep
  <2> QED
    BY <1>t, <2>1, <2>2, VerdictStepOver
<1>3. ASSUME NEW r \in Run, Assign(r) PROVE VerdictInv'
  <2>1. stack[r] # <<>> /\ Top(r).todo # <<>> /\ Goto(r, "step")
    BY <1>t, <1>3, StaysInLoop DEF Assign, AtStep, TypeInv, StackInv
  <2>2. /\ UNCHANGED verdict /\ cancelled' \in {cancelled, cancelled \cup {r}}
        /\ \/ Mark(r, Current(r), "ok") /\ StepOver(r, TRUE)
           \/ Mark(r, Current(r), "failed") /\ StepOver(r, FALSE)
    BY <1>3 DEF Assign
  <2> QED
    BY <1>t, <2>1, <2>2, VerdictStepOver
<1>4. ASSUME NEW r \in Run, EvaluateIf(r) PROVE VerdictInv'
  <2>1. /\ stack[r] # <<>> /\ Top(r).todo # <<>> /\ Goto(r, "step") /\ Current(r) \in Step
        /\ Top(r).handles \in BOOLEAN
    BY <1>t, <1>4, StaysInLoop, TopType, FrameFields DEF EvaluateIf, AtStep, TypeInv, StackInv
  <2>2. UNCHANGED <<verdict, cancelled>>
    BY <1>4 DEF EvaluateIf
  <2>3. ASSUME NEW steps \in {Then[Current(r)], Else[Current(r)]},
               Push(r, steps, Top(r).handles, "branch"), UNCHANGED status
        PROVE  VerdictInv'
    <3>1. PICK u : u = status[r]
      OBVIOUS
    <3>2. /\ steps \in Seq(Step) /\ Distinct(steps)
          /\ StepsOf(steps) \subseteq Branches(Current(r))
      BY <2>1, ProgramAssumption, EachStepOnce DEF Branches
    <3>3. status' = [status EXCEPT ![r] = u]
      BY <1>t, <2>3, <3>1 DEF TypeInv, DataInv
    <3> QED
      BY <1>t, <2>1, <2>2, <2>3, <3>1, <3>2, <3>3, VerdictPush
  <2>4. ASSUME Mark(r, Current(r), "failed"), StepOver(r, FALSE)
        PROVE  VerdictInv'
    BY <1>t, <2>1, <2>2, <2>4, VerdictStepOver
  <2> QED
    BY <1>4, <2>3, <2>4 DEF EvaluateIf
<1>5. ASSUME NEW r \in Run, RunAction(r) \/ Enter(r) \/ Try(r) \/ Plugin(r) \/ Leave(r)
      PROVE  VerdictInv'
  <2>1. PICK p \in InStep \cup {"step"} : Goto(r, p)
    BY <1>5 DEF RunAction, Enter, Try, Plugin, CallReturns, CallGivesUp, CallFails, Reply,
                Leave, InStep
  <2>2. UNCHANGED <<stack, status, verdict, cancelled>>
    BY <1>5 DEF RunAction, Enter, Try, Plugin, CallReturns, CallGivesUp, CallFails, Leave
  <2> QED
    BY <1>t, <2>1, <2>2, VerdictStays
<1>6. ASSUME NEW r \in Run, Settle(r) PROVE VerdictInv'
  <2>1. /\ stack[r] # <<>> /\ Top(r).todo # <<>> /\ Goto(r, "step") /\ Current(r) \in Step
        /\ answer[r] \in Answers /\ UNCHANGED verdict
    BY <1>t, <1>6, TopType DEF Settle, TypeInv, StackInv, DataInv, InStep
  <2>2. PICK a : a = answer[r]
    OBVIOUS
  <2>3. /\ a \in Answers /\ Mark(r, Current(r), a)
        /\ cancelled' = IF a = "cancelled" THEN cancelled \cup {r} ELSE cancelled
    BY <1>6, <2>1, <2>2 DEF Settle
  <2>4. CASE HasFailureActions(r)
    <3>1. PICK u : u = [status[r] EXCEPT ![Current(r)] = "failed"]
      OBVIOUS
    <3>2. a = "failed" /\ Push(r, OnFail[Current(r)], FALSE, "failure") /\ UNCHANGED cancelled
      BY <1>6, <2>2, <2>3, <2>4 DEF Settle, HasFailureActions
    <3>3. status' = [status EXCEPT ![r] = u]
      BY <1>t, <2>3, <3>1, <3>2 DEF Mark, TypeInv, DataInv
    <3>4. OnFail[Current(r)] \in Seq(Step) /\ Distinct(OnFail[Current(r)])
      BY <2>1, ProgramAssumption, EachStepOnce
    <3> QED
      BY <1>t, <2>1, <3>1, <3>2, <3>3, <3>4, VerdictPush
  <2>5. CASE ~HasFailureActions(r)
    <3>1. StepOver(r, a = "ok")
      BY <1>6, <2>2, <2>5 DEF Settle
    <3>2. PICK good \in BOOLEAN : good = (a = "ok")
      OBVIOUS
    <3>3. StepOver(r, good)
      BY <3>1, <3>2
    <3>4. /\ cancelled' \in {cancelled, cancelled \cup {r}} /\ a # "none"
          /\ good => a \in {"ok", "skipped"}
          /\ ~good => a \in {"failed", "timed_out"} \/ r \in cancelled'
      BY <2>3, <3>2 DEF Answers
    <3> QED
      BY <1>t, <2>1, <2>3, <3>3, <3>4, VerdictStepOver
  <2> QED
    BY <2>4, <2>5
<1>7. ASSUME NEW r \in Run, MainEnds(r) PROVE VerdictInv'
  <2>1. PICK st, w, u : st = stack[r] /\ w = status[r] /\ u = <<>>
    OBVIOUS
  <2>2. PICK vd : vd = IF AllOk(r) THEN "succeeded" ELSE "failed"
    OBVIOUS
  <2>3. /\ st # <<>> /\ Top(r) = st[1] /\ st[1].role = "main" /\ WellStacked(st)
        /\ w \in [Step -> Statuses] /\ Walk(r, st, w, cancelled)
        /\ st[1].todo = <<>> \/ r \in cancelled
    BY <1>7, <2>1, RunFacts DEF MainEnds, Finished, WalkOK
  <2>4. /\ Walk(r, u, w, cancelled)
        /\ st[1].ok /\ st[1].todo = <<>> =>
             (\A s \in Step : w[s] \notin Bad) /\ \A x \in StepsOf(Main[r]) : w[x] # "none"
        /\ ~st[1].ok => r \in cancelled \/ FailedSomewhere(w)
    BY <2>1, <2>3, WalkEnds
  <2>5. AllOk(r) <=> st[1].ok /\ st[1].todo = <<>>
    BY <2>3 DEF AllOk
  <2>6. Fits(r, "over", w, vd, cancelled)
    BY <2>2, <2>3, <2>4, <2>5 DEF Fits
  <2>7. /\ phase' = [phase EXCEPT ![r] = "over"] /\ stack' = [stack EXCEPT ![r] = u]
        /\ status' = [status EXCEPT ![r] = w] /\ verdict' = [verdict EXCEPT ![r] = vd]
        /\ cancelled' = cancelled
    BY <1>t, <1>7, <2>1, <2>2 DEF MainEnds, Goto, TypeInv, DataInv
  <2>8. /\ cancelled' \in {cancelled, cancelled \cup {r}} /\ Walk(r, u, w, cancelled')
        /\ Fits(r, "over", w, vd, cancelled') /\ "over" # "new"
    BY <2>4, <2>6, <2>7
  <2> QED
    BY <1>t, <2>7, <2>8, VerdictKept
<1>8. ASSUME NEW r \in Run, BranchEnds(r) PROVE VerdictInv'
  <2>1. PICK good \in BOOLEAN : good = AllOk(r)
    <3>1. stack[r] # <<>>
      BY <1>8, RunFacts DEF BranchEnds, Finished
    <3>2. AllOk(r) \in BOOLEAN
      BY <1>t, <3>1, TopType, FrameFields DEF AllOk
    <3> QED
      BY <3>2
  <2>2. PICK h, u : /\ h = Head(stack[r][2].todo)
                    /\ u = [status[r] EXCEPT ![h] = IF good THEN "ok" ELSE "failed"]
    OBVIOUS
  <2>3. /\ stack[r] # <<>> /\ Top(r).role = "branch" /\ Goto(r, "step")
        /\ UNCHANGED <<cancelled, verdict>> /\ BackTo(r, good)
    BY <1>t, <1>8, <2>1, RunFacts, StaysInLoop DEF BranchEnds, Finished
  <2>4. status' = [status EXCEPT ![r] = u]
    BY <1>t, <1>8, <2>1, <2>2 DEF BranchEnds, Mark, TypeInv, DataInv
  <2>5. good => Top(r).ok
    BY <2>1 DEF AllOk
  <2> QED
    BY <1>t, <2>2, <2>3, <2>4, <2>5, VerdictBackTo
<1>9. ASSUME NEW r \in Run, FailureActionsEnd(r) PROVE VerdictInv'
  <2>1. PICK h, u, st : /\ h = Head(stack[r][2].todo) /\ u = status[r] /\ st = stack[r]
    OBVIOUS
  <2>2. /\ stack[r] # <<>> /\ Top(r).role = "failure" /\ Goto(r, "step")
        /\ UNCHANGED <<cancelled, verdict>> /\ BackTo(r, FALSE)
        /\ status' = [status EXCEPT ![r] = u]
    BY <1>t, <1>9, <2>1, RunFacts, StaysInLoop DEF FailureActionsEnd, Finished, TypeInv, DataInv
  <2>3. /\ WellStacked(st) /\ u \in [Step -> Statuses] /\ Owned(Main[r], st, u)
        /\ st[1].role = "failure" /\ st # <<>> /\ h = Head(st[1 + 1].todo)
    BY <2>1, <2>2, RunFacts DEF WalkOK, Walk
  <2>4. 1 \in 1..Len(st) /\ 1 < Len(st)
    BY <2>3, BelowMain
  <2>5. u[h] = "failed"
    BY <2>3, <2>4 DEF Owned
  <2>6. u = [u EXCEPT ![h] = "failed"]
    BY <2>3, <2>5
  <2>7. u = [status[r] EXCEPT ![h] = IF FALSE THEN "ok" ELSE "failed"]
    BY <2>1, <2>6
  <2> QED
    BY <1>t, <2>1, <2>2, <2>7, VerdictBackTo
<1>10. ASSUME NEW r \in Run, Judge(r) PROVE VerdictInv'
  <2>1. PICK st, w, vd : st = stack[r] /\ w = status[r] /\ vd = verdict[r]
    OBVIOUS
  <2>2. /\ phase[r] = "over" /\ Fits(r, "over", w, vd, cancelled) /\ Walk(r, st, w, cancelled)
        /\ cancelled' = cancelled /\ phase' = [phase EXCEPT ![r] = "decided"]
        /\ stack' = [stack EXCEPT ![r] = st] /\ status' = [status EXCEPT ![r] = w]
    BY <1>t, <1>10, <2>1, RunFacts
    DEF Judge, Goto, WalkOK, Judged, Past, TypeInv, DataInv
  <2>3. /\ cancelled' \in {cancelled, cancelled \cup {r}} /\ Walk(r, st, w, cancelled')
        /\ "decided" # "new"
    BY <2>2
  <2>4. PICK v : verdict' = [verdict EXCEPT ![r] = v] /\ Fits(r, "decided", w, v, cancelled)
    <3>1. CASE r \in cancelled
      <4>1. Fits(r, "decided", w, "cancelled", cancelled)
        BY <3>1 DEF Fits
      <4> QED
        BY <1>10, <3>1, <4>1 DEF Judge
    <3>2. CASE r \notin cancelled /\ UNCHANGED verdict
      <4>1. Fits(r, "decided", w, vd, cancelled)
        BY <2>2, <3>2 DEF Fits
      <4>2. verdict' = [verdict EXCEPT ![r] = vd]
        BY <1>t, <2>1, <3>2 DEF TypeInv, DataInv
      <4> QED
        BY <4>1, <4>2
    <3>3. CASE r \in Asserted /\ verdict' = [verdict EXCEPT ![r] = "failed"]
      <4>1. Fits(r, "decided", w, "failed", cancelled)
        BY <3>3 DEF Fits
      <4> QED
        BY <3>3, <4>1
    <3> QED
      BY <1>10, <3>1, <3>2, <3>3 DEF Judge
  <2>5. Fits(r, "decided", w, v, cancelled')
    BY <2>2, <2>4
  <2> QED
    BY <1>t, <2>2, <2>3, <2>4, <2>5, VerdictKept
<1>11. ASSUME NEW r \in Run, Finish(r) PROVE VerdictInv'
  <2>1. PICK st, w, vd : st = stack[r] /\ w = status[r] /\ vd = verdict[r]
    OBVIOUS
  <2>2. /\ Fits(r, "decided", w, vd, cancelled) /\ Walk(r, st, w, cancelled)
        /\ cancelled' = cancelled /\ phase' = [phase EXCEPT ![r] = "ended"]
        /\ stack' = [stack EXCEPT ![r] = st] /\ status' = [status EXCEPT ![r] = w]
        /\ verdict' = [verdict EXCEPT ![r] = vd]
    BY <1>t, <1>11, <2>1, RunFacts
    DEF Finish, Goto, WalkOK, Judged, Past, TypeInv, DataInv
  <2>3. /\ cancelled' \in {cancelled, cancelled \cup {r}} /\ Walk(r, st, w, cancelled')
        /\ Fits(r, "ended", w, vd, cancelled') /\ "ended" # "new"
    BY <2>2 DEF Fits
  <2> QED
    BY <1>t, <2>2, <2>3, VerdictKept
<1>12. ASSUME UNCHANGED <<phase, stack, status, verdict>>, cancelled \subseteq cancelled'
       PROVE  VerdictInv'
  <2>1. ASSUME NEW q \in Run PROVE WalkOK(q)' /\ Judged(q)'
    <3>1. WalkOK(q)'
      BY <1>12, RunFacts, WalkTold DEF WalkOK
    <3>2. Judged(q)'
      BY <1>12, RunFacts DEF Judged, Fits
    <3> QED
      BY <3>1, <3>2
  <2> QED
    BY <1>t, <2>1 DEF VerdictInv
<1>13. ASSUME NEW r \in Run, Expire(r) \/ CancelRun(r) PROVE VerdictInv'
  BY <1>12, <1>13 DEF Expire, CancelRun
<1>14. CASE BeginShutdown \/ Drain \/ UNCHANGED vars
  BY <1>12, <1>14 DEF BeginShutdown, Drain, vars
<1> QED
  BY <1>1, <1>2, <1>3, <1>4, <1>5, <1>6, <1>7, <1>8, <1>9, <1>10, <1>11, <1>13, <1>14
  DEF Next, Thread, Loop

LEMMA VerdictInvInit == Init => VerdictInv
<1> SUFFICES ASSUME Init PROVE VerdictInv
  OBVIOUS
<1>1. ASSUME NEW r \in Run PROVE WalkOK(r) /\ Judged(r)
  <2>1. PICK w : w = status[r]
    OBVIOUS
  <2>2. \A s \in Step : w[s] = "none"
    BY <2>1 DEF Init
  <2>3. \A s \in Step : Branches(s) \subseteq Step /\ StepsOf(OnFail[s]) \subseteq Step
    BY ProgramAssumption, StepsOfSeq DEF Branches
  <2>4. Descends(<<>>, w)
    BY <2>2, <2>3 DEF Descends
  <2>5. Walk(r, <<>>, w, cancelled)
    BY <2>4, WalkEmpty
  <2>6. WalkOK(r)
    BY <2>1, <2>5 DEF WalkOK, Init
  <2>7. Judged(r)
    BY DEF Judged, Init, Past
  <2> QED
    BY <2>6, <2>7
<1> QED
  BY <1>1, TypeInvInit DEF VerdictInv

(* Failure actions are only ever run for a step that failed, however the    *)
(* workflows nest, repeat their attempts and are cancelled                  *)
(* (workflow_executor.py 484-502).                                          *)
THEOREM FailureActionsCorrect == Spec => []FailureActionsJustified
<1>1. VerdictInv => FailureActionsJustified
  <2> SUFFICES ASSUME VerdictInv, NEW r \in Run, NEW s \in Step, NEW i \in DOMAIN OnFail[s],
                      status[r][OnFail[s][i]] # "none"
               PROVE  status[r][s] = "failed"
    BY DEF FailureActionsJustified
  <2>1. OnFail[s][i] \in StepsOf(OnFail[s])
    BY DEF StepsOf
  <2>2. Descends(stack[r], status[r])
    BY DEF VerdictInv, WalkOK, Walk
  <2> QED
    BY <2>1, <2>2 DEF Descends
<1> QED
  BY <1>1, VerdictInvInit, VerdictInvStep, PTL DEF Spec

(* Every verdict is borne out by the steps: success by a workflow every     *)
(* step of which was done or skipped with nothing wrong anywhere, failure   *)
(* by a failed step or assertion, a cancelled run was told to stop and a    *)
(* rejected one did nothing (workflow_executor.py 232-345).                 *)
THEOREM VerdictCorrect == Spec => []VerdictJustified
<1>1. VerdictInv => VerdictJustified
  <2> SUFFICES ASSUME VerdictInv, NEW r \in Run, phase[r] \in {"decided", "ended"}
               PROVE  /\ verdict[r] = "succeeded" =>
                           /\ Went(r, {"none", "ok", "skipped"}) = Step
                           /\ \A i \in DOMAIN Main[r] : status[r][Main[r][i]] # "none"
                      /\ verdict[r] = "failed" =>
                           Went(r, {"failed", "timed_out"}) # {} \/ r \in Asserted
                      /\ verdict[r] = "cancelled" => r \in cancelled
                      /\ verdict[r] = "rejected" => Went(r, {"none"}) = Step
    BY DEF VerdictJustified
  <2>1. Fits(r, phase[r], status[r], verdict[r], cancelled) /\ status[r] \in [Step -> Statuses]
    BY RunFacts DEF Judged, Past
  <2>2. \A i \in DOMAIN Main[r] : Main[r][i] \in StepsOf(Main[r])
    BY DEF StepsOf
  <2>3. ASSUME verdict[r] = "succeeded"
        PROVE  /\ Went(r, {"none", "ok", "skipped"}) = Step
               /\ \A i \in DOMAIN Main[r] : status[r][Main[r][i]] # "none"
    BY <2>1, <2>2, <2>3 DEF Fits, Went, Bad, Statuses, Answers
  <2>4. verdict[r] = "failed" => Went(r, {"failed", "timed_out"}) # {} \/ r \in Asserted
    BY <2>1 DEF Fits, Went, FailedSomewhere
  <2>5. verdict[r] = "cancelled" => r \in cancelled
    BY <2>1 DEF Fits
  <2>6. verdict[r] = "rejected" => Went(r, {"none"}) = Step
    BY <2>1 DEF Fits, Went
  <2> QED
    BY <2>3, <2>4, <2>5, <2>6
<1> QED
  BY <1>1, VerdictInvInit, VerdictInvStep, PTL DEF Spec
=============================================================================
