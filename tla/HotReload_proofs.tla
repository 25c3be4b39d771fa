--------------------------- MODULE HotReload_proofs ---------------------------
(***************************************************************************)
(* Proofs about HotReload, for any versions of the rules, any triggers and *)
(* any number of writes: its types, that running triggers, the events they *)
(* emit and the rules in force belong together, and that queued runs are   *)
(* only dropped for rules that stay.                                       *)
(***************************************************************************)
EXTENDS HotReload, TLAPS

(* What a round has in hand depends on where the engine is.                 *)
InHand ==
  /\ pc \in {"stopping", "joining", "applying"} => candidate \in Prepared
  /\ pc = "starting" /\ pending = None => previous \in Prepared

TypeInv == TypeOK /\ InHand

LEMMA ThreadFields ==
  ASSUME NEW x \in Thread
  PROVE  /\ x.rules \in Prepared /\ x.alive \in BOOLEAN /\ x.asked \in BOOLEAN
         /\ [x EXCEPT !.asked = TRUE] \in Thread
         /\ [x EXCEPT !.asked = TRUE].alive = x.alive
         /\ [x EXCEPT !.asked = TRUE].rules = x.rules
         /\ [x EXCEPT !.alive = FALSE] \in Thread
         /\ ~[x EXCEPT !.alive = FALSE].alive
  BY DEF Thread

LEMMA TypeInvInit == Init => TypeInv
<1> SUFFICES ASSUME Init PROVE TypeInv
  OBVIOUS
<1>1. rules \in Prepared /\ todo \subseteq Trigger
  BY ReloadAssumption DEF Init, Prepared
<1>2. mtime \in 0..MaxWrites /\ seen \in 0..mtime /\ at \in 0..mtime /\ raises \in 0..MaxRaises
  BY ReloadAssumption DEF Init
<1> QED
  BY <1>1, <1>2, ReloadAssumption DEF Init, TypeInv, TypeOK, InHand, Places

LEMMA TypeInvStep == TypeInv /\ [Next]_vars => TypeInv'
<1> SUFFICES ASSUME TypeInv, [Next]_vars PROVE TypeInv'
  OBVIOUS
<1> USE DEF TypeInv, InHand, Places
<1>0. Prepared = Prepared' /\ MaxWrites \in Nat /\ MaxRaises \in Nat
  BY ReloadAssumption
<1>1. CASE Save
  <2>1. mtime' \in 0..MaxWrites /\ seen' \in 0..mtime' /\ at' \in 0..mtime'
    BY <1>0, <1>1 DEF Save, engine, TypeOK
  <2> QED
    BY <1>1, <2>1 DEF Save, engine, TypeOK
<1>2. ASSUME NEW t \in Trigger, StartTrigger(t) PROVE TypeInv'
  <2>1. [rules |-> rules, alive |-> TRUE, asked |-> FALSE] \in Thread
    BY DEF TypeOK, Thread
  <2>2. thread' \in [Trigger -> Thread \cup {NoThread}]
    BY <1>2, <2>1 DEF StartTrigger, TypeOK
  <2> QED
    BY <1>2, <2>2 DEF StartTrigger, TypeOK
<1>3. CASE BeginWatching
  BY <1>0, <1>3 DEF BeginWatching, TypeOK
<1>4. CASE NoticeChange
  BY <1>0, <1>4 DEF NoticeChange, TypeOK
<1>5. CASE RetryRestore
  BY <1>5 DEF RetryRestore, TypeOK
<1>6. CASE Load
  <2>1. [of |-> file, at |-> at] \in Prepared
    BY <1>0, <1>6 DEF Load, TypeOK, Prepared
  <2> QED
    BY <1>6, <2>1 DEF Load, TypeOK
<1>7. CASE LoadFails
  BY <1>7 DEF LoadFails, TypeOK
<1>8. CASE AskToStop
  <2>1. thread' \in [Trigger -> Thread \cup {NoThread}]
    BY <1>8, ThreadFields DEF AskToStop, TypeOK, Mounted
  <2> QED
    BY <1>8, <2>1 DEF AskToStop, TypeOK
<1>9. CASE AllStopped
  BY <1>9 DEF AllStopped, TypeOK
<1>10. CASE StopTimesOut
  BY <1>10 DEF StopTimesOut, TypeOK
<1>11. CASE Apply
  <2>1. candidate.of \in Version
    BY <1>11 DEF Apply, Prepared
  <2>2. todo' \subseteq Trigger
    BY <1>11, <2>1, ReloadAssumption DEF Apply
  <2> QED
    BY <1>11, <2>2 DEF Apply, TypeOK
<1>12. CASE Accept
  BY <1>12 DEF Accept, TypeOK
<1>13. CASE StartRaises
  <2>1. raises' \in 0..MaxRaises
    BY <1>0, <1>13 DEF StartRaises, TypeOK
  <2> QED
    BY <1>13, <2>1 DEF StartRaises, TypeOK
<1>14. CASE Restored
  BY <1>14 DEF Restored, TypeOK
<1>15. CASE RestoreRaises
  <2>1. raises' \in 0..MaxRaises
    BY <1>0, <1>15 DEF RestoreRaises, TypeOK
  <2> QED
    BY <1>15, <2>1 DEF RestoreRaises, TypeOK
<1>16. ASSUME NEW t \in Trigger, Fire(t) \/ TakeSnapshot(t) PROVE TypeInv'
  <2>1. emitting' \in [Trigger -> Prepared \cup {None, Fired}]
    BY <1>16 DEF Fire, TakeSnapshot, TypeOK
  <2> QED
    BY <1>16, <2>1 DEF Fire, TakeSnapshot, engine, TypeOK
<1>17. ASSUME NEW t \in Trigger, Submit(t) PROVE TypeInv'
  <2>1. emitting[t].of \in Version
    BY <1>17 DEF Submit, Prepared
  <2>2. waiting' \subseteq Key
    BY <1>17, <2>1, ReloadAssumption DEF Submit, TypeOK
  <2> QED
    BY <1>17, <2>2 DEF Submit, engine, TypeOK
<1>18. ASSUME NEW t \in Trigger, Exit(t) PROVE TypeInv'
  <2>1. thread[t] \in Thread
    BY <1>18 DEF Exit, TypeOK, NoThread
  <2>2. thread' \in [Trigger -> Thread \cup {NoThread}]
    BY <1>18, <2>1, ThreadFields DEF Exit, TypeOK
  <2> QED
    BY <1>18, <2>2 DEF Exit, engine, TypeOK
<1>19. ASSUME NEW k \in Key, Dispatch(k) PROVE TypeInv'
  BY <1>19 DEF Dispatch, engine, TypeOK
<1>20. CASE UNCHANGED vars
  BY <1>20 DEF vars, engine, TypeOK
<1> QED
  BY <1>1, <1>2, <1>3, <1>4, <1>5, <1>6, <1>7, <1>8, <1>9, <1>10, <1>11, <1>12, <1>13,
     <1>14, <1>15, <1>16, <1>17, <1>18, <1>19, <1>20 DEF Next, Engine, Emission

(* The reloader's state keeps its types for any versions, triggers and      *)
(* bounds, and the file is not looked at while a restore is pending.        *)
THEOREM ReloadTypeCorrect == Spec => []TypeOK
<1>1. TypeInv => TypeOK
  BY DEF TypeInv
<1> QED
  BY <1>1, TypeInvInit, TypeInvStep, PTL DEF Spec

-----------------------------------------------------------------------------
(* The rules change only when no trigger thread is left.                    *)

NobodyLeft == pc = "applying" => Alive = {}

RulesInv == SamePreparedRules /\ NobodyLeft

(* Steps that leave the threads, their events and the rules alone.          *)
LEMMA RulesKept ==
  ASSUME RulesInv, UNCHANGED <<thread, emitting, rules>>, pc' # "applying" \/ pc' = pc
  PROVE  RulesInv'
  BY DEF RulesInv, SamePreparedRules, NobodyLeft, Alive

(* Steps that take threads away or ask them to stop.                        *)
LEMMA FewerThreads ==
  ASSUME RulesInv, UNCHANGED <<emitting, rules>>,
         \A t \in Trigger :
           /\ thread'[t].alive => thread[t].alive /\ thread'[t].rules = thread[t].rules
           /\ emitting[t] # None => thread'[t].alive,
         pc' = "applying" => pc = "applying" \/ Alive' = {}
  PROVE  RulesInv'
  BY DEF RulesInv, SamePreparedRules, NobodyLeft, Alive

LEMMA RulesInvStep == TypeInv /\ RulesInv /\ [Next]_vars => RulesInv'
<1> SUFFICES ASSUME TypeInv, RulesInv, [Next]_vars PROVE RulesInv'
  OBVIOUS
<1>0. thread \in [Trigger -> Thread \cup {NoThread}] /\ ~NoThread.alive
  BY DEF TypeInv, TypeOK, NoThread
<1>1. CASE \/ Save \/ BeginWatching \/ NoticeChange \/ RetryRestore \/ Load \/ LoadFails
           \/ Accept \/ StartRaises \/ Restored \/ RestoreRaises
           \/ UNCHANGED vars \/ \E k \in Key : Dispatch(k)
  <2>1. UNCHANGED <<thread, emitting, rules>> /\ (pc' # "applying" \/ pc' = pc)
    BY <1>1 DEF Save, BeginWatching, NoticeChange, RetryRestore, Load, LoadFails, Accept,
       StartRaises, Restored, RestoreRaises, Dispatch, vars, engine
  <2> QED
    BY <2>1, RulesKept
<1>2. ASSUME NEW t \in Trigger, StartTrigger(t) PROVE RulesInv'
  <2>1. CASE thread[t].alive
    BY <1>2, <2>1, RulesKept DEF StartTrigger
  <2>2. CASE ~thread[t].alive
    <3>1. emitting[t] = None
      BY <2>2 DEF RulesInv, SamePreparedRules
    <3>2. /\ UNCHANGED <<emitting, rules, pc>> /\ pc # "applying"
          /\ \A u \in Trigger : u # t => thread'[u] = thread[u]
          /\ thread'[t].alive => thread'[t].rules = rules
      BY <1>0, <1>2, <2>2 DEF StartTrigger, NoThread
    <3> QED
      BY <3>1, <3>2 DEF RulesInv, SamePreparedRules, NobodyLeft
  <2> QED
    BY <2>1, <2>2
<1>3. CASE AskToStop
  <2>1. ASSUME NEW t \in Trigger
        PROVE  /\ thread'[t].alive = thread[t].alive
               /\ thread'[t].alive => thread'[t].rules = thread[t].rules
    BY <1>0, <1>3, ThreadFields DEF AskToStop, Mounted
  <2>2. UNCHANGED <<emitting, rules>> /\ pc' = "joining"
    BY <1>3 DEF AskToStop
  <2>3. \A t \in Trigger : emitting[t] # None => thread[t].alive
    BY DEF RulesInv, SamePreparedRules
  <2> QED
    BY <2>1, <2>2, <2>3, FewerThreads
<1>4. CASE AllStopped \/ StopTimesOut
  <2>1. /\ UNCHANGED <<emitting, rules>>
        /\ pc' = "applying" => Alive = {}
        /\ \A t \in Trigger : thread'[t] = IF thread[t].alive THEN thread[t] ELSE NoThread
    BY <1>4 DEF AllStopped, StopTimesOut, Alive
  <2>2. \A t \in Trigger :
          /\ thread'[t].alive => thread[t].alive /\ thread'[t].rules = thread[t].rules
          /\ emitting[t] # None => thread'[t].alive
    BY <1>0, <2>1 DEF RulesInv, SamePreparedRules
  <2>3. pc' = "applying" => Alive' = {}
    BY <2>1, <2>2 DEF Alive
  <2> QED
    BY <2>1, <2>2, <2>3, FewerThreads
<1>5. CASE Apply
  <2>1. UNCHANGED <<thread, emitting>> /\ pc' = "starting" /\ Alive = {}
    BY <1>5 DEF Apply, RulesInv, NobodyLeft
  <2>2. \A t \in Trigger : ~thread[t].alive /\ emitting[t] = None
    BY <2>1 DEF Alive, RulesInv, SamePreparedRules
  <2>3. None \notin Prepared
    BY MarkersAssumption
  <2> QED
    BY <2>1, <2>2, <2>3 DEF RulesInv, SamePreparedRules, NobodyLeft
<1>6. ASSUME NEW t \in Trigger, Fire(t) \/ TakeSnapshot(t) \/ Submit(t) PROVE RulesInv'
  <2>1. UNCHANGED <<thread, rules, pc>> /\ thread[t].alive
    BY <1>6, MarkersAssumption
    DEF Fire, TakeSnapshot, Submit, engine, RulesInv, SamePreparedRules
  <2>2. /\ \A u \in Trigger : u # t => emitting'[u] = emitting[u]
        /\ emitting'[t] \in {None, Fired, rules}
    BY <1>6 DEF Fire, TakeSnapshot, Submit, TypeInv, TypeOK
  <2> QED
    BY <2>1, <2>2, MarkersAssumption DEF RulesInv, SamePreparedRules, NobodyLeft, Alive
<1>7. ASSUME NEW t \in Trigger, Exit(t) PROVE RulesInv'
  <2>1. thread[t] \in Thread
    BY <1>0, <1>7 DEF Exit
  <2>2. /\ \A u \in Trigger : u # t => thread'[u] = thread[u]
        /\ ~thread'[t].alive /\ emitting[t] = None
        /\ UNCHANGED <<emitting, rules, pc>>
    BY <1>0, <1>7, <2>1, ThreadFields DEF Exit, engine
  <2>3. \A u \in Trigger : emitting[u] # None => thread[u].alive
    BY DEF RulesInv, SamePreparedRules
  <2> QED
    BY <2>2, <2>3, FewerThreads
<1> QED
  BY <1>1, <1>2, <1>3, <1>4, <1>5, <1>6, <1>7 DEF Next, Engine, Emission

(* Running triggers, the events they emit and the rules in force belong to  *)
(* the same prepared rules, through every reload, failed start and restore. *)
THEOREM RulesBelongTogether == Spec => []SamePreparedRules
<1>1. Init => RulesInv
  BY MarkersAssumption DEF Init, RulesInv, SamePreparedRules, NobodyLeft, NoThread
<1>2. RulesInv => SamePreparedRules
  BY DEF RulesInv
<1> QED
  BY <1>1, <1>2, TypeInvInit, TypeInvStep, RulesInvStep, PTL DEF Spec

-----------------------------------------------------------------------------
(* The steps that can take a run out of the queues are the scheduler's      *)
(* start of one and the acceptance of new rules; no failed start of         *)
(* triggers and no restore is among them.                                   *)
LEMMA DropsStep ==
  ASSUME [Next]_vars, NEW k \in waiting \ waiting'
  PROVE  \/ UNCHANGED <<pc, rules>>
         \/ pc' = "idle" /\ pending' = None /\ k \notin KeysOf[rules'.of]
<1>1. CASE \/ \E t \in Trigger : StartTrigger(t) \/ Fire(t) \/ Emission(t) \/ Exit(t)
           \/ \E q \in Key : Dispatch(q)
           \/ Save \/ UNCHANGED vars
  BY <1>1 DEF StartTrigger, Fire, Emission, TakeSnapshot, Submit, Exit, Dispatch, Save, engine, vars
<1>2. CASE \/ BeginWatching \/ NoticeChange \/ RetryRestore \/ Load \/ LoadFails \/ AskToStop
           \/ AllStopped \/ StopTimesOut \/ Apply \/ StartRaises \/ Restored \/ RestoreRaises
  BY <1>2 DEF BeginWatching, NoticeChange, RetryRestore, Load, LoadFails, AskToStop, AllStopped,
     StopTimesOut, Apply, StartRaises, Restored, RestoreRaises
<1>3. CASE Accept
  BY <1>3 DEF Accept
<1> QED
  BY <1>1, <1>2, <1>3 DEF Next, Engine

(* A queued run is dropped only when new rules without its rule have been   *)
(* accepted for good.                                                       *)
THEOREM DropsFinal == Spec => DropsAreFinal
<1>1. [Next]_vars =>
        [\A k \in waiting \ waiting' :
           \/ UNCHANGED <<pc, rules>>
           \/ pc' = "idle" /\ pending' = None /\ k \notin KeysOf[rules'.of]]_vars
  BY DropsStep
<1> QED
  BY <1>1, PTL DEF Spec, DropsAreFinal
=============================================================================
