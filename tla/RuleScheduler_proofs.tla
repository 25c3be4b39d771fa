------------------------ MODULE RuleScheduler_proofs ------------------------
(* Theorems about RuleScheduler, for every number of rules, runs and        *)
(* workers and every concurrency setting.                                   *)
EXTENDS RuleScheduler, TLAPS, FiniteSetTheorems, SequenceTheorems

(* Once its actions are over a run knows how they ended.                    *)
OutcomeKnown ==
  \A r \in Run :
    phase[r] \in {"checked", "finished"} \/ (lock.site = "settle" /\ lock.run = r) =>
      outcome[r] \in {"completed", "cancelled", "crashed"}

TypeInv == TypeOK /\ OutcomeKnown

LEMMA LockType ==
  /\ Free \in LockStates
  /\ Free.site = "free" /\ Free.scope = {} /\ ~Free.unwinding
  /\ \A site \in Sites, r \in Run, keys \in SUBSET Key :
       /\ Held(site, r, keys) \in LockStates
       /\ Held(site, r, keys).site = site
       /\ Held(site, r, keys).run = r
       /\ Held(site, r, keys).scope = keys
       /\ ~Held(site, r, keys).unwinding
  BY DEF Free, Held, LockStates, Sites

LEMMA InitType == Init => TypeInv
<1> SUFFICES ASSUME Init PROVE TypeInv
  OBVIOUS
<1>2. TypeOK
  <2>1. <<>> \in Seq(Entry)
    OBVIOUS
  <2>2. queue \in [Key -> Seq(Entry)]
    BY <2>1 DEF Init
  <2>3. lock \in LockStates
    BY LockType DEF Init
  <2>4. /\ phase \in [Run -> Phases]
        /\ outcome \in [Run -> Outcomes]
        /\ recorded \in [Run -> Terminal \cup {"open"}]
    BY DEF Init, Phases, Outcomes, Terminal
  <2>5. shuttingDown \in BOOLEAN /\ poolClosed \in BOOLEAN /\ poolStarted \in BOOLEAN
    BY DEF Init
  <2> QED
    BY <2>2, <2>3, <2>4, <2>5 DEF Init, TypeOK
<1>3. OutcomeKnown
  BY DEF Init, OutcomeKnown, Free
<1> QED
  BY <1>2, <1>3 DEF TypeInv

(* The head and the tail of a rule's non-empty queue.                       *)
LEMMA QueueHead ==
  ASSUME TypeOK, NEW k \in Key, queue[k] # <<>>
  PROVE  /\ queue[k] \in Seq(Entry)
         /\ Head(queue[k]) \in Entry
         /\ Head(queue[k]).run \in Run
         /\ Tail(queue[k]) \in Seq(Entry)
<1>1. queue[k] \in Seq(Entry)
  BY DEF TypeOK
<1>2. Head(queue[k]) \in Entry /\ Tail(queue[k]) \in Seq(Entry)
  BY <1>1
<1> QED
  BY <1>1, <1>2 DEF Entry

LEMMA RecordType ==
  ASSUME TypeOK, NEW runs, NEW event \in Terminal
  PROVE  RecordAll(runs, event) \in [Run -> Terminal \cup {"open"}]
  BY DEF TypeOK, RecordAll, StatusAfter

LEMMA SubmitType ==
  ASSUME TypeInv, NEW r \in Run, NEW c \in Snapshots[keyOf[r]], Submit(r, c)
  PROVE  TypeInv'
<1>0. TypeOK /\ OutcomeKnown /\ keyOf[r] \in Key /\ c \in Config
  BY ConstantsAssumption DEF TypeInv, TypeOK
<1>1. CASE SubmitWhenClosing(r)
  BY <1>0, <1>1, RecordType
  DEF TypeInv, TypeOK, OutcomeKnown, Submit, SubmitWhenClosing, Phases, Terminal
<1>2. CASE SubmitSingleBusy(r, c)
  BY <1>0, <1>2, RecordType
  DEF TypeInv, TypeOK, OutcomeKnown, Submit, SubmitSingleBusy, Phases, Terminal
<1>3. CASE SubmitAdmitted(r, c)
  <2> DEFINE k == keyOf[r]
  <2>1. ASSUME NEW fate \in Phases \ {"checked", "finished"},
               NEW event \in {"open", "dropped"},
               DisplaceOthers(r, c, fate, event)
        PROVE  /\ removed' \subseteq Key
               /\ cancelled' \subseteq Run
               /\ phase' \in [Run -> Phases]
               /\ \A x \in Run : phase'[x] \in {"checked", "finished"} => phase'[x] = phase[x]
               /\ recorded' \in [Run -> Terminal \cup {"open"}]
    BY <1>0, <2>1 DEF TypeOK, DisplaceOthers, Displaced, ActiveOf, Phases,
                      StatusAfter, Terminal
  <2>2. QueueLeft(k, c) \in Seq(Entry)
    BY <1>0 DEF QueueLeft, TypeOK
  <2>3. CASE SubmitRunNow(r, c)
    BY <1>0, <1>3, <2>1, <2>2, <2>3
    DEF TypeInv, TypeOK, OutcomeKnown, Submit, SubmitRunNow, Phases
  <2>4. CASE SubmitQueued(r, c)
    <3>1. [run |-> r, cfg |-> c] \in Entry
      BY <1>0 DEF Entry
    <3>2. Append(QueueLeft(k, c), [run |-> r, cfg |-> c]) \in Seq(Entry)
      BY <3>1, <2>2
    <3> QED
      BY <1>0, <1>3, <2>1, <3>2, <2>4
      DEF TypeInv, TypeOK, OutcomeKnown, Submit, SubmitQueued, Phases
  <2>5. CASE SubmitOverflow(r, c)
    BY <1>0, <1>3, <2>1, <2>2, <2>5
    DEF TypeInv, TypeOK, OutcomeKnown, Submit, SubmitOverflow, Phases
  <2> QED
    BY <1>3, <2>3, <2>4, <2>5 DEF SubmitAdmitted
<1> QED
  BY <1>1, <1>2, <1>3 DEF Submit

LEMMA StepType == TypeInv /\ [Next]_vars => TypeInv'
<1> SUFFICES ASSUME TypeInv, [Next]_vars PROVE TypeInv'
  OBVIOUS
<1>0. TypeOK /\ OutcomeKnown
  BY DEF TypeInv
<1> USE DEF TypeInv, OutcomeKnown
<1>1. ASSUME NEW r \in Run, NEW c \in Snapshots[keyOf[r]], Submit(r, c) PROVE TypeInv'
  BY <1>1, SubmitType
<1>2. ASSUME NEW r \in Run, SpawnOk(r) PROVE TypeInv'
  BY <1>0, <1>2 DEF SpawnOk, TypeOK, Phases
<1>3. ASSUME NEW r \in Run, SpawnFailed(r) PROVE TypeInv'
  <2>1. "dropped" \in Terminal
    BY DEF Terminal
  <2>2. lock' \in LockStates /\ lock'.site # "settle"
    BY <1>3, LockType DEF SpawnFailed, Sites
  <2>3. recorded' \in [Run -> Terminal \cup {"open"}]
    BY <1>0, <1>3, <2>1, RecordType DEF SpawnFailed
  <2>4. phase' \in [Run -> Phases] /\ phase'[r] \in {"gone", "pooled"}
    BY <1>0, <1>3 DEF SpawnFailed, TypeOK, Phases
  <2>5. \A x \in Run \ {r} : phase'[x] = phase[x]
    BY <1>0, <1>3 DEF SpawnFailed, TypeOK
  <2>6. OutcomeKnown'
    BY <1>0, <1>3, <2>2, <2>4, <2>5 DEF SpawnFailed
  <2>7. active' \subseteq Run /\ executing' \subseteq Run /\ workerCount' \in Int
    BY <1>0, <1>3 DEF SpawnFailed, TypeOK
  <2>8. UNCHANGED <<keyOf, queue, removed, slots, shuttingDown, poolClosed,
                    poolStarted, cancelEvents, cancelled, outcome>>
    BY <1>3 DEF SpawnFailed
  <2> QED
    BY <1>0, <2>2, <2>3, <2>4, <2>6, <2>7, <2>8 DEF TypeOK
<1>4. ASSUME NEW k \in Key, DispatchHead(k) PROVE TypeInv'
  <2>1. queue[k] # <<>>
    BY <1>4 DEF DispatchHead, CanDispatch
  <2>2. Head(queue[k]).run \in Run /\ Tail(queue[k]) \in Seq(Entry)
    BY <1>0, <2>1, QueueHead
  <2>3. "dropped" \in Terminal
    BY DEF Terminal
  <2>4. lock' \in LockStates /\ lock'.site = lock.site /\ lock'.run = lock.run
    <3>1. Unwinding \in LockStates /\ Unwinding.site = lock.site /\ Unwinding.run = lock.run
      BY <1>0 DEF Unwinding, TypeOK, LockStates
    <3>2. lock' = lock \/ lock' = Unwinding
      BY <1>4 DEF DispatchHead
    <3> QED
      BY <1>0, <3>1, <3>2 DEF TypeOK
  <2>5. recorded' \in [Run -> Terminal \cup {"open"}]
    BY <1>0, <1>4, <2>3, RecordType DEF DispatchHead, TypeOK
  <2>6. active' \subseteq Run /\ executing' \subseteq Run /\ workerCount' \in Int
    BY <1>0, <1>4, <2>2 DEF DispatchHead, TypeOK
  <2>7. phase' \in [Run -> Phases] /\ poolStarted' \in BOOLEAN
    BY <1>0, <1>4, <2>2 DEF DispatchHead, TypeOK, Phases
  <2>8. queue' \in [Key -> Seq(Entry)]
    BY <1>0, <1>4, <2>2 DEF DispatchHead, TypeOK
  <2>9. TypeOK'
    BY <1>0, <1>4, <2>2, <2>4, <2>5, <2>6, <2>7, <2>8 DEF DispatchHead, TypeOK
  <2> QED
    BY <1>0, <1>4, <2>2, <2>4, <2>9 DEF DispatchHead, TypeOK
<1>5. ASSUME NEW r \in Run, Begin(r) PROVE TypeInv'
  BY <1>0, <1>5 DEF Begin, TypeOK, Phases, Outcomes
<1>6. ASSUME NEW r \in Run, ActionsEnd(r) PROVE TypeInv'
  BY <1>0, <1>6 DEF ActionsEnd, TypeOK, Phases, Outcomes
<1>7. ASSUME NEW r \in Run, FinishRun(r) PROVE TypeInv'
  BY <1>0, <1>7 DEF FinishRun, TypeOK, Phases
<1>8. ASSUME NEW r \in Run, Settle(r) PROVE TypeInv'
  <2>1. outcome[r] \in Terminal
    BY <1>0, <1>8 DEF Settle, Terminal
  <2>2. /\ lock' \in LockStates
        /\ lock'.site = "settle" => lock'.run = r
    <3>1. lock' = Free \/ lock' = Held("settle", r, {keyOf[r]})
      BY <1>8 DEF Settle, LockFree
    <3> QED
      BY <1>0, <3>1, LockType DEF TypeOK, Sites
  <2>3. recorded' \in [Run -> Terminal \cup {"open"}]
    BY <1>0, <1>8, <2>1, RecordType DEF Settle, TypeOK
  <2>4. phase' \in [Run -> Phases] /\ active' \subseteq Run
    BY <1>0, <1>8 DEF Settle, TypeOK, Phases
  <2> QED
    BY <1>0, <1>8, <2>1, <2>2, <2>3, <2>4 DEF Settle, TypeOK
<1>9. ASSUME NEW r \in Run, SettleDone(r) PROVE TypeInv'
  <2>1. outcome[r] \in Terminal
    BY <1>0, <1>9 DEF SettleDone, Terminal
  <2>2. lock' \in LockStates /\ lock'.site # "settle"
    BY <1>9, LockType DEF SettleDone
  <2>3. recorded' \in [Run -> Terminal \cup {"open"}]
    BY <1>0, <1>9, <2>1, RecordType DEF SettleDone, TypeOK
  <2>4. /\ phase' \in [Run -> Phases]
        /\ outcome' \in [Run -> Outcomes]
        /\ removed' \subseteq Key
        /\ slots' \subseteq Key
    BY ZenonT(60), <1>0, <1>9 DEF SettleDone, Prune, TypeOK, Phases, Outcomes
  <2>5. phase'[r] = "finished" => outcome'[r] = "crashed"
    BY <1>0, <1>9 DEF SettleDone, TypeOK
  <2>6. \A x \in Run \ {r} : phase'[x] = phase[x] /\ outcome'[x] = outcome[x]
    BY <1>0, <1>9 DEF SettleDone, TypeOK
  <2>7. OutcomeKnown'
    BY <1>0, <1>9, <2>2, <2>5, <2>6 DEF SettleDone, TypeOK
  <2> QED
    BY <1>0, <1>9, <2>2, <2>3, <2>4, <2>7 DEF SettleDone, TypeOK
<1>10. ASSUME NEW r \in Run, Retire(r) PROVE TypeInv'
  <2>1. lock' \in LockStates /\ lock'.site # "settle"
    BY <1>0, <1>10, LockType DEF Retire, TypeOK, Sites
  <2> QED
    BY <1>0, <1>10, <2>1 DEF Retire, TypeOK
<1>11. ASSUME NEW r \in Run, RetireDone(r) PROVE TypeInv'
  <2>1. lock' \in LockStates /\ lock'.site # "settle"
    BY <1>11, LockType DEF RetireDone
  <2> QED
    BY <1>0, <1>11, <2>1 DEF RetireDone, Prune, TypeOK, Phases
<1>12. ASSUME NEW r \in Run, Exit(r) PROVE TypeInv'
  <2>1. lock' \in LockStates /\ lock'.site # "settle"
    <3>1. lock' = Free \/ lock' = Held("exit", r, Key)
      BY <1>12 DEF Exit, LockFree
    <3> QED
      BY <3>1, LockType DEF Sites
  <2>2. phase' \in [Run -> Phases] /\ (phase' = phase \/ phase' = [phase EXCEPT ![r] = "gone"])
    <3>1. phase' = phase \/ phase' = [phase EXCEPT ![r] = "gone"]
      BY <1>12 DEF Exit
    <3> QED
      BY <1>0, <3>1 DEF TypeOK, Phases
  <2>3. executing' \subseteq Run /\ removed' \subseteq Key /\ slots' \subseteq Key
    BY <1>0, <1>12 DEF Exit, Prune, TypeOK
  <2> QED
    BY <1>0, <1>12, <2>1, <2>2, <2>3 DEF Exit, TypeOK
<1>13. ASSUME NEW r \in Run, ExitDone(r) PROVE TypeInv'
  <2>1. lock' \in LockStates /\ lock'.site # "settle"
    BY <1>13, LockType DEF ExitDone
  <2> QED
    BY <1>0, <1>13, <2>1 DEF ExitDone, TypeOK, Phases
<1>14. ASSUME NEW r \in Run, RefuseDone(r) PROVE TypeInv'
  <2>1. lock' \in LockStates /\ lock'.site # "settle"
    BY <1>14, LockType DEF RefuseDone
  <2> QED
    BY <1>0, <1>14, <2>1 DEF RefuseDone, TypeOK
<1>15. ASSUME NEW r \in Run, CancelRun(r) PROVE TypeInv'
  BY <1>0, <1>15 DEF CancelRun, TypeOK
<1>16. ASSUME NEW k \in Key, DropRule(k) PROVE TypeInv'
  <2>1. "dropped" \in Terminal /\ "gone" \in Phases /\ <<>> \in Seq(Entry)
    BY DEF Terminal, Phases
  <2> QED
    BY <1>0, <1>16, <2>1, RecordType DEF DropRule, Prune, TypeOK, Phases
<1>17. CASE Shutdown
  <2>1. "dropped" \in Terminal /\ "gone" \in Phases /\ <<>> \in Seq(Entry)
    BY DEF Terminal, Phases
  <2> QED
    BY <1>0, <1>17, <2>1, RecordType DEF Shutdown, TypeOK, Phases
<1>18. CASE ClosePool
  BY <1>0, <1>18 DEF ClosePool, TypeOK
<1>19. CASE UNCHANGED vars
  BY <1>0, <1>19 DEF vars, TypeOK
<1> QED
  BY <1>1, <1>2, <1>3, <1>4, <1>5, <1>6, <1>7, <1>8, <1>9, <1>10, <1>11, <1>12,
     <1>13, <1>14, <1>15, <1>16, <1>17, <1>18, <1>19
  DEF Next, Worker, Submitter

(* The bookkeeping keeps its types, whatever the platform does to threads.  *)
THEOREM TypeCorrect == Spec => []TypeOK
<1>1. TypeInv => TypeOK
  BY DEF TypeInv
<1> QED
  BY <1>1, InitType, StepType, PTL DEF Spec

-----------------------------------------------------------------------------
(* From here on the platform starts every thread it is asked for: a failed  *)
(* start breaks the accounting (RuleSchedulerThreads.cfg), so what follows  *)
(* is about the runs of a platform that does not fail.                      *)

LEMMA TailEntries ==
  ASSUME NEW S, NEW s \in Seq(S), s # <<>>
  PROVE  /\ Len(s) \in Nat \ {0}
         /\ Len(Tail(s)) = Len(s) - 1
         /\ \A i \in 1..Len(Tail(s)) : i + 1 \in 1..Len(s) /\ Tail(s)[i] = s[i + 1]
         /\ Head(s) = s[1]
  OBVIOUS

LEMMA AppendEntries ==
  ASSUME NEW S, NEW s \in Seq(S), NEW e \in S
  PROVE  /\ Len(s) \in Nat
         /\ Len(Append(s, e)) = Len(s) + 1
         /\ \A i \in 1..Len(s) : Append(s, e)[i] = s[i]
         /\ Append(s, e)[Len(s) + 1] = e
  OBVIOUS

(* A locked region of several steps belongs to a run at one point of its    *)
(* way, and no exception is leaving it.                                     *)
LockOK ==
  /\ ~lock.unwinding
  /\ lock.site = "free" => lock = Free
  /\ lock.site # "free" => lock.run \in Run
  /\ lock.site = "settle" => phase[lock.run] = "finished" /\ lock.run \notin active
  /\ lock.site = "retire" => phase[lock.run] = "closing"
  /\ lock.site = "exit" => phase[lock.run] = "leaving"
  /\ lock.site = "refuse" => phase[lock.run] = "gone"

(* The queues hold waiting runs, each in its own rule's queue and once.     *)
QueueOK ==
  \A k \in Key :
    /\ \A i \in 1..Len(queue[k]) :
         phase[queue[k][i].run] = "waiting" /\ keyOf[queue[k][i].run] = k
    /\ \A i, j \in 1..Len(queue[k]) : queue[k][i].run = queue[k][j].run => i = j

(* What a step of a run's own thread can do to the others.                  *)
LEMMA WorkerMoves ==
  ASSUME TypeOK, LockOK, NEW r \in Run, Worker(r)
  PROVE  /\ UNCHANGED <<keyOf, queue, shuttingDown, poolClosed, poolStarted>>
         /\ phase[r] \in InPool
         /\ phase'[r] \in InPool \cup {"gone"}
         /\ \A x \in Run \ {r} : phase'[x] = phase[x]
<1>1. CASE Begin(r)
  BY <1>1 DEF Begin, TypeOK, InPool
<1>2. CASE ActionsEnd(r)
  BY <1>2 DEF ActionsEnd, TypeOK, InPool
<1>3. CASE FinishRun(r)
  BY <1>3 DEF FinishRun, TypeOK, InPool
<1>4. CASE Settle(r)
  BY <1>4 DEF Settle, TypeOK, InPool
<1>5. CASE SettleDone(r)
  BY <1>5 DEF SettleDone, TypeOK, LockOK, InPool
<1>6. CASE Retire(r)
  BY <1>6 DEF Retire, TypeOK, InPool
<1>7. CASE RetireDone(r)
  BY <1>7 DEF RetireDone, TypeOK, LockOK, InPool
<1>8. CASE Exit(r)
  BY <1>8 DEF Exit, TypeOK, InPool
<1>9. CASE ExitDone(r)
  BY <1>9 DEF ExitDone, TypeOK, LockOK, InPool
<1> QED
  BY <1>1, <1>2, <1>3, <1>4, <1>5, <1>6, <1>7, <1>8, <1>9 DEF Worker

(* Entry i of rule k's queue.                                               *)
LEMMA EntryRun ==
  ASSUME TypeOK, NEW k \in Key, NEW i \in 1..Len(queue[k])
  PROVE  queue[k] \in Seq(Entry) /\ queue[k][i] \in Entry /\ queue[k][i].run \in Run
<1>1. queue[k] \in Seq(Entry)
  BY DEF TypeOK
<1>2. queue[k][i] \in Entry
  BY <1>1
<1> QED
  BY <1>1, <1>2 DEF Entry

LEMMA QueueMove ==
  ASSUME TypeOK, QueueOK, NEW r \in Run, phase[r] # "waiting",
         UNCHANGED <<queue, keyOf>>, \A x \in Run \ {r} : phase'[x] = phase[x]
  PROVE  QueueOK'
<1>1. \A k \in Key : \A i \in 1..Len(queue[k]) : queue[k][i].run \in Run
  BY EntryRun
<1> QED
  BY <1>1 DEF QueueOK

(* What a submission does to the phases of the other runs: it throws runs   *)
(* out of its own rule's queue, and only as a replacement.                  *)
LEMMA SubmitMoves ==
  ASSUME TypeOK, QueueOK, NEW r \in Run, NEW c, Submit(r, c)
  PROVE  /\ UNCHANGED <<keyOf, shuttingDown, poolClosed, lock, outcome>>
         /\ phase[r] = "new"
         /\ phase'[r] \in {"gone", "waiting", "spawning"}
         /\ \A x \in Run \ {r} :
              \/ phase'[x] = phase[x]
              \/ /\ phase[x] = "waiting" /\ phase'[x] = "gone"
                 /\ keyOf[x] = keyOf[r] /\ Mode(c) = "replace"
                 /\ SubmitAdmitted(r, c)
<1>1. CASE SubmitWhenClosing(r)
  BY <1>1 DEF Submit, SubmitWhenClosing, TypeOK
<1>2. CASE SubmitSingleBusy(r, c)
  BY <1>2 DEF Submit, SubmitSingleBusy, TypeOK
<1>3. CASE SubmitAdmitted(r, c)
  <2>1. PICK fate \in {"gone", "waiting", "spawning"}, event \in {"open", "dropped"} :
          DisplaceOthers(r, c, fate, event)
    BY <1>3 DEF SubmitAdmitted, SubmitRunNow, SubmitQueued, SubmitOverflow
  <2>2. ASSUME NEW x \in Superseded(keyOf[r], c)
        PROVE  phase[x] = "waiting" /\ keyOf[x] = keyOf[r] /\ Mode(c) = "replace"
    <3>1. keyOf[r] \in Key
      BY DEF TypeOK
    <3>2. queue[keyOf[r]] \in Seq(Entry)
      BY <3>1 DEF TypeOK
    <3>3. Mode(c) = "replace" /\ x \in RunsIn(queue[keyOf[r]])
      BY <2>2 DEF Superseded
    <3>4. PICK i \in 1..Len(queue[keyOf[r]]) : x = queue[keyOf[r]][i].run
      BY <3>2, <3>3 DEF RunsIn
    <3> QED
      BY <3>1, <3>3, <3>4 DEF QueueOK
  <2>3. \A x \in Run \ {r} :
          phase'[x] = IF x \in Superseded(keyOf[r], c) THEN "gone" ELSE phase[x]
    BY <2>1 DEF DisplaceOthers
  <2>4. phase'[r] = fate
    BY <2>1 DEF DisplaceOthers
  <2> QED
    BY <1>3, <2>2, <2>3, <2>4 DEF Submit
<1> QED
  BY <1>1, <1>2, <1>3 DEF Submit

LEMMA SubmitKeepsQueues ==
  ASSUME TypeOK, QueueOK, NEW r \in Run, NEW c \in Config, Submit(r, c)
  PROVE  QueueOK'
<1> DEFINE k == keyOf[r]
<1>0. k \in Key /\ queue[k] \in Seq(Entry) /\ keyOf' = keyOf
  BY SubmitMoves DEF TypeOK
<1>1. CASE queue' = queue /\ ~(SubmitAdmitted(r, c) /\ Mode(c) = "replace")
  BY <1>1, SubmitMoves, QueueMove
<1>2. CASE SubmitAdmitted(r, c)
  <2>1. \A x \in Run \ {r} : phase[x] = "waiting" /\ (Mode(c) # "replace" \/ keyOf[x] # k)
                               => phase'[x] = "waiting"
    BY SubmitMoves
  <2>2. ASSUME NEW l \in Key, NEW i \in 1..Len(queue[l]), Mode(c) # "replace" \/ l # k
        PROVE  phase'[queue[l][i].run] = "waiting" /\ keyOf'[queue[l][i].run] = l
    <3>1. queue[l][i].run \in Run /\ phase[queue[l][i].run] = "waiting" /\ keyOf[queue[l][i].run] = l
      BY EntryRun DEF QueueOK
    <3>2. queue[l][i].run # r
      BY <3>1, SubmitMoves
    <3> QED
      BY <1>0, <2>1, <2>2, <3>1, <3>2
  <2>3. ASSUME NEW l \in Key, l # k
        PROVE  queue'[l] = queue[l]
    BY <1>0, <1>2, <2>3 DEF SubmitAdmitted, SubmitRunNow, SubmitQueued, SubmitOverflow, TypeOK
  <2>4. CASE queue'[k] = QueueLeft(k, c)
    <3>1. CASE Mode(c) = "replace"
      BY <1>0, <2>2, <2>3, <2>4, <3>1 DEF QueueOK, QueueLeft
    <3>2. CASE Mode(c) # "replace"
      BY <1>0, <2>2, <2>3, <2>4, <3>2 DEF QueueOK, QueueLeft
    <3> QED
      BY <3>1, <3>2
  <2>5. CASE SubmitQueued(r, c)
    <3> DEFINE e == [run |-> r, cfg |-> c]
               q == QueueLeft(k, c)
    <3>1. e \in Entry /\ e.run = r
      BY DEF Entry
    <3>2. q \in Seq(Entry)
      BY <1>0 DEF QueueLeft
    <3>3. queue'[k] = Append(q, e)
      BY <1>0, <2>5 DEF SubmitQueued, TypeOK
    <3>4. phase'[r] = "waiting"
      BY <2>5 DEF SubmitQueued, DisplaceOthers
    <3>5. \A i \in 1..Len(q) : /\ phase'[q[i].run] = "waiting" /\ keyOf'[q[i].run] = k
                               /\ q[i].run # r
      <4>1. CASE Mode(c) = "replace"
        BY <4>1 DEF QueueLeft
      <4>2. CASE Mode(c) # "replace"
        BY <1>0, <2>2, <4>2, SubmitMoves DEF QueueLeft, QueueOK
      <4> QED
        BY <4>1, <4>2
    <3>6. \A i, j \in 1..Len(q) : q[i].run = q[j].run => i = j
      <4>1. CASE Mode(c) = "replace"
        BY <4>1 DEF QueueLeft
      <4>2. CASE Mode(c) # "replace"
        BY <1>0, <4>2 DEF QueueLeft, QueueOK
      <4> QED
        BY <4>1, <4>2
    <3> HIDE DEF e, q
    <3>7. \A i \in 1..Len(queue'[k]) :
            \/ i \in 1..Len(q) /\ queue'[k][i] = q[i]
            \/ i = Len(q) + 1 /\ queue'[k][i] = e
      BY <3>1, <3>2, <3>3, AppendEntries
    <3>8. \A i \in 1..Len(queue'[k]) :
            phase'[queue'[k][i].run] = "waiting" /\ keyOf'[queue'[k][i].run] = k
      BY <1>0, <3>1, <3>4, <3>5, <3>7
    <3>9. \A i, j \in 1..Len(queue'[k]) : queue'[k][i].run = queue'[k][j].run => i = j
      BY <3>1, <3>5, <3>6, <3>7
    <3> QED
      BY <1>0, <2>2, <2>3, <3>8, <3>9 DEF QueueOK
  <2> QED
    BY <1>0, <1>2, <2>4, <2>5 DEF SubmitAdmitted, SubmitRunNow, SubmitOverflow, TypeOK
<1> QED
  BY <1>1, <1>2 DEF Submit, SubmitWhenClosing, SubmitSingleBusy

LEMMA EmptyQueue == \A k \in Key : queue'[k] = <<>> => Len(queue'[k]) = 0
  OBVIOUS

(* Taking the oldest run out of a queue, whether or not a thread can be     *)
(* started for it.                                                          *)
LEMMA DispatchPlaces ==
  ASSUME TypeOK, QueueOK, NEW k \in Key, DispatchHead(k)
  PROVE  LET r == Head(queue[k]).run IN
         /\ r \in Run /\ phase[r] = "waiting" /\ keyOf[r] = k
         /\ phase' = [phase EXCEPT ![r] = "pooled"]
         /\ queue' = [queue EXCEPT ![k] = Tail(queue[k])]
         /\ queue[k] \in Seq(Entry) /\ queue[k] # <<>>
         /\ Head(queue[k]) \in Entry /\ Head(queue[k]) = queue[k][1]
         /\ keyOf' = keyOf
<1>1. queue[k] # <<>>
  BY DEF DispatchHead, CanDispatch
<1>2. queue[k] \in Seq(Entry) /\ Head(queue[k]) \in Entry /\ Head(queue[k]).run \in Run
  BY <1>1, QueueHead
<1>3. Head(queue[k]) = queue[k][1] /\ 1 \in 1..Len(queue[k])
  BY <1>1, <1>2, TailEntries
<1>4. phase[Head(queue[k]).run] = "waiting" /\ keyOf[Head(queue[k]).run] = k
  BY <1>3 DEF QueueOK
<1> QED
  BY <1>1, <1>2, <1>3, <1>4 DEF DispatchHead

LEMMA DispatchMoves ==
  ASSUME TypeOK, QueueOK, NEW k \in Key, DispatchHead(k), ~ThreadStartMayFail
  PROVE  LET r == Head(queue[k]).run IN
         /\ r \in Run /\ phase[r] = "waiting" /\ keyOf[r] = k
         /\ phase' = [phase EXCEPT ![r] = "pooled"]
         /\ queue' = [queue EXCEPT ![k] = Tail(queue[k])]
         /\ queue[k] \in Seq(Entry) /\ queue[k] # <<>>
         /\ Head(queue[k]) \in Entry /\ Head(queue[k]) = queue[k][1]
         /\ active' = active \cup {r}
         /\ executing' = executing \cup {r}
         /\ workerCount' = workerCount + 1
         /\ UNCHANGED <<keyOf, lock, recorded, outcome, cancelled, shuttingDown, poolClosed>>
  BY DispatchPlaces DEF DispatchHead

LEMMA DispatchKeepsQueues ==
  ASSUME TypeOK, QueueOK, NEW k \in Key, DispatchHead(k)
  PROVE  QueueOK'
<1> DEFINE r == Head(queue[k]).run
<1>1. /\ r \in Run /\ keyOf' = keyOf
      /\ queue[k] \in Seq(Entry) /\ queue[k] # <<>> /\ r = queue[k][1].run
      /\ \A x \in Run \ {r} : phase'[x] = phase[x]
      /\ queue'[k] = Tail(queue[k])
      /\ \A l \in Key \ {k} : queue'[l] = queue[l]
  BY DispatchPlaces DEF TypeOK
<1>2. /\ Len(queue[k]) \in Nat \ {0}
      /\ Len(queue'[k]) = Len(queue[k]) - 1
      /\ \A i \in 1..Len(queue'[k]) : i + 1 \in 1..Len(queue[k]) /\ queue'[k][i] = queue[k][i + 1]
  BY <1>1, TailEntries
<1>3. ASSUME NEW l \in Key, NEW i \in 1..Len(queue[l]), queue[l][i].run # r
      PROVE  phase'[queue[l][i].run] = "waiting" /\ keyOf'[queue[l][i].run] = l
  BY <1>1, <1>3, EntryRun DEF QueueOK
<1>4. \A i \in 2..Len(queue[k]) : queue[k][i].run # r
  BY <1>1, <1>2 DEF QueueOK
<1>5. \A l \in Key \ {k} : \A i \in 1..Len(queue[l]) : queue[l][i].run # r
  BY DispatchPlaces DEF QueueOK
<1>6. ASSUME NEW i \in 1..Len(queue'[k])
      PROVE  phase'[queue'[k][i].run] = "waiting" /\ keyOf'[queue'[k][i].run] = k
  <2>1. i + 1 \in 2..Len(queue[k]) /\ queue'[k][i] = queue[k][i + 1]
    BY <1>2
  <2> QED
    BY <1>3, <1>4, <2>1
<1>7. ASSUME NEW i \in 1..Len(queue'[k]), NEW j \in 1..Len(queue'[k]),
             queue'[k][i].run = queue'[k][j].run
      PROVE  i = j
  <2>1. queue[k][i + 1].run = queue[k][j + 1].run
    BY <1>2, <1>7
  <2>2. i + 1 = j + 1
    BY <1>2, <2>1 DEF QueueOK
  <2> QED
    BY <1>2, <2>2
<1>8. ASSUME NEW l \in Key \ {k}
      PROVE  /\ \A i \in 1..Len(queue'[l]) :
                  phase'[queue'[l][i].run] = "waiting" /\ keyOf'[queue'[l][i].run] = l
             /\ \A i, j \in 1..Len(queue'[l]) : queue'[l][i].run = queue'[l][j].run => i = j
  <2>1. queue'[l] = queue[l]
    BY <1>1
  <2>2. \A i \in 1..Len(queue[l]) :
          phase'[queue[l][i].run] = "waiting" /\ keyOf'[queue[l][i].run] = l
    BY <1>3, <1>5
  <2> QED
    BY <2>1, <2>2 DEF QueueOK
<1> HIDE DEF r
<1> QED
  BY <1>6, <1>7, <1>8 DEF QueueOK

(* Runs leave the queues for good when their rule or the engine goes.       *)
LEMMA DropMoves ==
  ASSUME TypeOK, QueueOK, NEW k \in Key, DropRule(k)
  PROVE  /\ keyOf' = keyOf
         /\ queue' = [queue EXCEPT ![k] = <<>>]
         /\ \A x \in Run :
              \/ phase'[x] = phase[x] /\ recorded'[x] = recorded[x]
              \/ /\ phase[x] = "waiting" /\ keyOf[x] = k
                 /\ phase'[x] = "gone"
                 /\ recorded'[x] = StatusAfter(recorded[x], "dropped")
<1>1. queue[k] \in Seq(Entry)
  BY DEF TypeOK
<1>2. ASSUME NEW x \in RunsIn(queue[k])
      PROVE  phase[x] = "waiting" /\ keyOf[x] = k
  <2>1. PICK i \in 1..Len(queue[k]) : x = queue[k][i].run
    BY <1>1 DEF RunsIn
  <2> QED
    BY <2>1 DEF QueueOK
<1> QED
  BY <1>2 DEF DropRule, RecordAll

LEMMA ShutdownMoves ==
  ASSUME TypeOK, QueueOK, Shutdown
  PROVE  /\ keyOf' = keyOf
         /\ queue' = [k \in Key |-> <<>>]
         /\ \A x \in Run :
              \/ phase'[x] = phase[x] /\ recorded'[x] = recorded[x]
              \/ /\ phase[x] = "waiting"
                 /\ phase'[x] = "gone"
                 /\ recorded'[x] = StatusAfter(recorded[x], "dropped")
<1>1. ASSUME NEW x \in Waiting
      PROVE  phase[x] = "waiting"
  <2>1. PICK k \in Key : x \in RunsIn(queue[k])
    BY DEF Waiting
  <2>2. queue[k] \in Seq(Entry)
    BY DEF TypeOK
  <2>3. PICK i \in 1..Len(queue[k]) : x = queue[k][i].run
    BY <2>1, <2>2 DEF RunsIn
  <2> QED
    BY <2>3 DEF QueueOK
<1> QED
  BY <1>1 DEF Shutdown, RecordAll

LEMMA StepQueues ==
  ASSUME TypeOK, LockOK, QueueOK, Next, ~ThreadStartMayFail
  PROVE  QueueOK'
<1>1. ASSUME NEW r \in Run, Worker(r) PROVE QueueOK'
  BY <1>1, WorkerMoves, QueueMove DEF InPool
<1>2. ASSUME NEW r \in Run, NEW c \in Snapshots[keyOf[r]], Submit(r, c) PROVE QueueOK'
  <2>1. c \in Config
    BY ConstantsAssumption DEF TypeOK
  <2> QED
    BY <1>2, <2>1, SubmitKeepsQueues
<1>3. ASSUME NEW r \in Run, SpawnOk(r) \/ SpawnFailed(r) PROVE QueueOK'
  BY <1>3, QueueMove DEF SpawnOk, SpawnFailed, TypeOK
<1>4. ASSUME NEW r \in Run, RefuseDone(r) \/ CancelRun(r) PROVE QueueOK'
  BY <1>4 DEF RefuseDone, CancelRun, QueueOK
<1>5. ASSUME NEW k \in Key, DispatchHead(k) PROVE QueueOK'
  BY <1>5, DispatchKeepsQueues
<1>6. ASSUME NEW k \in Key, DropRule(k) PROVE QueueOK'
  <2>1. \A l \in Key : \/ l # k /\ queue'[l] = queue[l]
                       \/ l = k /\ Len(queue'[l]) = 0
    BY <1>6, DropMoves, EmptyQueue DEF TypeOK
  <2>2. \A l \in Key \ {k} : \A i \in 1..Len(queue[l]) :
           phase'[queue[l][i].run] = "waiting" /\ keyOf'[queue[l][i].run] = l
    BY <1>6, DropMoves, EntryRun DEF QueueOK
  <2> QED
    BY <2>1, <2>2 DEF QueueOK
<1>7. CASE Shutdown
  <2>1. \A l \in Key : Len(queue'[l]) = 0
    BY <1>7, ShutdownMoves, EmptyQueue
  <2> QED
    BY <2>1 DEF QueueOK
<1>8. CASE ClosePool
  BY <1>8 DEF ClosePool, QueueOK
<1> QED
  BY <1>1, <1>2, <1>3, <1>4, <1>5, <1>6, <1>7, <1>8 DEF Next, Submitter

(* A step that leaves the lock, and its holder's place, alone.              *)
LEMMA LockKept ==
  ASSUME TypeOK, LockOK, lock' = lock,
         lock.site # "free" => phase'[lock.run] = phase[lock.run],
         lock.site = "settle" => lock.run \notin active'
  PROVE  LockOK'
  BY DEF LockOK

LEMMA HolderPhase ==
  ASSUME TypeOK, LockOK, lock.site # "free"
  PROVE  lock.run \in Run /\ phase[lock.run] \in {"finished", "closing", "leaving", "gone"}
  BY DEF TypeOK, LockStates, Sites, LockOK

LEMMA FreeSite == TypeOK /\ LockOK => (LockFree <=> lock.site = "free")
  BY LockType DEF LockOK, LockFree

LEMMA StepLock ==
  ASSUME TypeOK, LockOK, QueueOK, Next, ~ThreadStartMayFail
  PROVE  LockOK'
<1>1. ASSUME NEW r \in Run, Begin(r) \/ ActionsEnd(r) \/ FinishRun(r) PROVE LockOK'
  <2>1. /\ lock' = lock /\ active' = active
        /\ phase[r] \in {"pooled", "running", "checked"}
        /\ \A x \in Run \ {r} : phase'[x] = phase[x]
    BY <1>1 DEF Begin, ActionsEnd, FinishRun, TypeOK
  <2>2. lock.site # "free" => lock.run \in Run \ {r}
    BY <2>1, HolderPhase
  <2>3. lock.site = "settle" => lock.run \notin active'
    BY <2>1 DEF LockOK
  <2> QED
    BY <2>1, <2>2, <2>3, LockKept
<1>2. ASSUME NEW r \in Run, Settle(r) PROVE LockOK'
  <2>1. CASE r \in active
    <3>1. /\ lock' = Held("settle", r, {keyOf[r]})
          /\ phase' = phase /\ phase[r] = "finished" /\ r \notin active'
      BY <1>2, <2>1 DEF Settle
    <3>2. {keyOf[r]} \in SUBSET Key /\ "settle" \in Sites
      BY DEF TypeOK, Sites
    <3>3. lock'.site = "settle" /\ lock'.run = r /\ ~lock'.unwinding
      BY <3>1, <3>2, LockType
    <3> QED
      BY <3>1, <3>3 DEF LockOK
  <2>2. CASE r \notin active
    BY <1>2, <2>2, FreeSite, LockKept DEF Settle
  <2> QED
    BY <2>1, <2>2
<1>3. ASSUME NEW r \in Run, SettleDone(r) \/ RetireDone(r) \/ ExitDone(r) \/ RefuseDone(r)
      PROVE  LockOK'
  BY <1>3, LockType DEF SettleDone, RetireDone, ExitDone, RefuseDone, LockOK
<1>4. ASSUME NEW r \in Run, Retire(r) PROVE LockOK'
  <2>1. {keyOf[r]} \in SUBSET Key /\ "retire" \in Sites
    BY DEF TypeOK, Sites
  <2>2. lock'.site = "retire" /\ lock'.run = r /\ ~lock'.unwinding /\ phase'[r] = "closing"
    BY <1>4, <2>1, LockType DEF Retire
  <2> QED
    BY <2>2 DEF LockOK
<1>5. ASSUME NEW r \in Run, Exit(r) PROVE LockOK'
  <2>1. CASE keyOf[r] \in slots
    <3>1. lock' = Held("exit", r, Key) /\ "exit" \in Sites /\ phase'[r] = "leaving"
      BY <1>5, <2>1 DEF Exit, Sites
    <3>2. lock'.site = "exit" /\ lock'.run = r /\ ~lock'.unwinding
      BY <3>1, LockType
    <3> QED
      BY <3>1, <3>2 DEF LockOK
  <2>2. CASE keyOf[r] \notin slots
    BY <1>5, <2>2, FreeSite, LockKept DEF Exit
  <2> QED
    BY <2>1, <2>2
<1>6. ASSUME NEW r \in Run, NEW c, Submit(r, c) PROVE LockOK'
  BY <1>6, FreeSite, LockKept DEF Submit
<1>7. ASSUME NEW r \in Run, SpawnOk(r) PROVE LockOK'
  <2>1. lock.site # "free" => lock.run # r
    BY <1>7, HolderPhase DEF SpawnOk
  <2> QED
    BY <1>7, <2>1, HolderPhase, LockKept DEF SpawnOk, TypeOK, LockOK
<1>8. ASSUME NEW r \in Run, SpawnFailed(r) PROVE LockOK'
  <2>1. lock' = Held("refuse", r, Key) /\ "refuse" \in Sites /\ phase'[r] = "gone"
    BY <1>8 DEF SpawnFailed, Sites, TypeOK
  <2>2. lock'.site = "refuse" /\ lock'.run = r /\ ~lock'.unwinding
    BY <2>1, LockType
  <2> QED
    BY <2>1, <2>2 DEF LockOK
<1>9. ASSUME NEW k \in Key, DispatchHead(k) PROVE LockOK'
  <2> DEFINE r == Head(queue[k]).run
  <2>1. r \in Run /\ phase[r] = "waiting" /\ lock' = lock /\ active' = active \cup {r}
        /\ \A x \in Run \ {r} : phase'[x] = phase[x]
    BY <1>9, DispatchMoves DEF TypeOK
  <2>2. lock.site # "free" => lock.run \in Run \ {r}
    BY <2>1, HolderPhase
  <2> QED
    BY <2>1, <2>2, LockKept DEF LockOK
<1>10. ASSUME NEW k \in Key, DropRule(k) PROVE LockOK'
  BY <1>10, FreeSite, LockKept DEF DropRule
<1>11. CASE Shutdown
  BY <1>11, FreeSite, LockKept DEF Shutdown
<1>12. ASSUME NEW r \in Run, CancelRun(r) PROVE LockOK'
  BY <1>12, LockKept DEF CancelRun, LockOK
<1>13. CASE ClosePool
  BY <1>13, LockKept DEF ClosePool, LockOK
<1> QED
  BY <1>1, <1>2, <1>3, <1>4, <1>5, <1>6, <1>7, <1>8, <1>9, <1>10, <1>11, <1>12,
     <1>13 DEF Next, Worker, Submitter

-----------------------------------------------------------------------------
(* The accounting of workers.                                               *)

LEMMA FiniteRuns ==
  ASSUME NEW S \in SUBSET Run
  PROVE  IsFiniteSet(S) /\ Cardinality(S) \in Nat
  BY ConstantsAssumption, FS_Subset, FS_CardinalityType

LEMMA Counted ==
  ASSUME TypeOK, WorkersAccounted, NEW r \in Run,
         \/ executing' = executing /\ workerCount' = workerCount
         \/ /\ r \notin executing /\ workerCount < MaxWorkers
            /\ executing' = executing \cup {r} /\ workerCount' = workerCount + 1
         \/ /\ r \in executing
            /\ executing' = executing \ {r} /\ workerCount' = workerCount - 1
  PROVE  workerCount' = Cardinality(executing)' /\ workerCount' <= MaxWorkers
<1>1. IsFiniteSet(executing) /\ workerCount = Cardinality(executing)
      /\ workerCount \in Nat /\ workerCount <= MaxWorkers
  BY FiniteRuns DEF TypeOK, WorkersAccounted
<1>2. MaxWorkers \in Nat
  BY ConstantsAssumption
<1>3. CASE executing' = executing /\ workerCount' = workerCount
  BY <1>1, <1>3
<1>4. CASE /\ r \notin executing /\ workerCount < MaxWorkers
           /\ executing' = executing \cup {r} /\ workerCount' = workerCount + 1
  <2>1. Cardinality(executing \cup {r}) = Cardinality(executing) + 1
    BY <1>1, <1>4, FS_AddElement
  <2> QED
    BY <1>1, <1>2, <1>4, <2>1
<1>5. CASE /\ r \in executing
           /\ executing' = executing \ {r} /\ workerCount' = workerCount - 1
  BY <1>1, <1>2, <1>5, FS_RemoveElement
<1> QED
  BY <1>3, <1>4, <1>5

(* The steps of a run's thread that neither give it a worker nor take it    *)
(* away.                                                                    *)
LEMMA StillOccupying ==
  ASSUME TypeOK, WorkersAccounted, NEW r \in Run, phase[r] \in InPool, phase'[r] \in InPool,
         \A x \in Run \ {r} : phase'[x] = phase[x],
         UNCHANGED <<executing, workerCount>>,
         lock.site # "exit", lock'.site # "exit"
  PROVE  WorkersAccounted'
<1>1. Occupying' = Occupying
  BY DEF Occupying
<1> QED
  BY <1>1, Counted DEF WorkersAccounted

(* The rule of an executing run keeps its executing set.                    *)
SlotsOK == \A r \in executing : keyOf[r] \in slots

LEMMA StepWorkers ==
  ASSUME TypeOK, LockOK, QueueOK, SlotsOK, WorkersAccounted, Next, ~ThreadStartMayFail
  PROVE  WorkersAccounted'
<1>1. ASSUME NEW r \in Run, Begin(r) \/ ActionsEnd(r) \/ FinishRun(r) PROVE WorkersAccounted'
  <2>1. /\ UNCHANGED <<lock, executing, workerCount>>
        /\ phase[r] \in InPool /\ phase'[r] \in InPool
        /\ \A x \in Run \ {r} : phase'[x] = phase[x]
    BY <1>1 DEF Begin, ActionsEnd, FinishRun, TypeOK, InPool
  <2>2. Occupying' = Occupying
    BY <2>1 DEF Occupying
  <2> QED
    BY <2>1, <2>2, Counted DEF WorkersAccounted
<1>2. ASSUME NEW r \in Run, Settle(r) PROVE WorkersAccounted'
  <2>1. lock.site = "free"
    BY <1>2, FreeSite DEF Settle
  <2>2. lock'.site # "exit"
    <3>1. {keyOf[r]} \in SUBSET Key /\ "settle" \in Sites
      BY DEF TypeOK, Sites
    <3>2. lock' = lock \/ lock' = Held("settle", r, {keyOf[r]})
      BY <1>2 DEF Settle
    <3> QED
      BY <2>1, <3>1, <3>2, LockType
  <2>3. /\ UNCHANGED <<executing, workerCount>>
        /\ phase[r] \in InPool /\ phase'[r] \in InPool
        /\ \A x \in Run \ {r} : phase'[x] = phase[x]
    BY <1>2 DEF Settle, TypeOK, InPool
  <2> QED
    BY <2>1, <2>2, <2>3, StillOccupying
<1>3. ASSUME NEW r \in Run, SettleDone(r) \/ RetireDone(r) PROVE WorkersAccounted'
  <2>1. /\ UNCHANGED <<executing, workerCount>>
        /\ phase[r] \in InPool /\ phase'[r] \in InPool
        /\ \A x \in Run \ {r} : phase'[x] = phase[x]
        /\ lock.site # "exit" /\ lock' = Free
    BY <1>3 DEF SettleDone, RetireDone, LockOK, TypeOK, InPool
  <2> QED
    BY <2>1, StillOccupying, LockType
<1>4. ASSUME NEW r \in Run, Retire(r) PROVE WorkersAccounted'
  <2>1. {keyOf[r]} \in SUBSET Key /\ "retire" \in Sites
    BY DEF TypeOK, Sites
  <2>2. lock.site # "exit" /\ lock'.site # "exit"
    BY <1>4, <2>1, LockType, FreeSite DEF Retire
  <2> QED
    BY <1>4, <2>2, StillOccupying DEF Retire, InPool
<1>5. ASSUME NEW r \in Run, Exit(r) PROVE WorkersAccounted'
  <2>1. lock.site = "free" /\ phase[r] = "leaving"
    BY <1>5, FreeSite DEF Exit
  <2>2. r \in Occupying /\ r \in executing
    BY <2>1 DEF Occupying, InPool, WorkersAccounted
  <2>3. keyOf[r] \in slots
    BY <2>2 DEF SlotsOK
  <2>4. /\ executing' = executing \ {r} /\ workerCount' = workerCount - 1
        /\ phase' = phase /\ lock' = Held("exit", r, Key)
    BY <1>5, <2>3 DEF Exit
  <2>5. lock'.site = "exit" /\ lock'.run = r
    BY <2>4, LockType DEF Sites
  <2>6. Occupying' = Occupying \ {r}
    BY <2>1, <2>4, <2>5 DEF Occupying
  <2> QED
    BY <2>2, <2>4, <2>6, Counted DEF WorkersAccounted
<1>6. ASSUME NEW r \in Run, ExitDone(r) PROVE WorkersAccounted'
  <2>1. /\ UNCHANGED <<executing, workerCount>> /\ lock' = Free /\ lock.site = "exit" /\ lock.run = r
        /\ phase'[r] = "gone"
        /\ \A x \in Run \ {r} : phase'[x] = phase[x]
    BY <1>6 DEF ExitDone, TypeOK
  <2>2. Occupying' = Occupying
    BY <2>1, LockType DEF Occupying, InPool
  <2> QED
    BY <2>1, <2>2, Counted DEF WorkersAccounted
<1>7. ASSUME NEW r \in Run, NEW c, Submit(r, c) PROVE WorkersAccounted'
  <2>1. lock.site = "free" /\ lock' = lock
    BY <1>7, FreeSite DEF Submit
  <2>2. /\ \A x \in Run \ {r} : x \in Occupying' <=> x \in Occupying
        /\ r \notin Occupying
        /\ r \in Occupying' <=> phase'[r] = "spawning"
    BY <1>7, <2>1, SubmitMoves DEF Occupying, InPool
  <2>3. CASE SubmitAdmitted(r, c) /\ SubmitRunNow(r, c)
    <3>1. /\ phase'[r] = "spawning" /\ executing' = executing \cup {r}
          /\ workerCount' = workerCount + 1 /\ workerCount < MaxWorkers
      BY <2>3 DEF SubmitRunNow, DisplaceOthers, MayRunNow
    <3>2. Occupying' = Occupying \cup {r}
      BY <2>2, <3>1 DEF Occupying
    <3> QED
      BY <2>2, <3>1, <3>2, Counted DEF WorkersAccounted
  <2>4. CASE UNCHANGED <<executing, workerCount>> /\ phase'[r] # "spawning"
    <3>1. Occupying' = Occupying
      BY <2>2, <2>4 DEF Occupying
    <3> QED
      BY <2>4, <3>1, Counted DEF WorkersAccounted
  <2> QED
    BY <1>7, <2>3, <2>4 DEF Submit, SubmitWhenClosing, SubmitSingleBusy, SubmitAdmitted,
       SubmitQueued, SubmitOverflow, DisplaceOthers, TypeOK
<1>8. ASSUME NEW r \in Run, SpawnOk(r) PROVE WorkersAccounted'
  <2>1. /\ UNCHANGED <<executing, workerCount, lock>>
        /\ phase[r] = "spawning" /\ phase'[r] = "pooled"
        /\ \A x \in Run \ {r} : phase'[x] = phase[x]
    BY <1>8 DEF SpawnOk, TypeOK
  <2>2. Occupying' = Occupying
    BY <2>1 DEF Occupying, InPool
  <2> QED
    BY <2>1, <2>2, Counted DEF WorkersAccounted
<1>9. ASSUME NEW r \in Run, SpawnFailed(r) PROVE WorkersAccounted'
  <2>1. /\ executing' = executing \ {r} /\ workerCount' = workerCount - 1
        /\ phase[r] = "spawning" /\ phase'[r] = "gone"
        /\ \A x \in Run \ {r} : phase'[x] = phase[x]
    BY <1>9 DEF SpawnFailed, TypeOK
  <2>2. lock.site = "free" /\ lock'.site = "refuse"
    BY <1>9, FreeSite, LockType DEF SpawnFailed, Sites
  <2>3. r \in Occupying /\ Occupying' = Occupying \ {r}
    BY <2>1, <2>2 DEF Occupying, InPool
  <2> QED
    BY <2>1, <2>3, Counted DEF WorkersAccounted
<1>10. ASSUME NEW r \in Run, RefuseDone(r) PROVE WorkersAccounted'
  <2>1. UNCHANGED <<executing, workerCount, phase>> /\ lock.site = "refuse" /\ lock' = Free
    BY <1>10 DEF RefuseDone
  <2>2. Occupying' = Occupying
    BY <2>1, LockType DEF Occupying
  <2> QED
    BY <2>1, <2>2, Counted, <1>10 DEF WorkersAccounted
<1>11. ASSUME NEW k \in Key, DispatchHead(k) PROVE WorkersAccounted'
  <2> DEFINE r == Head(queue[k]).run
  <2>1. /\ r \in Run /\ phase[r] = "waiting" /\ phase'[r] = "pooled" /\ lock' = lock
        /\ executing' = executing \cup {r} /\ workerCount' = workerCount + 1
        /\ \A x \in Run \ {r} : phase'[x] = phase[x]
    BY <1>11, DispatchMoves DEF TypeOK
  <2>2. workerCount < MaxWorkers
    BY <1>11 DEF DispatchHead, CanDispatch
  <2>3. lock.site # "free" => lock.run # r
    BY <2>1, HolderPhase
  <2> HIDE DEF r
  <2>4. r \notin Occupying /\ Occupying' = Occupying \cup {r}
    BY <2>1, <2>3 DEF Occupying, InPool
  <2> QED
    BY <2>1, <2>2, <2>4, Counted DEF WorkersAccounted
<1>12. ASSUME NEW k \in Key, DropRule(k) PROVE WorkersAccounted'
  <2>1. UNCHANGED <<executing, workerCount, lock>>
    BY <1>12 DEF DropRule
  <2>2. Occupying' = Occupying
    BY <1>12, <2>1, DropMoves DEF Occupying, InPool
  <2> QED
    BY <2>1, <2>2 DEF WorkersAccounted
<1>13. CASE Shutdown
  <2>1. UNCHANGED <<executing, workerCount, lock>>
    BY <1>13 DEF Shutdown
  <2>2. Occupying' = Occupying
    BY <1>13, <2>1, ShutdownMoves DEF Occupying, InPool
  <2> QED
    BY <2>1, <2>2 DEF WorkersAccounted
<1>14. CASE ClosePool
  BY <1>14 DEF ClosePool, WorkersAccounted, Occupying
<1>15. ASSUME NEW r \in Run, CancelRun(r) PROVE WorkersAccounted'
  BY <1>15 DEF CancelRun, WorkersAccounted, Occupying
<1> QED
  BY <1>1, <1>2, <1>3, <1>4, <1>5, <1>6, <1>7, <1>8, <1>9, <1>10, <1>11, <1>12,
     <1>13, <1>14, <1>15 DEF Next, Worker, Submitter

LEMMA StepSlots ==
  ASSUME TypeOK, LockOK, QueueOK, SlotsOK, WorkersAccounted, Next, ~ThreadStartMayFail
  PROVE  SlotsOK'
<1>1. ASSUME UNCHANGED <<executing, keyOf>>, slots \subseteq slots' PROVE SlotsOK'
  BY <1>1 DEF SlotsOK
<1>2. ASSUME NEW k \in Key, UNCHANGED keyOf, executing' \subseteq executing,
             NEW act, NEW rem, Prune(k, act, executing', rem)
      PROVE  SlotsOK'
  BY <1>2 DEF Prune, Prunable, SlotsOK
<1>3. ASSUME NEW r \in Run,
             \/ Begin(r) \/ ActionsEnd(r) \/ FinishRun(r) \/ Settle(r) \/ Retire(r)
             \/ ExitDone(r) \/ RefuseDone(r) \/ CancelRun(r) \/ SpawnOk(r)
      PROVE  SlotsOK'
  BY <1>1, <1>3 DEF Begin, ActionsEnd, FinishRun, Settle, Retire, ExitDone, RefuseDone,
                    CancelRun, SpawnOk
<1>4. ASSUME NEW r \in Run, SettleDone(r) \/ RetireDone(r) PROVE SlotsOK'
  <2>1. keyOf[r] \in Key
    BY DEF TypeOK
  <2> QED
    BY <1>2, <1>4, <2>1 DEF SettleDone, RetireDone, LockOK
<1>5. ASSUME NEW r \in Run, Exit(r) PROVE SlotsOK'
  <2>1. keyOf[r] \in Key
    BY DEF TypeOK
  <2>2. CASE keyOf[r] \in slots
    <3>1. executing' = executing \ {r} /\ keyOf' = keyOf /\ Prune(keyOf[r], active, executing', removed)
      BY <1>5, <2>2 DEF Exit
    <3> QED
      BY <1>2, <2>1, <3>1
  <2>3. CASE keyOf[r] \notin slots
    BY <1>1, <1>5, <2>3 DEF Exit
  <2> QED
    BY <2>2, <2>3
<1>6. ASSUME NEW r \in Run, NEW c, Submit(r, c) PROVE SlotsOK'
  BY <1>6 DEF Submit, SubmitWhenClosing, SubmitSingleBusy, SubmitAdmitted, SubmitRunNow,
              SubmitQueued, SubmitOverflow, SlotsOK
<1>7. ASSUME NEW r \in Run, SpawnFailed(r) PROVE SlotsOK'
  BY <1>7 DEF SpawnFailed, SlotsOK
<1>8. ASSUME NEW k \in Key, DispatchHead(k) PROVE SlotsOK'
  <2>1. slots' = slots \cup {k}
    BY <1>8 DEF DispatchHead
  <2> QED
    BY <1>8, <2>1, DispatchMoves DEF SlotsOK
<1>9. ASSUME NEW k \in Key, DropRule(k) PROVE SlotsOK'
  <2>1. executing' = executing /\ keyOf' = keyOf /\ Prune(k, active, executing', removed \cup {k})
    BY <1>9 DEF DropRule
  <2> QED
    BY <1>2, <1>9, <2>1
<1>10. CASE Shutdown \/ ClosePool
  BY <1>1, <1>10 DEF Shutdown, ClosePool
<1> QED
  BY <1>3, <1>4, <1>5, <1>6, <1>7, <1>8, <1>9, <1>10 DEF Next, Worker, Submitter

(* The invariant that carries the accounting.                               *)
AccountInv ==
  TypeInv /\ LockOK /\ QueueOK /\ SlotsOK /\ WorkersAccounted

LEMMA InitAccount == Init => AccountInv
<1> SUFFICES ASSUME Init PROVE AccountInv
  OBVIOUS
<1>1. TypeInv
  BY InitType
<1>2. lock.site = "free" /\ ~lock.unwinding
  BY LockType DEF Init
<1>3. LockOK
  BY <1>2 DEF Init, LockOK
<1>4. \A k \in Key : Len(queue[k]) = 0
  BY DEF Init
<1>5. QueueOK
  BY <1>4 DEF QueueOK
<1>6. SlotsOK
  BY DEF Init, SlotsOK
<1>7. Occupying = {}
  BY DEF Init, Occupying, InPool
<1>8. WorkersAccounted
  BY <1>7, FS_EmptySet, ConstantsAssumption DEF Init, WorkersAccounted
<1> QED
  BY <1>1, <1>3, <1>5, <1>6, <1>8 DEF AccountInv

LEMMA StepAccount ==
  ASSUME AccountInv, [Next]_vars, ~ThreadStartMayFail
  PROVE  AccountInv'
<1>1. TypeInv' /\ TypeOK
  BY StepType DEF AccountInv, TypeInv
<1>2. CASE Next
  BY <1>1, <1>2, StepLock, StepQueues, StepSlots, StepWorkers DEF AccountInv
<1>3. CASE UNCHANGED vars
  BY <1>1, <1>3 DEF vars, AccountInv, LockOK, QueueOK, SlotsOK, WorkersAccounted, Occupying
<1> QED
  BY <1>2, <1>3

(* The worker count, the executing sets and the runs that are really on     *)
(* their way through the pool agree, and the pool is never overcommitted    *)
(* (rule_scheduler.py 118-142, 225-277), for any number of rules, runs and  *)
(* workers.                                                                 *)
THEOREM AccountingCorrect ==
  ASSUME ~ThreadStartMayFail
  PROVE  Spec => []WorkersAccounted
<1>1. AccountInv /\ [Next]_vars => AccountInv'
  BY StepAccount
<1>2. AccountInv => WorkersAccounted
  BY DEF AccountInv
<1> QED
  BY <1>1, <1>2, InitAccount, PTL DEF Spec

-----------------------------------------------------------------------------
(* No waiting run is stranded.                                              *)

(* Only the rules whose queues the lock's holder is still going to look at  *)
(* can have a run that could be dispatched.                                 *)
Dispatched == \A k \in Key \ lock.scope : ~CanDispatch(k)

LEMMA CapType == \A c \in Config : Cap(c) \in Nat
  BY ConstantsAssumption DEF Config, Cap

LEMMA StillFull ==
  ASSUME TypeOK, TypeOK', NEW k \in Key, ~CanDispatch(k), queue'[k] = queue[k],
         ActiveOf(k) \subseteq ActiveOf(k)', workerCount <= workerCount',
         shuttingDown => shuttingDown'
  PROVE  ~CanDispatch(k)'
<1>1. CASE queue[k] = <<>> \/ shuttingDown'
  BY <1>1 DEF CanDispatch
<1>2. CASE queue[k] # <<>> /\ ~shuttingDown
  <2>1. Head(queue[k]).cfg \in Config
    <3>1. Head(queue[k]) \in Entry
      BY <1>2, QueueHead
    <3> QED
      BY <3>1 DEF Entry
  <2>2. Cap(Head(queue[k]).cfg) \in Nat
    BY <2>1, CapType
  <2>3. ActiveOf(k) \subseteq Run /\ ActiveOf(k)' \subseteq Run
    BY DEF ActiveOf, TypeOK
  <2>4. /\ Cardinality(ActiveOf(k)) \in Nat /\ Cardinality(ActiveOf(k)') \in Nat
        /\ Cardinality(ActiveOf(k)) <= Cardinality(ActiveOf(k)')
    BY <2>3, FiniteRuns, FS_Subset
  <2>5. workerCount \in Int /\ workerCount' \in Int /\ MaxWorkers \in Nat
    BY ConstantsAssumption DEF TypeOK
  <2> QED
    BY <1>2, <2>2, <2>4, <2>5 DEF CanDispatch
<1> QED
  BY <1>1, <1>2

LEMMA SubmitDispatched ==
  ASSUME TypeOK, TypeOK', LockOK, QueueOK, Dispatched,
         NEW r \in Run, NEW k \in Key, k = keyOf[r], NEW c \in Config, Submit(r, c)
  PROVE  Dispatched'
<1>0. lock = Free /\ lock' = lock /\ keyOf' = keyOf /\ shuttingDown' = shuttingDown
  BY DEF Submit, LockFree, TypeOK
<1>1. \A l \in Key : ~CanDispatch(l)
  BY <1>0, LockType DEF Dispatched
<1>2. CASE SubmitWhenClosing(r)
  BY <1>0, <1>2 DEF SubmitWhenClosing, Dispatched, CanDispatch
<1>3. CASE SubmitSingleBusy(r, c)
  BY <1>0, <1>1, <1>3 DEF SubmitSingleBusy, Dispatched, CanDispatch, ActiveOf
<1>4. CASE SubmitAdmitted(r, c)
  <2>1. /\ workerCount' \in Int /\ workerCount <= workerCount'
        /\ active' = active \ Displaced(k, c) \/ active' = (active \ Displaced(k, c)) \cup {r}
        /\ \A l \in Key \ {k} : queue'[l] = queue[l]
    BY <1>0, <1>4 DEF SubmitAdmitted, SubmitRunNow, SubmitQueued, SubmitOverflow, TypeOK
  <2>2. Displaced(k, c) \subseteq ActiveOf(k) /\ (Mode(c) # "replace" => Displaced(k, c) = {})
    BY DEF Displaced
  <2>3. ASSUME NEW l \in Key, l # k PROVE ~CanDispatch(l)'
    <3>1. ActiveOf(l) \subseteq ActiveOf(l)'
      BY <1>0, <2>1, <2>2, <2>3 DEF ActiveOf
    <3> QED
      BY <1>0, <1>1, <2>1, <2>3, <3>1, StillFull
  <2>4. ~CanDispatch(k)'
    <3>1. CASE queue'[k] = QueueLeft(k, c)
      <4>1. CASE Mode(c) = "replace"
        BY <3>1, <4>1 DEF QueueLeft, CanDispatch
      <4>2. CASE Mode(c) # "replace"
        <5>1. ActiveOf(k) \subseteq ActiveOf(k)'
          BY <1>0, <2>1, <2>2, <4>2 DEF ActiveOf
        <5>2. queue'[k] = queue[k]
          BY <3>1, <4>2 DEF QueueLeft
        <5> QED
          BY <1>0, <1>1, <2>1, <5>1, <5>2, StillFull
      <4> QED
        BY <4>1, <4>2
    <3>2. CASE SubmitQueued(r, c)
      <4> DEFINE e == [run |-> r, cfg |-> c]
                 q == QueueLeft(k, c)
      <4>1. e \in Entry /\ e.cfg = c
        BY DEF Entry
      <4>2. q \in Seq(Entry)
        BY <1>0 DEF QueueLeft, TypeOK
      <4>3. queue'[k] = Append(q, e)
        BY <1>0, <3>2 DEF SubmitQueued, TypeOK
      <4>4. ActiveOf(k)' = ActiveOf(k) \ Displaced(k, c)
        BY <1>0, <3>2 DEF SubmitQueued, ActiveOf
      <4>5. workerCount' = workerCount /\ ~MayRunNow(k, c)
        BY <3>2 DEF SubmitQueued
      <4>6. CASE q = <<>>
        <5>1. Head(queue'[k]) = e
          BY <4>1, <4>3, <4>6
        <5> QED
          BY <4>1, <4>4, <4>5, <5>1 DEF CanDispatch, MayRunNow
      <4>7. CASE q # <<>>
        <5>1. q = queue[k] /\ Mode(c) # "replace"
          BY <4>7 DEF QueueLeft
        <5>2. Head(queue'[k]) = Head(queue[k])
          BY <4>1, <4>2, <4>3, <4>7, <5>1
        <5>3. ActiveOf(k)' = ActiveOf(k)
          BY <2>2, <4>4, <5>1
        <5> QED
          BY <1>0, <1>1, <4>5, <4>7, <5>1, <5>2, <5>3 DEF CanDispatch
      <4> QED
        BY <4>6, <4>7
    <3> QED
      BY <1>0, <1>4, <3>1, <3>2 DEF SubmitAdmitted, SubmitRunNow, SubmitOverflow, TypeOK
  <2> QED
    BY <1>0, <2>3, <2>4 DEF Dispatched
<1> QED
  BY <1>2, <1>3, <1>4 DEF Submit

LEMMA StepDispatched ==
  ASSUME AccountInv, AccountInv', Dispatched, Next, ~ThreadStartMayFail
  PROVE  Dispatched'
<1>0. TypeOK /\ TypeOK' /\ LockOK /\ QueueOK /\ keyOf \in [Run -> Key]
  BY DEF AccountInv, TypeInv, TypeOK
<1>1. ASSUME UNCHANGED <<queue, active, keyOf, workerCount, shuttingDown>>,
             lock.scope \subseteq lock'.scope
      PROVE  Dispatched'
  BY <1>1 DEF Dispatched, CanDispatch, ActiveOf
<1>2. ASSUME lock'.scope = Key PROVE Dispatched'
  BY <1>2 DEF Dispatched
<1>3. ASSUME NEW r \in Run, \/ Begin(r) \/ ActionsEnd(r) \/ FinishRun(r)
                            \/ SpawnOk(r) \/ CancelRun(r)
      PROVE  Dispatched'
  BY <1>1, <1>3 DEF Begin, ActionsEnd, FinishRun, SpawnOk, CancelRun
<1>4. ASSUME NEW r \in Run, NEW site \in {"settle", "retire"}, lock = Free,
             lock' = Held(site, r, {keyOf[r]}), active' = active \ {r},
             UNCHANGED <<queue, keyOf, workerCount, shuttingDown>>
      PROVE  Dispatched'
  <2>1. lock'.scope = {keyOf[r]} /\ lock.scope = {}
    BY <1>0, <1>4, LockType DEF Sites
  <2>2. \A k \in Key \ {keyOf[r]} : ActiveOf(k)' = ActiveOf(k)
    BY <1>4 DEF ActiveOf
  <2> QED
    BY <1>4, <2>1, <2>2 DEF Dispatched, CanDispatch
<1>5. ASSUME NEW r \in Run, Settle(r) PROVE Dispatched'
  BY <1>1, <1>4, <1>5 DEF Settle, LockFree
<1>6. ASSUME NEW r \in Run, Retire(r) PROVE Dispatched'
  BY <1>4, <1>6 DEF Retire, LockFree
<1>7. ASSUME NEW r \in Run, SettleDone(r) \/ RetireDone(r) \/ ExitDone(r) \/ RefuseDone(r)
      PROVE  Dispatched'
  <2>1. \A k \in Key : ~CanDispatch(k)
    BY <1>7 DEF SettleDone, RetireDone, ExitDone, RefuseDone, Drained, Dispatched
  <2>2. UNCHANGED <<queue, active, keyOf, workerCount, shuttingDown>>
    BY <1>7 DEF SettleDone, RetireDone, ExitDone, RefuseDone
  <2> QED
    BY <2>1, <2>2 DEF Dispatched, CanDispatch, ActiveOf
<1>8. ASSUME NEW r \in Run, Exit(r) PROVE Dispatched'
  <2>1. lock.site = "free" /\ phase[r] = "leaving"
    BY <1>0, <1>8, FreeSite DEF Exit
  <2>2. keyOf[r] \in slots
    BY <2>1 DEF AccountInv, WorkersAccounted, Occupying, InPool, SlotsOK
  <2> QED
    BY <1>2, <1>8, <2>2, LockType DEF Exit, Sites
<1>9. ASSUME NEW r \in Run, SpawnFailed(r) PROVE Dispatched'
  BY <1>2, <1>9, LockType DEF SpawnFailed, Sites
<1>10. ASSUME NEW r \in Run, NEW c \in Snapshots[keyOf[r]], Submit(r, c) PROVE Dispatched'
  <2>1. c \in Config /\ keyOf[r] \in Key
    BY <1>0, ConstantsAssumption
  <2> QED
    BY <1>0, <1>10, <2>1, SubmitDispatched
<1>11. ASSUME NEW k \in Key, DispatchHead(k) PROVE Dispatched'
  <2>1. k \in lock.scope /\ lock' = lock
    BY <1>0, <1>11, DispatchMoves DEF DispatchHead
  <2>2. ASSUME NEW l \in Key \ lock.scope PROVE ~CanDispatch(l)'
    <3>1. /\ queue'[l] = queue[l] /\ active \subseteq active' /\ keyOf' = keyOf
          /\ workerCount' = workerCount + 1 /\ shuttingDown' = shuttingDown
      BY <1>0, <1>11, <2>1, DispatchMoves DEF TypeOK
    <3>2. ActiveOf(l) \subseteq ActiveOf(l)' /\ workerCount <= workerCount'
      BY <1>0, <3>1 DEF ActiveOf, TypeOK
    <3>3. ~CanDispatch(l)
      BY DEF Dispatched
    <3> QED
      BY <1>0, <3>1, <3>2, <3>3, StillFull
  <2> QED
    BY <2>1, <2>2 DEF Dispatched
<1>12. ASSUME NEW k \in Key, DropRule(k) PROVE Dispatched'
  BY <1>0, <1>12 DEF DropRule, Dispatched, CanDispatch, ActiveOf, TypeOK
<1>13. CASE Shutdown
  BY <1>13 DEF Shutdown, Dispatched, CanDispatch
<1>14. CASE ClosePool
  BY <1>1, <1>14 DEF ClosePool
<1> QED
  BY <1>3, <1>5, <1>6, <1>7, <1>8, <1>9, <1>10, <1>11, <1>12, <1>13, <1>14
  DEF Next, Worker, Submitter

DispatchInv == AccountInv /\ Dispatched

(* A queued run is never stranded: whenever the lock is free, a rule with   *)
(* waiting runs is at its concurrency or every worker is busy               *)
(* (rule_scheduler.py 163-178, 225-242, 255-261, 309-329).  It takes        *)
(* threads that can be started.                                             *)
THEOREM QueuesServed ==
  ASSUME ~ThreadStartMayFail
  PROVE  Spec => []NoStrandedQueue
<1>1. Init => DispatchInv
  <2> SUFFICES ASSUME Init PROVE DispatchInv
    OBVIOUS
  <2>1. \A k \in Key : queue[k] = <<>>
    BY DEF Init
  <2> QED
    BY <2>1, InitAccount DEF DispatchInv, Dispatched, CanDispatch
<1>2. DispatchInv /\ [Next]_vars => DispatchInv'
  <2> SUFFICES ASSUME DispatchInv, [Next]_vars PROVE DispatchInv'
    OBVIOUS
  <2>1. AccountInv'
    BY StepAccount DEF DispatchInv
  <2>2. CASE Next
    BY <2>1, <2>2, StepDispatched DEF DispatchInv
  <2>3. CASE UNCHANGED vars
    BY <2>1, <2>3 DEF vars, DispatchInv, Dispatched, CanDispatch, ActiveOf
  <2> QED
    BY <2>2, <2>3
<1>3. DispatchInv => NoStrandedQueue
  BY LockType DEF DispatchInv, Dispatched, NoStrandedQueue, LockFree
<1> QED
  BY <1>1, <1>2, <1>3, PTL DEF Spec

-----------------------------------------------------------------------------
(* The run history tells the truth.                                         *)

Ended == {"completed", "cancelled", "crashed"}

(* What the history may say (w) of a run at point p of its way whose        *)
(* actions ended as o and that was told to stop (c) or not.                 *)
Honest(p, o, w, c) ==
  LET untold == w = "open" \/ (w = "replaced" /\ c) IN
  /\ p \in {"new", "waiting"} => w = "open" /\ o = "none"
  /\ p \in {"spawning", "pooled", "running"} => untold /\ o = "none"
  /\ p \in {"checked", "finished"} => untold /\ o \in Ended
  /\ p \in {"closing", "leaving"} => o \in Ended /\ (w = o \/ (w = "replaced" /\ c))
  /\ p = "gone" => \/ o \in Ended /\ (w = o \/ (w = "replaced" /\ c))
                   \/ o = "none" /\ w \in {"dropped", "replaced"}

HonestAbout(r) == Honest(phase[r], outcome[r], recorded[r], r \in cancelled)
HistoryOK == \A r \in Run : HonestAbout(r)

(* Active runs and registered cancel events belong to runs under way.       *)
ActiveOK == \A r \in active : phase[r] \in {"spawning", "pooled", "running", "checked", "finished"}
CancelOK == \A r \in cancelEvents : phase[r] \in {"spawning", "pooled", "running", "checked", "gone"}

LEMMA StepActive ==
  ASSUME TypeOK, LockOK, QueueOK, ActiveOK, Next, ~ThreadStartMayFail
  PROVE  ActiveOK'
<1>1. ASSUME NEW r \in Run, Worker(r) PROVE ActiveOK'
  <2>1. active' \subseteq active /\ \A x \in Run \ {r} : phase'[x] = phase[x]
    BY <1>1, WorkerMoves
    DEF Worker, Begin, ActionsEnd, FinishRun, Settle, SettleDone, Retire, RetireDone, Exit, ExitDone
  <2>2. r \in active' => phase'[r] \in {"spawning", "pooled", "running", "checked", "finished"}
    BY <1>1 DEF Worker, Begin, ActionsEnd, FinishRun, Settle, SettleDone, Retire, RetireDone,
                Exit, ExitDone, LockOK, ActiveOK, TypeOK
  <2> QED
    BY <2>1, <2>2 DEF ActiveOK, TypeOK
<1>2. ASSUME NEW r \in Run, NEW c, Submit(r, c) PROVE ActiveOK'
  <2>1. active' \subseteq active \/ (active' \subseteq active \cup {r} /\ phase'[r] = "spawning")
    BY <1>2 DEF Submit, SubmitWhenClosing, SubmitSingleBusy, SubmitAdmitted, SubmitRunNow,
                SubmitQueued, SubmitOverflow, DisplaceOthers
  <2> QED
    BY <1>2, <2>1, SubmitMoves DEF ActiveOK, TypeOK
<1>3. ASSUME NEW r \in Run, \/ SpawnOk(r) \/ SpawnFailed(r)
                            \/ RefuseDone(r) \/ CancelRun(r)
      PROVE  ActiveOK'
  BY <1>3 DEF SpawnOk, SpawnFailed, RefuseDone, CancelRun, ActiveOK, TypeOK
<1>4. ASSUME NEW k \in Key, DispatchHead(k) PROVE ActiveOK'
  <2> DEFINE r == Head(queue[k]).run
  <2>1. active' = active \cup {r} /\ r \in Run /\ phase' = [phase EXCEPT ![r] = "pooled"]
    BY <1>4, DispatchMoves
  <2> HIDE DEF r
  <2> QED
    BY <2>1 DEF ActiveOK, TypeOK
<1>5. ASSUME NEW k \in Key, DropRule(k) PROVE ActiveOK'
  <2>1. active' = active
    BY <1>5 DEF DropRule
  <2> QED
    BY <1>5, <2>1, DropMoves DEF ActiveOK, TypeOK
<1>6. CASE Shutdown
  <2>1. active' = active
    BY <1>6 DEF Shutdown
  <2> QED
    BY <1>6, <2>1, ShutdownMoves DEF ActiveOK, TypeOK
<1>7. CASE ClosePool
  BY <1>7 DEF ClosePool, ActiveOK
<1> QED
  BY <1>1, <1>2, <1>3, <1>4, <1>5, <1>6, <1>7 DEF Next, Submitter

LEMMA StepCancel ==
  ASSUME TypeOK, LockOK, QueueOK, CancelOK, Next, ~ThreadStartMayFail
  PROVE  CancelOK'
<1>1. ASSUME NEW r \in Run, Worker(r) PROVE CancelOK'
  <2>1. cancelEvents' \subseteq cancelEvents /\ \A x \in Run \ {r} : phase'[x] = phase[x]
    BY <1>1, WorkerMoves
    DEF Worker, Begin, ActionsEnd, FinishRun, Settle, SettleDone, Retire, RetireDone, Exit, ExitDone
  <2>2. r \in cancelEvents' => phase'[r] \in {"spawning", "pooled", "running", "checked", "gone"}
    BY <1>1 DEF Worker, Begin, ActionsEnd, FinishRun, Settle, SettleDone, Retire, RetireDone,
                Exit, ExitDone, LockOK, CancelOK, TypeOK
  <2> QED
    BY <2>1, <2>2 DEF CancelOK, TypeOK
<1>2. ASSUME NEW r \in Run, NEW c, Submit(r, c) PROVE CancelOK'
  <2>1. cancelEvents' \subseteq cancelEvents
        \/ (cancelEvents' \subseteq cancelEvents \cup {r} /\ phase'[r] = "spawning")
    BY <1>2 DEF Submit, SubmitWhenClosing, SubmitSingleBusy, SubmitAdmitted, SubmitRunNow,
                SubmitQueued, SubmitOverflow, DisplaceOthers
  <2> QED
    BY <1>2, <2>1, SubmitMoves DEF CancelOK, TypeOK
<1>3. ASSUME NEW r \in Run, \/ SpawnOk(r) \/ SpawnFailed(r)
                            \/ RefuseDone(r) \/ CancelRun(r)
      PROVE  CancelOK'
  BY <1>3 DEF SpawnOk, SpawnFailed, RefuseDone, CancelRun, CancelOK, TypeOK
<1>4. ASSUME NEW k \in Key, DispatchHead(k) PROVE CancelOK'
  <2>1. cancelEvents' = cancelEvents \cup {Head(queue[k]).run}
    BY <1>4 DEF DispatchHead
  <2> QED
    BY <1>4, <2>1, DispatchMoves DEF CancelOK, TypeOK
<1>5. ASSUME NEW k \in Key, DropRule(k) PROVE CancelOK'
  <2>1. cancelEvents' = cancelEvents
    BY <1>5 DEF DropRule
  <2> QED
    BY <1>5, <2>1, DropMoves DEF CancelOK, TypeOK
<1>6. CASE Shutdown
  <2>1. cancelEvents' = cancelEvents
    BY <1>6 DEF Shutdown
  <2> QED
    BY <1>6, <2>1, ShutdownMoves DEF CancelOK, TypeOK
<1>7. CASE ClosePool
  BY <1>7 DEF ClosePool, CancelOK
<1> QED
  BY <1>1, <1>2, <1>3, <1>4, <1>5, <1>6, <1>7 DEF Next, Submitter

(* A step that touches nothing of what the history is about.                *)
LEMMA HistoryKept ==
  ASSUME HistoryOK, UNCHANGED <<phase, outcome, recorded, cancelled>>
  PROVE  HistoryOK'
  BY DEF HistoryOK, HonestAbout

(* A step about one run, told by that run's record alone.                   *)
LEMMA HistoryMove ==
  ASSUME HistoryOK, NEW r \in Run, HonestAbout(r)',
         \A x \in Run \ {r} : /\ phase'[x] = phase[x] /\ outcome'[x] = outcome[x]
                              /\ recorded'[x] = recorded[x]
                              /\ x \in cancelled' <=> x \in cancelled
  PROVE  HistoryOK'
  BY DEF HistoryOK, HonestAbout, Honest

LEMMA WorkerHistory ==
  ASSUME TypeInv, LockOK, HistoryOK, NEW r \in Run, Worker(r)
  PROVE  HistoryOK'
<1>0. TypeOK /\ OutcomeKnown
  BY DEF TypeInv
<1>1. HonestAbout(r)
  BY DEF HistoryOK
<1>2. CASE Begin(r)
  <2>1. HonestAbout(r)'
    BY <1>0, <1>1, <1>2 DEF Begin, HonestAbout, Honest, Ended, TypeOK
  <2> QED
    BY <1>0, <1>2, <2>1, HistoryMove DEF Begin, TypeOK
<1>3. CASE ActionsEnd(r)
  <2>1. HonestAbout(r)'
    BY <1>0, <1>1, <1>3 DEF ActionsEnd, HonestAbout, Honest, Ended, TypeOK
  <2> QED
    BY <1>0, <1>3, <2>1, HistoryMove DEF ActionsEnd, TypeOK
<1>4. CASE FinishRun(r)
  <2>1. HonestAbout(r)'
    BY <1>0, <1>1, <1>4 DEF FinishRun, HonestAbout, Honest, Ended, TypeOK
  <2> QED
    BY <1>0, <1>4, <2>1, HistoryMove DEF FinishRun, TypeOK
<1>5. CASE Settle(r)
  <2>1. CASE r \in active
    BY <1>5, <2>1, HistoryKept DEF Settle
  <2>2. CASE r \notin active
    <3>1. phase[r] = "finished" /\ phase'[r] = "closing"
          /\ recorded'[r] = StatusAfter(recorded[r], outcome[r])
          /\ outcome' = outcome /\ cancelled' = cancelled
      BY <1>0, <1>5, <2>2 DEF Settle, RecordAll, TypeOK
    <3>2. HonestAbout(r)'
      BY <1>1, <3>1 DEF HonestAbout, Honest, Ended, StatusAfter
    <3> QED
      BY <1>0, <1>5, <2>2, <3>2, HistoryMove DEF Settle, RecordAll, TypeOK
  <2> QED
    BY <2>1, <2>2
<1>6. CASE SettleDone(r)
  <2>1. ~lock.unwinding /\ phase[r] = "finished"
    BY <1>6 DEF SettleDone, LockOK
  <2>2. phase'[r] = "closing" /\ recorded'[r] = StatusAfter(recorded[r], outcome[r])
        /\ outcome' = outcome /\ cancelled' = cancelled
    BY <1>0, <1>6, <2>1 DEF SettleDone, RecordAll, TypeOK
  <2>3. HonestAbout(r)'
    BY <1>1, <2>1, <2>2 DEF HonestAbout, Honest, Ended, StatusAfter
  <2> QED
    BY <1>0, <1>6, <2>1, <2>3, HistoryMove DEF SettleDone, RecordAll, TypeOK
<1>7. CASE Retire(r)
  BY <1>7, HistoryKept DEF Retire
<1>8. CASE RetireDone(r)
  <2>1. phase[r] = "closing" /\ phase'[r] = "leaving" /\ UNCHANGED <<outcome, recorded, cancelled>>
    BY <1>0, <1>8 DEF RetireDone, LockOK, TypeOK
  <2>2. HonestAbout(r)'
    BY <1>1, <2>1 DEF HonestAbout, Honest
  <2> QED
    BY <1>0, <1>8, <2>2, HistoryMove DEF RetireDone, TypeOK
<1>9. CASE Exit(r)
  <2>1. CASE keyOf[r] \in slots
    BY <1>9, <2>1, HistoryKept DEF Exit
  <2>2. CASE keyOf[r] \notin slots
    <3>1. phase[r] = "leaving" /\ phase'[r] = "gone" /\ UNCHANGED <<outcome, recorded, cancelled>>
      BY <1>0, <1>9, <2>2 DEF Exit, TypeOK
    <3>2. HonestAbout(r)'
      BY <1>1, <3>1 DEF HonestAbout, Honest
    <3> QED
      BY <1>0, <1>9, <2>2, <3>2, HistoryMove DEF Exit, TypeOK
  <2> QED
    BY <2>1, <2>2
<1>10. CASE ExitDone(r)
  <2>1. phase[r] = "leaving" /\ phase'[r] = "gone" /\ UNCHANGED <<outcome, recorded, cancelled>>
    BY <1>0, <1>10 DEF ExitDone, LockOK, TypeOK
  <2>2. HonestAbout(r)'
    BY <1>1, <2>1 DEF HonestAbout, Honest
  <2> QED
    BY <1>0, <1>10, <2>2, HistoryMove DEF ExitDone, TypeOK
<1> QED
  BY <1>2, <1>3, <1>4, <1>5, <1>6, <1>7, <1>8, <1>9, <1>10 DEF Worker

LEMMA SubmitHistory ==
  ASSUME TypeOK, QueueOK, ActiveOK, CancelOK, HistoryOK,
         NEW r \in Run, NEW c, Submit(r, c)
  PROVE  HistoryOK'
<1> DEFINE k == keyOf[r]
<1>0. phase[r] = "new" /\ outcome' = outcome /\ outcome[r] = "none" /\ recorded[r] = "open"
  BY SubmitMoves DEF HistoryOK, HonestAbout, Honest
<1>1. CASE SubmitWhenClosing(r) \/ SubmitSingleBusy(r, c)
  <2>1. phase'[r] = "gone" /\ recorded'[r] = "dropped" /\ cancelled' = cancelled
    BY <1>0, <1>1 DEF SubmitWhenClosing, SubmitSingleBusy, RecordAll, StatusAfter, TypeOK
  <2>2. HonestAbout(r)'
    BY <1>0, <2>1 DEF HonestAbout, Honest
  <2> QED
    BY <1>0, <1>1, <2>1, <2>2, HistoryMove
    DEF SubmitWhenClosing, SubmitSingleBusy, RecordAll, TypeOK
<1>2. CASE SubmitAdmitted(r, c)
  <2>1. PICK fate \in {"gone", "waiting", "spawning"}, event \in {"open", "dropped"} :
          DisplaceOthers(r, c, fate, event) /\ (fate = "gone" <=> event = "dropped")
    BY <1>2 DEF SubmitAdmitted, SubmitRunNow, SubmitQueued, SubmitOverflow
  <2>2. ASSUME NEW x \in Displaced(k, c)
        PROVE  x \in Run /\ phase[x] \in {"spawning", "pooled", "running", "checked"}
    BY DEF Displaced, ActiveOf, TypeOK, ActiveOK, CancelOK
  <2>3. ASSUME NEW x \in Superseded(k, c)
        PROVE  phase[x] = "waiting"
    <3>1. k \in Key /\ queue[k] \in Seq(Entry) /\ x \in RunsIn(queue[k])
      BY DEF Superseded, TypeOK
    <3>2. PICK i \in 1..Len(queue[k]) : x = queue[k][i].run
      BY <3>1 DEF RunsIn
    <3> QED
      BY <3>1, <3>2 DEF QueueOK
  <2>4. HonestAbout(r)'
    <3>1. r \notin Displaced(k, c) /\ r \notin Superseded(k, c)
      BY <1>0, <2>2, <2>3
    <3>2. phase'[r] = fate /\ recorded'[r] = event
      BY <2>1, <3>1 DEF DisplaceOthers
    <3> QED
      BY <1>0, <2>1, <3>2 DEF HonestAbout, Honest
  <2>5. ASSUME NEW x \in Run \ {r}
        PROVE  HonestAbout(x)'
    <3>0. HonestAbout(x)
      BY DEF HistoryOK
    <3>1. CASE x \in Displaced(k, c)
      <4>1. /\ phase'[x] = phase[x] /\ x \in cancelled'
            /\ recorded'[x] = StatusAfter(recorded[x], "replaced")
        BY <2>1, <2>2, <2>3, <3>1 DEF DisplaceOthers
      <4> QED
        BY <1>0, <2>2, <3>0, <3>1, <4>1 DEF HonestAbout, Honest, StatusAfter
    <3>2. CASE x \in Superseded(k, c)
      <4>1. /\ phase[x] = "waiting" /\ phase'[x] = "gone"
            /\ recorded'[x] = StatusAfter(recorded[x], "replaced")
        BY <2>1, <2>3, <3>2 DEF DisplaceOthers
      <4> QED
        BY <1>0, <3>0, <4>1 DEF HonestAbout, Honest, StatusAfter
    <3>3. CASE x \notin Displaced(k, c) /\ x \notin Superseded(k, c)
      <4>1. /\ phase'[x] = phase[x] /\ recorded'[x] = recorded[x]
            /\ x \in cancelled' <=> x \in cancelled
        BY <2>1, <3>3 DEF DisplaceOthers
      <4> QED
        BY <1>0, <3>0, <4>1 DEF HonestAbout, Honest
    <3> QED
      BY <3>1, <3>2, <3>3
  <2> QED
    BY <2>4, <2>5 DEF HistoryOK
<1> QED
  BY <1>1, <1>2 DEF Submit

LEMMA StepHistory ==
  ASSUME TypeInv, LockOK, QueueOK, ActiveOK, CancelOK, HistoryOK, Next, ~ThreadStartMayFail
  PROVE  HistoryOK'
<1>0. TypeOK
  BY DEF TypeInv
<1>1. ASSUME NEW r \in Run, Worker(r) PROVE HistoryOK'
  BY <1>1, WorkerHistory
<1>2. ASSUME NEW r \in Run, NEW c, Submit(r, c) PROVE HistoryOK'
  BY <1>0, <1>2, SubmitHistory
<1>3. ASSUME NEW r \in Run, SpawnOk(r) PROVE HistoryOK'
  <2>1. HonestAbout(r)'
    BY <1>0, <1>3 DEF SpawnOk, HistoryOK, HonestAbout, Honest, TypeOK
  <2> QED
    BY <1>0, <1>3, <2>1, HistoryMove DEF SpawnOk, TypeOK
<1>4. ASSUME NEW r \in Run, SpawnFailed(r) PROVE HistoryOK'
  <2>1. /\ phase[r] = "spawning" /\ phase'[r] = "gone"
        /\ recorded'[r] = StatusAfter(recorded[r], "dropped")
        /\ outcome' = outcome /\ cancelled' = cancelled
    BY <1>0, <1>4 DEF SpawnFailed, RecordAll, TypeOK
  <2>2. HonestAbout(r)'
    BY <2>1 DEF HistoryOK, HonestAbout, Honest, StatusAfter
  <2> QED
    BY <1>0, <1>4, <2>2, HistoryMove DEF SpawnFailed, RecordAll, TypeOK
<1>5. ASSUME NEW r \in Run, RefuseDone(r) PROVE HistoryOK'
  BY <1>5, HistoryKept DEF RefuseDone
<1>6. ASSUME NEW r \in Run, CancelRun(r) PROVE HistoryOK'
  <2>1. UNCHANGED <<phase, outcome, recorded>> /\ cancelled' = cancelled \cup {r}
    BY <1>6 DEF CancelRun
  <2>2. ASSUME NEW x \in Run PROVE HonestAbout(x)'
    <3>1. HonestAbout(x) /\ (x \in cancelled => x \in cancelled')
      BY <2>1 DEF HistoryOK
    <3> QED
      BY <2>1, <3>1 DEF HonestAbout, Honest
  <2> QED
    BY <2>2 DEF HistoryOK
<1>7. ASSUME NEW k \in Key, DispatchHead(k) PROVE HistoryOK'
  <2>1. PICK r \in Run :
        /\ phase[r] = "waiting" /\ phase' = [phase EXCEPT ![r] = "pooled"]
        /\ UNCHANGED <<recorded, outcome, cancelled>>
    BY <1>0, <1>7, DispatchMoves
  <2>2. HonestAbout(r)'
    BY <1>0, <2>1 DEF HistoryOK, HonestAbout, Honest, TypeOK
  <2> QED
    BY <1>0, <2>1, <2>2, HistoryMove DEF TypeOK
<1>8. ASSUME UNCHANGED <<outcome, cancelled>>,
             \A x \in Run :
               \/ phase'[x] = phase[x] /\ recorded'[x] = recorded[x]
               \/ /\ phase[x] = "waiting" /\ phase'[x] = "gone"
                  /\ recorded'[x] = StatusAfter(recorded[x], "dropped")
      PROVE  HistoryOK'
  BY <1>8 DEF HistoryOK, HonestAbout, Honest, StatusAfter
<1>9. ASSUME NEW k \in Key, DropRule(k) PROVE HistoryOK'
  <2>1. UNCHANGED <<outcome, cancelled>>
    BY <1>9 DEF DropRule
  <2> QED
    BY <1>0, <1>8, <1>9, <2>1, DropMoves
<1>10. CASE Shutdown
  <2>1. UNCHANGED <<outcome, cancelled>>
    BY <1>10 DEF Shutdown
  <2> QED
    BY <1>0, <1>8, <1>10, <2>1, ShutdownMoves
<1>11. CASE ClosePool
  BY <1>11, HistoryKept DEF ClosePool
<1> QED
  BY <1>1, <1>2, <1>3, <1>4, <1>5, <1>6, <1>7, <1>9, <1>10, <1>11 DEF Next, Submitter

HistoryInv == AccountInv /\ ActiveOK /\ CancelOK /\ HistoryOK

(* The run history tells the truth: a run recorded as dropped never touches *)
(* its actions, one recorded as replaced was told to stop or never started, *)
(* and no run leaves the scheduler without a terminal event                 *)
(* (rule_scheduler.py 93-205, 279-307; run_lifecycle.py 45-67).  It takes   *)
(* threads that can be started.                                             *)
THEOREM HistoryCorrect ==
  ASSUME ~ThreadStartMayFail
  PROVE  Spec => []HistoryHonest
<1>1. Init => HistoryInv
  <2> SUFFICES ASSUME Init PROVE HistoryInv
    OBVIOUS
  <2>1. ActiveOK /\ CancelOK /\ HistoryOK
    BY DEF Init, ActiveOK, CancelOK, HistoryOK, HonestAbout, Honest
  <2> QED
    BY <2>1, InitAccount DEF HistoryInv
<1>2. HistoryInv /\ [Next]_vars => HistoryInv'
  <2> SUFFICES ASSUME HistoryInv, [Next]_vars PROVE HistoryInv'
    OBVIOUS
  <2>0. AccountInv /\ AccountInv' /\ TypeInv /\ TypeOK
    BY StepAccount DEF HistoryInv, AccountInv, TypeInv
  <2>1. CASE Next
    BY <2>0, <2>1, StepActive, StepCancel, StepHistory DEF HistoryInv, AccountInv
  <2>2. CASE UNCHANGED vars
    BY <2>0, <2>2, HistoryKept DEF vars, HistoryInv, ActiveOK, CancelOK
  <2> QED
    BY <2>1, <2>2
<1>3. HistoryInv => HistoryHonest
  <2> SUFFICES ASSUME HistoryInv, NEW r \in Run, HonestAbout(r)
      PROVE /\ recorded[r] = "dropped" => phase[r] = "gone" /\ outcome[r] = "none"
            /\ recorded[r] = "replaced" => r \in cancelled \/ (phase[r] = "gone" /\ outcome[r] = "none")
            /\ recorded[r] \in Outcomes => recorded[r] = outcome[r]
            /\ phase[r] = "gone" => recorded[r] # "open"
    BY DEF HistoryInv, HistoryOK, HistoryHonest
  <2>1. phase[r] \in Phases
    BY DEF HistoryInv, AccountInv, TypeInv, TypeOK
  <2> QED
    BY <2>1 DEF HonestAbout, Honest, Phases, Outcomes, Ended
<1> QED
  BY <1>1, <1>2, <1>3, PTL DEF Spec

-----------------------------------------------------------------------------
(* After shutdown the scheduler only drains.  This one holds on a platform  *)
(* that refuses threads, too.                                               *)

NobodyWaits == \A k \in Key : queue[k] = <<>>
LinesClosed == shuttingDown => NobodyWaits

(* What a step may do once the shutdown flag is set.                        *)
LEMMA ClosingStep ==
  ASSUME TypeOK, LinesClosed, shuttingDown, Next
  PROVE  /\ shuttingDown'
         /\ workerCount' <= workerCount
         /\ active' \subseteq active
         /\ NobodyWaits'
<1> DEFINE Drains == /\ shuttingDown' /\ NobodyWaits'
                     /\ workerCount' <= workerCount /\ active' \subseteq active
<1>0. workerCount \in Int /\ NobodyWaits /\ workerCount - 1 <= workerCount
  BY DEF TypeOK, LinesClosed
<1>1. queue' = queue => NobodyWaits'
  BY <1>0 DEF NobodyWaits
<1>2. ASSUME NEW r \in Run, Worker(r) PROVE Drains
  <2>1. /\ UNCHANGED <<queue, shuttingDown>> /\ active' \subseteq active
        /\ workerCount' = workerCount \/ workerCount' = workerCount - 1
    BY <1>2 DEF Worker, Begin, ActionsEnd, FinishRun, Settle, SettleDone, Retire, RetireDone,
                Exit, ExitDone
  <2> QED
    BY <1>0, <1>1, <2>1
<1>3. ASSUME NEW r \in Run, NEW c, Submit(r, c) PROVE Drains
  BY <1>0, <1>1, <1>3 DEF Submit, SubmitWhenClosing, SubmitSingleBusy, SubmitAdmitted
<1>4. ASSUME NEW r \in Run, SpawnOk(r) \/ SpawnFailed(r) \/ RefuseDone(r) \/ CancelRun(r)
      PROVE  Drains
  <2>1. /\ UNCHANGED <<queue, shuttingDown>> /\ active' \subseteq active
        /\ workerCount' = workerCount \/ workerCount' = workerCount - 1
    BY <1>4 DEF SpawnOk, SpawnFailed, RefuseDone, CancelRun
  <2> QED
    BY <1>0, <1>1, <2>1
<1>5. ASSUME NEW k \in Key PROVE ~DispatchHead(k)
  BY DEF DispatchHead, CanDispatch
<1>6. ASSUME NEW k \in Key, DropRule(k) PROVE Drains
  <2>1. NobodyWaits'
    BY <1>0, <1>6 DEF DropRule, NobodyWaits, TypeOK
  <2> QED
    BY <1>0, <1>6, <2>1 DEF DropRule
<1>7. CASE Shutdown
  BY <1>0, <1>7 DEF Shutdown, NobodyWaits
<1>8. CASE ClosePool
  BY <1>0, <1>1, <1>8 DEF ClosePool
<1> QED
  BY <1>2, <1>3, <1>4, <1>5, <1>6, <1>7, <1>8 DEF Next, Submitter

(* The flag is raised in the step that empties the queues.                  *)
LEMMA ShutdownEmpties ==
  ASSUME TypeOK, ~shuttingDown, Next
  PROVE  LinesClosed'
<1>1. shuttingDown' => Shutdown
  BY DEF Next, Submitter, Worker, Begin, ActionsEnd, FinishRun, Settle, SettleDone, Retire,
         RetireDone, Exit, ExitDone, Submit, SpawnOk, SpawnFailed, RefuseDone, CancelRun,
         DispatchHead, DropRule, ClosePool
<1> QED
  BY <1>1 DEF Shutdown, LinesClosed, NobodyWaits

(* Once the scheduler is shutting down no step admits a run or takes one    *)
(* from a queue, and the count that wait_for_idle waits for never rises     *)
(* (rule_scheduler.py 93-110, 194-242) - whether or not the        *)
(* platform starts the threads it is asked for.                             *)
THEOREM ShutdownDrains == Spec => ShutdownOnlyDrains
<1> DEFINE I == TypeInv /\ LinesClosed
<1>1. Init => I
  <2>1. Init => TypeInv /\ ~shuttingDown
    BY InitType DEF Init
  <2> QED
    BY <2>1 DEF LinesClosed
<1>2. I /\ [Next]_vars => I'
  <2> SUFFICES ASSUME I, [Next]_vars PROVE I'
    OBVIOUS
  <2>1. TypeInv' /\ TypeOK
    BY StepType DEF TypeInv
  <2>2. CASE Next
    BY <2>1, <2>2, ClosingStep, ShutdownEmpties DEF LinesClosed
  <2>3. CASE UNCHANGED vars
    BY <2>1, <2>3 DEF vars, LinesClosed, NobodyWaits
  <2> QED
    BY <2>2, <2>3
<1>3. I /\ [Next]_vars => [shuttingDown => /\ workerCount' <= workerCount
                                          /\ active' \subseteq active
                                          /\ \A k \in Key : queue'[k] = <<>>]_vars
  BY ClosingStep DEF TypeInv, NobodyWaits
<1> HIDE DEF I
<1> QED
  BY <1>1, <1>2, <1>3, PTL DEF Spec, ShutdownOnlyDrains

-----------------------------------------------------------------------------
(* A rule never executes more runs than its settings allow.                 *)

UnderWay == {"spawning", "pooled", "running", "checked"}
MayReplace(k) == \E c \in Snapshots[k] : Mode(c) = "replace"

(* A run on its way counts for its rule, or was displaced and told so.      *)
UnderWayOK ==
  \A r \in Run : phase[r] \in UnderWay =>
    r \in active \/ (r \in cancelled /\ MayReplace(keyOf[r]))

(* A queued run was submitted with one of its rule's settings.              *)
SettingsOK == \A k \in Key : \A i \in 1..Len(queue[k]) : queue[k][i].cfg \in Snapshots[k]

CapOK == \A k \in Key : WithinCap(k, ActiveOf(k))

(* Fewer runs stay within the bound.                                        *)
LEMMA WithinCapFewer ==
  ASSUME NEW k \in Key, NEW S \in SUBSET Run, NEW T \in SUBSET S, WithinCap(k, S)
  PROVE  WithinCap(k, T)
<1>1. \A c \in Snapshots[k] : Cap(c) \in Nat
  BY ConstantsAssumption, CapType
<1>2. /\ IsFiniteSet(S) /\ Cardinality(S) \in Nat /\ Cardinality(T) \in Nat
      /\ Cardinality(T) <= Cardinality(S)
  BY FiniteRuns, FS_Subset
<1> QED
  BY <1>1, <1>2 DEF WithinCap

(* One more run than fewer than the bound stays within the bound.           *)
LEMMA WithinCapOneMore ==
  ASSUME NEW k \in Key, NEW c \in Snapshots[k], NEW S \in SUBSET Run, NEW r \in Run,
         Cardinality(S) < Cap(c)
  PROVE  WithinCap(k, S \cup {r})
<1>1. Cap(c) \in Nat
  BY ConstantsAssumption, CapType
<1>2. IsFiniteSet(S) /\ Cardinality(S) \in Nat
  BY FiniteRuns
<1>3. CASE r \in S
  BY <1>1, <1>2, <1>3 DEF WithinCap
<1>4. CASE r \notin S
  <2>1. Cardinality(S \cup {r}) = Cardinality(S) + 1
    BY <1>2, <1>4, FS_AddElement
  <2> QED
    BY <1>1, <1>2, <2>1 DEF WithinCap
<1> QED
  BY <1>3, <1>4

(* What a submission does to the runs that count for a rule.                *)
LEMMA SubmitActive ==
  ASSUME TypeOK, NEW r \in Run, NEW c \in Snapshots[keyOf[r]], Submit(r, c)
  PROVE  LET k == keyOf[r]
             kept == active \ Displaced(k, c)
         IN  \/ /\ active' = kept \cup {r}
                /\ Cardinality(ActiveOf(k) \ Displaced(k, c)) < Cap(c)
                /\ phase'[r] = "spawning"
                /\ cancelled' = cancelled \cup Displaced(k, c)
             \/ /\ active' = kept
                /\ phase'[r] \in {"waiting", "gone"}
                /\ cancelled' = cancelled \cup Displaced(k, c)
             \/ /\ active' = active /\ cancelled' = cancelled /\ phase'[r] = "gone"
<1>1. CASE SubmitWhenClosing(r)
  BY <1>1 DEF SubmitWhenClosing, TypeOK
<1>2. CASE SubmitSingleBusy(r, c)
  BY <1>2 DEF SubmitSingleBusy, TypeOK
<1>3. CASE SubmitRunNow(r, c)
  BY <1>3 DEF SubmitRunNow, MayRunNow, DisplaceOthers
<1>4. CASE SubmitQueued(r, c)
  BY <1>4 DEF SubmitQueued, DisplaceOthers
<1>5. CASE SubmitOverflow(r, c)
  BY <1>5 DEF SubmitOverflow, DisplaceOthers
<1> QED
  BY <1>1, <1>2, <1>3, <1>4, <1>5 DEF Submit, SubmitAdmitted

LEMMA StepUnderWay ==
  ASSUME TypeOK, LockOK, QueueOK, UnderWayOK, Next, ~ThreadStartMayFail
  PROVE  UnderWayOK'
<1>1. ASSUME NEW r \in Run, Worker(r) PROVE UnderWayOK'
  <2>1. /\ keyOf' = keyOf /\ cancelled \subseteq cancelled'
        /\ \A x \in Run \ {r} : phase'[x] = phase[x]
    BY <1>1, WorkerMoves
    DEF Worker, Begin, ActionsEnd, FinishRun, Settle, SettleDone, Retire, RetireDone, Exit, ExitDone
  <2>2. active \ {r} \subseteq active'
    BY <1>1
    DEF Worker, Begin, ActionsEnd, FinishRun, Settle, SettleDone, Retire, RetireDone, Exit, ExitDone
  <2>3. phase'[r] \in UnderWay => phase[r] \in UnderWay /\ active' = active
    BY <1>1 DEF Worker, Begin, ActionsEnd, FinishRun, Settle, SettleDone, Retire, RetireDone, Exit,
                ExitDone, LockOK, TypeOK, UnderWay
  <2> QED
    BY <2>1, <2>2, <2>3 DEF UnderWayOK, MayReplace
<1>2. ASSUME NEW r \in Run, NEW c \in Snapshots[keyOf[r]], Submit(r, c) PROVE UnderWayOK'
  <2> DEFINE out == Displaced(keyOf[r], c)
  <2>1. /\ keyOf' = keyOf
        /\ \A x \in Run \ {r} : phase'[x] = phase[x] \/ phase'[x] = "gone"
    BY <1>2, SubmitMoves
  <2>2. \A x \in out : x \in Run /\ keyOf[x] = keyOf[r] /\ MayReplace(keyOf[x])
    BY DEF Displaced, ActiveOf, MayReplace, TypeOK
  <2>3. /\ cancelled \subseteq cancelled'
        /\ \A x \in active : x \in active' \/ (x \in out /\ x \in cancelled')
        /\ phase'[r] \in UnderWay => r \in active'
    BY <1>2, SubmitActive DEF UnderWay
  <2> HIDE DEF out
  <2> QED
    BY <2>1, <2>2, <2>3 DEF UnderWayOK, UnderWay, MayReplace
<1>3. ASSUME NEW r \in Run, SpawnOk(r) \/ SpawnFailed(r) \/ RefuseDone(r) \/ CancelRun(r)
      PROVE  UnderWayOK'
  BY <1>3 DEF SpawnOk, SpawnFailed, RefuseDone, CancelRun, UnderWayOK, UnderWay, MayReplace, TypeOK
<1>4. ASSUME NEW k \in Key, DispatchHead(k) PROVE UnderWayOK'
  <2> DEFINE r == Head(queue[k]).run
  <2>1. /\ active' = active \cup {r} /\ r \in Run /\ phase' = [phase EXCEPT ![r] = "pooled"]
        /\ UNCHANGED <<keyOf, cancelled>>
    BY <1>4, DispatchMoves
  <2> HIDE DEF r
  <2> QED
    BY <2>1 DEF UnderWayOK, MayReplace, TypeOK
<1>5. ASSUME NEW k \in Key, DropRule(k) PROVE UnderWayOK'
  <2>1. UNCHANGED <<active, cancelled, keyOf>>
    BY <1>5 DEF DropRule
  <2> QED
    BY <1>5, <2>1, DropMoves DEF UnderWayOK, UnderWay, MayReplace
<1>6. CASE Shutdown
  <2>1. UNCHANGED <<active, cancelled, keyOf>>
    BY <1>6 DEF Shutdown
  <2> QED
    BY <1>6, <2>1, ShutdownMoves DEF UnderWayOK, UnderWay, MayReplace
<1>7. CASE ClosePool
  BY <1>7 DEF ClosePool, UnderWayOK, MayReplace
<1> QED
  BY <1>1, <1>2, <1>3, <1>4, <1>5, <1>6, <1>7 DEF Next, Submitter

(* What can become of a queue: it keeps its entries, loses its oldest one   *)
(* or all of them, or gets one more, after those it keeps.                  *)
LEMMA QueueMoves ==
  ASSUME TypeOK, QueueOK, Next
  PROVE  \A k \in Key :
           \/ queue'[k] = queue[k]
           \/ queue'[k] = <<>>
           \/ queue[k] # <<>> /\ queue'[k] = Tail(queue[k])
           \/ \E kept \in {queue[k], <<>>}, r \in Run, c \in Snapshots[k] :
                queue'[k] = Append(kept, [run |-> r, cfg |-> c])
<1> SUFFICES ASSUME NEW k \in Key
             PROVE  \/ queue'[k] = queue[k]
                    \/ queue'[k] = <<>>
                    \/ queue[k] # <<>> /\ queue'[k] = Tail(queue[k])
                    \/ \E kept \in {queue[k], <<>>}, r \in Run, c \in Snapshots[k] :
                         queue'[k] = Append(kept, [run |-> r, cfg |-> c])
  OBVIOUS
<1>1. ASSUME NEW r \in Run, Worker(r) PROVE queue' = queue
  BY <1>1 DEF Worker, Begin, ActionsEnd, FinishRun, Settle, SettleDone, Retire, RetireDone,
              Exit, ExitDone
<1>2. ASSUME NEW r \in Run, NEW c \in Snapshots[keyOf[r]], Submit(r, c)
      PROVE  \/ queue'[k] = queue[k]
             \/ queue'[k] = <<>>
             \/ /\ k = keyOf[r]
                /\ \E kept \in {queue[k], <<>>} :
                     queue'[k] = Append(kept, [run |-> r, cfg |-> c])
  BY <1>2 DEF Submit, SubmitWhenClosing, SubmitSingleBusy, SubmitAdmitted, SubmitRunNow,
              SubmitQueued, SubmitOverflow, QueueLeft, TypeOK
<1>3. ASSUME NEW r \in Run, SpawnOk(r) \/ SpawnFailed(r) \/ RefuseDone(r) \/ CancelRun(r)
      PROVE  queue' = queue
  BY <1>3 DEF SpawnOk, SpawnFailed, RefuseDone, CancelRun
<1>4. ASSUME NEW l \in Key, DispatchHead(l)
      PROVE  queue'[k] = queue[k] \/ (queue[k] # <<>> /\ queue'[k] = Tail(queue[k]))
  BY <1>4, DispatchPlaces DEF TypeOK
<1>5. ASSUME NEW l \in Key, DropRule(l)
      PROVE  queue'[k] = queue[k] \/ queue'[k] = <<>>
  BY <1>5 DEF DropRule, TypeOK
<1>6. ASSUME Shutdown PROVE queue'[k] = <<>>
  BY <1>6 DEF Shutdown
<1>7. ClosePool => queue' = queue
  BY DEF ClosePool
<1>8. CASE \E r \in Run : \E c \in Snapshots[keyOf[r]] : Submit(r, c)
  BY <1>2, <1>8
<1>9. CASE \E l \in Key : DispatchHead(l) \/ DropRule(l)
  BY <1>4, <1>5, <1>9
<1> QED
  BY <1>1, <1>3, <1>6, <1>7, <1>8, <1>9 DEF Next, Submitter

LEMMA StepSettings ==
  ASSUME TypeOK, QueueOK, SettingsOK, Next
  PROVE  SettingsOK'
<1> SUFFICES ASSUME NEW k \in Key
             PROVE  \A i \in 1..Len(queue'[k]) : queue'[k][i].cfg \in Snapshots[k]
  BY DEF SettingsOK
<1>0. queue[k] \in Seq(Entry) /\ \A i \in 1..Len(queue[k]) : queue[k][i].cfg \in Snapshots[k]
  BY DEF TypeOK, SettingsOK
<1>1. CASE queue'[k] = queue[k]
  BY <1>0, <1>1
<1>2. CASE queue'[k] = <<>>
  BY <1>2, EmptyQueue
<1>3. CASE queue[k] # <<>> /\ queue'[k] = Tail(queue[k])
  BY <1>0, <1>3, TailEntries
<1>4. ASSUME NEW kept \in {queue[k], <<>>}, NEW r \in Run, NEW c \in Snapshots[k],
             queue'[k] = Append(kept, [run |-> r, cfg |-> c])
      PROVE  \A i \in 1..Len(queue'[k]) : queue'[k][i].cfg \in Snapshots[k]
  <2>1. [run |-> r, cfg |-> c] \in Entry
    BY ConstantsAssumption DEF Entry
  <2>2. <<>> \in Seq(Entry) /\ \A i \in 1..Len(<<>>) : <<>>[i].cfg \in Snapshots[k]
    OBVIOUS
  <2>3. kept \in Seq(Entry) /\ \A i \in 1..Len(kept) : kept[i].cfg \in Snapshots[k]
    BY <1>0, <1>4, <2>2
  <2> QED
    BY <1>4, <2>1, <2>3, AppendEntries
<1> QED
  BY <1>1, <1>2, <1>3, <1>4, QueueMoves

LEMMA StepCap ==
  ASSUME TypeOK, LockOK, QueueOK, SettingsOK, CapOK, Next, ~ThreadStartMayFail
  PROVE  CapOK'
<1>0. ASSUME UNCHANGED keyOf, NEW k \in Key, ActiveOf(k)' \subseteq ActiveOf(k)
      PROVE  WithinCap(k, ActiveOf(k))'
  <2>1. WithinCap(k, ActiveOf(k)')
    BY <1>0, WithinCapFewer DEF CapOK, ActiveOf, TypeOK
  <2> QED
    BY <2>1 DEF WithinCap
<1>1. ASSUME UNCHANGED keyOf, active' \subseteq active PROVE CapOK'
  BY <1>0, <1>1 DEF CapOK, ActiveOf
<1>2. ASSUME UNCHANGED keyOf, NEW k \in Key, NEW r \in Run, keyOf[r] = k, NEW c \in Snapshots[k],
             NEW S \in SUBSET active, active' = S \cup {r},
             Cardinality({x \in S : keyOf[x] = k}) < Cap(c)
      PROVE  CapOK'
  <2>1. ASSUME NEW l \in Key, l # k PROVE WithinCap(l, ActiveOf(l))'
    BY <1>0, <1>2, <2>1 DEF ActiveOf
  <2>2. WithinCap(k, ActiveOf(k)')
    <3>1. ActiveOf(k)' = {x \in S : keyOf[x] = k} \cup {r}
      BY <1>2 DEF ActiveOf
    <3>2. {x \in S : keyOf[x] = k} \in SUBSET Run
      BY DEF TypeOK
    <3> QED
      BY <1>2, <3>1, <3>2, WithinCapOneMore
  <2>3. WithinCap(k, ActiveOf(k))'
    BY <2>2 DEF WithinCap
  <2> QED
    BY <2>1, <2>3 DEF CapOK
<1>3. ASSUME NEW r \in Run, Worker(r) PROVE CapOK'
  <2>1. UNCHANGED keyOf /\ active' \subseteq active
    BY <1>3 DEF Worker, Begin, ActionsEnd, FinishRun, Settle, SettleDone, Retire, RetireDone,
                Exit, ExitDone
  <2> QED
    BY <1>1, <2>1
<1>4. ASSUME NEW r \in Run, NEW c \in Snapshots[keyOf[r]], Submit(r, c) PROVE CapOK'
  <2> DEFINE k == keyOf[r]
             kept == active \ Displaced(k, c)
  <2>0. UNCHANGED keyOf /\ k \in Key
    BY <1>4, SubmitMoves DEF TypeOK
  <2>1. CASE active' \subseteq active
    BY <1>1, <2>0, <2>1
  <2>2. CASE active' = kept \cup {r} /\ Cardinality(ActiveOf(k) \ Displaced(k, c)) < Cap(c)
    <3>1. {x \in kept : keyOf[x] = k} = ActiveOf(k) \ Displaced(k, c)
      BY DEF ActiveOf
    <3>2. kept \in SUBSET active /\ c \in Snapshots[k]
      OBVIOUS
    <3> HIDE DEF kept
    <3> QED
      BY <1>2, <2>0, <2>2, <3>1, <3>2
  <2> QED
    BY <1>4, <2>1, <2>2, SubmitActive
<1>5. ASSUME NEW r \in Run, SpawnOk(r) \/ SpawnFailed(r) \/ RefuseDone(r) \/ CancelRun(r)
      PROVE  CapOK'
  <2>1. UNCHANGED keyOf /\ active' \subseteq active
    BY <1>5 DEF SpawnOk, SpawnFailed, RefuseDone, CancelRun
  <2> QED
    BY <1>1, <2>1
<1>6. ASSUME NEW k \in Key, DispatchHead(k) PROVE CapOK'
  <2> DEFINE r == Head(queue[k]).run
             c == Head(queue[k]).cfg
  <2>1. /\ active' = active \cup {r} /\ r \in Run /\ UNCHANGED keyOf /\ keyOf[r] = k
        /\ queue[k] \in Seq(Entry) /\ queue[k] # <<>> /\ Head(queue[k]) = queue[k][1]
    BY <1>6, DispatchMoves
  <2>2. c \in Snapshots[k]
    BY <2>1, TailEntries DEF SettingsOK
  <2>3. Cardinality({x \in active : keyOf[x] = k}) < Cap(c)
    BY <1>6 DEF DispatchHead, CanDispatch, ActiveOf
  <2> HIDE DEF r, c
  <2> QED
    BY <1>2, <2>1, <2>2, <2>3
<1>7. ASSUME (\E k \in Key : DropRule(k)) \/ Shutdown \/ ClosePool PROVE CapOK'
  <2>1. UNCHANGED <<keyOf, active>>
    BY <1>7 DEF DropRule, Shutdown, ClosePool
  <2> QED
    BY <1>1, <2>1
<1> QED
  BY <1>3, <1>4, <1>5, <1>6, <1>7 DEF Next, Submitter

CapInv == AccountInv /\ UnderWayOK /\ SettingsOK /\ CapOK

(* No rule executes more runs than its settings allow, runs that were told  *)
(* to stop not counted; and a rule that is never replaced executes no more  *)
(* than that even counting them (rule_scheduler.py 111-161, 225-242): the   *)
(* runs whose actions are in progress are among those that count for the    *)
(* rule, which the submission and the dispatch keep below its cap.          *)
THEOREM CapHolds ==
  ASSUME ~ThreadStartMayFail
  PROVE  Spec => []ConcurrencyCap
<1>1. Init => CapInv
  <2> SUFFICES ASSUME Init PROVE CapInv
    OBVIOUS
  <2>1. UnderWayOK
    BY DEF Init, UnderWayOK, UnderWay
  <2>2. \A k \in Key : Len(queue[k]) = 0
    BY DEF Init
  <2>3. SettingsOK
    BY <2>2 DEF SettingsOK
  <2>4. CapOK
    BY DEF Init, CapOK, ActiveOf, WithinCap
  <2> QED
    BY <2>1, <2>3, <2>4, InitAccount DEF CapInv
<1>2. CapInv /\ [Next]_vars => CapInv'
  <2> SUFFICES ASSUME CapInv, [Next]_vars PROVE CapInv'
    OBVIOUS
  <2>0. AccountInv /\ AccountInv' /\ TypeOK /\ LockOK /\ QueueOK
    BY StepAccount DEF CapInv, AccountInv, TypeInv
  <2>1. CASE Next
    BY <2>0, <2>1, StepUnderWay, StepSettings, StepCap DEF CapInv
  <2>2. CASE UNCHANGED vars
    BY <2>0, <2>2
    DEF vars, CapInv, UnderWayOK, SettingsOK, CapOK, MayReplace, WithinCap, ActiveOf
  <2> QED
    BY <2>1, <2>2
<1>3. CapInv => ConcurrencyCap
  <2> SUFFICES ASSUME CapInv, NEW k \in Key
      PROVE /\ WithinCap(k, Inside(k) \ cancelled)
            /\ (\A c \in Snapshots[k] : Mode(c) # "replace") => WithinCap(k, Inside(k))
    BY DEF ConcurrencyCap
  <2>0. ActiveOf(k) \in SUBSET Run /\ WithinCap(k, ActiveOf(k))
    BY DEF CapInv, AccountInv, TypeInv, TypeOK, CapOK, ActiveOf
  <2>1. Inside(k) \ cancelled \subseteq ActiveOf(k)
    BY DEF CapInv, UnderWayOK, UnderWay, Inside, ActiveOf
  <2>2. (\A c \in Snapshots[k] : Mode(c) # "replace") => Inside(k) \subseteq ActiveOf(k)
    BY DEF CapInv, UnderWayOK, UnderWay, MayReplace, Inside, ActiveOf
  <2> QED
    BY <2>0, <2>1, <2>2, WithinCapFewer
<1> QED
  BY <1>1, <1>2, <1>3, PTL DEF Spec

-----------------------------------------------------------------------------
(* The scheduler implements RunAdmission, step by step.                     *)

(* What RunAdmission sees of the scheduler: the runs of a queue, without    *)
(* their settings, and the runs that are over.                              *)
Line(q) == [i \in DOMAIN q |-> q[i].run]
Lines == [k \in Key |-> Line(queue[k])]
Over == {r \in Run : phase[r] = "gone" \/ (lock.site = "exit" /\ lock.run = r)}

LEMMA LineShape ==
  ASSUME NEW q \in Seq(Entry)
  PROVE  /\ Line(q) \in Seq(Run) /\ Len(Line(q)) = Len(q)
         /\ \A i \in 1..Len(q) : Line(q)[i] = q[i].run
         /\ q = <<>> <=> Line(q) = <<>>
         /\ Admission!Members(Line(q)) = RunsIn(q)
         /\ RunsIn(q) \subseteq Run
<1>1. DOMAIN q = 1..Len(q) /\ Len(q) \in Nat
  OBVIOUS
<1>2. \A i \in 1..Len(q) : q[i] \in Entry /\ q[i].run \in Run
  <2>1. \A e \in Entry : e.run \in Run
    BY DEF Entry
  <2> QED
    BY <1>1, <2>1, ElementOfSeq
<1>3. Line(q) \in Seq(Run) /\ Len(Line(q)) = Len(q) /\ \A i \in 1..Len(q) : Line(q)[i] = q[i].run
  BY <1>1, <1>2 DEF Line
<1>4. q = <<>> <=> Len(q) = 0
  OBVIOUS
<1>5. Line(q) = <<>> <=> Len(Line(q)) = 0
  BY <1>3
<1>6. Admission!Members(Line(q)) = RunsIn(q)
  BY <1>1, <1>3 DEF Admission!Members, RunsIn, Line
<1>7. RunsIn(q) \subseteq Run
  BY <1>1, <1>2 DEF RunsIn
<1> QED
  BY <1>3, <1>4, <1>5, <1>6, <1>7

LEMMA NoLine == <<>> \in Seq(Entry) /\ Line(<<>>) = <<>>
<1>1. <<>> \in Seq(Entry)
  BY EmptySeq
<1> QED
  BY <1>1, LineShape

LEMMA LineAppend ==
  ASSUME NEW q \in Seq(Entry), NEW e \in Entry
  PROVE  Line(Append(q, e)) = Append(Line(q), e.run)
<1>1. Append(q, e) \in Seq(Entry) /\ e.run \in Run
  BY DEF Entry
<1>2. /\ Line(q) \in Seq(Run) /\ Len(Line(q)) = Len(q)
      /\ Line(Append(q, e)) \in Seq(Run) /\ Len(Line(Append(q, e))) = Len(q) + 1
      /\ Append(Line(q), e.run) \in Seq(Run) /\ Len(Append(Line(q), e.run)) = Len(q) + 1
  <2>1. Line(q) \in Seq(Run) /\ Len(Line(q)) = Len(q)
    BY LineShape
  <2>2. Line(Append(q, e)) \in Seq(Run) /\ Len(Line(Append(q, e))) = Len(q) + 1
    BY <1>1, LineShape, AppendEntries
  <2> QED
    BY <1>1, <2>1, <2>2, AppendProperties
<1>3. ASSUME NEW i \in 1..(Len(q) + 1)
      PROVE  Line(Append(q, e))[i] = Append(Line(q), e.run)[i]
  <2>0. Len(Append(q, e)) = Len(q) + 1
    BY AppendEntries
  <2>1. Line(Append(q, e))[i] = Append(q, e)[i].run
    BY <1>1, <2>0, LineShape
  <2>2. CASE i = Len(q) + 1
    BY <1>1, <1>2, <2>1, <2>2, AppendEntries
  <2>3. CASE i \in 1..Len(q)
    BY <1>1, <1>2, <2>1, <2>3, AppendEntries, LineShape
  <2> QED
    BY <1>2, <2>2, <2>3
<1> QED
  BY <1>2, <1>3, SeqEqual

LEMMA LineTail ==
  ASSUME NEW q \in Seq(Entry), q # <<>>
  PROVE  Line(Tail(q)) = Tail(Line(q)) /\ Head(Line(q)) = Head(q).run
<1>1. /\ Tail(q) \in Seq(Entry) /\ Len(q) \in Nat \ {0}
      /\ Line(q) \in Seq(Run) /\ Len(Line(q)) = Len(q) /\ Line(q) # <<>>
      /\ Tail(Line(q)) \in Seq(Run) /\ Len(Tail(Line(q))) = Len(q) - 1
      /\ Line(Tail(q)) \in Seq(Run) /\ Len(Line(Tail(q))) = Len(q) - 1
  <2>1. Tail(q) \in Seq(Entry) /\ Len(q) \in Nat \ {0} /\ Len(Tail(q)) = Len(q) - 1
    BY TailEntries
  <2>2. Line(q) \in Seq(Run) /\ Len(Line(q)) = Len(q) /\ Line(q) # <<>>
    BY LineShape
  <2>3. Line(Tail(q)) \in Seq(Run) /\ Len(Line(Tail(q))) = Len(q) - 1
    BY <2>1, LineShape
  <2>4. Tail(Line(q)) \in Seq(Run) /\ Len(Tail(Line(q))) = Len(q) - 1
    BY <2>1, <2>2, TailEntries
  <2> QED
    BY <2>1, <2>2, <2>3, <2>4
<1>2. ASSUME NEW i \in 1..(Len(q) - 1)
      PROVE  Line(Tail(q))[i] = Tail(Line(q))[i]
  <2>1. Line(Tail(q))[i] = Tail(q)[i].run /\ Tail(q)[i] = q[i + 1] /\ i + 1 \in 1..Len(q)
    BY <1>1, LineShape, TailEntries
  <2>2. Tail(Line(q))[i] = Line(q)[i + 1]
    BY <1>1, TailEntries
  <2> QED
    BY <2>1, <2>2, LineShape
<1>3. Line(Tail(q)) = Tail(Line(q))
  BY <1>1, <1>2, SeqEqual
<1>4. Head(Line(q)) = Head(q).run
  BY <1>1, LineShape
<1> QED
  BY <1>3, <1>4

(* The lines hold the waiting runs; a change of one queue is a change of    *)
(* one line.                                                                *)
LEMMA LinesSeen ==
  ASSUME TypeOK
  PROVE  /\ Lines \in [Key -> Seq(Run)]
         /\ \A k \in Key : Lines[k] = Line(queue[k])
         /\ Admission!InLine = Waiting
<1>1. \A k \in Key : queue[k] \in Seq(Entry)
  BY DEF TypeOK
<1>2. \A k \in Key : Line(queue[k]) \in Seq(Run) /\ Admission!Members(Line(queue[k])) = RunsIn(queue[k])
  BY <1>1, LineShape
<1>3. Lines \in [Key -> Seq(Run)] /\ \A k \in Key : Lines[k] = Line(queue[k])
  BY <1>2 DEF Lines
<1>4. Admission!InLine = UNION {Admission!Members(Line(queue[k])) : k \in Key}
  BY DEF Admission!InLine, Line
<1> QED
  BY <1>2, <1>3, <1>4 DEF Waiting

LEMMA LineChanges ==
  ASSUME TypeOK, NEW k \in Key, NEW q, queue' = [queue EXCEPT ![k] = q]
  PROVE  Lines' = [Lines EXCEPT ![k] = Line(q)]
  BY DEF TypeOK, Lines, Line

LEMMA Stutters ==
  ASSUME UNCHANGED <<keyOf, queue, executing, shuttingDown>>, Over' = Over
  PROVE  UNCHANGED Admission!vars
  BY DEF Admission!vars, Over

LEMMA Seen ==
  /\ [k \in Key |-> [i \in DOMAIN queue[k] |-> queue[k][i].run]] = Lines
  /\ [k \in Key |-> [i \in DOMAIN queue'[k] |-> queue'[k][i].run]] = Lines'
  /\ {r \in Run : phase[r] = "gone" \/ (lock.site = "exit" /\ lock.run = r)} = Over
  /\ {r \in Run : phase'[r] = "gone" \/ (lock'.site = "exit" /\ lock'.run = r)} = Over'
  BY DEF Lines, Line, Over

LEMMA SameCardinality == \A S : Admission!Cardinality(S) = Cardinality(S)
  BY DEF Cardinality, Admission!Cardinality

(* RunAdmission's actions in terms of what is seen.                         *)
LEMMA SeenComeIn ==
  ASSUME NEW r \in Run, NEW kept \in {Lines[keyOf[r]], <<>>}, keyOf[r] \in Key,
         ~shuttingDown, r \notin Admission!InLine \cup executing \cup Over,
         Cardinality(executing) < MaxWorkers, executing' = executing \cup {r},
         Lines' = [Lines EXCEPT ![keyOf[r]] = kept],
         Over' = Over \cup Admission!ThrownOut(keyOf[r], kept),
         UNCHANGED <<keyOf, shuttingDown>>
  PROVE  Admission!ComeIn(r)
<1>1. kept \in Admission!Kept(keyOf[r])
  BY Seen DEF Admission!Kept
<1>2. Admission!Fresh(r)
  BY Seen DEF Admission!Fresh
<1> QED
  BY <1>1, <1>2, Seen, SameCardinality DEF Admission!ComeIn

LEMMA SeenGetInLine ==
  ASSUME NEW r \in Run, NEW kept \in {Lines[keyOf[r]], <<>>}, keyOf[r] \in Key,
         ~shuttingDown, r \notin Admission!InLine \cup executing \cup Over,
         Cardinality(Admission!InLine \ Admission!ThrownOut(keyOf[r], kept)) < MaxPending,
         Lines' = [Lines EXCEPT ![keyOf[r]] = Append(kept, r)],
         Over' = Over \cup Admission!ThrownOut(keyOf[r], kept),
         UNCHANGED <<keyOf, executing, shuttingDown>>
  PROVE  Admission!GetInLine(r)
<1>1. kept \in Admission!Kept(keyOf[r])
  BY Seen DEF Admission!Kept
<1>2. Admission!Fresh(r)
  BY Seen DEF Admission!Fresh
<1> QED
  BY <1>1, <1>2, Seen, SameCardinality DEF Admission!GetInLine

LEMMA SeenTurnAway ==
  ASSUME NEW r \in Run, NEW kept \in {Lines[keyOf[r]], <<>>}, keyOf[r] \in Key,
         r \notin Admission!InLine \cup executing \cup Over,
         Lines' = [Lines EXCEPT ![keyOf[r]] = kept],
         Over' = Over \cup Admission!ThrownOut(keyOf[r], kept) \cup {r},
         UNCHANGED <<keyOf, executing, shuttingDown>>
  PROVE  Admission!TurnAway(r)
  BY Seen DEF Admission!TurnAway, Admission!Fresh, Admission!Kept

LEMMA SeenCallNext ==
  ASSUME NEW k \in Key, ~shuttingDown, Lines[k] # <<>>, Cardinality(executing) < MaxWorkers,
         executing' = executing \cup {Head(Lines[k])},
         Lines' = [Lines EXCEPT ![k] = Tail(Lines[k])],
         Over' = Over, UNCHANGED <<keyOf, shuttingDown>>
  PROVE  Admission!CallNext(k)
<1>1. [Lines EXCEPT ![k] = Tail(@)] = [Lines EXCEPT ![k] = Tail(Lines[k])]
  OBVIOUS
<1> QED
  BY <1>1, Seen, SameCardinality DEF Admission!CallNext

LEMMA SeenLeave ==
  ASSUME NEW r \in Run, r \in executing, executing' = executing \ {r}, Over' = Over \cup {r},
         UNCHANGED <<keyOf, queue, shuttingDown>>
  PROVE  Admission!Leave(r)
  BY DEF Admission!Leave, Over

LEMMA SeenDisband ==
  ASSUME NEW k \in Key, Lines' = [Lines EXCEPT ![k] = <<>>],
         Over' = Over \cup Admission!Members(Lines[k]),
         UNCHANGED <<keyOf, executing, shuttingDown>>
  PROVE  Admission!Disband(k)
  BY Seen DEF Admission!Disband

LEMMA SeenClose ==
  ASSUME shuttingDown' = TRUE, Lines' = [k \in Key |-> <<>>], Over' = Over \cup Admission!InLine,
         UNCHANGED <<keyOf, executing>>
  PROVE  Admission!Close
  BY Seen DEF Admission!Close

(* A run that was not submitted yet is fresh.                               *)
LEMMA NewIsFresh ==
  ASSUME AccountInv, NEW r \in Run, phase[r] = "new"
  PROVE  r \notin Admission!InLine \cup executing \cup Over
<1>0. TypeOK /\ LockOK /\ QueueOK /\ executing = Occupying
  BY DEF AccountInv, TypeInv, WorkersAccounted
<1>1. r \notin Waiting
  <2>1. ASSUME NEW k \in Key, r \in RunsIn(queue[k]) PROVE FALSE
    <3>1. queue[k] \in Seq(Entry)
      BY <1>0 DEF TypeOK
    <3>2. PICK i \in 1..Len(queue[k]) : r = queue[k][i].run
      BY <2>1, <3>1 DEF RunsIn
    <3> QED
      BY <1>0, <3>2 DEF QueueOK
  <2> QED
    BY <2>1 DEF Waiting
<1>2. r \notin executing
  BY <1>0 DEF Occupying, InPool
<1>3. r \notin Over
  BY <1>0 DEF Over, LockOK
<1> QED
  BY <1>0, <1>1, <1>2, <1>3, LinesSeen

(* A submission that replaces what waits throws the whole line out.         *)
LEMMA LineKept ==
  ASSUME TypeOK, NEW k \in Key, NEW c
  PROVE  /\ QueueLeft(k, c) \in Seq(Entry)
         /\ Line(QueueLeft(k, c)) \in {Lines[k], <<>>}
         /\ Admission!ThrownOut(k, Line(QueueLeft(k, c))) = Superseded(k, c)
<1>1. queue[k] \in Seq(Entry) /\ Lines[k] = Line(queue[k])
  BY LinesSeen DEF TypeOK
<1>2. <<>> \in Seq(Entry) /\ Line(<<>>) = <<>>
  BY NoLine
<1>3. \A kept : Admission!ThrownOut(k, kept)
                  = IF kept = Lines[k] THEN {} ELSE Admission!Members(Lines[k])
  BY Seen DEF Admission!ThrownOut
<1>4. Admission!Members(Lines[k]) = RunsIn(queue[k])
  BY <1>1, LineShape
<1>5. queue[k] = <<>> => RunsIn(queue[k]) = {}
  BY DEF RunsIn
<1>6. queue[k] = <<>> <=> Lines[k] = <<>>
  BY <1>1, LineShape
<1>7. CASE Mode(c) = "replace"
  BY <1>2, <1>3, <1>4, <1>5, <1>6, <1>7 DEF QueueLeft, Superseded
<1>8. CASE Mode(c) # "replace"
  BY <1>1, <1>3, <1>8 DEF QueueLeft, Superseded
<1> QED
  BY <1>7, <1>8

(* Every step of a run's own thread is a departure or invisible.            *)
LEMMA WorkerRefines ==
  ASSUME AccountInv, ~ThreadStartMayFail, NEW r \in Run, Worker(r)
  PROVE  Admission!Leave(r) \/ UNCHANGED Admission!vars
<1>0. TypeOK /\ LockOK /\ QueueOK /\ executing = Occupying /\ SlotsOK
  BY DEF AccountInv, TypeInv, WorkersAccounted
<1>1. UNCHANGED <<keyOf, queue, shuttingDown>>
  BY <1>0, WorkerMoves
<1>2. ASSUME Begin(r) \/ ActionsEnd(r) \/ FinishRun(r) \/ Settle(r) \/ SettleDone(r)
             \/ Retire(r) \/ RetireDone(r)
      PROVE  UNCHANGED Admission!vars
  <2>1. executing' = executing
    BY <1>2 DEF Begin, ActionsEnd, FinishRun, Settle, SettleDone, Retire, RetireDone
  <2>2. /\ phase[r] # "gone" /\ phase'[r] # "gone"
        /\ \A x \in Run \ {r} : phase'[x] = phase[x]
    BY <1>0, <1>2
    DEF Begin, ActionsEnd, FinishRun, Settle, SettleDone, Retire, RetireDone, TypeOK, LockOK
  <2>3. lock' = lock \/ (lock.site # "exit" /\ lock'.site # "exit")
    BY <1>2 DEF Begin, ActionsEnd, FinishRun, Settle, SettleDone, Retire, RetireDone, LockFree,
                Free, Held
  <2>4. Over' = Over
    BY <2>2, <2>3 DEF Over
  <2> QED
    BY <1>1, <2>1, <2>4, Stutters
<1>3. CASE Exit(r)
  <2>1. /\ r \in executing /\ keyOf[r] \in slots
    BY <1>0, <1>3 DEF Exit, Occupying, InPool, LockFree, Free, SlotsOK
  <2>2. /\ executing' = executing \ {r} /\ phase' = phase
        /\ lock'.site = "exit" /\ lock'.run = r /\ lock.site = "free"
    BY <1>3, <2>1 DEF Exit, Held, LockFree, Free
  <2>3. Over' = Over \cup {r}
    BY <2>2 DEF Over
  <2> QED
    BY <1>1, <2>1, <2>2, <2>3, SeenLeave
<1>4. CASE ExitDone(r)
  <2>1. /\ executing' = executing /\ lock'.site = "free" /\ lock.site = "exit" /\ lock.run = r
        /\ phase' = [phase EXCEPT ![r] = "gone"]
    BY <1>4 DEF ExitDone, Free
  <2>2. Over' = Over
    BY <1>0, <2>1 DEF Over, TypeOK
  <2> QED
    BY <1>1, <2>1, <2>2, Stutters
<1> QED
  BY <1>2, <1>3, <1>4 DEF Worker

(* A submission is an arrival: let in, put in line or turned away.          *)
LEMMA SubmitRefines ==
  ASSUME AccountInv, NEW r \in Run, NEW c \in Snapshots[keyOf[r]], Submit(r, c)
  PROVE  Admission!ComeIn(r) \/ Admission!GetInLine(r) \/ Admission!TurnAway(r)
<1> DEFINE k == keyOf[r]
           kept == Line(QueueLeft(k, c))
           out == Admission!ThrownOut(k, kept)
<1>0. /\ TypeOK /\ LockOK /\ QueueOK /\ k \in Key /\ phase[r] = "new"
      /\ UNCHANGED <<keyOf, shuttingDown, lock>> /\ c \in Config
      /\ workerCount = Cardinality(executing)
  BY SubmitMoves, ConstantsAssumption DEF AccountInv, TypeInv, TypeOK, WorkersAccounted
<1>1. r \notin Admission!InLine \cup executing \cup Over
  BY <1>0, NewIsFresh
<1>2. lock.site = "free" /\ lock'.site = "free"
  BY <1>0 DEF Submit, LockFree, Free
<1>3. ASSUME NEW fate, NEW event, DisplaceOthers(r, c, fate, event)
      PROVE  Over' = Over \cup out \cup (IF fate = "gone" THEN {r} ELSE {})
  <2>1. out = Superseded(k, c) /\ out \subseteq Run
    <3>1. out = Superseded(k, c)
      BY <1>0, LineKept
    <3>2. queue[k] \in Seq(Entry) => RunsIn(queue[k]) \subseteq Run
      BY LineShape
    <3> QED
      BY <1>0, <3>1, <3>2 DEF Superseded, TypeOK
  <2>2. \A x \in Run : phase'[x] = IF x = r THEN fate ELSE IF x \in out THEN "gone" ELSE phase[x]
    BY <1>3, <2>1 DEF DisplaceOthers
  <2>3. r \notin out /\ r \notin Over
    <3>1. Superseded(k, c) \subseteq Waiting
      BY <1>0 DEF Superseded, Waiting
    <3> QED
      BY <1>0, <1>1, <2>1, <3>1, LinesSeen
  <2> HIDE DEF out
  <2> QED
    BY <1>0, <1>2, <2>1, <2>2, <2>3 DEF Over
<1>4. /\ kept \in {Lines[k], <<>>}
      /\ QueueLeft(k, c) \in Seq(Entry)
      /\ out = Superseded(k, c)
  BY <1>0, LineKept
<1>5. CASE SubmitWhenClosing(r) \/ SubmitSingleBusy(r, c)
  <2>1. UNCHANGED <<queue, executing>> /\ phase' = [phase EXCEPT ![r] = "gone"]
    BY <1>5 DEF SubmitWhenClosing, SubmitSingleBusy
  <2>2. Over' = Over \cup {r}
    BY <1>0, <1>2, <2>1 DEF Over, TypeOK
  <2>3. Lines \in [Key -> Seq(Run)] /\ Lines' = Lines
    BY <1>0, <2>1, LinesSeen DEF Lines
  <2>4. Lines' = [Lines EXCEPT ![k] = Lines[k]]
    BY <1>0, <2>3
  <2>5. Admission!ThrownOut(k, Lines[k]) = {}
    BY Seen DEF Admission!ThrownOut
  <2> QED
    BY <1>0, <1>1, <2>1, <2>2, <2>4, <2>5, SeenTurnAway
<1>6. CASE ~shuttingDown /\ SubmitRunNow(r, c)
  <2>1. /\ DisplaceOthers(r, c, "spawning", "open")
        /\ queue' = [queue EXCEPT ![k] = QueueLeft(k, c)]
        /\ executing' = executing \cup {r}
        /\ Cardinality(executing) < MaxWorkers
    BY <1>0, <1>6 DEF SubmitRunNow, MayRunNow
  <2>2. Over' = Over \cup out
    BY <1>3, <2>1
  <2>3. Lines' = [Lines EXCEPT ![k] = kept]
    BY <1>0, <2>1, LineChanges
  <2> HIDE DEF kept
  <2> QED
    BY <1>0, <1>1, <1>4, <1>6, <2>1, <2>2, <2>3, SeenComeIn
<1>7. CASE ~shuttingDown /\ SubmitQueued(r, c)
  <2> DEFINE e == [run |-> r, cfg |-> c]
  <2>1. /\ DisplaceOthers(r, c, "waiting", "open")
        /\ queue' = [queue EXCEPT ![k] = Append(QueueLeft(k, c), e)]
        /\ executing' = executing
        /\ Cardinality(Waiting \ Superseded(k, c)) < MaxPending
    BY <1>7 DEF SubmitQueued, HasRoom
  <2>2. Over' = Over \cup out
    BY <1>3, <2>1
  <2>3. e \in Entry /\ e.run = r
    BY <1>0 DEF Entry
  <2>4. Line(Append(QueueLeft(k, c), e)) = Append(kept, r)
    BY <1>4, <2>3, LineAppend
  <2>5. Lines' = [Lines EXCEPT ![k] = Append(kept, r)]
    BY <1>0, <2>1, <2>4, LineChanges
  <2>6. Cardinality(Admission!InLine \ out) < MaxPending
    BY <1>0, <1>4, <2>1, LinesSeen
  <2> HIDE DEF kept
  <2> QED
    BY <1>0, <1>1, <1>4, <1>7, <2>1, <2>2, <2>5, <2>6, SeenGetInLine
<1>8. CASE ~shuttingDown /\ SubmitOverflow(r, c)
  <2>1. /\ DisplaceOthers(r, c, "gone", "dropped")
        /\ queue' = [queue EXCEPT ![k] = QueueLeft(k, c)]
        /\ executing' = executing
    BY <1>8 DEF SubmitOverflow
  <2>2. Over' = Over \cup out \cup {r}
    BY <1>3, <2>1
  <2>3. Lines' = [Lines EXCEPT ![k] = kept]
    BY <1>0, <2>1, LineChanges
  <2> HIDE DEF kept
  <2> QED
    BY <1>0, <1>1, <1>4, <2>1, <2>2, <2>3, SeenTurnAway
<1> QED
  BY <1>5, <1>6, <1>7, <1>8 DEF Submit, SubmitAdmitted

LEMMA DispatchRefines ==
  ASSUME AccountInv, ~ThreadStartMayFail, NEW k \in Key, DispatchHead(k)
  PROVE  Admission!CallNext(k)
<1> DEFINE r == Head(queue[k]).run
<1>0. /\ TypeOK /\ LockOK /\ QueueOK /\ workerCount = Cardinality(executing)
  BY DEF AccountInv, TypeInv, WorkersAccounted
<1>1. /\ phase[r] = "waiting" /\ r \in Run
      /\ phase' = [phase EXCEPT ![r] = "pooled"]
      /\ queue' = [queue EXCEPT ![k] = Tail(queue[k])]
      /\ queue[k] \in Seq(Entry) /\ queue[k] # <<>>
      /\ executing' = executing \cup {r}
      /\ UNCHANGED <<keyOf, lock, shuttingDown>>
  BY <1>0, DispatchMoves
<1>2. ~shuttingDown /\ workerCount < MaxWorkers
  BY DEF DispatchHead, CanDispatch
<1>3. /\ Lines[k] = Line(queue[k]) /\ Lines[k] # <<>>
      /\ Head(Lines[k]) = r /\ Line(Tail(queue[k])) = Tail(Lines[k])
  BY <1>0, <1>1, LinesSeen, LineShape, LineTail
<1>4. Lines' = [Lines EXCEPT ![k] = Tail(Lines[k])]
  BY <1>0, <1>1, <1>3, LineChanges
<1>5. Over' = Over
  <2> HIDE DEF r
  <2> QED
    BY <1>0, <1>1 DEF Over, TypeOK
<1> QED
  BY <1>0, <1>1, <1>2, <1>3, <1>4, <1>5, SeenCallNext

LEMMA DropRefines ==
  ASSUME AccountInv, NEW k \in Key, DropRule(k)
  PROVE  Admission!Disband(k)
<1>0. TypeOK /\ QueueOK /\ queue[k] \in Seq(Entry) /\ Lines[k] = Line(queue[k])
  BY LinesSeen DEF AccountInv, TypeInv, TypeOK
<1>1. /\ queue' = [queue EXCEPT ![k] = <<>>]
      /\ phase' = [x \in Run |-> IF x \in RunsIn(queue[k]) THEN "gone" ELSE phase[x]]
      /\ UNCHANGED <<keyOf, executing, shuttingDown, lock>>
  BY DEF DropRule
<1>2. Lines' = [Lines EXCEPT ![k] = <<>>]
  <2>1. <<>> \in Seq(Entry) /\ Line(<<>>) = <<>>
    BY NoLine
  <2> QED
    BY <1>0, <1>1, <2>1, LineChanges
<1>3. RunsIn(queue[k]) \subseteq Run /\ Admission!Members(Lines[k]) = RunsIn(queue[k])
  BY <1>0, LineShape
<1>4. Over' = Over \cup Admission!Members(Lines[k])
  BY <1>1, <1>3 DEF Over
<1> QED
  BY <1>1, <1>2, <1>4, SeenDisband

LEMMA ShutdownRefines ==
  ASSUME AccountInv, Shutdown
  PROVE  Admission!Close
<1>0. TypeOK /\ \A k \in Key : queue[k] \in Seq(Entry)
  BY DEF AccountInv, TypeInv, TypeOK
<1>1. /\ queue' = [k \in Key |-> <<>>] /\ shuttingDown' = TRUE
      /\ phase' = [x \in Run |-> IF x \in Waiting THEN "gone" ELSE phase[x]]
      /\ UNCHANGED <<keyOf, executing, lock>>
  BY DEF Shutdown
<1>2. Lines' = [k \in Key |-> <<>>]
  <2>1. <<>> \in Seq(Entry) /\ Line(<<>>) = <<>>
    BY NoLine
  <2>2. \A k \in Key : queue'[k] = <<>>
    BY <1>1
  <2> QED
    BY <2>1, <2>2 DEF Lines
<1>3. Waiting \subseteq Run /\ Admission!InLine = Waiting
  <2>1. \A k \in Key : RunsIn(queue[k]) \subseteq Run
    BY <1>0, LineShape
  <2> QED
    BY <1>0, <2>1, LinesSeen DEF Waiting
<1>4. Over' = Over \cup Admission!InLine
  BY <1>1, <1>3 DEF Over
<1> QED
  BY <1>1, <1>2, <1>4, SeenClose

(* What else happens is a refused run's departure or invisible.             *)
LEMMA OthersRefine ==
  ASSUME AccountInv, ~ThreadStartMayFail,
         \/ \E r \in Run : SpawnOk(r) \/ SpawnFailed(r) \/ RefuseDone(r) \/ CancelRun(r)
         \/ ClosePool
  PROVE  (\E r \in Run : Admission!Leave(r)) \/ UNCHANGED Admission!vars
<1>0. TypeOK /\ LockOK /\ executing = Occupying
  BY DEF AccountInv, TypeInv, WorkersAccounted
<1>1. ASSUME NEW r \in Run, SpawnOk(r) PROVE UNCHANGED Admission!vars
  <2>1. UNCHANGED <<keyOf, queue, executing, shuttingDown>> /\ Over' = Over
    BY <1>0, <1>1 DEF SpawnOk, Over, TypeOK
  <2> QED
    BY <2>1, Stutters
<1>2. ASSUME NEW r \in Run, SpawnFailed(r) PROVE Admission!Leave(r)
  <2>1. /\ r \in executing /\ executing' = executing \ {r}
        /\ UNCHANGED <<keyOf, queue, shuttingDown>>
    BY <1>0, <1>2 DEF SpawnFailed, Occupying, LockFree, Free
  <2>2. /\ phase' = [phase EXCEPT ![r] = "gone"] /\ lock.site = "free" /\ lock'.site = "refuse"
    BY <1>2 DEF SpawnFailed, Held, LockFree, Free
  <2>3. Over' = Over \cup {r}
    BY <1>0, <2>2 DEF Over, TypeOK
  <2> QED
    BY <2>1, <2>3, SeenLeave
<1>3. ASSUME NEW r \in Run, RefuseDone(r) PROVE UNCHANGED Admission!vars
  <2>1. UNCHANGED <<keyOf, queue, executing, shuttingDown>> /\ Over' = Over
    BY <1>3 DEF RefuseDone, Over, Free
  <2> QED
    BY <2>1, Stutters
<1>4. ASSUME NEW r \in Run, CancelRun(r) PROVE UNCHANGED Admission!vars
  <2>1. UNCHANGED <<keyOf, queue, executing, shuttingDown>> /\ Over' = Over
    BY <1>4 DEF CancelRun, Over
  <2> QED
    BY <2>1, Stutters
<1>5. CASE ClosePool
  <2>1. UNCHANGED <<keyOf, queue, executing, shuttingDown>> /\ Over' = Over
    BY <1>5 DEF ClosePool, Over
  <2> QED
    BY <2>1, Stutters
<1> QED
  BY <1>1, <1>2, <1>3, <1>4, <1>5

LEMMA StepRefines ==
  ASSUME AccountInv, ~ThreadStartMayFail, [Next]_vars
  PROVE  [Admission!Next]_(Admission!vars)
<1>1. ASSUME NEW r \in Run, Worker(r) PROVE [Admission!Next]_(Admission!vars)
  BY <1>1, WorkerRefines DEF Admission!Next
<1>2. ASSUME NEW r \in Run, NEW c \in Snapshots[keyOf[r]], Submit(r, c)
      PROVE  [Admission!Next]_(Admission!vars)
  BY <1>2, SubmitRefines DEF Admission!Next
<1>3. ASSUME NEW k \in Key, DispatchHead(k) \/ DropRule(k)
      PROVE  [Admission!Next]_(Admission!vars)
  BY <1>3, DispatchRefines, DropRefines DEF Admission!Next
<1>4. CASE Shutdown
  BY <1>4, ShutdownRefines DEF Admission!Next
<1>5. CASE \/ \E r \in Run : SpawnOk(r) \/ SpawnFailed(r) \/ RefuseDone(r) \/ CancelRun(r)
           \/ ClosePool
  BY <1>5, OthersRefine DEF Admission!Next
<1>6. CASE UNCHANGED vars
  BY <1>6, Stutters DEF vars, Over
<1> QED
  BY <1>1, <1>2, <1>3, <1>4, <1>5, <1>6 DEF Next, Submitter

LEMMA InitRefines == Init => Admission!Init
<1> SUFFICES ASSUME Init PROVE Admission!Init
  OBVIOUS
<1>1. <<>> \in Seq(Entry) /\ Line(<<>>) = <<>>
  BY NoLine
<1>2. Lines = [k \in Key |-> <<>>]
  BY <1>1 DEF Init, Lines
<1>3. Over = {}
  BY DEF Init, Over, Free
<1> QED
  BY <1>2, <1>3, Seen DEF Init, Admission!Init

(* Every behaviour of the scheduler is one of RunAdmission's: busy and      *)
(* waiting runs bounded, first come first served per rule, what is over     *)
(* stays over, nobody enters after shutdown (rule_scheduler.py 93-329), for *)
(* any number of rules, runs, workers and waiting places, on a platform     *)
(* that starts the threads it is asked for.  Every action of the scheduler  *)
(* is one of RunAdmission's or changes nothing it sees.                     *)
THEOREM SchedulerRefines ==
  ASSUME ~ThreadStartMayFail
  PROVE  Spec => ImplementsAdmission
<1>1. AccountInv /\ [Next]_vars => AccountInv'
  BY StepAccount
<1>2. AccountInv /\ [Next]_vars => [Admission!Next]_(Admission!vars)
  BY StepRefines
<1> QED
  BY <1>1, <1>2, InitAccount, InitRefines, PTL DEF Spec, ImplementsAdmission, Admission!Spec

-----------------------------------------------------------------------------
(***************************************************************************)
(* What remains of the scheduler's bookkeeping when worker threads may     *)
(* fail to start at any point: the counts drift, but they drift to one     *)
(* side only, and that is enough for a queued run never to be left alone.  *)
(***************************************************************************)

(* Runs that are past the queues, or were never in one.                     *)
Placed(r) == phase[r] \notin {"new", "waiting"}

HolderOK ==
  /\ lock.site = "free" => lock = Free
  /\ lock.site # "free" => lock.run \in Run /\ Placed(lock.run)

(* The count may fall behind the executing sets, never the other way round: *)
(* a run that could not be started is taken out of both, and a second time  *)
(* out of the count alone.                                                  *)
CountBehind ==
  /\ \A r \in executing : Placed(r)
  /\ active \subseteq executing
  /\ workerCount <= Cardinality(executing)

(* A run that has been retired is not active.                               *)
RetiredOK ==
  /\ \A r \in active : phase[r] # "leaving"
  /\ lock.site = "retire" => lock.run \notin active

SomebodyWaits == \E k \in Key : queue[k] # <<>>

(* Whoever holds the lock either is going to serve every queue before it    *)
(* leaves, or need not.                                                     *)
Owed ==
  /\ shuttingDown => ~SomebodyWaits
  /\ lock.scope # Key /\ SomebodyWaits => executing # {}

ThreadInv == TypeInv /\ HolderOK /\ QueueOK /\ CountBehind /\ RetiredOK /\ Owed

LEMMA WaitingSomewhere == Waiting # {} => SomebodyWaits
<1> SUFFICES ASSUME NEW r \in Waiting PROVE SomebodyWaits
  OBVIOUS
<1>1. PICK k \in Key : r \in RunsIn(queue[k])
  BY DEF Waiting
<1> QED
  BY <1>1 DEF RunsIn, SomebodyWaits

LEMMA InitThread == Init => ThreadInv
<1> SUFFICES ASSUME Init PROVE ThreadInv
  OBVIOUS
<1>1. HolderOK
  BY LockType DEF Init, HolderOK
<1>2. QueueOK /\ Owed
  BY DEF Init, QueueOK, Owed, SomebodyWaits
<1>3. CountBehind /\ RetiredOK
  BY FS_EmptySet DEF Init, CountBehind, RetiredOK, Free
<1> QED
  BY <1>1, <1>2, <1>3, InitType DEF ThreadInv

-----------------------------------------------------------------------------
(* What the steps do to the places of runs.                                 *)

LEMMA ThreadMoves ==
  ASSUME TypeOK, HolderOK, NEW r \in Run,
         Worker(r) \/ SpawnOk(r) \/ SpawnFailed(r) \/ RefuseDone(r) \/ CancelRun(r)
  PROVE  /\ UNCHANGED <<keyOf, queue, shuttingDown>>
         /\ \A x \in Run \ {r} : phase'[x] = phase[x]
         /\ \/ phase'[r] = phase[r]
            \/ Placed(r) /\ Placed(r)'
<1>1. CASE Begin(r) \/ ActionsEnd(r) \/ FinishRun(r)
  BY <1>1 DEF Begin, ActionsEnd, FinishRun, TypeOK, Placed
<1>2. CASE Settle(r) \/ Retire(r) \/ Exit(r)
  BY <1>2 DEF Settle, Retire, Exit, TypeOK, Placed
<1>3. CASE SettleDone(r) \/ RetireDone(r) \/ ExitDone(r)
  <2>1. lock.site # "free" /\ lock.run = r
    BY <1>3 DEF SettleDone, RetireDone, ExitDone
  <2>2. Placed(r)
    BY <2>1 DEF HolderOK
  <2> QED
    BY <1>3, <2>2 DEF SettleDone, RetireDone, ExitDone, TypeOK, Placed
<1>4. CASE SpawnOk(r) \/ SpawnFailed(r)
  BY <1>4 DEF SpawnOk, SpawnFailed, TypeOK, Placed
<1>5. CASE RefuseDone(r) \/ CancelRun(r)
  BY <1>5 DEF RefuseDone, CancelRun
<1> QED
  BY <1>1, <1>2, <1>3, <1>4, <1>5 DEF Worker

LEMMA StepPlaces ==
  ASSUME TypeOK, HolderOK, QueueOK, Next
  PROVE  /\ QueueOK'
         /\ \A x \in Run : Placed(x) => Placed(x)'
<1>1. ASSUME NEW r \in Run,
             Worker(r) \/ SpawnOk(r) \/ SpawnFailed(r) \/ RefuseDone(r) \/ CancelRun(r)
      PROVE  QueueOK' /\ \A x \in Run : Placed(x) => Placed(x)'
  <2>1. /\ UNCHANGED <<keyOf, queue>>
        /\ \A x \in Run \ {r} : phase'[x] = phase[x]
        /\ phase'[r] = phase[r] \/ (Placed(r) /\ Placed(r)')
    BY <1>1, ThreadMoves
  <2>2. CASE phase'[r] = phase[r]
    <3>1. \A x \in Run : phase'[x] = phase[x]
      BY <2>1, <2>2
    <3>2. \A k \in Key : \A i \in 1..Len(queue[k]) : queue[k][i].run \in Run
      BY EntryRun
    <3> QED
      BY <2>1, <3>1, <3>2 DEF QueueOK, Placed
  <2>3. CASE Placed(r) /\ Placed(r)'
    BY <2>1, <2>3, QueueMove DEF Placed
  <2> QED
    BY <2>1, <2>2, <2>3
<1>2. ASSUME NEW r \in Run, NEW c \in Snapshots[keyOf[r]], Submit(r, c)
      PROVE  QueueOK' /\ \A x \in Run : Placed(x) => Placed(x)'
  <2>1. c \in Config
    BY ConstantsAssumption DEF TypeOK
  <2>2. QueueOK'
    BY <1>2, <2>1, SubmitKeepsQueues
  <2> QED
    BY <1>2, <2>2, SubmitMoves DEF Placed
<1>3. ASSUME NEW k \in Key, DispatchHead(k)
      PROVE  QueueOK' /\ \A x \in Run : Placed(x) => Placed(x)'
  BY <1>3, DispatchPlaces, DispatchKeepsQueues DEF Placed, TypeOK
<1>4. ASSUME NEW k \in Key, DropRule(k)
      PROVE  QueueOK' /\ \A x \in Run : Placed(x) => Placed(x)'
  <2>1. \A l \in Key : \/ l # k /\ queue'[l] = queue[l]
                       \/ l = k /\ Len(queue'[l]) = 0
    BY <1>4, DropMoves, EmptyQueue DEF TypeOK
  <2>2. \A l \in Key \ {k} : \A i \in 1..Len(queue[l]) :
           phase'[queue[l][i].run] = "waiting" /\ keyOf'[queue[l][i].run] = l
    BY <1>4, DropMoves, EntryRun DEF QueueOK
  <2>3. QueueOK'
    BY <2>1, <2>2 DEF QueueOK
  <2> QED
    BY <1>4, <2>3, DropMoves DEF Placed
<1>5. CASE Shutdown
  <2>1. \A l \in Key : Len(queue'[l]) = 0
    BY <1>5, ShutdownMoves, EmptyQueue
  <2>2. QueueOK'
    BY <2>1 DEF QueueOK
  <2> QED
    BY <1>5, <2>2, ShutdownMoves DEF Placed
<1>6. CASE ClosePool
  BY <1>6 DEF ClosePool, QueueOK, Placed
<1> QED
  BY <1>1, <1>2, <1>3, <1>4, <1>5, <1>6 DEF Next, Submitter

LEMMA StepHolder ==
  ASSUME TypeOK, HolderOK, QueueOK, Next
  PROVE  HolderOK'
<1>1. CASE UNCHANGED lock
  BY <1>1, StepPlaces DEF HolderOK
<1>2. CASE lock' = Free
  BY <1>2, LockType DEF HolderOK
<1>3. ASSUME NEW r \in Run, Placed(r), NEW site \in Sites, NEW keys \in SUBSET Key,
             site # "free", lock' = Held(site, r, keys)
      PROVE  HolderOK'
  <2>1. lock'.site = site /\ lock'.run = r
    BY <1>3, LockType
  <2>2. Placed(r)'
    BY <1>3, StepPlaces
  <2> QED
    BY <1>3, <2>1, <2>2 DEF HolderOK
<1>4. ASSUME NEW k \in Key, DispatchHead(k), lock' = Unwinding PROVE HolderOK'
  <2>1. lock.site # "free"
    BY <1>4 DEF DispatchHead, LockFree, HolderOK
  <2>2. lock'.site = lock.site /\ lock'.run = lock.run
    BY <1>4 DEF Unwinding
  <2> QED
    BY <2>1, <2>2, StepPlaces DEF HolderOK
<1>5. ASSUME NEW r \in Run, Settle(r) \/ Retire(r) \/ Exit(r) \/ SpawnFailed(r)
      PROVE  HolderOK'
  <2>1. Placed(r) /\ keyOf[r] \in Key
    BY <1>5 DEF Settle, Retire, Exit, SpawnFailed, Placed, TypeOK
  <2>2. \/ UNCHANGED lock
        \/ \E site \in {"settle", "retire", "exit", "refuse"} :
             \E keys \in {{keyOf[r]}, Key} : lock' = Held(site, r, keys)
    BY <1>5 DEF Settle, Retire, Exit, SpawnFailed
  <2>3. {keyOf[r]} \in SUBSET Key
    BY <2>1
  <2> QED
    BY <1>1, <1>3, <2>1, <2>2, <2>3 DEF Sites
<1>6. ASSUME NEW r \in Run, Worker(r) PROVE HolderOK'
  BY <1>1, <1>2, <1>5, <1>6 DEF Worker, Begin, ActionsEnd, FinishRun, SettleDone,
                                RetireDone, ExitDone
<1>7. ASSUME NEW r \in Run, NEW c, Submit(r, c) PROVE HolderOK'
  BY <1>1, <1>7 DEF Submit
<1>8. ASSUME NEW r \in Run, SpawnOk(r) \/ RefuseDone(r) \/ CancelRun(r) PROVE HolderOK'
  BY <1>1, <1>2, <1>8 DEF SpawnOk, RefuseDone, CancelRun
<1>9. ASSUME NEW k \in Key, DispatchHead(k) PROVE HolderOK'
  BY <1>1, <1>4, <1>9 DEF DispatchHead
<1>10. ASSUME NEW k \in Key, DropRule(k) PROVE HolderOK'
  BY <1>1, <1>10 DEF DropRule
<1>11. CASE Shutdown \/ ClosePool
  BY <1>1, <1>11 DEF Shutdown, ClosePool
<1> QED
  BY <1>5, <1>6, <1>7, <1>8, <1>9, <1>10, <1>11 DEF Next, Submitter

-----------------------------------------------------------------------------
(* The counts drift to one side.                                            *)

LEMMA StillBehind ==
  ASSUME TypeOK, workerCount <= Cardinality(executing), NEW r \in Run,
         \/ executing' = executing /\ workerCount' = workerCount
         \/ executing' = executing /\ workerCount' = workerCount - 1
         \/ /\ r \notin executing
            /\ executing' = executing \cup {r} /\ workerCount' = workerCount + 1
         \/ executing' = executing \ {r} /\ workerCount' = workerCount - 1
  PROVE  workerCount' <= Cardinality(executing)'
<1>1. /\ IsFiniteSet(executing) /\ Cardinality(executing) \in Nat
      /\ workerCount \in Int
  BY FiniteRuns DEF TypeOK
<1>2. r \notin executing => Cardinality(executing \cup {r}) = Cardinality(executing) + 1
  BY <1>1, FS_AddElement
<1>3. \/ Cardinality(executing \ {r}) = Cardinality(executing)
      \/ Cardinality(executing \ {r}) = Cardinality(executing) - 1
  <2>1. CASE r \in executing
    BY <1>1, <2>1, FS_RemoveElement
  <2>2. CASE r \notin executing
    <3>1. executing \ {r} = executing
      BY <2>2
    <3> QED
      BY <3>1
  <2> QED
    BY <2>1, <2>2
<1>4. CASE executing' = executing /\ workerCount' \in {workerCount, workerCount - 1}
  BY <1>1, <1>4
<1>5. CASE /\ r \notin executing
           /\ executing' = executing \cup {r} /\ workerCount' = workerCount + 1
  BY <1>1, <1>2, <1>5
<1>6. CASE executing' = executing \ {r} /\ workerCount' = workerCount - 1
  <2>1. Cardinality(executing)' = Cardinality(executing \ {r})
    BY <1>6
  <2>2. /\ Cardinality(executing \ {r}) \in Int
        /\ Cardinality(executing \ {r}) >= Cardinality(executing) - 1
    BY <1>1, <1>3
  <2> QED
    BY <1>1, <1>6, <2>1, <2>2
<1> QED
  BY <1>4, <1>5, <1>6

(* A step after which a run may have left the active and executing runs.    *)
LEMMA FewerRuns ==
  ASSUME TypeOK, CountBehind, NEW r \in Run, \A x \in Run : Placed(x) => Placed(x)',
         \/ executing' = executing /\ workerCount' = workerCount
         \/ executing' = executing /\ workerCount' = workerCount - 1
         \/ executing' = executing \ {r} /\ workerCount' = workerCount - 1,
         active' \subseteq active, r \in executing' \/ r \notin active'
  PROVE  CountBehind'
<1>1. workerCount' <= Cardinality(executing)'
  BY StillBehind DEF CountBehind
<1>2. executing' \subseteq executing /\ executing \subseteq Run /\ active' \subseteq executing'
  BY DEF CountBehind, TypeOK
<1> QED
  BY <1>1, <1>2 DEF CountBehind

(* A step that gives a run a worker.                                        *)
LEMMA OneMoreRun ==
  ASSUME TypeOK, CountBehind, NEW r \in Run, ~Placed(r), Placed(r)',
         \A x \in Run : Placed(x) => Placed(x)',
         executing' = executing \cup {r}, workerCount' = workerCount + 1,
         active' \subseteq active \cup {r}
  PROVE  CountBehind'
<1>1. r \notin executing
  BY DEF CountBehind
<1>2. workerCount' <= Cardinality(executing)'
  BY <1>1, StillBehind DEF CountBehind
<1> QED
  BY <1>2 DEF CountBehind, TypeOK

LEMMA StepCount ==
  ASSUME TypeOK, HolderOK, QueueOK, CountBehind, RetiredOK, Next
  PROVE  CountBehind'
<1>1. \A x \in Run : Placed(x) => Placed(x)'
  BY StepPlaces
<1>2. ASSUME UNCHANGED <<executing, workerCount>>, active' \subseteq active PROVE CountBehind'
  BY <1>1, <1>2 DEF CountBehind, TypeOK
<1>3. ASSUME NEW r \in Run, Worker(r) PROVE CountBehind'
  <2>1. CASE Exit(r)
    <3>1. r \notin active'
      BY <2>1 DEF Exit, RetiredOK
    <3> QED
      BY <1>1, <2>1, <3>1, FewerRuns DEF Exit
  <2> QED
    BY <1>2, <1>3, <2>1 DEF Worker, Begin, ActionsEnd, FinishRun, Settle, SettleDone,
       Retire, RetireDone, ExitDone
<1>4. ASSUME NEW r \in Run, NEW c, Submit(r, c) PROVE CountBehind'
  <2>1. CASE SubmitAdmitted(r, c) /\ SubmitRunNow(r, c)
    <3>1. ~Placed(r) /\ phase'[r] = "spawning"
      BY <1>4, <2>1 DEF Submit, SubmitRunNow, DisplaceOthers, Placed
    <3>2. active' \subseteq active \cup {r} /\ executing' = executing \cup {r}
          /\ workerCount' = workerCount + 1
      BY <2>1 DEF SubmitRunNow
    <3> QED
      BY <1>1, <3>1, <3>2, OneMoreRun DEF Placed
  <2> QED
    BY <1>2, <1>4, <2>1 DEF Submit, SubmitWhenClosing, SubmitSingleBusy, SubmitAdmitted,
       SubmitQueued, SubmitOverflow
<1>5. ASSUME NEW r \in Run, SpawnFailed(r) PROVE CountBehind'
  BY <1>1, <1>5, FewerRuns DEF SpawnFailed
<1>6. ASSUME NEW r \in Run, SpawnOk(r) \/ RefuseDone(r) \/ CancelRun(r) PROVE CountBehind'
  BY <1>2, <1>6 DEF SpawnOk, RefuseDone, CancelRun
<1>7. ASSUME NEW k \in Key, DispatchHead(k) PROVE CountBehind'
  <2>0. PICK r \in Run : r = Head(queue[k]).run
    BY <1>7, DispatchPlaces
  <2>1. ~Placed(r) /\ Placed(r)'
    BY <1>7, <2>0, DispatchPlaces DEF Placed, TypeOK
  <2>2. \/ /\ active' = active \cup {r} /\ executing' = executing \cup {r}
           /\ workerCount' = workerCount + 1
        \/ UNCHANGED <<active, executing, workerCount>>
    BY <1>7, <2>0 DEF DispatchHead
  <2> QED
    BY <1>1, <1>2, <2>1, <2>2, OneMoreRun
<1>8. CASE Shutdown \/ ClosePool \/ \E k \in Key : DropRule(k)
  BY <1>2, <1>8 DEF Shutdown, ClosePool, DropRule
<1> QED
  BY <1>3, <1>4, <1>5, <1>6, <1>7, <1>8 DEF Next, Submitter

LEMMA StepRetired ==
  ASSUME TypeOK, HolderOK, QueueOK, CountBehind, RetiredOK, Next
  PROVE  RetiredOK'
<1>1. ASSUME active' \subseteq active, UNCHANGED <<lock, phase>> PROVE RetiredOK'
  BY <1>1 DEF RetiredOK
<1>2. ASSUME NEW r \in Run, Begin(r) \/ ActionsEnd(r) \/ FinishRun(r) \/ SpawnOk(r)
                            \/ RefuseDone(r) \/ CancelRun(r)
      PROVE  RetiredOK'
  BY <1>2 DEF Begin, ActionsEnd, FinishRun, SpawnOk, RefuseDone, CancelRun, RetiredOK, TypeOK, Free
<1>3. ASSUME NEW r \in Run, Settle(r) PROVE RetiredOK'
  BY <1>3 DEF Settle, RetiredOK, TypeOK, Held
<1>4. ASSUME NEW r \in Run, SettleDone(r) PROVE RetiredOK'
  BY <1>4 DEF SettleDone, RetiredOK, TypeOK, Free
<1>5. ASSUME NEW r \in Run, Retire(r) PROVE RetiredOK'
  BY <1>5 DEF Retire, RetiredOK, TypeOK, Held
<1>6. ASSUME NEW r \in Run, RetireDone(r) PROVE RetiredOK'
  BY <1>6 DEF RetireDone, RetiredOK, TypeOK, Free
<1>7. ASSUME NEW r \in Run, Exit(r) \/ ExitDone(r) PROVE RetiredOK'
  BY <1>7 DEF Exit, ExitDone, RetiredOK, TypeOK, Held, Free
<1>8. ASSUME NEW r \in Run, NEW c, Submit(r, c) PROVE RetiredOK'
  <2>1. active' \subseteq active \cup {r} /\ lock' = lock /\ lock = Free
    BY <1>8 DEF Submit, SubmitWhenClosing, SubmitSingleBusy, SubmitAdmitted, SubmitRunNow,
       SubmitQueued, SubmitOverflow, LockFree
  <2>2. \A x \in Run : phase'[x] = "leaving" => phase[x] = "leaving" /\ x # r
    BY <1>8, SubmitMoves
  <2> QED
    BY <2>1, <2>2 DEF RetiredOK, TypeOK, Free
<1>9. ASSUME NEW r \in Run, SpawnFailed(r) PROVE RetiredOK'
  BY <1>9 DEF SpawnFailed, RetiredOK, TypeOK, Held
<1>10. ASSUME NEW k \in Key, DispatchHead(k) PROVE RetiredOK'
  <2> DEFINE r == Head(queue[k]).run
  <2>1. /\ r \in Run /\ ~Placed(r) /\ phase' = [phase EXCEPT ![r] = "pooled"]
        /\ active' \subseteq active \cup {r}
    BY <1>10, DispatchPlaces DEF DispatchHead, Placed
  <2>2. lock.site # "free"
    BY <1>10 DEF DispatchHead, LockFree, HolderOK
  <2>3. lock.run # r
    BY <2>1, <2>2 DEF HolderOK
  <2>4. lock'.site = lock.site /\ lock'.run = lock.run
    BY <1>10 DEF DispatchHead, Unwinding
  <2> HIDE DEF r
  <2> QED
    BY <2>1, <2>3, <2>4 DEF RetiredOK, TypeOK
<1>11. ASSUME NEW k \in Key, DropRule(k) PROVE RetiredOK'
  BY <1>11, DropMoves DEF DropRule, RetiredOK, TypeOK
<1>12. CASE Shutdown
  BY <1>12, ShutdownMoves DEF Shutdown, RetiredOK, TypeOK
<1>13. CASE ClosePool
  BY <1>1, <1>13 DEF ClosePool
<1> QED
  BY <1>2, <1>3, <1>4, <1>5, <1>6, <1>7, <1>8, <1>9, <1>10, <1>11, <1>12, <1>13
     DEF Next, Worker, Submitter

-----------------------------------------------------------------------------
(* A queued run is not left alone.                                          *)

LEMMA CapPositive == \A c \in Config : Cap(c) \in Nat \ {0}
  BY ConstantsAssumption DEF Config, Cap

(* Where nothing can be dispatched somebody executes.                       *)
LEMMA FullMeansExecuting ==
  ASSUME TypeOK, CountBehind, NEW k \in Key, queue[k] # <<>>, ~CanDispatch(k),
         ~shuttingDown
  PROVE  executing # {}
<1>1. Head(queue[k]).cfg \in Config
  BY QueueHead DEF Entry
<1>2. Cap(Head(queue[k]).cfg) \in Nat \ {0} /\ MaxWorkers \in Nat \ {0}
  BY <1>1, CapPositive, ConstantsAssumption
<1>3. SUFFICES ASSUME executing = {} PROVE FALSE
  OBVIOUS
<1>4. ActiveOf(k) = {} /\ Cardinality({}) = 0
  BY <1>3, FS_EmptySet DEF ActiveOf, CountBehind
<1>5. workerCount <= 0 /\ workerCount \in Int
  BY <1>3, <1>4 DEF CountBehind, TypeOK
<1> QED
  BY <1>2, <1>4, <1>5 DEF CanDispatch

LEMMA NothingOwed ==
  ASSUME TypeOK, CountBehind, Owed, ~LockFree, Drained, HolderOK
  PROVE  SomebodyWaits => executing # {}
<1>1. CASE lock.scope # Key
  BY <1>1 DEF Owed
<1>2. CASE lock.scope = Key
  <2>1. ASSUME NEW k \in Key, queue[k] # <<>> PROVE executing # {}
    BY <1>2, <2>1, FullMeansExecuting DEF Drained, Owed, SomebodyWaits
  <2> QED
    BY <2>1 DEF SomebodyWaits
<1> QED
  BY <1>1, <1>2

(* The steps that leave the lock, the queues and the executing runs alone,  *)
(* or only add to the latter.                                               *)
LEMMA NothingLost ==
  ASSUME Owed, UNCHANGED <<lock, shuttingDown>>, SomebodyWaits' => SomebodyWaits,
         executing \subseteq executing'
  PROVE  Owed'
  BY DEF Owed

(* A submission is queued only behind somebody.                             *)
LEMMA SubmitOwed ==
  ASSUME TypeOK, CountBehind, Owed, NEW r \in Run, NEW c \in Snapshots[keyOf[r]],
         Submit(r, c)
  PROVE  Owed'
<1> DEFINE k == keyOf[r]
<1>1. /\ k \in Key /\ c \in Config /\ lock' = lock /\ shuttingDown' = shuttingDown
      /\ lock.scope = {}
  BY ConstantsAssumption, LockType DEF TypeOK, Submit, LockFree
<1>2. CASE SubmitWhenClosing(r) \/ SubmitSingleBusy(r, c)
  BY <1>1, <1>2, NothingLost DEF SubmitWhenClosing, SubmitSingleBusy, SomebodyWaits
<1>3. CASE SubmitAdmitted(r, c) /\ SubmitRunNow(r, c)
  BY <1>1, <1>3 DEF SubmitAdmitted, SubmitRunNow, Owed
<1>4. CASE SubmitAdmitted(r, c) /\ SubmitQueued(r, c)
  <2>1. ~MayRunNow(k, c) /\ ~shuttingDown /\ executing' = executing
    BY <1>4 DEF SubmitAdmitted, SubmitQueued
  <2>2. Cap(c) \in Nat \ {0} /\ MaxWorkers \in Nat \ {0}
    BY <1>1, CapPositive, ConstantsAssumption
  <2>3. ASSUME executing = {} PROVE FALSE
    <3>1. ActiveOf(k) \ Displaced(k, c) = {} /\ Cardinality({}) = 0
      BY <2>3, FS_EmptySet DEF ActiveOf, CountBehind
    <3>2. workerCount <= 0 /\ workerCount \in Int
      BY <2>3, <3>1 DEF CountBehind, TypeOK
    <3> QED
      BY <2>1, <2>2, <3>1, <3>2 DEF MayRunNow
  <2> QED
    BY <1>1, <2>1, <2>3 DEF Owed
<1>5. CASE SubmitAdmitted(r, c) /\ SubmitOverflow(r, c)
  <2>1. SomebodyWaits' => SomebodyWaits
    BY <1>1, <1>5 DEF SubmitOverflow, QueueLeft, SomebodyWaits, TypeOK
  <2> QED
    BY <1>1, <1>5, <2>1, NothingLost DEF SubmitOverflow
<1> QED
  BY <1>2, <1>3, <1>4, <1>5 DEF Submit, SubmitAdmitted

LEMMA StepOwed ==
  ASSUME TypeOK, HolderOK, QueueOK, CountBehind, Owed, Next
  PROVE  Owed'
<1>1. ASSUME UNCHANGED <<lock, shuttingDown, queue, executing>> PROVE Owed'
  BY <1>1, NothingLost DEF SomebodyWaits
<1>2. ASSUME NEW r \in Run, NEW site \in Sites, NEW keys \in {{keyOf[r]}, Key},
             LockFree, lock' = Held(site, r, keys), UNCHANGED <<shuttingDown, queue>>,
             keys = Key \/ executing' = executing
      PROVE  Owed'
  <2>1. keyOf[r] \in Key
    BY DEF TypeOK
  <2>2. lock.scope = {} /\ lock'.scope = keys
    BY <1>2, <2>1, LockType DEF LockFree
  <2>3. CASE keys = Key
    BY <1>2, <2>2, <2>3 DEF Owed, SomebodyWaits
  <2>4. CASE executing' = executing
    BY <1>2, <2>1, <2>2, <2>4 DEF Owed, SomebodyWaits
  <2> QED
    BY <1>2, <2>3, <2>4
<1>3. ASSUME ~LockFree, Drained, lock' = Free, UNCHANGED <<shuttingDown, queue, executing>>
      PROVE  Owed'
  BY <1>3, NothingOwed DEF Owed, SomebodyWaits
<1>4. ASSUME NEW r \in Run, Begin(r) \/ ActionsEnd(r) \/ FinishRun(r) PROVE Owed'
  BY <1>1, <1>4 DEF Begin, ActionsEnd, FinishRun
<1>5. ASSUME NEW r \in Run, Settle(r) \/ Retire(r) PROVE Owed'
  BY <1>1, <1>2, <1>5 DEF Settle, Retire, Sites
<1>6. ASSUME NEW r \in Run, SettleDone(r) \/ RetireDone(r) \/ ExitDone(r) \/ RefuseDone(r)
      PROVE  Owed'
  <2>1. ~LockFree
    BY <1>6, LockType DEF SettleDone, RetireDone, ExitDone, RefuseDone, LockFree
  <2> QED
    BY <1>3, <1>6, <2>1 DEF SettleDone, RetireDone, ExitDone, RefuseDone
<1>7. ASSUME NEW r \in Run, Exit(r) PROVE Owed'
  <2>1. CASE keyOf[r] \in slots
    BY <1>2, <1>7, <2>1 DEF Exit, Sites
  <2>2. CASE keyOf[r] \notin slots
    BY <1>1, <1>7, <2>2 DEF Exit
  <2> QED
    BY <2>1, <2>2
<1>8. ASSUME NEW r \in Run, SpawnFailed(r) PROVE Owed'
  BY <1>2, <1>8 DEF SpawnFailed, Sites
<1>9. ASSUME NEW r \in Run, SpawnOk(r) \/ CancelRun(r) PROVE Owed'
  BY <1>1, <1>9 DEF SpawnOk, CancelRun
<1>10. ASSUME NEW r \in Run, NEW c \in Snapshots[keyOf[r]], Submit(r, c) PROVE Owed'
  BY <1>10, SubmitOwed
<1>11. ASSUME NEW k \in Key, DispatchHead(k) PROVE Owed'
  <2>1. SomebodyWaits /\ ~shuttingDown /\ shuttingDown' = shuttingDown
    BY <1>11 DEF DispatchHead, CanDispatch, SomebodyWaits
  <2>2. CASE lock' = Unwinding
    <3>1. lock'.scope = Key
      BY <2>2 DEF Unwinding
    <3> QED
      BY <2>1, <3>1 DEF Owed
  <2>3. CASE lock' = lock /\ executing \subseteq executing'
    BY <2>1, <2>3, NothingLost DEF Owed
  <2> QED
    BY <1>11, <2>2, <2>3 DEF DispatchHead
<1>12. ASSUME NEW k \in Key, DropRule(k) PROVE Owed'
  <2>1. SomebodyWaits' => SomebodyWaits
    BY <1>12 DEF DropRule, SomebodyWaits, TypeOK
  <2> QED
    BY <1>12, <2>1, NothingLost DEF DropRule
<1>13. CASE Shutdown
  BY <1>13 DEF Shutdown, Owed, SomebodyWaits
<1>14. CASE ClosePool
  BY <1>1, <1>14 DEF ClosePool
<1> QED
  BY <1>4, <1>5, <1>6, <1>7, <1>8, <1>9, <1>10, <1>11, <1>12, <1>13, <1>14
     DEF Next, Worker, Submitter

LEMMA StepThread ==
  ASSUME ThreadInv, [Next]_vars
  PROVE  ThreadInv'
<1>1. TypeInv' /\ TypeOK
  BY StepType DEF ThreadInv, TypeInv
<1>2. CASE Next
  BY <1>1, <1>2, StepHolder, StepPlaces, StepCount, StepRetired, StepOwed DEF ThreadInv
<1>3. CASE UNCHANGED vars
  BY <1>1, <1>3 DEF vars, ThreadInv, HolderOK, QueueOK, CountBehind, RetiredOK, Owed,
                    SomebodyWaits, Placed
<1> QED
  BY <1>2, <1>3

(* A queued run is never left alone, however many threads fail to start:    *)
(* some run is counted as executing, and its exit serves the queues         *)
(* (rule_scheduler.py 122-142, 225-277, 309-328).                           *)
THEOREM NobodyLeftAlone == Spec => []WaitingForSomebody
<1>1. ThreadInv /\ [Next]_vars => ThreadInv'
  BY StepThread
<1>2. ThreadInv => WaitingForSomebody
  <2> SUFFICES ASSUME ThreadInv, LockFree, Waiting # {} PROVE executing # {}
    BY DEF WaitingForSomebody
  <2>1. SomebodyWaits
    BY WaitingSomewhere
  <2>2. PICK k \in Key : queue[k] # <<>>
    BY <2>1 DEF SomebodyWaits
  <2>3. lock.scope # Key
    BY <2>2, LockType DEF LockFree
  <2> QED
    BY <2>1, <2>3 DEF ThreadInv, Owed
<1> QED
  BY <1>1, <1>2, InitThread, PTL DEF Spec
=============================================================================
