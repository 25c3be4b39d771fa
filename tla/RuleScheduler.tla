--------------------------- MODULE RuleScheduler ---------------------------
(***************************************************************************)
(* Admission, queueing, replacement and dispatch of workflow runs:         *)
(* core/rule_scheduler.py together with the part of                        *)
(* core/workflow_executor.py that a run passes through between its         *)
(* admission and its terminal event (prepare_run, cancel_run,              *)
(* execute_workflow, _finish_run).                                         *)
(*                                                                         *)
(* Trigger threads, the API and the pool's workers share one re-entrant    *)
(* lock.  `lock` is that lock: a locked region that dispatches queued runs *)
(* is several steps (one per dispatched entry), every other locked region  *)
(* is one step.  What a worker does outside the lock is one step per       *)
(* shared effect.  The actions of a workflow are one step here; module     *)
(* WorkflowExecutor opens it.                                              *)
(***************************************************************************)
EXTENDS Integers, Sequences, FiniteSets

CONSTANTS
  Key,                 \* rule keys
  Run,                 \* run identifiers; each is submitted at most once
  NoRun,               \* nobody
  Snapshots,           \* the concurrency settings a rule may be submitted with
  MaxWorkers,          \* max_workers of the pool (8 in the program)
  MaxPending,          \* max_pending_runs (32 in the program)
  DefaultQueueLimit,   \* DEFAULT_QUEUE_LIMIT (20 in the program)
  ThreadStartMayFail   \* can the platform refuse to start a worker thread?

Modes == {"single", "queue", "replace", "parallel"}

(* A rule's "concurrency" object; 0 stands for an absent or unusable number. *)
Config == [mode : STRING, max_concurrency : Nat, queue_limit : Nat]

ASSUME ConstantsAssumption ==
  /\ NoRun \notin Run
  /\ IsFiniteSet(Run)
  /\ Snapshots \in [Key -> SUBSET Config]
  /\ MaxWorkers \in Nat \ {0}
  /\ MaxPending \in Nat \ {0}
  /\ DefaultQueueLimit \in Nat \ {0}
  /\ ThreadStartMayFail \in BOOLEAN

Mode(c) == IF c.mode \in Modes THEN c.mode ELSE "parallel"

(* How many runs of the rule may be active at once under settings c. *)
Cap(c) ==
  IF c.mode \in Modes /\ c.max_concurrency >= 1 THEN c.max_concurrency
  ELSE IF Mode(c) = "parallel" THEN MaxWorkers ELSE 1

QueueLimit(c) ==
  IF c.mode \in Modes /\ c.queue_limit >= 1 THEN c.queue_limit
  ELSE DefaultQueueLimit

(* Where a run is: "waiting" in its rule's queue, "spawning" between its    *)
(* admission and the pool's submit, "pooled" in the pool's work queue,      *)
(* "running" its actions, "checked" past the last look at the cancel event, *)
(* "finished" past _finish_run, "closing" with its terminal event settled,  *)
(* "leaving" past _retire_run.                                              *)
Phases == {"new", "waiting", "spawning", "pooled", "running", "checked",
           "finished", "closing", "leaving", "gone"}

(* Phases in which a pool thread is committed to the run. *)
InPool == {"pooled", "running", "checked", "finished", "closing", "leaving"}

Outcomes == {"none", "completed", "cancelled", "crashed"}
Terminal == {"completed", "cancelled", "crashed", "dropped", "replaced"}

Entry == [run : Run, cfg : Config]

(* Who holds the lock in a region of several steps, the rules whose queues  *)
(* it still dispatches, and whether an exception is on its way out of it.   *)
Sites == {"free", "settle", "retire", "exit", "refuse"}
LockStates ==
  [site : Sites, run : Run \cup {NoRun}, scope : SUBSET Key, unwinding : BOOLEAN]

VARIABLES
  phase,         \* where each run is
  keyOf,         \* the rule key each run was submitted for
  queue,         \* _queues: rule key -> waiting entries, oldest first
  active,        \* union of _active_runs
  executing,     \* union of _executing_runs
  workerCount,   \* _worker_count
  removed,       \* _removed_rules
  slots,         \* keys of _executing_runs
  shuttingDown,  \* _shutting_down
  poolClosed,    \* the pool's own shutdown flag
  poolStarted,   \* has any worker thread of the pool been started?
  lock,          \* the scheduler's lock and what its holder is doing
  cancelEvents,  \* runs with an event in _run_cancel_events
  cancelled,     \* runs whose cancel event is set
  outcome,       \* how the action sequence of a run ended
  recorded       \* what the run history says of a run ("open": no terminal)

vars == <<phase, keyOf, queue, active, executing, workerCount, removed, slots,
          shuttingDown, poolClosed, poolStarted, lock, cancelEvents, cancelled, outcome,
          recorded>>

Free == [site |-> "free", run |-> NoRun, scope |-> {}, unwinding |-> FALSE]
(* Mutant: a freed worker is offered to the run's own rule only.            *)
HeldForOwnRule(site, r, keys) ==
  [site |-> site, run |-> r, scope |-> keys \cap {keyOf[r]}, unwinding |-> FALSE]
(* Mutant: a run that cannot be started leaves without dispatching.         *)
HeldUnlessRefused(site, r, keys) ==
  [site |-> site, run |-> r, scope |-> IF site = "refuse" THEN {} ELSE keys,
   unwinding |-> FALSE]
Held(site, r, keys) ==
  [site |-> site, run |-> r, scope |-> keys, unwinding |-> FALSE]
Unwinding ==
  [site |-> lock.site, run |-> lock.run, scope |-> Key, unwinding |-> TRUE]
LockFree == lock = Free

ActiveOf(k) == {r \in active : keyOf[r] = k}
ExecutingOf(k) == {r \in executing : keyOf[r] = k}
RunsIn(q) == {q[i].run : i \in DOMAIN q}
Waiting == UNION {RunsIn(queue[k]) : k \in Key}

(* run_lifecycle.status_after: the first terminal event of a run decides.   *)
StatusAfter(current, event) == IF current = "open" THEN event ELSE current
RecordAll(runs, event) ==
  [r \in Run |-> IF r \in runs THEN StatusAfter(recorded[r], event)
                 ELSE recorded[r]]

Init ==
  /\ phase = [r \in Run |-> "new"]
  /\ keyOf \in [Run -> Key]
  /\ queue = [k \in Key |-> <<>>]
  /\ active = {}
  /\ executing = {}
  /\ workerCount = 0
  /\ removed = {}
  /\ slots = {}
  /\ shuttingDown = FALSE
  /\ poolClosed = FALSE
  /\ poolStarted = FALSE
  /\ lock = Free
  /\ cancelEvents = {}
  /\ cancelled = {}
  /\ outcome = [r \in Run |-> "none"]
  /\ recorded = [r \in Run |-> "open"]

-----------------------------------------------------------------------------
(* Submission: one locked region of submit().                              *)

SubmitWhenClosing(r) ==
  /\ shuttingDown
  /\ phase' = [phase EXCEPT ![r] = "gone"]
  /\ recorded' = RecordAll({r}, "dropped")
  /\ UNCHANGED <<queue, active, executing, workerCount, removed, slots,
                 cancelEvents, cancelled>>

SubmitSingleBusy(r, c) ==
  /\ ~shuttingDown
  /\ Mode(c) = "single"
  /\ ActiveOf(keyOf[r]) # {} \/ queue[keyOf[r]] # <<>>
  /\ phase' = [phase EXCEPT ![r] = "gone"]
  /\ recorded' = RecordAll({r}, "dropped")
  /\ removed' = removed \ {keyOf[r]}
  /\ UNCHANGED <<queue, active, executing, workerCount, slots, cancelEvents,
                 cancelled>>

(* Active runs that a replacing submission gets to cancel: those whose      *)
(* cancel event is still registered, i.e. that have not reached             *)
(* _finish_run.  A registered event never comes back once popped, so the    *)
(* twenty attempts of _cancel_with_retry have the outcome of one.           *)
Displaced(k, c) ==
  IF Mode(c) = "replace" THEN ActiveOf(k) \cap cancelEvents ELSE {}

(* Mutant: runs that are thrown out of the queue are not told.              *)
SupersededUntold(k, c) == {}

(* Waiting runs that a replacing submission throws out.                     *)
Superseded(k, c) == IF Mode(c) = "replace" THEN RunsIn(queue[k]) ELSE {}

QueueLeft(k, c) == IF Mode(c) = "replace" THEN <<>> ELSE queue[k]

(* Mutant: one run too many.                                                *)
MayRunNowOffByOne(k, c) ==
  /\ Cardinality(ActiveOf(k) \ Displaced(k, c)) <= Cap(c)
  /\ workerCount < MaxWorkers

MayRunNow(k, c) ==
  /\ Cardinality(ActiveOf(k) \ Displaced(k, c)) < Cap(c)
  /\ workerCount < MaxWorkers

HasRoom(k, c) ==
  /\ Len(QueueLeft(k, c)) < QueueLimit(c)
  /\ Cardinality(Waiting \ Superseded(k, c)) < MaxPending

(* What every submission past the early returns does to the other runs.     *)
DisplaceOthers(r, c, fate, event) ==
  LET k == keyOf[r] IN
  /\ removed' = removed \ {k}
  /\ cancelled' = cancelled \cup Displaced(k, c)
  /\ phase' = [x \in Run |-> IF x = r THEN fate
                             ELSE IF x \in Superseded(k, c) THEN "gone"
                             ELSE phase[x]]
  /\ recorded' = [x \in Run |->
        IF x \in Displaced(k, c) \cup Superseded(k, c)
          THEN StatusAfter(recorded[x], "replaced")
        ELSE IF x = r THEN event ELSE recorded[x]]

SubmitRunNow(r, c) ==
  LET k == keyOf[r] IN
  /\ MayRunNow(k, c)
  /\ DisplaceOthers(r, c, "spawning", "open")
  /\ queue' = [queue EXCEPT ![k] = QueueLeft(k, c)]
  /\ active' = (active \ Displaced(k, c)) \cup {r}
  /\ executing' = executing \cup {r}
  /\ slots' = slots \cup {k}
  /\ workerCount' = workerCount + 1
  /\ cancelEvents' = cancelEvents \cup {r}

SubmitQueued(r, c) ==
  LET k == keyOf[r] IN
  /\ ~MayRunNow(k, c)
  /\ HasRoom(k, c)
  /\ DisplaceOthers(r, c, "waiting", "open")
  /\ queue' = [queue EXCEPT ![k] = Append(QueueLeft(k, c), [run |-> r, cfg |-> c])]
  /\ active' = active \ Displaced(k, c)
  /\ UNCHANGED <<executing, slots, workerCount, cancelEvents>>

SubmitOverflow(r, c) ==
  LET k == keyOf[r] IN
  /\ ~MayRunNow(k, c)
  /\ ~HasRoom(k, c)
  /\ DisplaceOthers(r, c, "gone", "dropped")
  /\ queue' = [queue EXCEPT ![k] = QueueLeft(k, c)]
  /\ active' = active \ Displaced(k, c)
  /\ UNCHANGED <<executing, slots, workerCount, cancelEvents>>

(* Mutant: the shutdown flag is not looked at.                              *)
SubmitAdmittedAlways(r, c) ==
  /\ ~(Mode(c) = "single" /\ (ActiveOf(keyOf[r]) # {} \/ queue[keyOf[r]] # <<>>))
  /\ SubmitRunNow(r, c) \/ SubmitQueued(r, c) \/ SubmitOverflow(r, c)

SubmitAdmitted(r, c) ==
  /\ ~shuttingDown
  /\ ~(Mode(c) = "single" /\ (ActiveOf(keyOf[r]) # {} \/ queue[keyOf[r]] # <<>>))
  /\ SubmitRunNow(r, c) \/ SubmitQueued(r, c) \/ SubmitOverflow(r, c)

Submit(r, c) ==
  /\ LockFree
  /\ phase[r] = "new"
  /\ SubmitWhenClosing(r) \/ SubmitSingleBusy(r, c) \/ SubmitAdmitted(r, c)
  /\ UNCHANGED <<keyOf, shuttingDown, poolClosed, poolStarted, lock, outcome>>

-----------------------------------------------------------------------------
(* Handing an admitted run to the pool: _dispatch_entry after submit()      *)
(* released the lock.  The pool refuses once it is shut down; when the      *)
(* platform cannot start a thread, it raises with the item left in its      *)
(* work queue, where the next free thread finds it.                         *)

SpawnOk(r) ==
  /\ phase[r] = "spawning"
  /\ ~poolClosed
  /\ phase' = [phase EXCEPT ![r] = "pooled"]
  /\ poolStarted' = TRUE
  /\ UNCHANGED <<keyOf, queue, active, executing, workerCount, removed, slots,
                 shuttingDown, poolClosed, lock, cancelEvents, cancelled,
                 outcome, recorded>>

(* The handler of a failed spawn: account for the run as dropped, then      *)
(* dispatch whatever can run, then raise to the submitter.                  *)
SpawnFailed(r) ==
  /\ phase[r] = "spawning"
  /\ LockFree
  /\ \/ poolClosed /\ phase' = [phase EXCEPT ![r] = "gone"]
     \/ ~poolClosed /\ ThreadStartMayFail /\ phase' = [phase EXCEPT ![r] = "pooled"]
  /\ workerCount' = workerCount - 1
  /\ executing' = executing \ {r}
  /\ active' = active \ {r}
  /\ recorded' = RecordAll({r}, "dropped")
  /\ lock' = Held("refuse", r, Key)
  /\ UNCHANGED <<keyOf, queue, removed, slots, shuttingDown, poolClosed, poolStarted,
                 cancelEvents, cancelled, outcome>>

-----------------------------------------------------------------------------
(* Dispatching queued runs inside a locked region.                          *)

(* Mutant: a rule is full one run early.                                    *)
CanDispatchEarly(k) ==
  /\ ~shuttingDown
  /\ queue[k] # <<>>
  /\ workerCount < MaxWorkers
  /\ Cardinality(ActiveOf(k)) + 1 < Cap(Head(queue[k]).cfg)

CanDispatch(k) ==
  /\ ~shuttingDown
  /\ queue[k] # <<>>
  /\ workerCount < MaxWorkers
  /\ Cardinality(ActiveOf(k)) < Cap(Head(queue[k]).cfg)

DispatchHead(k) ==
  LET r == Head(queue[k]).run IN
  /\ ~LockFree
  /\ k \in lock.scope
  /\ CanDispatch(k)
  /\ queue' = [queue EXCEPT ![k] = Tail(@)]
  /\ phase' = [phase EXCEPT ![r] = "pooled"]
  /\ cancelEvents' = cancelEvents \cup {r}
  /\ slots' = slots \cup {k}
  /\ \/ /\ active' = active \cup {r}
        /\ executing' = executing \cup {r}
        /\ workerCount' = workerCount + 1
        /\ poolStarted' = TRUE
        /\ UNCHANGED <<recorded, lock>>
     \/ (* the thread could not start: the handler undoes the accounting    *)
        (* and tries every queue before the exception leaves the region     *)
        /\ ThreadStartMayFail
        /\ recorded' = RecordAll({r}, "dropped")
        /\ lock' = Unwinding
        /\ UNCHANGED <<active, executing, workerCount, poolStarted>>
  /\ UNCHANGED <<keyOf, removed, shuttingDown, poolClosed, cancelled, outcome>>

Drained == \A k \in lock.scope : ~CanDispatch(k)

(* Mutant: a rule is forgotten under runs that are still executing.         *)
PrunableEarly(k, act, exe, rem) ==
  k \in rem /\ \A r \in act : keyOf[r] # k

(* _prune_removed_rule: forget a removed rule with nothing left to run.     *)
Prunable(k, act, exe, rem) ==
  k \in rem /\ \A r \in act \cup exe : keyOf[r] # k
Prune(k, act, exe, rem) ==
  /\ removed' = IF Prunable(k, act, exe, rem) THEN rem \ {k} ELSE rem
  /\ slots' = IF Prunable(k, act, exe, rem) THEN slots \ {k} ELSE slots

-----------------------------------------------------------------------------
(* A run on its worker thread.                                              *)

Begin(r) ==
  /\ phase[r] = "pooled"
  /\ poolStarted
  /\ IF r \in cancelled
     THEN /\ phase' = [phase EXCEPT ![r] = "checked"]
          /\ outcome' = [outcome EXCEPT ![r] = "cancelled"]
     ELSE /\ phase' = [phase EXCEPT ![r] = "running"]
          /\ UNCHANGED outcome
  /\ UNCHANGED <<keyOf, queue, active, executing, workerCount, removed, slots,
                 shuttingDown, poolClosed, poolStarted, lock, cancelEvents, cancelled, recorded>>

(* The action sequence is over and the cancel event is looked at for the    *)
(* last time.  An action may itself report a cancellation, which sets the   *)
(* event; the sequence may also raise.                                      *)
ActionsEnd(r) ==
  /\ phase[r] = "running"
  /\ phase' = [phase EXCEPT ![r] = "checked"]
  /\ \/ /\ r \notin cancelled
        /\ outcome' = [outcome EXCEPT ![r] = "completed"]
        /\ UNCHANGED cancelled
     \/ /\ outcome' = [outcome EXCEPT ![r] = "cancelled"]
        /\ cancelled' = cancelled \cup {r}
     \/ /\ outcome' = [outcome EXCEPT ![r] = "crashed"]
        /\ UNCHANGED cancelled
  /\ UNCHANGED <<keyOf, queue, active, executing, workerCount, removed, slots,
                 shuttingDown, poolClosed, poolStarted, lock, cancelEvents, recorded>>

(* _finish_run: from here on cancel_run answers False.                      *)
FinishRun(r) ==
  /\ phase[r] = "checked"
  /\ phase' = [phase EXCEPT ![r] = "finished"]
  /\ cancelEvents' = cancelEvents \ {r}
  /\ UNCHANGED <<keyOf, queue, active, executing, workerCount, removed, slots,
                 shuttingDown, poolClosed, poolStarted, lock, cancelled, outcome, recorded>>

(* The terminal event reaches on_run_event before the run history, which    *)
(* gets it as soon as on_run_event returns: a run that is no longer active  *)
(* cannot be replaced, so nothing can come between the two.                 *)
Settle(r) ==
  /\ phase[r] = "finished"
  /\ LockFree
  /\ IF r \in active
     THEN /\ active' = active \ {r}
          /\ lock' = Held("settle", r, {keyOf[r]})
          /\ UNCHANGED <<phase, recorded>>
     ELSE /\ phase' = [phase EXCEPT ![r] = "closing"]
          /\ recorded' = RecordAll({r}, outcome[r])
          /\ UNCHANGED <<active, lock>>
  /\ UNCHANGED <<keyOf, queue, executing, workerCount, removed, slots,
                 shuttingDown, poolClosed, poolStarted, cancelEvents, cancelled, outcome>>

(* on_run_event returns.  If a dispatch raised, the event is not recorded:  *)
(* the exception leaves execute_workflow, and _run_entry reports            *)
(* workflow_failed instead - unless that report is itself what raised.      *)
SettleDone(r) ==
  /\ lock.site = "settle" /\ lock.run = r
  /\ Drained
  /\ lock' = Free
  /\ IF ~lock.unwinding
     THEN /\ phase' = [phase EXCEPT ![r] = "closing"]
          /\ recorded' = RecordAll({r}, outcome[r])
          /\ Prune(keyOf[r], active, executing, removed)
          /\ UNCHANGED outcome
     ELSE /\ phase' = [phase EXCEPT ![r] = IF outcome[r] = "crashed" THEN "closing" ELSE "finished"]
          /\ outcome' = [outcome EXCEPT ![r] = "crashed"]
          /\ UNCHANGED <<removed, slots, recorded>>
  /\ UNCHANGED <<keyOf, queue, active, executing, workerCount, shuttingDown,
                 poolClosed, poolStarted, cancelEvents, cancelled>>

(* _retire_run, which runs whatever execute_workflow did.                   *)
Retire(r) ==
  /\ phase[r] = "closing"
  /\ LockFree
  /\ active' = active \ {r}
  /\ lock' = Held("retire", r, {keyOf[r]})
  /\ UNCHANGED <<phase, keyOf, queue, executing, workerCount, removed, slots,
                 shuttingDown, poolClosed, poolStarted, cancelEvents, cancelled, outcome, recorded>>

RetireDone(r) ==
  /\ lock.site = "retire" /\ lock.run = r
  /\ Drained
  /\ lock' = Free
  /\ phase' = [phase EXCEPT ![r] = "leaving"]
  /\ IF lock.unwinding THEN UNCHANGED <<removed, slots>>
     ELSE Prune(keyOf[r], active, executing, removed)
  /\ UNCHANGED <<keyOf, queue, active, executing, workerCount, shuttingDown,
                 poolClosed, poolStarted, cancelEvents, cancelled, outcome, recorded>>

(* The finally block of the pool's entry function.  The lookup of the       *)
(* rule's executing set raises when the rule was pruned meanwhile.          *)
Exit(r) ==
  /\ phase[r] = "leaving"
  /\ LockFree
  /\ workerCount' = workerCount - 1
  /\ IF keyOf[r] \in slots
     THEN /\ executing' = executing \ {r}
          /\ Prune(keyOf[r], active, executing \ {r}, removed)
          /\ lock' = Held("exit", r, Key)
          /\ UNCHANGED phase
     ELSE /\ phase' = [phase EXCEPT ![r] = "gone"]
          /\ UNCHANGED <<executing, removed, slots, lock>>
  /\ UNCHANGED <<keyOf, queue, active, shuttingDown, poolClosed, poolStarted, cancelEvents,
                 cancelled, outcome, recorded>>

ExitDone(r) ==
  /\ lock.site = "exit" /\ lock.run = r
  /\ Drained
  /\ lock' = Free
  /\ phase' = [phase EXCEPT ![r] = "gone"]
  /\ UNCHANGED <<keyOf, queue, active, executing, workerCount, removed, slots,
                 shuttingDown, poolClosed, poolStarted, cancelEvents, cancelled, outcome, recorded>>

RefuseDone(r) ==
  /\ lock.site = "refuse" /\ lock.run = r
  /\ Drained
  /\ lock' = Free
  /\ UNCHANGED <<phase, keyOf, queue, active, executing, workerCount, removed,
                 slots, shuttingDown, poolClosed, poolStarted, cancelEvents, cancelled,
                 outcome, recorded>>

-----------------------------------------------------------------------------
(* The rest of the interface.                                               *)

(* cancel_run through the API.                                              *)
CancelRun(r) ==
  /\ r \in cancelEvents
  /\ cancelled' = cancelled \cup {r}
  /\ UNCHANGED <<phase, keyOf, queue, active, executing, workerCount, removed,
                 slots, shuttingDown, poolClosed, poolStarted, lock, cancelEvents, outcome,
                 recorded>>

(* Mutant: the dropped runs leave no trace.                                 *)
DropRuleSilently(k) ==
  /\ LockFree
  /\ queue' = [queue EXCEPT ![k] = <<>>]
  /\ phase' = [r \in Run |-> IF r \in RunsIn(queue[k]) THEN "gone" ELSE phase[r]]
  /\ Prune(k, active, executing, removed \cup {k})
  /\ UNCHANGED <<keyOf, active, executing, workerCount, shuttingDown, poolClosed,
                 poolStarted, lock, cancelEvents, cancelled, outcome, recorded>>

(* drop_rule: the rule is no longer configured.                             *)
DropRule(k) ==
  /\ LockFree
  /\ queue' = [queue EXCEPT ![k] = <<>>]
  /\ phase' = [r \in Run |-> IF r \in RunsIn(queue[k]) THEN "gone" ELSE phase[r]]
  /\ recorded' = RecordAll(RunsIn(queue[k]), "dropped")
  /\ Prune(k, active, executing, removed \cup {k})
  /\ UNCHANGED <<keyOf, active, executing, workerCount, shuttingDown, poolClosed, poolStarted,
                 lock, cancelEvents, cancelled, outcome>>

(* shutdown, up to the release of the lock; it may be called again.         *)
Shutdown ==
  /\ LockFree
  /\ shuttingDown' = TRUE
  /\ queue' = [k \in Key |-> <<>>]
  /\ phase' = [r \in Run |-> IF r \in Waiting THEN "gone" ELSE phase[r]]
  /\ recorded' = RecordAll(Waiting, "dropped")
  /\ UNCHANGED <<keyOf, active, executing, workerCount, removed, slots,
                 poolClosed, poolStarted, lock, cancelEvents, cancelled, outcome>>

(* shutdown, its second half: the pool takes no more work.                  *)
ClosePool ==
  /\ shuttingDown /\ ~poolClosed
  /\ poolClosed' = TRUE
  /\ UNCHANGED <<phase, keyOf, queue, active, executing, workerCount, removed,
                 slots, shuttingDown, poolStarted, lock, cancelEvents, cancelled, outcome,
                 recorded>>

-----------------------------------------------------------------------------
Worker(r) ==
  \/ Begin(r) \/ ActionsEnd(r) \/ FinishRun(r) \/ Settle(r) \/ SettleDone(r)
  \/ Retire(r) \/ RetireDone(r) \/ Exit(r) \/ ExitDone(r)

Submitter(r) ==
  \/ \E c \in Snapshots[keyOf[r]] : Submit(r, c)
  \/ SpawnOk(r) \/ SpawnFailed(r) \/ RefuseDone(r)

Next ==
  \/ \E r \in Run : Worker(r) \/ Submitter(r) \/ CancelRun(r)
  \/ \E k \in Key : DispatchHead(k) \/ DropRule(k)
  \/ Shutdown
  \/ ClosePool

Spec == Init /\ [][Next]_vars

(* The threads of the pool, the locked regions and the submitting threads   *)
(* keep going; nothing promises that a workflow's actions ever return.      *)
Fairness ==
  /\ \A r \in Run :
       /\ WF_vars(Begin(r) \/ FinishRun(r) \/ Settle(r) \/ SettleDone(r)
                  \/ Retire(r) \/ RetireDone(r) \/ Exit(r) \/ ExitDone(r))
       /\ WF_vars(SpawnOk(r) \/ SpawnFailed(r) \/ RefuseDone(r))
  /\ WF_vars(\E k \in Key : DispatchHead(k))

FairSpec == Spec /\ Fairness

-----------------------------------------------------------------------------
(* Properties.                                                              *)

(* The type invariant of the scheduler's and the executor's bookkeeping.    *)
TypeOK ==
  /\ phase \in [Run -> Phases]
  /\ keyOf \in [Run -> Key]
  /\ queue \in [Key -> Seq(Entry)]
  /\ active \subseteq Run
  /\ executing \subseteq Run
  /\ workerCount \in Int
  /\ removed \subseteq Key
  /\ slots \subseteq Key
  /\ shuttingDown \in BOOLEAN
  /\ poolClosed \in BOOLEAN
  /\ poolStarted \in BOOLEAN
  /\ lock \in LockStates
  /\ cancelEvents \subseteq Run
  /\ cancelled \subseteq Run
  /\ outcome \in [Run -> Outcomes]
  /\ recorded \in [Run -> Terminal \cup {"open"}]

(* Runs that hold a worker: admitted and not yet out of the entry function. *)
Occupying ==
  {r \in Run : /\ phase[r] \in InPool \cup {"spawning"}
               /\ ~(lock.site = "exit" /\ lock.run = r)}

(* The count of busy workers, the rules' executing sets and the runs that   *)
(* really are on their way through the pool never drift apart, whatever     *)
(* mixture of submissions, replacements, refusals and exits happens, and    *)
(* the pool is never overcommitted (rule_scheduler.py 118-142, 244-277).    *)
(* It takes threads that can be started: see WaitingForSomebody.            *)
WorkersAccounted ==
  /\ executing = Occupying
  /\ workerCount = Cardinality(executing)
  /\ workerCount <= MaxWorkers

(* A queued run is never stranded: outside the locked regions a non-empty   *)
(* queue means that every worker is busy or that the rule is at the         *)
(* concurrency its oldest waiting run allows (rule_scheduler.py 163-178,    *)
(* 225-242, 309-329).  It takes threads that can be started.                *)
NoStrandedQueue ==
  LockFree => \A k \in Key : ~CanDispatch(k)

(* The same however many threads fail to start: whoever waits, waits for    *)
(* somebody.  While a run is queued some run is counted as executing, and   *)
(* its exit serves every queue.  (The queued run may be stranded until then *)
(* beside a free worker: when a thread could not start, its orphaned item   *)
(* may leave the pool after its rule was forgotten, rule_scheduler.py 258,  *)
(* and its exit raises before it serves the queues.)                        *)
WaitingForSomebody ==
  LockFree /\ Waiting # {} => executing # {}

Inside(k) == {r \in Run : keyOf[r] = k /\ phase[r] = "running"}
WithinCap(k, runs) ==
  runs = {} \/ \E c \in Snapshots[k] : Cardinality(runs) <= Cap(c)

(* A rule never executes more runs than its settings - the most generous of *)
(* them, for a rule that is edited - allow: not counting runs that were     *)
(* told to stop, and, unless it may be replaced, counting every run.  In    *)
(* particular two runs of a `single` or `queue` rule never have their       *)
(* actions in progress together.                                            *)
ConcurrencyCap ==
  \A k \in Key :
    /\ WithinCap(k, Inside(k) \ cancelled)
    /\ (\A c \in Snapshots[k] : Mode(c) # "replace") => WithinCap(k, Inside(k))

(* The run history tells the truth: a run recorded as dropped never touches *)
(* its actions, one recorded as replaced was told to stop or never started, *)
(* completed / cancelled / failed agrees with how the actions ended, and no *)
(* run leaves the scheduler without a terminal event.                       *)
HistoryHonest ==
  \A r \in Run :
    /\ recorded[r] = "dropped" => phase[r] = "gone" /\ outcome[r] = "none"
    /\ recorded[r] = "replaced" => r \in cancelled \/ (phase[r] = "gone" /\ outcome[r] = "none")
    /\ recorded[r] \in Outcomes => recorded[r] = outcome[r]
    /\ phase[r] = "gone" => recorded[r] # "open"

(* Once the scheduler is shutting down nothing is admitted or taken from a  *)
(* queue, so the count wait_for_idle waits for can only fall.               *)
ShutdownOnlyDrains ==
  [][shuttingDown => /\ workerCount' <= workerCount
                     /\ active' \subseteq active
                     /\ \A k \in Key : queue'[k] = <<>>]_vars

(* Once its actions are over a run gets out of the pool with its terminal   *)
(* event recorded, even if other runs hang; and unless some run's actions   *)
(* hang for ever, every submitted run - waiting ones included - gets out    *)
(* (rule_scheduler.py 225-242, 255-318).                                    *)
RunsGetThrough ==
  /\ \A r \in Run : (phase[r] = "checked") ~> (phase[r] = "gone")
  /\ \/ \E r \in Run : <>[](phase[r] = "running")
     \/ \A r \in Run : (phase[r] # "new") ~> (phase[r] = "gone")

-----------------------------------------------------------------------------
(* The scheduler implements RunAdmission while threads can be started.      *)

Admission == INSTANCE RunAdmission WITH
  owner <- keyOf,
  line <- [k \in Key |-> [i \in DOMAIN queue[k] |-> queue[k][i].run]],
  busy <- executing,
  over <- {r \in Run : phase[r] = "gone" \/ (lock.site = "exit" /\ lock.run = r)},
  closed <- shuttingDown

(* Every behaviour of the scheduler is one that RunAdmission allows: bounds *)
(* on busy and waiting runs, first come first served per rule, over is      *)
(* over, nobody enters after shutdown.                                      *)
ImplementsAdmission == Admission!Spec
=============================================================================
