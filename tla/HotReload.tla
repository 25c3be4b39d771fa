------------------------------ MODULE HotReload ------------------------------
(***************************************************************************)
(* Hot reload of rules.json: core/hot_reloader.py, driven once a second by *)
(* the engine's main loop (core/engine.py), and the trigger threads it     *)
(* stops and starts through core/trigger_supervisor.py.                    *)
(*                                                                         *)
(* The file is written at any time by the API or by an editor.  The engine *)
(* thread, the trigger threads and the scheduler's queue interleave; a     *)
(* trigger thread that emits an event is several steps, because it reads   *)
(* the rules in force after it has looked at its stop event.               *)
(***************************************************************************)
EXTENDS Integers, FiniteSets

CONSTANTS
  Version,        \* valid contents of rules.json
  Invalid,        \* contents that fail the format, signature or structure checks
  None,           \* no rules
  Fired,          \* a trigger thread that has seen that it may emit
  Trigger,        \* instance ids of trigger threads
  Key,            \* rule keys
  TriggersOf,     \* the instances the rules of a version need
  KeysOf,         \* the rules of a version
  First,          \* the contents the engine was created with
  SavedEarly,     \* may the file be written before begin()?
  MaxWrites,      \* bound: number of writes of the file
  MaxRaises       \* bound: number of times starting triggers raises

ASSUME ReloadAssumption ==
  /\ Invalid \notin Version
  /\ TriggersOf \in [Version -> SUBSET Trigger]
  /\ KeysOf \in [Version -> SUBSET Key]
  /\ First \in Version
  /\ SavedEarly \in BOOLEAN
  /\ MaxWrites \in Nat
  /\ MaxRaises \in Nat

(* Prepared rules: what was read, and when it was noticed; a reload of the  *)
(* same contents makes another object, with condition hits of its own.      *)
Prepared == [of : Version, at : 0..MaxWrites]
ASSUME MarkersAssumption == None \notin Prepared /\ Fired \notin Prepared /\ None # Fired

(* A mounted trigger thread: the rules it was started for, is it running,   *)
(* is its stop event set?                                                   *)
Thread == [rules : Prepared, alive : BOOLEAN, asked : BOOLEAN]
NoThread == [rules |-> None, alive |-> FALSE, asked |-> FALSE]

Places == {"booting", "idle", "loading", "stopping", "joining", "applying", "starting"}

VARIABLES
  file, mtime,    \* rules.json: its contents, and its modification time
  pc,             \* where the engine thread is
  seen,           \* _rules_mtime
  at,             \* new_mtime of this round
  candidate,      \* the rules this round wants in force
  previous,       \* previous_rules of this round
  pending,        \* _pending_restore: the rules to go back to
  rules,          \* the prepared rules in force
  todo,           \* instances still to be started
  thread,         \* the supervisor's threads, events and configs
  emitting,       \* what each trigger thread's event is matched against
  waiting,        \* rules with runs in the scheduler's queues
  raises          \* how often starting triggers has raised

engine == <<pc, seen, at, candidate, previous, pending, rules, todo, raises>>
vars == <<file, mtime, engine, thread, emitting, waiting>>

(* create_engine has read the rules; the triggers are being started.        *)
Init ==
  /\ file = First /\ mtime = 0
  /\ pc = "booting"
  /\ seen = 0 /\ at = 0
  /\ candidate = None /\ previous = None /\ pending = None
  /\ rules = [of |-> First, at |-> 0]
  /\ todo = TriggersOf[First]
  /\ thread = [t \in Trigger |-> NoThread]
  /\ emitting = [t \in Trigger |-> None]
  /\ waiting = {}
  /\ raises = 0

Mounted == {t \in Trigger : thread[t] # NoThread}
Alive == {t \in Trigger : thread[t].alive}

-----------------------------------------------------------------------------
(* rules.json is saved; every save gets a modification time of its own.     *)
Save ==
  /\ mtime < MaxWrites
  /\ pc = "booting" => SavedEarly
  /\ mtime' = mtime + 1
  /\ file' \in Version \cup {Invalid}
  /\ UNCHANGED <<engine, thread, emitting, waiting>>

-----------------------------------------------------------------------------
(* TriggerSupervisor.start, one instance at a time: an instance whose       *)
(* thread is still running is refused, and one whose thread cannot be       *)
(* started is left out.                                                     *)
StartTrigger(t) ==
  /\ pc \in {"booting", "starting"}
  /\ t \in todo
  /\ todo' = todo \ {t}
  /\ IF thread[t].alive
     THEN UNCHANGED thread
     ELSE \E started \in BOOLEAN :
            thread' = [thread EXCEPT ![t] =
              IF started THEN [rules |-> rules, alive |-> TRUE, asked |-> FALSE]
              ELSE NoThread]
  /\ UNCHANGED <<file, mtime, pc, seen, at, candidate, previous, pending, rules,
                 raises, emitting, waiting>>

(* The main loop begins: the modification time is noted only now.           *)
BeginWatching ==
  /\ pc = "booting"
  /\ todo = {}
  /\ pc' = "idle"
  /\ seen' = mtime
  /\ UNCHANGED <<file, mtime, at, candidate, previous, pending, rules, todo, raises,
                 thread, emitting, waiting>>

-----------------------------------------------------------------------------
(* check_once.                                                              *)

NoticeChange ==
  /\ pc = "idle"
  /\ pending = None
  /\ mtime # seen
  /\ pc' = "loading"
  /\ at' = mtime
  /\ UNCHANGED <<file, mtime, seen, candidate, previous, pending, rules, todo,
                 raises, thread, emitting, waiting>>

(* The restore of an earlier round is tried again.                          *)
RetryRestore ==
  /\ pc = "idle"
  /\ pending # None
  /\ pc' = "stopping"
  /\ candidate' = pending
  /\ UNCHANGED <<file, mtime, seen, at, previous, pending, rules, todo, raises,
                 thread, emitting, waiting>>

Load ==
  /\ pc = "loading"
  /\ file \in Version
  /\ pc' = "stopping"
  /\ candidate' = [of |-> file, at |-> at]
  /\ UNCHANGED <<file, mtime, seen, at, previous, pending, rules, todo, raises,
                 thread, emitting, waiting>>

(* The contents are refused: this modification time is done with.           *)
LoadFails ==
  /\ pc = "loading"
  /\ file = Invalid
  /\ pc' = "idle"
  /\ seen' = at
  /\ UNCHANGED <<file, mtime, at, candidate, previous, pending, rules, todo, raises,
                 thread, emitting, waiting>>

(* TriggerSupervisor.stop: set every stop event, then join.                 *)
AskToStop ==
  /\ pc = "stopping"
  /\ pc' = "joining"
  /\ thread' = [t \in Trigger |->
       IF t \in Mounted THEN [thread[t] EXCEPT !.asked = TRUE] ELSE NoThread]
  /\ UNCHANGED <<file, mtime, seen, at, candidate, previous, pending, rules, todo,
                 raises, emitting, waiting>>

AllStopped ==
  /\ pc = "joining"
  /\ Alive = {}
  /\ pc' = "applying"
  /\ thread' = [t \in Trigger |-> NoThread]
  /\ UNCHANGED <<file, mtime, seen, at, candidate, previous, pending, rules, todo,
                 raises, emitting, waiting>>

(* Mutant: threads that did not exit in time are given up.                  *)
StopTimesOutReady ==
  /\ pc = "joining"
  /\ Alive # {}
  /\ pc' = "applying"
  /\ thread' = [t \in Trigger |-> IF t \in Alive THEN thread[t] ELSE NoThread]
  /\ UNCHANGED <<file, mtime, seen, at, candidate, previous, pending, rules, todo,
                 raises, emitting, waiting>>

(* Threads that did not exit in time stay mounted.  A reload is refused and *)
(* a restore put off; either is tried again next time.                      *)
StopTimesOut ==
  /\ pc = "joining"
  /\ Alive # {}
  /\ pc' = "idle"
  /\ candidate' = None
  /\ thread' = [t \in Trigger |-> IF t \in Alive THEN thread[t] ELSE NoThread]
  /\ UNCHANGED <<file, mtime, seen, at, previous, pending, rules, todo, raises,
                 emitting, waiting>>

(* Mutant: queued runs of removed rules are dropped at once.                *)
ApplyDropping ==
  /\ pc = "applying"
  /\ pc' = "starting"
  /\ previous' = IF pending = None THEN rules ELSE None
  /\ rules' = candidate
  /\ candidate' = None
  /\ todo' = TriggersOf[candidate.of]
  /\ waiting' = waiting \cap KeysOf[candidate.of]
  /\ UNCHANGED <<file, mtime, seen, at, pending, raises, thread, emitting>>

(* _apply_hot_reload_rules.                                                 *)
Apply ==
  /\ pc = "applying"
  /\ pc' = "starting"
  /\ previous' = IF pending = None THEN rules ELSE None
  /\ rules' = candidate
  /\ candidate' = None
  /\ todo' = TriggersOf[candidate.of]
  /\ UNCHANGED <<file, mtime, seen, at, pending, raises, thread, emitting, waiting>>

(* Mutant: the latest modification time is taken for the one that was read. *)
AcceptLatest ==
  /\ pc = "starting"
  /\ pending = None
  /\ todo = {}
  /\ pc' = "idle"
  /\ previous' = None
  /\ seen' = mtime
  /\ waiting' = waiting \cap KeysOf[rules.of]
  /\ UNCHANGED <<file, mtime, at, candidate, pending, rules, todo, raises, thread,
                 emitting>>

(* The new rules are accepted: queued runs of removed rules are dropped.    *)
Accept ==
  /\ pc = "starting"
  /\ pending = None
  /\ todo = {}
  /\ pc' = "idle"
  /\ previous' = None
  /\ seen' = at
  /\ waiting' = waiting \cap KeysOf[rules.of]
  /\ UNCHANGED <<file, mtime, at, candidate, pending, rules, todo, raises, thread,
                 emitting>>

(* Starting the new triggers raises at any point: go back to the old rules. *)
StartRaises ==
  /\ pc = "starting"
  /\ pending = None
  /\ raises < MaxRaises
  /\ raises' = raises + 1
  /\ pc' = "stopping"
  /\ pending' = previous
  /\ candidate' = previous
  /\ previous' = None
  /\ todo' = {}
  /\ UNCHANGED <<file, mtime, seen, at, rules, thread, emitting, waiting>>

(* The old rules are in force again, with their condition hits.             *)
Restored ==
  /\ pc = "starting"
  /\ pending # None
  /\ todo = {}
  /\ pc' = "idle"
  /\ pending' = None
  /\ seen' = at
  /\ UNCHANGED <<file, mtime, at, candidate, previous, rules, todo, raises, thread,
                 emitting, waiting>>

RestoreRaises ==
  /\ pc = "starting"
  /\ pending # None
  /\ raises < MaxRaises
  /\ raises' = raises + 1
  /\ pc' = "idle"
  /\ todo' = {}
  /\ UNCHANGED <<file, mtime, seen, at, candidate, previous, pending, rules, thread,
                 emitting, waiting>>

-----------------------------------------------------------------------------
(* A trigger thread: emit_checked looks at the stop event, emit_event then  *)
(* takes the rules in force, matches them and submits a run.                *)

Fire(t) ==
  /\ thread[t].alive /\ ~thread[t].asked
  /\ emitting[t] = None
  /\ emitting' = [emitting EXCEPT ![t] = Fired]
  /\ UNCHANGED <<file, mtime, engine, thread, waiting>>

TakeSnapshot(t) ==
  /\ emitting[t] = Fired
  /\ emitting' = [emitting EXCEPT ![t] = rules]
  /\ UNCHANGED <<file, mtime, engine, thread, waiting>>

Submit(t) ==
  /\ emitting[t] \in Prepared
  /\ emitting' = [emitting EXCEPT ![t] = None]
  /\ \/ \E k \in KeysOf[emitting[t].of] : waiting' = waiting \cup {k}
     \/ UNCHANGED waiting
  /\ UNCHANGED <<file, mtime, engine, thread>>

(* The thread returns because it was asked to, or returns or crashes by     *)
(* itself; it stays mounted.                                                *)
Exit(t) ==
  /\ thread[t].alive
  /\ emitting[t] = None
  /\ thread' = [thread EXCEPT ![t].alive = FALSE]
  /\ UNCHANGED <<file, mtime, engine, emitting, waiting>>

(* The scheduler starts what is waiting for a rule.                         *)
Dispatch(k) ==
  /\ k \in waiting
  /\ waiting' = waiting \ {k}
  /\ UNCHANGED <<file, mtime, engine, thread, emitting>>

-----------------------------------------------------------------------------
Engine ==
  \/ \E t \in Trigger : StartTrigger(t)
  \/ BeginWatching
  \/ NoticeChange \/ RetryRestore \/ Load \/ LoadFails
  \/ AskToStop \/ AllStopped \/ StopTimesOut
  \/ Apply \/ Accept \/ StartRaises \/ Restored \/ RestoreRaises

Emission(t) == TakeSnapshot(t) \/ Submit(t)

Next ==
  \/ Engine
  \/ Save
  \/ \E t \in Trigger : Fire(t) \/ Emission(t) \/ Exit(t)
  \/ \E k \in Key : Dispatch(k)

Spec == Init /\ [][Next]_vars

(* The engine's loop goes on, events that were fired are delivered, and a   *)
(* trigger exits after it was asked to, sooner or later.                    *)
FairSpec ==
  /\ Spec
  /\ WF_vars(Engine)
  /\ \A t \in Trigger : WF_vars(Emission(t)) /\ WF_vars(thread[t].asked /\ Exit(t))

-----------------------------------------------------------------------------
(* Properties.                                                              *)

(* The type invariant; the file is not looked at while a restore is         *)
(* pending.                                                                 *)
TypeOK ==
  /\ file \in Version \cup {Invalid}
  /\ mtime \in 0..MaxWrites
  /\ pc \in Places
  /\ seen \in 0..mtime
  /\ at \in 0..mtime
  /\ candidate \in Prepared \cup {None}
  /\ previous \in Prepared \cup {None}
  /\ pending \in Prepared \cup {None}
  /\ rules \in Prepared
  /\ todo \subseteq Trigger
  /\ thread \in [Trigger -> Thread \cup {NoThread}]
  /\ emitting \in [Trigger -> Prepared \cup {None, Fired}]
  /\ waiting \subseteq Key
  /\ raises \in 0..MaxRaises
  /\ pending # None => pc \notin {"booting", "loading"}

(* Trigger threads, the matching of their events and the rules in force     *)
(* belong to the same prepared rules at every moment, through reloads,      *)
(* failed starts and restores: no thread of rules that were replaced or     *)
(* given up is running, and no event is matched against any but the rules   *)
(* its thread was started for (hot_reloader.py 85-101, event_bus.py 53-64). *)
SamePreparedRules ==
  \A t \in Trigger :
    /\ thread[t].alive => thread[t].rules = rules
    /\ emitting[t] # None => thread[t].alive
    /\ emitting[t] \in Prepared => emitting[t] = rules

AtRest == pc = "idle" /\ pending = None /\ seen = mtime
NobodyAsked == \A t \in Mounted : ~thread[t].asked

(* When the file is no longer written, the engine comes to rest: it has     *)
(* dealt with the last contents, nothing waits to be restored, and if they  *)
(* are valid they are in force, or the rules before them if starting        *)
(* triggers has raised, with no trigger told to stop.                       *)
ReloadSettles ==
  <>[](/\ AtRest
       /\ file \in Version => /\ NobodyAsked
                              /\ rules.of = file \/ raises > 0)

(* A queued run is only dropped when new rules without its rule have been   *)
(* accepted for good: never by a reload that is refused, fails or is taken  *)
(* back (hot_reloader.py 98-101, engine.py 723-728).                        *)
DropsAreFinal ==
  [][\A k \in waiting \ waiting' :
       \/ UNCHANGED <<pc, rules>>
       \/ pc' = "idle" /\ pending' = None /\ k \notin KeysOf[rules'.of]]_vars

=============================================================================
