-------------------------- MODULE RuntimeController --------------------------
(***************************************************************************)
(* Starting and stopping the engine: core/runtime_controller.py and the    *)
(* part of core/engine.py that runs one generation and cleans up after it. *)
(*                                                                         *)
(* Every start makes a generation: an engine and a thread that runs it.    *)
(* Start and stop are called from the API's threads and from the tray, the *)
(* signal handlers ask for a stop, and nothing but the controller's short  *)
(* critical sections orders them; an engine's clean-up is run by its own   *)
(* thread and again by a stop that finds it unfinished.                    *)
(***************************************************************************)
EXTENDS Integers, FiniteSets

CONSTANTS
  Caller,          \* threads that may call stop()
  MaxGenerations   \* bound: number of generations started

ASSUME GenerationsAssumption == MaxGenerations \in Nat

Generation == 1..MaxGenerations
Nobody == 0        \* None, where a generation's thread or engine may stand

VARIABLES
  state,       \* _state
  generation,  \* _generation
  signal,      \* the generations whose shutdown event is set
  thread,      \* _engine_thread: whose it is
  current,     \* _current_engine: whose it is
  pc,          \* where each generation's thread is
  engine,      \* the engine of each generation
  call,        \* where each caller's stop() is, and what it has read
  overtaken    \* engines shut down by a stop() that had begun before them

controller == <<state, generation, signal, thread, current>>
vars == <<controller, pc, engine, call, overtaken>>

States == {"stopped", "starting", "running", "stopping"}

(* An engine: what is left of its work, and how far its clean-up has got.   *)
Engine == [
  built : BOOLEAN,     \* has the factory returned it?
  flagged : BOOLEAN,   \* has _run taken over the shutdown event?
  triggers : {"none", "alive", "asked"},   \* its trigger threads
  runs : BOOLEAN,      \* are there workflow runs?
  refusing : BOOLEAN,  \* has the scheduler been shut down?
  clean : BOOLEAN,     \* _shutdown_clean
  closed : BOOLEAN,    \* _privilege_session_closed
  cleaned : BOOLEAN,   \* _runtime_cleaned
  unloaded : BOOLEAN,  \* _plugins_shutdown: have its plug-ins been torn down?
  stage : {"free", "asking", "joining", "waiting", "tearing"},  \* of _cleanup_runtime
  stopped : BOOLEAN]   \* did the triggers exit in this clean-up?

NoEngine == [built |-> FALSE, flagged |-> FALSE, triggers |-> "none", runs |-> FALSE,
             refusing |-> FALSE, clean |-> TRUE, closed |-> FALSE, cleaned |-> FALSE,
             unloaded |-> FALSE, stage |-> "free", stopped |-> FALSE]

(* The thread's places inside engine.start(), and all of them.              *)
Inside == {"built", "opened", "preparing", "mounting", "looping", "cleaning", "tidying", "closing"}
Places == {"none", "making", "ending", "endedClean", "endedUnclean", "dying", "dead"} \union Inside

Alive(g) == pc[g] \notin {"none", "dead"}
ThreadAlive == thread # Nobody /\ Alive(thread)

(* A call of stop(): its place, the thread and the generation it read       *)
(* together, and the engine it read later.                                  *)
Call == [at : {"idle", "asked", "joining", "reading", "shutting", "cleaning", "tidying",
               "judging", "finishing"},
         thread : {Nobody} \union Generation,
         generation : {Nobody} \union Generation,
         engine : {Nobody} \union Generation]
NoCall == [at |-> "idle", thread |-> Nobody, generation |-> Nobody, engine |-> Nobody]

Init ==
  /\ state = "stopped" /\ generation = 0 /\ signal = {}
  /\ thread = Nobody /\ current = Nobody
  /\ pc = [g \in Generation |-> "none"]
  /\ engine = [g \in Generation |-> NoEngine]
  /\ call = [c \in Caller |-> NoCall]
  /\ overtaken = {}

-----------------------------------------------------------------------------
(* start(), under the lifecycle lock.  The last generation's event is       *)
(* replaced; its thread is dead, so nobody reads it again.                  *)
MayStart ==
  /\ state \notin {"running", "starting"}
  /\ ~ThreadAlive
  /\ current = Nobody

Start ==
  /\ MayStart
  /\ generation < MaxGenerations
  /\ generation' = generation + 1
  /\ thread' = generation + 1
  /\ pc' = [pc EXCEPT ![generation + 1] = "making"]
  /\ state' = "starting"
  /\ signal' = signal \ {generation}
  /\ UNCHANGED <<current, engine, call, overtaken>>

(* thread.start() raises: the generation is used up.                        *)
StartFails ==
  /\ MayStart
  /\ generation < MaxGenerations
  /\ generation' = generation + 1
  /\ thread' = Nobody
  /\ state' = "stopped"
  /\ signal' = signal \ {generation}
  /\ UNCHANGED <<current, pc, engine, call, overtaken>>

(* request_stop(), also under the lock: the state and the event together.   *)
AskToStop ==
  /\ state' = IF ThreadAlive THEN "stopping" ELSE state
  /\ signal' = signal \union {generation}
  /\ UNCHANGED <<generation, thread, current, pc, engine, overtaken>>

RequestStop == AskToStop /\ UNCHANGED call

-----------------------------------------------------------------------------
(* _run_generation and engine.start(), on the generation's thread.          *)
Goes(g, from, to) == pc[g] = from /\ pc' = [pc EXCEPT ![g] = to]

FactoryRaises(g) ==
  /\ Goes(g, "making", "ending")
  /\ UNCHANGED <<controller, engine, call, overtaken>>

EngineBuilt(g) ==
  /\ generation = g
  /\ Goes(g, "making", "built")
  /\ engine' = [engine EXCEPT ![g].built = TRUE]
  /\ current' = g
  /\ state' = IF g \in signal THEN "stopping" ELSE "running"
  /\ UNCHANGED <<generation, signal, thread, call, overtaken>>

(* engine.start() refuses an engine whose privilege session was closed.     *)
EngineOpens(g) ==
  /\ Goes(g, "built", IF engine[g].closed THEN "ending" ELSE "opened")
  /\ UNCHANGED <<controller, engine, call, overtaken>>

TakesFlag(g) ==
  /\ Goes(g, "opened", "preparing")
  /\ engine' = [engine EXCEPT ![g].flagged = TRUE]
  /\ UNCHANGED <<controller, call, overtaken>>

(* The integrity check, the rules and their triggers: once the plug-ins are *)
(* unloaded no rule finds its trigger.                                      *)
RulesPrepared(g) ==
  /\ ~engine[g].unloaded
  /\ Goes(g, "preparing", "mounting")
  /\ UNCHANGED <<controller, engine, call, overtaken>>

PreparationFails(g) ==
  /\ Goes(g, "preparing", "cleaning")
  /\ UNCHANGED <<controller, engine, call, overtaken>>

(* The supervisor's lifecycle lock keeps a start of triggers out of a stop. *)
MountTriggers(g) ==
  /\ engine[g].stage # "joining"
  /\ Goes(g, "mounting", "looping")
  /\ engine' = [engine EXCEPT ![g].triggers = "alive"]
  /\ UNCHANGED <<controller, call, overtaken>>

LoopEnds(g) ==
  /\ g \in signal
  /\ Goes(g, "looping", "cleaning")
  /\ UNCHANGED <<controller, engine, call, overtaken>>

(* engine.start()'s finally.                                                *)
Closes(g) ==
  /\ Goes(g, "closing", "ending")
  /\ engine' = [engine EXCEPT ![g].closed = @ \/ engine[g].clean]
  /\ UNCHANGED <<controller, call, overtaken>>

(* Mutant: an engine is let go of whether it is clean or not.               *)
EndsAnyway(g) ==
  /\ generation = g
  /\ Goes(g, "ending", "endedClean")
  /\ current' = Nobody
  /\ UNCHANGED <<state, generation, signal, thread, engine, call, overtaken>>

(* The finally of _run_generation: under the lock, and after it.  Without an *)
(* engine there is nothing unclean.                                         *)
Ends(g) ==
  /\ generation = g
  /\ LET clean == current = Nobody \/ engine[current].clean
     IN  /\ Goes(g, "ending", IF clean THEN "endedClean" ELSE "endedUnclean")
         /\ current' = IF clean THEN Nobody ELSE current
  /\ UNCHANGED <<state, generation, signal, thread, engine, call, overtaken>>

Reports(g) ==
  /\ pc[g] \in {"endedClean", "endedUnclean"}
  /\ pc' = [pc EXCEPT ![g] = "dying"]
  /\ state' = IF pc[g] = "endedClean" THEN "stopped" ELSE "stopping"
  /\ UNCHANGED <<generation, signal, thread, current, engine, call, overtaken>>

Dies(g) ==
  /\ Goes(g, "dying", "dead")
  /\ UNCHANGED <<controller, engine, call, overtaken>>

-----------------------------------------------------------------------------
(* stop().  A caller's clean-up has the engine it read, the thread's its    *)
(* own: both go through the same places, the lock being held in "tidying".  *)
StopAsks(c) ==
  /\ call[c].at = "idle"
  /\ AskToStop
  /\ call' = [call EXCEPT ![c].at = "asked"]

StopReads(c) ==
  /\ call[c].at = "asked"
  /\ call' = [call EXCEPT ![c] = [at |-> IF ThreadAlive THEN "joining" ELSE "reading",
                                  thread |-> IF ThreadAlive THEN thread ELSE Nobody,
                                  generation |-> generation,
                                  engine |-> Nobody]]
  /\ UNCHANGED <<controller, pc, engine, overtaken>>

StopJoins(c) ==
  /\ call[c].at = "joining"
  /\ ~Alive(call[c].thread)
  /\ call' = [call EXCEPT ![c].at = "reading", ![c].thread = Nobody]
  /\ UNCHANGED <<controller, pc, engine, overtaken>>

StopTimesOut(c) ==
  /\ call[c].at = "joining"
  /\ Alive(call[c].thread)
  /\ call' = [call EXCEPT ![c] = NoCall]
  /\ UNCHANGED <<controller, pc, engine, overtaken>>

StopLooks(c) ==
  /\ call[c].at = "reading"
  /\ call' = [call EXCEPT ![c].engine = current,
                          ![c].at = IF current = Nobody THEN "finishing" ELSE "shutting"]
  /\ UNCHANGED <<controller, pc, engine, overtaken>>

(* engine.shutdown() sets the engine's event, once the engine has one.      *)
ShutdownBegins(c) ==
  LET e == call[c].engine
  IN  /\ call[c].at = "shutting"
      /\ call' = [call EXCEPT ![c].at = "cleaning"]
      /\ signal' = signal \union (IF engine[e].flagged THEN {e} ELSE {})
      /\ overtaken' = overtaken \union (IF e # call[c].generation THEN {e} ELSE {})
      /\ UNCHANGED <<state, generation, thread, current, pc, engine>>

(* The end of shutdown(), and stop()'s look at what it left.                *)
ShutdownEnds(c) ==
  LET e == call[c].engine
  IN  /\ call[c].at = "judging"
      /\ engine' = [engine EXCEPT ![e].closed = @ \/ engine[e].clean]
      /\ call' = IF engine[e].clean
                 THEN [call EXCEPT ![c].at = "finishing"]
                 ELSE [call EXCEPT ![c] = NoCall]
      /\ UNCHANGED <<controller, pc, overtaken>>

(* Mutant: the generation is not compared.                                  *)
AnyGeneration(c) == generation >= call[c].generation

(* Under the lock: FALSE when a generation was started meanwhile.           *)
StillMine(c) == generation = call[c].generation

StopFinishes(c) ==
  /\ call[c].at = "finishing"
  /\ StillMine(c)
  /\ current' = IF current = call[c].engine THEN Nobody ELSE current
  /\ state' = "stopped"
  /\ call' = [call EXCEPT ![c] = NoCall]
  /\ UNCHANGED <<generation, signal, thread, pc, engine, overtaken>>

StopSuperseded(c) ==
  /\ call[c].at = "finishing"
  /\ ~StillMine(c)
  /\ call' = [call EXCEPT ![c] = NoCall]
  /\ UNCHANGED <<controller, pc, engine, overtaken>>

-----------------------------------------------------------------------------
(* _cleanup_runtime() of engine e, by whoever is at its places.             *)
Moves(e, from, asThread, asCaller) ==
  \/ Goes(e, from, asThread) /\ UNCHANGED call
  \/ \E c \in Caller :
       /\ call[c].engine = e /\ call[c].at = from
       /\ call' = [call EXCEPT ![c].at = asCaller]
       /\ UNCHANGED pc

Leaves(e) == Moves(e, "tidying", "closing", "judging")
Asked(e) == IF engine[e].triggers = "alive" THEN "asked" ELSE engine[e].triggers

CleanupSkipped(e) ==
  /\ engine[e].stage = "free" /\ engine[e].cleaned
  /\ Moves(e, "cleaning", "closing", "judging")
  /\ UNCHANGED <<controller, engine, overtaken>>

(* Mutant: _runtime_cleaned is not looked at.                               *)
BeginsAgain(e) ==
  /\ engine[e].stage = "free"
  /\ Moves(e, "cleaning", "tidying", "tidying")
  /\ engine' = [engine EXCEPT ![e].refusing = TRUE, ![e].triggers = Asked(e),
                              ![e].stage = "asking"]
  /\ UNCHANGED <<controller, overtaken>>

CleanupBegins(e) ==
  /\ engine[e].stage = "free" /\ ~engine[e].cleaned
  /\ Moves(e, "cleaning", "tidying", "tidying")
  /\ engine' = [engine EXCEPT ![e].refusing = TRUE, ![e].triggers = Asked(e),
                              ![e].stage = "asking"]
  /\ UNCHANGED <<controller, overtaken>>

AsksTriggers(e) ==
  /\ engine[e].stage = "asking"
  /\ engine' = [engine EXCEPT ![e].triggers = Asked(e), ![e].stage = "joining"]
  /\ UNCHANGED <<controller, pc, call, overtaken>>

(* Mutant: a join without a deadline.                                       *)
JoinsForever(e) ==
  /\ engine[e].stage = "joining" /\ engine[e].triggers = "none"
  /\ engine' = [engine EXCEPT ![e].stopped = TRUE, ![e].stage = "waiting"]
  /\ UNCHANGED <<controller, pc, call, overtaken>>

(* The joins and the waits end, by a deadline when not by their condition.  *)
JoinsTriggers(e) ==
  /\ engine[e].stage = "joining"
  /\ engine' = [engine EXCEPT ![e].stopped = (engine[e].triggers = "none"),
                              ![e].stage = "waiting"]
  /\ UNCHANGED <<controller, pc, call, overtaken>>

WorkDrained(e) == engine[e].stopped /\ ~engine[e].runs

CleanupDrained(e) ==
  /\ engine[e].stage = "waiting" /\ WorkDrained(e)
  /\ engine' = [engine EXCEPT ![e].clean = TRUE, ![e].closed = TRUE,
                              ![e].stage = "tearing", ![e].stopped = FALSE]
  /\ UNCHANGED <<controller, pc, call, overtaken>>

CleanupGivesUp(e) ==
  /\ engine[e].stage = "waiting" /\ ~WorkDrained(e)
  /\ engine' = [engine EXCEPT ![e].clean = FALSE, ![e].closed = TRUE,
                              ![e].stage = "free", ![e].stopped = FALSE]
  /\ Leaves(e)
  /\ UNCHANGED <<controller, overtaken>>

TearsDown(e) ==
  /\ engine[e].stage = "tearing"
  /\ engine' = [engine EXCEPT ![e].unloaded = TRUE, ![e].cleaned = TRUE, ![e].stage = "free"]
  /\ Leaves(e)
  /\ UNCHANGED <<controller, overtaken>>

(* What the engine's work does meanwhile.                                   *)
TriggerExits(e) ==
  /\ engine[e].triggers # "none"
  /\ engine' = [engine EXCEPT ![e].triggers = "none"]
  /\ UNCHANGED <<controller, pc, call, overtaken>>

RunStarts(e) ==
  /\ engine[e].triggers # "none" /\ ~engine[e].refusing /\ ~engine[e].runs
  /\ engine' = [engine EXCEPT ![e].runs = TRUE]
  /\ UNCHANGED <<controller, pc, call, overtaken>>

RunEnds(e) ==
  /\ engine[e].runs
  /\ engine' = [engine EXCEPT ![e].runs = FALSE]
  /\ UNCHANGED <<controller, pc, call, overtaken>>

-----------------------------------------------------------------------------
ThreadStep(g) ==
  \/ FactoryRaises(g) \/ EngineBuilt(g) \/ EngineOpens(g) \/ TakesFlag(g)
  \/ RulesPrepared(g) \/ PreparationFails(g) \/ MountTriggers(g) \/ LoopEnds(g)
  \/ Closes(g) \/ Ends(g) \/ Reports(g) \/ Dies(g)

CleanupStep(e) ==
  \/ CleanupSkipped(e) \/ CleanupBegins(e) \/ AsksTriggers(e) \/ JoinsTriggers(e)
  \/ CleanupDrained(e) \/ CleanupGivesUp(e) \/ TearsDown(e)

WorkStep(e) == TriggerExits(e) \/ RunStarts(e) \/ RunEnds(e)

StopStep(c) ==
  \/ StopReads(c) \/ StopJoins(c) \/ StopTimesOut(c) \/ StopLooks(c)
  \/ ShutdownBegins(c) \/ ShutdownEnds(c) \/ StopFinishes(c) \/ StopSuperseded(c)

Next ==
  \/ Start \/ StartFails \/ RequestStop
  \/ \E g \in Generation : ThreadStep(g) \/ CleanupStep(g) \/ WorkStep(g)
  \/ \E c \in Caller : StopAsks(c) \/ StopStep(c)

Spec == Init /\ [][Next]_vars

(* A thread that can go on does: its own code, and a clean-up, whose every  *)
(* wait has a deadline.  Nothing is owed by triggers, by runs or by callers. *)
FairSpec ==
  /\ Spec
  /\ \A g \in Generation : WF_vars(ThreadStep(g)) /\ WF_vars(CleanupStep(g))

-----------------------------------------------------------------------------
TypeOK ==
  /\ state \in States
  /\ generation \in 0..MaxGenerations
  /\ signal \subseteq 0..MaxGenerations
  /\ thread \in {Nobody} \union Generation
  /\ current \in {Nobody} \union Generation
  /\ pc \in [Generation -> Places]
  /\ engine \in [Generation -> Engine]
  /\ call \in [Caller -> Call]
  /\ overtaken \subseteq Generation

(* The controller says "stopped" only when no generation's thread has work  *)
(* left and no engine is kept; and two threads never live together.  A late *)
(* answer of a stop() that was overtaken by a start would break it          *)
(* (runtime_controller.py:230), and a start that looks at the state alone.  *)
Over(g) == pc[g] \in {"none", "dying", "dead"}

StoppedMeansOver ==
  /\ state = "stopped" => current = Nobody /\ \A g \in Generation : Over(g)
  /\ \A g, h \in Generation : Alive(g) /\ Alive(h) => g = h

(* "running" is never shown for an engine that has been asked to stop, not  *)
(* even when the request falls between the start and the end of the factory *)
(* (runtime_controller.py:167).                                             *)
RunningMeansWanted ==
  state = "running" /\ generation \notin overtaken => generation \notin signal

(* When the controller says "stopped", nothing of any generation runs: no   *)
(* trigger thread, no workflow run, no privilege session; so a start never  *)
(* puts a second runtime beside a first.  Except of an engine shut down     *)
(* before it began, by a stop() already under way when it was started.      *)
Quiet(e) == engine[e].triggers = "none" /\ ~engine[e].runs

StoppedMeansQuiet ==
  state = "stopped" =>
    \A e \in Generation \ overtaken : engine[e].built => Quiet(e) /\ engine[e].closed

(* A generation's plug-ins are torn down once, when nothing of it runs,     *)
(* whoever cleans up: its thread, or several calls of stop() at once.       *)
UnloadedIdle ==
  \A e \in Generation \ overtaken :
    /\ engine[e].unloaded => Quiet(e)
    /\ engine[e].stage = "tearing" => ~engine[e].unloaded

(* stop() answers "whether it has stopped completely"                       *)
(* (runtime_controller.py:211): with TRUE nothing of an engine is running   *)
(* and its plug-ins have been torn down.                                    *)
StopIsComplete ==
  [][\A c \in Caller :
       StopFinishes(c) =>
         \A e \in Generation \ overtaken :
           engine[e].built => Quiet(e) /\ engine[e].closed /\ engine[e].unloaded]_vars

(* A generation that has been asked to stop does stop: its thread ends,     *)
(* whatever it is at and whatever its triggers and runs do.                 *)
StopIsHeeded == \A g \in Generation : g \in signal /\ Alive(g) ~> ~Alive(g)
=============================================================================
