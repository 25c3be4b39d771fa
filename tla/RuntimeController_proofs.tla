---------------------- MODULE RuntimeController_proofs ----------------------
(* Theorems about RuntimeController, for every set of callers and every     *)
(* number of generations: whatever start, stop, signals, a generation's     *)
(* thread and the clean-ups do in between, the controller never says        *)
(* "stopped" over a thread that works, nor "running" over an engine that    *)
(* has been asked to stop; and an engine it is done with is quiet.          *)
EXTENDS RuntimeController, TLAPS

(* Where a stop() has seen the thread of the generation it read dead, and   *)
(* where it has read the engine as well.                                    *)
AfterLook == {"shutting", "cleaning", "tidying", "judging", "finishing"}
AfterJoin == {"reading"} \union AfterLook

(* The places of a thread over whose generation "running" may be shown.     *)
Shown == Inside \union {"ending", "endedClean", "endedUnclean"}

-----------------------------------------------------------------------------
(* The inductive invariant.  One thread lives, the last one started; what   *)
(* a stop() has read cannot change under it unless another generation is    *)
(* started, which StillMine notices.                                        *)
OneThread ==
  /\ thread # Nobody => thread = generation
  /\ \A g \in Generation : Alive(g) => g = thread
  /\ \A g \in Generation : g > generation => pc[g] = "none"

KeptEngine ==
  /\ current # Nobody => current = generation
  /\ \A g \in Generation : pc[g] = "endedClean" => current = Nobody

RunningIsShown ==
  state = "running" => generation \in Generation /\ pc[generation] \in Shown

Joined ==
  \A c \in Caller :
    /\ call[c].generation <= generation
    /\ call[c].at = "joining" => call[c].thread = call[c].generation /\ call[c].thread \in Generation
    /\ call[c].at \in AfterJoin /\ call[c].generation \in Generation =>
         ~Alive(call[c].generation)

Looked ==
  \A c \in Caller :
    /\ call[c].at \in AfterLook /\ call[c].generation = generation =>
         current \in {call[c].engine, Nobody}
    /\ call[c].at \in AfterLook \ {"finishing"} => call[c].engine # Nobody

IInv ==
  /\ TypeOK
  /\ OneThread
  /\ KeptEngine
  /\ RunningIsShown
  /\ Joined
  /\ Looked
  /\ StoppedMeansOver
  /\ RunningMeansWanted

-----------------------------------------------------------------------------
LEMMA InitIInv == Init => IInv
<1> SUFFICES ASSUME Init PROVE IInv
  OBVIOUS
<1>1. TypeOK
  <2>1. NoEngine \in Engine /\ NoCall \in Call
    BY DEF NoEngine, Engine, NoCall, Call, Nobody
  <2> QED
    BY <2>1, GenerationsAssumption DEF Init, TypeOK, States, Places, Nobody
<1>2. OneThread /\ KeptEngine /\ StoppedMeansOver /\ RunningIsShown /\ RunningMeansWanted
  BY DEF Init, OneThread, KeptEngine, StoppedMeansOver, RunningIsShown, RunningMeansWanted,
         Alive, Over, Nobody
<1>3. Joined /\ Looked
  BY DEF Init, Joined, Looked, NoCall, AfterJoin, AfterLook, Nobody, Generation
<1> QED
  BY <1>1, <1>2, <1>3 DEF IInv

(* A clean-up moves a thread, or a caller, from one place inside it to the  *)
(* next.                                                                    *)
Within == {"cleaning", "tidying", "judging"}

LEMMA MovesWithin ==
  ASSUME IInv, NEW e \in Generation,
         NEW from \in {"cleaning", "tidying"}, NEW asThread \in {"tidying", "closing"},
         NEW asCaller \in {"tidying", "judging"},
         Moves(e, from, asThread, asCaller)
  PROVE  /\ pc' \in [Generation -> Places] /\ call' \in [Caller -> Call]
         /\ \A g \in Generation : pc'[g] = pc[g] \/ (pc[g] \in Inside /\ pc'[g] \in Inside)
         /\ \A c \in Caller :
              /\ call'[c].thread = call[c].thread
              /\ call'[c].generation = call[c].generation
              /\ call'[c].engine = call[c].engine
              /\ call'[c].at = call[c].at \/ (call[c].at \in Within /\ call'[c].at \in Within)
<1> USE DEF IInv, TypeOK
<1>1. CASE Goes(e, from, asThread) /\ UNCHANGED call
  BY <1>1 DEF Goes, Inside, Places
<1>2. ASSUME NEW c \in Caller, call[c].at = from, UNCHANGED pc,
             call' = [call EXCEPT ![c].at = asCaller]
      PROVE  /\ call' \in [Caller -> Call]
             /\ \A d \in Caller :
                  /\ call'[d].thread = call[d].thread
                  /\ call'[d].generation = call[d].generation
                  /\ call'[d].engine = call[d].engine
                  /\ call'[d].at = call[d].at \/ (call[d].at \in Within /\ call'[d].at \in Within)
  <2>1. call[c] \in Call /\ [call[c] EXCEPT !.at = asCaller] \in Call
    BY DEF Call
  <2>2. call' = [call EXCEPT ![c] = [call[c] EXCEPT !.at = asCaller]]
    BY <1>2
  <2> QED
    BY <1>2, <2>1, <2>2 DEF Call, Within
<1> QED
  BY <1>1, <1>2 DEF Moves

(* A step that leaves the controller alone, and moves threads and callers   *)
(* only between places the invariant does not tell apart.                   *)
LEMMA InnerStep ==
  ASSUME IInv, TypeOK', UNCHANGED <<controller, overtaken>>,
         \A g \in Generation : pc'[g] = pc[g] \/ (pc[g] \in Inside /\ pc'[g] \in Inside \union {"ending"}),
         \A c \in Caller :
           /\ call'[c].thread = call[c].thread
           /\ call'[c].generation = call[c].generation
           /\ call'[c].engine = call[c].engine
           /\ call'[c].at = call[c].at \/ (call[c].at \in Within /\ call'[c].at \in Within)
  PROVE  IInv'
<1> USE DEF IInv
<1>0. \A g \in Generation : (Alive(g))' <=> Alive(g)
  BY DEF Alive, Inside
<1>1. OneThread'
  BY <1>0 DEF OneThread, controller, Alive, Inside
<1>2. KeptEngine'
  BY DEF KeptEngine, controller, Inside
<1>3. RunningIsShown'
  BY DEF RunningIsShown, controller, Inside, Shown
<1>4. Joined'
  BY <1>0 DEF Joined, controller, AfterJoin, AfterLook, Within
<1>5. Looked'
  BY DEF Looked, controller, AfterLook, Within
<1>6. StoppedMeansOver' /\ RunningMeansWanted'
  BY <1>0 DEF StoppedMeansOver, RunningMeansWanted, Over, controller, Inside
<1> QED
  BY <1>1, <1>2, <1>3, <1>4, <1>5, <1>6

-----------------------------------------------------------------------------
(* The generation's thread inside engine.start().                           *)
LEMMA EngineStep ==
  ASSUME IInv, NEW g \in Generation,
         \/ EngineOpens(g) \/ TakesFlag(g) \/ RulesPrepared(g) \/ PreparationFails(g)
         \/ MountTriggers(g) \/ LoopEnds(g) \/ Closes(g)
  PROVE  IInv'
<1>1. PICK from \in Inside, to \in Inside \union {"ending"} : Goes(g, from, to)
  BY DEF EngineOpens, TakesFlag, RulesPrepared, PreparationFails, MountTriggers, LoopEnds,
         Closes, Inside
<1>2. UNCHANGED <<controller, call, overtaken>>
  BY DEF EngineOpens, TakesFlag, RulesPrepared, PreparationFails, MountTriggers, LoopEnds, Closes
<1>3. engine' \in [Generation -> Engine]
  <2>1. engine \in [Generation -> Engine]
    BY DEF IInv, TypeOK
  <2>2. CASE EngineOpens(g) \/ RulesPrepared(g) \/ PreparationFails(g) \/ LoopEnds(g)
    BY <2>1, <2>2 DEF EngineOpens, RulesPrepared, PreparationFails, LoopEnds
  <2>3. CASE TakesFlag(g)
    BY ZenonT(60), <2>1, <2>3 DEF TakesFlag, Engine
  <2>4. CASE MountTriggers(g)
    BY <2>1, <2>4 DEF MountTriggers, Engine
  <2>5. CASE Closes(g)
    BY <2>1, <2>5 DEF Closes, Engine
  <2> QED
    BY <2>2, <2>3, <2>4, <2>5
<1>4. /\ pc' \in [Generation -> Places]
      /\ \A h \in Generation : pc'[h] = pc[h] \/ (pc[h] \in Inside /\ pc'[h] \in Inside \union {"ending"})
  BY <1>1 DEF IInv, TypeOK, Goes, Places
<1>5. TypeOK'
  BY <1>2, <1>3, <1>4 DEF IInv, TypeOK, controller
<1> QED
  BY <1>2, <1>4, <1>5, InnerStep

(* The clean-up, by thread or caller, and the work that is cleaned up.      *)
LEMMA CleanupKeeps ==
  ASSUME IInv, NEW e \in Generation, CleanupStep(e)
  PROVE  IInv'
<1>1. UNCHANGED <<controller, overtaken>>
  BY DEF CleanupStep, CleanupSkipped, CleanupBegins, AsksTriggers, JoinsTriggers,
         CleanupDrained, CleanupGivesUp, TearsDown
<1>2. engine' \in [Generation -> Engine]
  <2>1. engine \in [Generation -> Engine] /\ Asked(e) \in {"none", "alive", "asked"}
    BY DEF IInv, TypeOK, Engine, Asked
  <2>2. CASE CleanupSkipped(e)
    BY <2>1, <2>2 DEF CleanupSkipped
  <2>3. CASE CleanupBegins(e)
    BY <2>1, <2>3 DEF CleanupBegins, Engine
  <2>4. CASE AsksTriggers(e)
    BY <2>1, <2>4 DEF AsksTriggers, Engine
  <2>5. CASE JoinsTriggers(e)
    BY <2>1, <2>5 DEF JoinsTriggers, Engine
  <2>6. CASE CleanupDrained(e)
    BY <2>1, <2>6 DEF CleanupDrained, Engine
  <2>7. CASE CleanupGivesUp(e)
    BY <2>1, <2>7 DEF CleanupGivesUp, Engine
  <2>8. CASE TearsDown(e)
    BY <2>1, <2>8 DEF TearsDown, Engine
  <2> QED
    BY <2>2, <2>3, <2>4, <2>5, <2>6, <2>7, <2>8 DEF CleanupStep
<1>3. /\ pc' \in [Generation -> Places] /\ call' \in [Caller -> Call]
      /\ \A g \in Generation : pc'[g] = pc[g] \/ (pc[g] \in Inside /\ pc'[g] \in Inside)
      /\ \A c \in Caller :
           /\ call'[c].thread = call[c].thread
           /\ call'[c].generation = call[c].generation
           /\ call'[c].engine = call[c].engine
           /\ call'[c].at = call[c].at \/ (call[c].at \in Within /\ call'[c].at \in Within)
  <2>1. CASE UNCHANGED <<pc, call>>
    BY <2>1 DEF IInv, TypeOK
  <2>2. CASE Moves(e, "cleaning", "tidying", "tidying")
    BY <2>2, MovesWithin
  <2>3. CASE Moves(e, "cleaning", "closing", "judging")
    BY <2>3, MovesWithin
  <2>4. CASE Moves(e, "tidying", "closing", "judging")
    BY <2>4, MovesWithin
  <2> QED
    BY <2>1, <2>2, <2>3, <2>4 DEF CleanupStep, CleanupSkipped, CleanupBegins, AsksTriggers,
       JoinsTriggers, CleanupDrained, CleanupGivesUp, TearsDown, Leaves
<1>4. TypeOK'
  BY <1>1, <1>2, <1>3 DEF IInv, TypeOK, controller
<1> QED
  BY <1>1, <1>3, <1>4, InnerStep

LEMMA WorkKeeps ==
  ASSUME IInv, NEW e \in Generation, WorkStep(e)
  PROVE  IInv'
<1>1. UNCHANGED <<controller, pc, call, overtaken>>
  BY DEF WorkStep, TriggerExits, RunStarts, RunEnds
<1>2. engine' \in [Generation -> Engine]
  <2>1. engine \in [Generation -> Engine]
    BY DEF IInv, TypeOK
  <2>2. CASE TriggerExits(e)
    BY <2>1, <2>2 DEF TriggerExits, Engine
  <2>3. CASE RunStarts(e)
    BY ZenonT(60), <2>1, <2>3 DEF RunStarts, Engine
  <2>4. CASE RunEnds(e)
    BY ZenonT(60), <2>1, <2>4 DEF RunEnds, Engine
  <2> QED
    BY <2>2, <2>3, <2>4 DEF WorkStep
<1>3. TypeOK'
  BY <1>1, <1>2 DEF IInv, TypeOK, controller
<1> QED
  BY <1>1, <1>3, InnerStep

-----------------------------------------------------------------------------
(* The controller's own steps.                                              *)
LEMMA StartKeeps ==
  ASSUME IInv, Start \/ StartFails
  PROVE  IInv'
<1> USE DEF IInv
<1>1. /\ generation \in Nat /\ generation' = generation + 1 /\ generation' \in Generation
      /\ generation' \in 0..MaxGenerations
  BY GenerationsAssumption DEF Start, StartFails, TypeOK, Generation
<1>2. MayStart /\ UNCHANGED <<current, engine, call, overtaken>>
  BY DEF Start, StartFails
<1>3. \A g \in Generation : ~Alive(g)
  BY <1>2 DEF MayStart, ThreadAlive, OneThread, Nobody, Generation
<1>4. /\ thread' \in {Nobody, generation'} /\ state' \in {"starting", "stopped"}
      /\ signal' \subseteq signal
      /\ \A g \in Generation : g # generation' => pc'[g] = pc[g]
      /\ pc' \in [Generation -> Places]
  BY <1>1 DEF Start, StartFails, TypeOK, Places
<1>5. TypeOK'
  BY <1>1, <1>2, <1>4 DEF TypeOK, States
<1>6. OneThread'
  <2>1. \A g \in Generation : (Alive(g))' => g = thread'
    BY <1>1, <1>3, <1>4 DEF Start, StartFails, OneThread, Alive
  <2> QED
    BY <1>1, <1>4, <2>1 DEF OneThread, Generation
<1>7. KeptEngine'
  BY <1>2 DEF KeptEngine, MayStart
<1>8. RunningIsShown' /\ RunningMeansWanted'
  BY <1>4 DEF RunningIsShown, RunningMeansWanted
<1>9. Joined'
  <2> SUFFICES ASSUME NEW c \in Caller
               PROVE  /\ call[c].generation <= generation'
                      /\ call[c].at \in AfterJoin /\ call[c].generation \in Generation =>
                           pc'[call[c].generation] \in {"none", "dead"}
    BY <1>2 DEF Joined, Alive
  <2>1. call[c].generation <= generation /\ call[c].generation \in {Nobody} \union Generation
    BY DEF Joined, TypeOK, Call
  <2> QED
    BY <1>1, <1>3, <1>4, <2>1 DEF Joined, Alive, Nobody, Generation
<1>10. Looked'
  <2> SUFFICES ASSUME NEW c \in Caller PROVE call[c].generation # generation'
    BY <1>2 DEF Looked
  <2>1. call[c].generation <= generation /\ call[c].generation \in {Nobody} \union Generation
    BY DEF Joined, TypeOK, Call
  <2> QED
    BY <1>1, <2>1 DEF Nobody, Generation
<1>11. StoppedMeansOver'
  <2>1. state' = "stopped" => \A g \in Generation : (Over(g))'
    BY <1>3, <1>4 DEF Start, StartFails, Over, Alive
  <2> QED
    BY <1>2, <1>6, <2>1 DEF StoppedMeansOver, OneThread, MayStart
<1> QED
  BY <1>5, <1>6, <1>7, <1>8, <1>9, <1>10, <1>11

(* The event and the state are set together; "running" falls with them.     *)
LEMMA AskKeeps ==
  ASSUME IInv, AskToStop, call' \in [Caller -> Call],
         \A c \in Caller : call'[c] = call[c] \/ (call[c].at = "idle" /\ call'[c] = [call[c] EXCEPT !.at = "asked"])
  PROVE  IInv'
<1> USE DEF IInv
<1>1. /\ UNCHANGED <<generation, thread, current, pc, engine, overtaken>>
      /\ signal' = signal \union {generation}
      /\ state' = "stopping" \/ (state' = state /\ ~ThreadAlive)
  BY DEF AskToStop
<1>2. \A c \in Caller :
        /\ call'[c].generation = call[c].generation /\ call'[c].thread = call[c].thread
        /\ call'[c].engine = call[c].engine
        /\ call'[c].at = call[c].at \/ call'[c].at = "asked"
  BY DEF TypeOK, Call
<1>3. TypeOK'
  BY <1>1, GenerationsAssumption DEF TypeOK, States
<1>4. OneThread' /\ KeptEngine'
  BY <1>1 DEF OneThread, KeptEngine, Alive
<1>5. RunningIsShown' /\ RunningMeansWanted'
  <2>1. state' # "running"
    BY <1>1 DEF RunningIsShown, OneThread, ThreadAlive, Alive, Shown, Inside, Nobody, Generation
  <2> QED
    BY <2>1 DEF RunningIsShown, RunningMeansWanted
<1>6. Joined'
  BY <1>1, <1>2 DEF Joined, Alive, AfterJoin, AfterLook
<1>7. Looked'
  BY <1>1, <1>2 DEF Looked, AfterLook
<1>8. StoppedMeansOver'
  BY <1>1 DEF StoppedMeansOver, Over, Alive
<1> QED
  BY <1>3, <1>4, <1>5, <1>6, <1>7, <1>8

(* The thread outside engine.start().                                       *)
LEMMA LifeStep ==
  ASSUME IInv, NEW g \in Generation,
         FactoryRaises(g) \/ EngineBuilt(g) \/ Ends(g) \/ Reports(g) \/ Dies(g)
  PROVE  IInv'
<1> USE DEF IInv
<1>1. PICK to \in Places \ {"none"} :
        /\ pc[g] \in {"making", "ending", "endedClean", "endedUnclean", "dying"}
        /\ pc' = [pc EXCEPT ![g] = to]
        /\ to # "making"
  BY DEF FactoryRaises, EngineBuilt, Ends, Reports, Dies, Goes, Places, Inside
<1>2. UNCHANGED <<generation, signal, thread, call, overtaken>>
  BY DEF FactoryRaises, EngineBuilt, Ends, Reports, Dies, controller
<1>3. Alive(g) /\ thread = g /\ generation = g /\ \A h \in Generation : h # g => ~Alive(h)
  BY <1>1 DEF OneThread, Alive, Nobody, Generation
<1>4. pc'[g] = to /\ pc' \in [Generation -> Places] /\ \A h \in Generation : h # g => pc'[h] = pc[h]
  BY <1>1 DEF TypeOK
<1>5. \A h \in Generation : Over(h) \/ h = g
  BY <1>3 DEF Over, Alive
<1>6. /\ current' \in {current, g, Nobody} /\ state' \in States
      /\ engine' \in [Generation -> Engine]
  <2>1. engine' \in [Generation -> Engine]
    <3>1. engine \in [Generation -> Engine]
      BY DEF TypeOK
    <3> HIDE DEF IInv
    <3>2. CASE EngineBuilt(g)
      BY ZenonT(60), <3>1, <3>2 DEF EngineBuilt, Engine
    <3> QED
      BY <3>1, <3>2 DEF FactoryRaises, Ends, Reports, Dies
  <2> QED
    BY <2>1 DEF FactoryRaises, EngineBuilt, Ends, Reports, Dies, TypeOK, States, controller
<1>7. TypeOK'
  BY <1>2, <1>4, <1>6 DEF TypeOK
<1>8. OneThread'
  BY <1>1, <1>2, <1>3, <1>4 DEF OneThread, Alive
<1>9. KeptEngine'
  <2>1. current' # Nobody => current' = generation'
    BY <1>2, <1>3, <1>6 DEF KeptEngine
  <2>2. ASSUME NEW h \in Generation, pc'[h] = "endedClean" PROVE current' = Nobody
    <3>1. h = g /\ Ends(g)
      BY <1>1, <1>3, <1>4, <2>2 DEF Alive, FactoryRaises, EngineBuilt, Ends, Reports, Dies, Goes
    <3> QED
      BY <3>1, <2>2, <1>4 DEF Ends, Goes
  <2> QED
    BY <2>1, <2>2 DEF KeptEngine
<1>10. RunningIsShown'
  BY <1>2, <1>3, <1>4 DEF RunningIsShown, FactoryRaises, EngineBuilt, Ends, Reports, Dies, Goes,
     Shown, Inside, controller
<1>11. Joined'
  BY <1>1, <1>2, <1>3, <1>4 DEF Joined, Alive
<1>12. Looked'
  BY <1>2, <1>3 DEF Looked, Joined, AfterJoin
<1>13. StoppedMeansOver'
  <2>1. state' = "stopped" => current' = Nobody /\ (Over(g))'
    BY <1>4 DEF StoppedMeansOver, KeptEngine, FactoryRaises, EngineBuilt, Ends, Reports, Dies,
       Goes, Over, controller
  <2>2. \A h \in Generation : h # g => (Over(h))'
    BY <1>4, <1>5 DEF Over
  <2> QED
    BY <2>1, <2>2, <1>8 DEF StoppedMeansOver, OneThread
<1>14. RunningMeansWanted'
  BY <1>2, <1>3 DEF RunningMeansWanted, FactoryRaises, EngineBuilt, Ends, Reports, Dies, controller
<1> QED
  BY <1>7, <1>8, <1>9, <1>10, <1>11, <1>12, <1>13, <1>14

-----------------------------------------------------------------------------
(* A step of stop() moves its caller; the facts it relies on are those that *)
(* hold of the new place.                                                   *)
LEMMA CallerStep ==
  ASSUME IInv, NEW c \in Caller, NEW x \in Call,
         call' = [call EXCEPT ![c] = x],
         UNCHANGED <<state, generation, thread, pc>>,
         TypeOK', current' = current,
         RunningMeansWanted',
         /\ x.generation <= generation
         /\ x.at = "joining" => x.thread = x.generation /\ x.thread \in Generation
         /\ x.at \in AfterJoin /\ x.generation \in Generation => ~Alive(x.generation),
         /\ x.at \in AfterLook /\ x.generation = generation => current \in {x.engine, Nobody}
         /\ x.at \in AfterLook \ {"finishing"} => x.engine # Nobody
  PROVE  IInv'
<1> USE DEF IInv
<1>1. call'[c] = x /\ \A d \in Caller : d # c => call'[d] = call[d]
  BY DEF TypeOK
<1>2. OneThread' /\ KeptEngine' /\ RunningIsShown' /\ StoppedMeansOver'
  BY DEF OneThread, KeptEngine, RunningIsShown, StoppedMeansOver, Alive, Over
<1>3. Joined'
  BY <1>1 DEF Joined, Alive
<1>4. Looked'
  BY <1>1 DEF Looked
<1> QED
  BY <1>2, <1>3, <1>4

LEMMA StopKeeps ==
  ASSUME IInv, NEW c \in Caller, StopStep(c)
  PROVE  IInv'
<1> USE DEF IInv
<1>0. /\ call[c] \in Call /\ NoCall \in Call
      /\ generation \in {Nobody} \union Generation
      /\ current \in {Nobody} \union Generation
      /\ \A x \in Call : [call EXCEPT ![c] = x] \in [Caller -> Call]
  BY GenerationsAssumption DEF TypeOK, NoCall, Call, Nobody, Generation
<1>idle. ASSUME call' = [call EXCEPT ![c] = NoCall], UNCHANGED <<controller, pc, overtaken>>,
                engine' \in [Generation -> Engine]
         PROVE  IInv'
  <2>1. TypeOK' /\ RunningMeansWanted'
    BY <1>0, <1>idle DEF TypeOK, RunningMeansWanted, controller
  <2>2. Nobody <= generation
    BY GenerationsAssumption DEF TypeOK, Nobody
  <2> QED
    BY <1>0, <1>idle, <2>1, <2>2, CallerStep DEF NoCall, AfterJoin, AfterLook, controller
<1>1. CASE StopReads(c)
  <2> DEFINE x == [at |-> IF ThreadAlive THEN "joining" ELSE "reading",
                   thread |-> IF ThreadAlive THEN thread ELSE Nobody,
                   generation |-> generation, engine |-> Nobody]
  <2>1. x \in Call
    BY <1>0 DEF Call, TypeOK
  <2>2. call' = [call EXCEPT ![c] = x] /\ UNCHANGED <<controller, pc, engine, overtaken>>
    BY <1>1 DEF StopReads
  <2>3. TypeOK' /\ RunningMeansWanted'
    BY <1>0, <2>1, <2>2 DEF TypeOK, RunningMeansWanted, controller
  <2>4. /\ x.generation <= generation
        /\ x.at = "joining" => x.thread = x.generation /\ x.thread \in Generation
        /\ x.at \in AfterJoin /\ x.generation \in Generation => ~Alive(x.generation)
    BY GenerationsAssumption DEF TypeOK, ThreadAlive, OneThread, AfterJoin, AfterLook, Nobody, Generation
  <2> QED
    BY <2>1, <2>2, <2>3, <2>4, CallerStep DEF AfterLook, controller
<1>2. CASE StopJoins(c)
  <2> DEFINE x == [call[c] EXCEPT !.at = "reading", !.thread = Nobody]
  <2>1. x \in Call /\ x.at = "reading" /\ x.generation = call[c].generation
    BY <1>0 DEF Call
  <2>2. call' = [call EXCEPT ![c] = x] /\ UNCHANGED <<controller, pc, engine, overtaken>>
    BY <1>0, <1>2 DEF StopJoins
  <2>3. TypeOK' /\ RunningMeansWanted'
    BY <1>0, <2>1, <2>2 DEF TypeOK, RunningMeansWanted, controller
  <2>4. x.generation <= generation /\ ~Alive(x.generation)
    BY <1>2, <2>1 DEF Joined, StopJoins
  <2> QED
    BY <2>1, <2>2, <2>3, <2>4, CallerStep DEF AfterJoin, AfterLook, controller
<1>3. CASE StopTimesOut(c)
  BY <1>3, <1>idle DEF StopTimesOut, TypeOK
<1>4. CASE StopLooks(c)
  <2> DEFINE x == [call[c] EXCEPT !.engine = current,
                                  !.at = IF current = Nobody THEN "finishing" ELSE "shutting"]
  <2>1. /\ x \in Call /\ x.engine = current /\ x.generation = call[c].generation
        /\ x.at = IF current = Nobody THEN "finishing" ELSE "shutting"
    BY <1>0 DEF Call
  <2>2. call' = [call EXCEPT ![c] = x] /\ UNCHANGED <<controller, pc, engine, overtaken>>
    BY <1>0, <1>4 DEF StopLooks
  <2>3. TypeOK' /\ RunningMeansWanted'
    BY <1>0, <2>1, <2>2 DEF TypeOK, RunningMeansWanted, controller
  <2>4. x.generation <= generation /\ (x.generation \in Generation => ~Alive(x.generation))
    BY <1>4, <2>1 DEF Joined, StopLooks, AfterJoin
  <2>5. /\ x.at # "joining" /\ current \in {x.engine, Nobody}
        /\ x.at \in AfterLook \ {"finishing"} => x.engine # Nobody
    BY <2>1 DEF AfterLook
  <2> HIDE DEF x
  <2> QED
    BY <2>1, <2>2, <2>3, <2>4, <2>5, CallerStep DEF controller
<1>5. CASE ShutdownBegins(c)
  <2> DEFINE e == call[c].engine
             x == [call[c] EXCEPT !.at = "cleaning"]
  <2>1. /\ x \in Call /\ x.at = "cleaning" /\ x.generation = call[c].generation
        /\ x.engine = e
    BY <1>0 DEF Call
  <2>2. call' = [call EXCEPT ![c] = x] /\ UNCHANGED <<state, generation, thread, current, pc, engine>>
    BY <1>0, <1>5 DEF ShutdownBegins
  <2>3. e \in Generation /\ call[c].at \in AfterLook
    BY <1>0, <1>5 DEF ShutdownBegins, Looked, AfterLook, Call
  <2>4. TypeOK'
    BY <1>0, <1>5, <2>1, <2>2, <2>3 DEF TypeOK, ShutdownBegins, Generation
  <2>5. RunningMeansWanted'
    <3> SUFFICES ASSUME state = "running", generation \notin overtaken' PROVE generation \notin signal'
      BY <2>2 DEF RunningMeansWanted
    <3>1. generation \notin signal
      BY <1>5 DEF RunningMeansWanted, ShutdownBegins
    <3>2. ~Alive(call[c].generation) \/ call[c].generation \notin Generation
      BY <2>3 DEF Joined, AfterJoin
    <3>3. generation \in Generation /\ Alive(generation)
      BY DEF RunningIsShown, Alive, Shown, Inside
    <3>4. e # generation
      BY <1>5, <3>2, <3>3 DEF ShutdownBegins
    <3> QED
      BY <1>5, <3>1, <3>4 DEF ShutdownBegins
  <2>6. /\ x.generation <= generation /\ (x.generation \in Generation => ~Alive(x.generation))
        /\ x.generation = generation => current \in {x.engine, Nobody}
    BY <2>1, <2>3 DEF Joined, Looked, AfterJoin
  <2>7. x.at # "joining" /\ x.engine # Nobody
    BY <2>1, <2>3 DEF Nobody, Generation
  <2> HIDE DEF x
  <2> QED
    BY <2>1, <2>2, <2>4, <2>5, <2>6, <2>7, CallerStep
<1>6. CASE ShutdownEnds(c)
  <2> DEFINE e == call[c].engine
             x == [call[c] EXCEPT !.at = "finishing"]
  <2>1. UNCHANGED <<controller, pc, overtaken>> /\ engine' \in [Generation -> Engine]
    <3>1. engine \in [Generation -> Engine]
      BY DEF TypeOK
    <3>2. e \in Generation
      BY <1>0, <1>6 DEF ShutdownEnds, Looked, AfterLook, Call
    <3> HIDE DEF IInv, e
    <3>3. engine[e].closed \in BOOLEAN /\ engine[e].clean \in BOOLEAN
      BY <3>1, <3>2 DEF Engine
    <3>4. engine' = [engine EXCEPT ![e].closed = engine[e].closed \/ engine[e].clean]
      BY <1>6 DEF ShutdownEnds, e
    <3>5. engine' \in [Generation -> Engine]
      BY <3>1, <3>2, <3>3, <3>4 DEF Engine
    <3> QED
      BY <1>6, <3>5 DEF ShutdownEnds
  <2>2. CASE ~engine[e].clean
    BY <1>6, <1>idle, <2>1, <2>2 DEF ShutdownEnds
  <2>3. CASE engine[e].clean
    <3>1. /\ x \in Call /\ x.at = "finishing" /\ x.generation = call[c].generation
          /\ x.engine = e
      BY <1>0 DEF Call
    <3>2. call' = [call EXCEPT ![c] = x] /\ call[c].at \in AfterLook
      BY <1>0, <1>6, <2>3 DEF ShutdownEnds, AfterLook
    <3>3. TypeOK' /\ RunningMeansWanted'
      BY <1>0, <2>1, <3>1, <3>2 DEF TypeOK, RunningMeansWanted, controller
    <3>4. /\ x.generation <= generation /\ (x.generation \in Generation => ~Alive(x.generation))
          /\ x.generation = generation => current \in {x.engine, Nobody}
      BY <3>1, <3>2 DEF Joined, Looked, AfterJoin
    <3> QED
      BY <2>1, <3>1, <3>2, <3>3, <3>4, CallerStep DEF AfterLook, controller
  <2> QED
    BY <2>2, <2>3
<1>7. CASE StopSuperseded(c)
  BY <1>7, <1>idle DEF StopSuperseded, TypeOK
<1>8. CASE StopFinishes(c)
  <2>1. /\ call[c].at = "finishing" /\ generation = call[c].generation
        /\ state' = "stopped" /\ call' = [call EXCEPT ![c] = NoCall]
        /\ UNCHANGED <<generation, signal, thread, pc, engine, overtaken>>
    BY <1>8 DEF StopFinishes, StillMine
  <2>2. current' = Nobody
    BY <1>8, <2>1 DEF StopFinishes, Looked, AfterLook
  <2>3. \A g \in Generation : ~Alive(g)
    BY <1>0, <2>1 DEF OneThread, Joined, AfterJoin, AfterLook, Nobody, Generation
  <2>4. TypeOK'
    BY <1>0, <2>1, <2>2 DEF TypeOK, States
  <2>5. /\ OneThread' /\ KeptEngine' /\ RunningIsShown' /\ RunningMeansWanted'
        /\ StoppedMeansOver'
    BY <2>1, <2>2, <2>3 DEF OneThread, KeptEngine, RunningIsShown, RunningMeansWanted,
       StoppedMeansOver, Alive, Over
  <2>6. Joined' /\ Looked'
    <3>1. call'[c] = NoCall /\ \A d \in Caller : d # c => call'[d] = call[d]
      BY <2>1 DEF TypeOK
    <3>2. Nobody <= generation
      BY GenerationsAssumption DEF TypeOK, Nobody
    <3> QED
      BY <2>1, <2>2, <3>1, <3>2 DEF Joined, Looked, Alive, NoCall, AfterJoin, AfterLook
  <2> QED
    BY <2>4, <2>5, <2>6
<1> QED
  BY <1>1, <1>2, <1>3, <1>4, <1>5, <1>6, <1>7, <1>8 DEF StopStep

-----------------------------------------------------------------------------
LEMMA NextIInv == IInv /\ [Next]_vars => IInv'
<1> SUFFICES ASSUME IInv, [Next]_vars PROVE IInv'
  OBVIOUS
<1>1. CASE Start \/ StartFails
  BY <1>1, StartKeeps
<1>2. CASE RequestStop
  BY <1>2, AskKeeps DEF RequestStop, IInv, TypeOK
<1>3. ASSUME NEW g \in Generation, ThreadStep(g) PROVE IInv'
  BY <1>3, EngineStep, LifeStep DEF ThreadStep
<1>4. ASSUME NEW e \in Generation, CleanupStep(e) PROVE IInv'
  BY <1>4, CleanupKeeps
<1>5. ASSUME NEW e \in Generation, WorkStep(e) PROVE IInv'
  BY <1>5, WorkKeeps
<1>6. ASSUME NEW c \in Caller, StopAsks(c) PROVE IInv'
  <2> DEFINE x == [call[c] EXCEPT !.at = "asked"]
  <2>1. call \in [Caller -> Call] /\ x \in Call
    BY DEF IInv, TypeOK, Call
  <2>2. call[c].at = "idle" /\ AskToStop /\ call' = [call EXCEPT ![c] = x]
    BY <1>6 DEF StopAsks
  <2> QED
    BY <2>1, <2>2, AskKeeps
<1>7. ASSUME NEW c \in Caller, StopStep(c) PROVE IInv'
  BY <1>7, StopKeeps
<1>8. CASE UNCHANGED vars
  <2>1. UNCHANGED <<controller, pc, engine, call, overtaken>>
    BY <1>8 DEF vars
  <2>2. TypeOK'
    BY <2>1 DEF IInv, TypeOK, controller
  <2> QED
    BY <2>1, <2>2, InnerStep
<1> QED
  BY <1>1, <1>2, <1>3, <1>4, <1>5, <1>6, <1>7, <1>8 DEF Next

(* Every step of start, stop, threads and clean-ups keeps the invariant.    *)
THEOREM Invariance == Spec => []IInv
<1>1. Init => IInv
  BY InitIInv
<1>2. IInv /\ [Next]_vars => IInv'
  BY NextIInv
<1> QED
  BY <1>1, <1>2, PTL DEF Spec

(* The variables of the controller, the engines and the calls of stop()     *)
(* keep their types.                                                        *)
THEOREM TypeCorrect == Spec => []TypeOK
<1>1. IInv => TypeOK
  BY DEF IInv
<1> QED
  BY <1>1, Invariance, PTL

(* "stopped" is said only when every generation's thread has finished its   *)
(* work and no engine is kept, and no two threads live together.            *)
THEOREM StoppedIsOver == Spec => []StoppedMeansOver
<1>1. IInv => StoppedMeansOver
  BY DEF IInv
<1> QED
  BY <1>1, Invariance, PTL

(* "running" is never said of a generation that has been asked to stop.     *)
THEOREM RunningIsWanted == Spec => []RunningMeansWanted
<1>1. IInv => RunningMeansWanted
  BY DEF IInv
<1> QED
  BY <1>1, Invariance, PTL

-----------------------------------------------------------------------------
(* What holds of every engine that no earlier stop() has shut down: its     *)
(* thread alone cleans it up until the thread is dead, what is torn down is *)
(* quiet and stays so, and the controller lets go of it only when it is.    *)
Fresh == {"built", "opened", "preparing", "mounting", "looping", "cleaning"}
Past == {"closing", "ending", "endedClean", "endedUnclean", "dying", "dead"}
Shutting == {"cleaning", "tidying", "judging", "finishing"}

Untouched(e) ==
  /\ engine[e].stage = "free" /\ ~engine[e].refusing /\ ~engine[e].closed
  /\ ~engine[e].cleaned /\ ~engine[e].unloaded

(* Its work has ended, and cannot begin again.                              *)
Drained(e) == engine[e].cleaned \/ engine[e].stage = "tearing"

Grown(e) ==
  /\ pc[e] \in {"none", "making"} => ~engine[e].built
  /\ pc[e] \in Inside => engine[e].built
  /\ ~engine[e].built \/ pc[e] \in Fresh => Untouched(e)

Finished(e) ==
  /\ pc[e] \in Past /\ engine[e].built =>
       engine[e].refusing /\ engine[e].closed /\ (engine[e].clean => Drained(e))
  /\ engine[e].built /\ e # current => Drained(e)

Tidied(e) ==
  /\ engine[e].stage # "free" => engine[e].refusing /\ ~engine[e].cleaned
  /\ engine[e].stage = "waiting" /\ engine[e].stopped => engine[e].triggers = "none"
  /\ Drained(e) => Quiet(e) /\ engine[e].closed /\ engine[e].refusing
  /\ engine[e].unloaded => engine[e].cleaned

Kept(e) ==
  \A c \in Caller : call[c].engine = e =>
    /\ call[c].at \in Shutting => pc[e] = "dead"
    /\ call[c].at = "finishing" => Drained(e)

EngineSound(e) == Grown(e) /\ Finished(e) /\ Tidied(e) /\ Kept(e)

Built ==
  /\ current # Nobody => engine[current].built
  /\ \A c \in Caller : call[c].engine # Nobody => engine[call[c].engine].built

EngineInv == Built /\ \A e \in Generation \ overtaken : EngineSound(e)

-----------------------------------------------------------------------------
LEMMA InitEngineInv == Init => EngineInv
<1> SUFFICES ASSUME Init PROVE Built /\ \A e \in Generation : EngineSound(e)
  BY DEF EngineInv
<1>0. Built
  BY DEF Init, Built, NoCall
<1> SUFFICES ASSUME NEW e \in Generation PROVE EngineSound(e)
  BY <1>0
<1>1. /\ engine[e] = NoEngine /\ pc[e] = "none" /\ current = Nobody
      /\ \A c \in Caller : call[c] = NoCall
  BY DEF Init
<1>2. Nobody # e
  BY DEF Nobody, Generation
<1> QED
  BY <1>1, <1>2 DEF EngineSound, Grown, Finished, Tidied, Kept, Untouched, Drained, Quiet, NoEngine,
     NoCall, Fresh, Past, Shutting, Inside

(* A step that touches neither the engine nor its thread, and brings no     *)
(* caller to its clean-up.                                                  *)
LEMMA LeftAlone ==
  ASSUME NEW e \in Generation, EngineSound(e),
         engine'[e] = engine[e], pc'[e] = pc[e],
         e = current => e = current' \/ Drained(e),
         \A c \in Caller : call'[c].engine = e /\ call'[c].at \in Shutting =>
           call[c].engine = e /\ call[c].at \in Shutting
             /\ (call'[c].at = "finishing" => call[c].at = "finishing")
  PROVE  EngineSound(e)'
<1>1. (Drained(e))' <=> Drained(e)
  BY DEF Drained
<1>2. (Grown(e))'
  BY DEF EngineSound, Grown, Untouched
<1>3. (Finished(e))'
  BY <1>1 DEF EngineSound, Finished
<1>4. (Tidied(e))'
  BY <1>1 DEF EngineSound, Tidied, Quiet
<1>5. (Kept(e))'
  BY <1>1 DEF EngineSound, Kept, Shutting
<1> QED
  BY <1>2, <1>3, <1>4, <1>5 DEF EngineSound

(* A clean-up moves its own thread, or a caller that shuts its engine down. *)
LEMMA MovesOne ==
  ASSUME IInv, NEW e \in Generation,
         NEW from \in {"cleaning", "tidying"}, NEW asThread \in {"tidying", "closing"},
         NEW asCaller \in {"tidying", "judging"},
         Moves(e, from, asThread, asCaller)
  PROVE  /\ \A g \in Generation : g # e => pc'[g] = pc[g]
         /\ \/ pc[e] = from /\ pc'[e] = asThread
            \/ pc'[e] = pc[e] /\ \E c \in Caller : call[c].engine = e /\ call[c].at = from
         /\ \A c \in Caller :
              /\ call'[c].engine = call[c].engine
              /\ call'[c].at = call[c].at
                   \/ (call[c].engine = e /\ call[c].at = from /\ call'[c].at = asCaller)
<1> USE DEF IInv, TypeOK
<1>1. CASE Goes(e, from, asThread) /\ UNCHANGED call
  BY <1>1 DEF Goes
<1>2. ASSUME NEW c \in Caller, call[c].engine = e, call[c].at = from, UNCHANGED pc,
             call' = [call EXCEPT ![c].at = asCaller]
      PROVE  \A d \in Caller :
               /\ call'[d].engine = call[d].engine
               /\ call'[d].at = call[d].at
                    \/ (call[d].engine = e /\ call[d].at = from /\ call'[d].at = asCaller)
  <2>1. call[c] \in Call
    OBVIOUS
  <2>2. call' = [call EXCEPT ![c] = [call[c] EXCEPT !.at = asCaller]]
    BY <1>2
  <2> QED
    BY <1>2, <2>1, <2>2 DEF Call
<1> QED
  BY <1>1, <1>2 DEF Moves

-----------------------------------------------------------------------------
(* Each kind of step keeps what holds of an engine.                         *)
LEMMA StartSound ==
  ASSUME IInv, NEW e \in Generation, EngineSound(e), Start \/ StartFails
  PROVE  EngineSound(e)'
<1>1. UNCHANGED <<current, engine, call, overtaken>>
  BY DEF Start, StartFails
<1>2. pc'[e] = pc[e] \/ (pc[e] = "none" /\ pc'[e] = "making")
  <2>1. pc \in [Generation -> Places] /\ generation \in Nat
    BY GenerationsAssumption DEF IInv, TypeOK
  <2>2. e = generation + 1 => pc[e] = "none"
    BY <2>1 DEF IInv, OneThread, Generation
  <2> QED
    BY <2>1, <2>2 DEF Start, StartFails
<1>3. CASE pc'[e] = pc[e]
  BY <1>1, <1>3, LeftAlone
<1>4. CASE pc[e] = "none" /\ pc'[e] = "making"
  <2>1. Untouched(e) /\ ~engine[e].built
    BY <1>4 DEF EngineSound, Grown
  <2>2. (Grown(e))'
    BY <1>1, <1>4, <2>1 DEF Grown, Untouched, Inside
  <2>3. (Finished(e))' /\ (Tidied(e))' /\ (Kept(e))'
    BY <1>1, <1>4, <2>1 DEF EngineSound, Finished, Tidied, Kept, Drained, Quiet, Past
  <2> QED
    BY <2>2, <2>3 DEF EngineSound
<1> QED
  BY <1>2, <1>3, <1>4

LEMMA WorkSound ==
  ASSUME IInv, NEW e \in Generation, EngineSound(e), NEW f \in Generation, WorkStep(f)
  PROVE  EngineSound(e)'
<1>1. UNCHANGED <<controller, pc, call, overtaken>>
  BY DEF WorkStep, TriggerExits, RunStarts, RunEnds
<1>2. engine \in [Generation -> Engine]
  BY DEF IInv, TypeOK
<1>3. CASE f # e
  <2>1. engine'[e] = engine[e]
    BY <1>2, <1>3 DEF WorkStep, TriggerExits, RunStarts, RunEnds
  <2> QED
    BY <1>1, <2>1, LeftAlone DEF controller
<1>4. CASE f = e
  <2>1. /\ engine'[e].built = engine[e].built /\ engine'[e].refusing = engine[e].refusing
        /\ engine'[e].clean = engine[e].clean /\ engine'[e].closed = engine[e].closed
        /\ engine'[e].cleaned = engine[e].cleaned /\ engine'[e].unloaded = engine[e].unloaded
        /\ engine'[e].stage = engine[e].stage /\ engine'[e].stopped = engine[e].stopped
    BY <1>2, <1>4 DEF WorkStep, TriggerExits, RunStarts, RunEnds, Engine
  <2>2. engine[e].triggers = "none" => engine'[e].triggers = "none"
    BY <1>2, <1>4 DEF WorkStep, TriggerExits, RunStarts, RunEnds, Engine
  <2>3. engine[e].refusing /\ Quiet(e) => (Quiet(e))'
    BY <1>2, <1>4, <2>2 DEF WorkStep, TriggerExits, RunStarts, RunEnds, Engine, Quiet
  <2>4. (Drained(e))' <=> Drained(e)
    BY <2>1 DEF Drained
  <2>5. (Grown(e))'
    BY <1>1, <2>1 DEF EngineSound, Grown, Untouched
  <2>6. (Finished(e))'
    BY <1>1, <2>1, <2>4 DEF EngineSound, Finished, controller
  <2>7. (Tidied(e))'
    BY <2>1, <2>2, <2>3, <2>4 DEF EngineSound, Tidied
  <2>8. (Kept(e))'
    BY <1>1, <2>4 DEF EngineSound, Kept
  <2> QED
    BY <2>5, <2>6, <2>7, <2>8 DEF EngineSound
<1> QED
  BY <1>3, <1>4

(* The thread of one generation lets go of no other's engine.               *)
LEMMA ThreadSound ==
  ASSUME IInv, Built, NEW e \in Generation, EngineSound(e), NEW g \in Generation, ThreadStep(g)
  PROVE  EngineSound(e)'
<1>1. UNCHANGED <<call, overtaken>>
  BY DEF ThreadStep, FactoryRaises, EngineBuilt, EngineOpens, TakesFlag, RulesPrepared,
     PreparationFails, MountTriggers, LoopEnds, Closes, Ends, Reports, Dies
<1>2. /\ engine \in [Generation -> Engine] /\ pc \in [Generation -> Places]
      /\ current # Nobody => current = generation
  BY DEF IInv, TypeOK, KeptEngine
<1>3. pc[g] \notin {"none", "dead"}
  BY DEF ThreadStep, FactoryRaises, EngineBuilt, EngineOpens, TakesFlag, RulesPrepared,
     PreparationFails, MountTriggers, LoopEnds, Closes, Ends, Reports, Dies, Goes
<1>4. g = generation
  BY <1>3 DEF IInv, OneThread, Alive, Nobody, Generation
<1>5. CASE g # e
  <2>1. engine'[e] = engine[e]
    BY <1>2, <1>5 DEF ThreadStep, FactoryRaises, EngineBuilt, EngineOpens, TakesFlag, RulesPrepared,
       PreparationFails, MountTriggers, LoopEnds, Closes, Ends, Reports, Dies
  <2>2. pc'[e] = pc[e]
    BY <1>2, <1>5 DEF ThreadStep, FactoryRaises, EngineBuilt, EngineOpens, TakesFlag, RulesPrepared,
       PreparationFails, MountTriggers, LoopEnds, Closes, Ends, Reports, Dies, Goes
  <2>3. e # current
    BY <1>2, <1>4, <1>5 DEF Nobody, Generation
  <2> QED
    BY <1>1, <2>1, <2>2, <2>3, LeftAlone
<1>6. CASE g = e
  <2> USE <1>6
  <2>0. \A c \in Caller : call[c].engine = e => call[c].at \notin Shutting
    BY <1>3 DEF EngineSound, Kept
  <2>1. (Kept(e))'
    BY <1>1, <2>0 DEF Kept, Shutting
  <2>2. CASE FactoryRaises(e) \/ RulesPrepared(e) \/ PreparationFails(e) \/ LoopEnds(e) \/ EngineOpens(e)
    <3>1. UNCHANGED <<engine, current>>
      BY <2>2 DEF FactoryRaises, RulesPrepared, PreparationFails, LoopEnds, EngineOpens, controller
    <3>2. \/ pc[e] = "making" /\ pc'[e] = "ending"
          \/ pc[e] \in Fresh /\ pc'[e] \in Fresh
      BY <1>2, <2>2 DEF FactoryRaises, RulesPrepared, PreparationFails, LoopEnds, EngineOpens, Goes,
         Fresh, EngineSound, Grown, Untouched
    <3>3. (Grown(e))'
      BY <3>1, <3>2 DEF EngineSound, Grown, Untouched, Fresh, Inside
    <3>4. (Finished(e))'
      BY <3>1, <3>2 DEF EngineSound, Finished, Grown, Drained, Fresh, Past, Inside
    <3>5. (Tidied(e))'
      BY <3>1 DEF EngineSound, Tidied, Drained, Quiet
    <3> QED
      BY <2>1, <3>3, <3>4, <3>5 DEF EngineSound
  <2>3. CASE EngineBuilt(e)
    <3>1. /\ pc[e] = "making" /\ pc'[e] = "built" /\ current' = e
          /\ engine'[e] = [engine[e] EXCEPT !.built = TRUE]
      BY <1>2, <2>3 DEF EngineBuilt, Goes
    <3>2. Untouched(e) /\ engine[e] \in Engine
      BY <1>2, <3>1 DEF EngineSound, Grown
    <3>3. (Untouched(e))' /\ engine'[e].built
      BY <3>1, <3>2 DEF Untouched, Engine
    <3>4. (Grown(e))' /\ (Finished(e))' /\ (Tidied(e))'
      BY <3>1, <3>3 DEF Grown, Finished, Tidied, Untouched, Drained, Past
    <3> QED
      BY <2>1, <3>4 DEF EngineSound
  <2>4. CASE TakesFlag(e) \/ MountTriggers(e)
    <3>1. /\ pc[e] \in Fresh /\ pc'[e] \in Fresh /\ current' = current
          /\ Untouched(e) /\ engine[e].built
      BY <1>2, <2>4 DEF TakesFlag, MountTriggers, Goes, Fresh, EngineSound, Grown, Inside, controller
    <3>2. \/ engine'[e] = [engine[e] EXCEPT !.flagged = TRUE]
          \/ engine'[e] = [engine[e] EXCEPT !.triggers = "alive"]
      BY <1>2, <2>4 DEF TakesFlag, MountTriggers
    <3>3. (Untouched(e))' /\ engine'[e].built
      BY <1>2, <3>1, <3>2 DEF Untouched, Engine
    <3>4. (Grown(e))' /\ (Tidied(e))'
      BY <3>1, <3>3 DEF Grown, Tidied, Untouched, Drained, Fresh
    <3>5. e = current
      BY <3>1 DEF EngineSound, Finished, Drained, Untouched
    <3>6. (Finished(e))'
      BY <3>1, <3>5 DEF Finished, Fresh, Past
    <3> QED
      BY <2>1, <3>4, <3>6 DEF EngineSound
  <2>5. CASE Closes(e)
    <3>1. pc[e] = "closing" /\ pc'[e] = "ending" /\ current' = current
      BY <1>2, <2>5 DEF Closes, Goes, controller
    <3>2. engine[e].built /\ engine[e].closed
      BY <3>1 DEF EngineSound, Finished, Grown, Inside, Past
    <3>3. engine'[e] = [engine[e] EXCEPT !.closed = TRUE]
      <4>1. engine' = [engine EXCEPT ![e].closed = engine[e].closed \/ engine[e].clean]
        BY <2>5 DEF Closes
      <4>2. (engine[e].closed \/ engine[e].clean) = TRUE
        BY <3>2
      <4>3. engine' = [engine EXCEPT ![e].closed = TRUE]
        BY <4>1, <4>2
      <4> QED
        BY <1>2, <4>3
    <3>4. engine'[e] = engine[e]
      BY <1>2, <3>2, <3>3 DEF Engine
    <3>5. (Grown(e))' /\ (Finished(e))'
      BY <3>1, <3>2, <3>4 DEF EngineSound, Grown, Finished, Untouched, Drained, Fresh, Past, Inside
    <3>6. (Tidied(e))'
      BY <3>4 DEF EngineSound, Tidied, Drained, Quiet
    <3> QED
      BY <2>1, <3>5, <3>6 DEF EngineSound
  <2>6. CASE Ends(e) \/ Reports(e) \/ Dies(e)
    <3>1. /\ engine' = engine /\ pc[e] \in Past /\ pc'[e] \in Past
          /\ pc[e] \notin Inside /\ pc'[e] \notin Inside
      BY <1>2, <2>6 DEF Ends, Reports, Dies, Goes, Past, Inside
    <3>2. engine[e].built => e = current' \/ Drained(e)
      <4>1. CASE Ends(e)
        BY <4>1, <3>1 DEF Ends, EngineSound, Finished
      <4>2. CASE current' = current
        BY <4>2 DEF EngineSound, Finished
      <4> QED
        BY <2>6, <4>1, <4>2 DEF Reports, Dies, controller
    <3>3. (Grown(e))'
      BY <3>1 DEF EngineSound, Grown, Untouched, Fresh, Past, Inside
    <3>4. (Finished(e))'
      BY <3>1, <3>2 DEF EngineSound, Finished, Drained
    <3>5. (Tidied(e))'
      BY <3>1 DEF EngineSound, Tidied, Drained, Quiet
    <3> QED
      BY <2>1, <3>3, <3>4, <3>5 DEF EngineSound
  <2> QED
    BY <2>2, <2>3, <2>4, <2>5, <2>6 DEF ThreadStep
<1> QED
  BY <1>5, <1>6

(* A clean-up, by the thread of its engine or by a caller: until the thread *)
(* is dead it is the thread's alone.                                        *)
LEMMA MovesSound ==
  ASSUME NEW e \in Generation, EngineSound(e),
         NEW from \in {"cleaning", "tidying"}, NEW asThread \in {"tidying", "closing"},
         NEW asCaller \in {"tidying", "judging"},
         \/ pc[e] = from /\ pc'[e] = asThread
         \/ pc'[e] = pc[e] /\ \E c \in Caller : call[c].engine = e /\ call[c].at = from
  PROVE  (pc[e] = from /\ pc'[e] = asThread) \/ (pc[e] = "dead" /\ pc'[e] = "dead")
BY DEF EngineSound, Kept, Shutting

LEMMA CleanupSound ==
  ASSUME IInv, Built, NEW e \in Generation, EngineSound(e), NEW f \in Generation, CleanupStep(f)
  PROVE  EngineSound(e)'
<1>1. UNCHANGED <<controller, overtaken>> /\ current' = current
  BY DEF CleanupStep, CleanupSkipped, CleanupBegins, AsksTriggers, JoinsTriggers,
         CleanupDrained, CleanupGivesUp, TearsDown, controller
<1>2. engine \in [Generation -> Engine]
  BY DEF IInv, TypeOK
<1>3. \/ UNCHANGED <<pc, call>>
      \/ Moves(f, "cleaning", "tidying", "tidying")
      \/ Moves(f, "cleaning", "closing", "judging")
      \/ Moves(f, "tidying", "closing", "judging")
  BY DEF CleanupStep, CleanupSkipped, CleanupBegins, AsksTriggers, JoinsTriggers,
         CleanupDrained, CleanupGivesUp, TearsDown, Leaves
<1>4. \A c \in Caller :
        /\ call'[c].engine = call[c].engine
        /\ call'[c].at = call[c].at
             \/ (call[c].engine = f /\ call[c].at \in {"cleaning", "tidying"}
                  /\ call'[c].at \in {"tidying", "judging"})
  <2>1. CASE UNCHANGED <<pc, call>>
    BY <2>1
  <2>2. CASE Moves(f, "cleaning", "tidying", "tidying")
    BY <2>2, MovesOne
  <2>3. CASE Moves(f, "cleaning", "closing", "judging")
    BY <2>3, MovesOne
  <2>4. CASE Moves(f, "tidying", "closing", "judging")
    BY <2>4, MovesOne
  <2> QED
    BY <1>3, <2>1, <2>2, <2>3, <2>4
<1>5. CASE f # e
  <2>1. engine'[e] = engine[e]
    BY <1>2, <1>5 DEF CleanupStep, CleanupSkipped, CleanupBegins, AsksTriggers, JoinsTriggers,
       CleanupDrained, CleanupGivesUp, TearsDown
  <2>2. pc'[e] = pc[e]
    BY <1>3, <1>5, MovesOne
  <2> QED
    BY <1>1, <1>4, <1>5, <2>1, <2>2, LeftAlone
<1>6. CASE f = e
  <2> USE <1>6
  <2>0. engine[e] \in Engine /\ engine'[e].built = engine[e].built
    BY <1>2 DEF CleanupStep, CleanupSkipped, CleanupBegins, AsksTriggers, JoinsTriggers,
       CleanupDrained, CleanupGivesUp, TearsDown, Engine
  <2>1. ASSUME pc'[e] = "dead" \/ pc[e] # "dead", Drained(e) => (Drained(e))'
        PROVE  (Kept(e))'
    <3>1. ASSUME NEW c \in Caller, call'[c].engine = e
          PROVE  /\ call'[c].at \in Shutting => pc'[e] = "dead"
                 /\ call'[c].at = "finishing" => (Drained(e))'
      <4>1. /\ call[c].engine = e
            /\ call'[c].at \in Shutting => call[c].at \in Shutting
            /\ call'[c].at = "finishing" => call[c].at = "finishing"
        BY <1>4, <3>1 DEF Shutting
      <4> QED
        BY <2>1, <4>1 DEF EngineSound, Kept, Shutting
    <3> QED
      BY <3>1 DEF Kept
  <2>2. CASE CleanupSkipped(e)
    <3>1. engine' = engine /\ engine[e].cleaned
      BY <2>2 DEF CleanupSkipped
    <3>2. (pc[e] = "cleaning" /\ pc'[e] = "closing") \/ (pc[e] = "dead" /\ pc'[e] = "dead")
      BY <2>2, MovesOne, MovesSound DEF CleanupSkipped
    <3>3. pc[e] = "dead" /\ pc'[e] = "dead"
      BY <3>1, <3>2 DEF EngineSound, Grown, Untouched, Fresh
    <3>4. (Grown(e))' /\ (Finished(e))'
      BY <1>1, <3>1, <3>3 DEF EngineSound, Grown, Finished, Untouched, Drained
    <3>5. (Tidied(e))'
      BY <3>1 DEF EngineSound, Tidied, Drained, Quiet
    <3>6. (Kept(e))'
      BY <2>1, <3>1, <3>3 DEF Drained
    <3> QED
      BY <3>4, <3>5, <3>6 DEF EngineSound
  <2>3. CASE CleanupBegins(e)
    <3>1. /\ engine'[e] = [engine[e] EXCEPT !.refusing = TRUE, !.triggers = Asked(e), !.stage = "asking"]
          /\ engine[e].stage = "free" /\ ~engine[e].cleaned
      BY <1>2, <2>3 DEF CleanupBegins
    <3>2. (pc[e] = "cleaning" /\ pc'[e] = "tidying") \/ (pc[e] = "dead" /\ pc'[e] = "dead")
      BY <2>3, MovesOne, MovesSound DEF CleanupBegins
    <3>3. engine[e].built
      <4>1. CASE pc[e] = "cleaning"
        BY <4>1 DEF EngineSound, Grown, Inside
      <4>2. CASE pc[e] = "dead"
        <5>1. PICK c \in Caller : call[c].engine = e
          BY <2>3, <4>2 DEF CleanupBegins, Moves, Goes
        <5> QED
          BY <5>1 DEF Built, Nobody, Generation
      <4> QED
        BY <3>2, <4>1, <4>2
    <3>4. /\ engine'[e].refusing /\ engine'[e].stage = "asking" /\ engine'[e].closed = engine[e].closed
          /\ engine'[e].clean = engine[e].clean /\ engine'[e].cleaned = engine[e].cleaned
          /\ engine'[e].unloaded = engine[e].unloaded
      BY <2>0, <3>1 DEF Engine
    <3>5. ~Drained(e) /\ ~(Drained(e))'
      BY <3>1, <3>4 DEF Drained
    <3>6. (Grown(e))'
      BY <2>0, <3>2, <3>3 DEF Grown, Fresh, Inside
    <3>7. (Finished(e))'
      BY <1>1, <2>0, <3>2, <3>4, <3>5 DEF EngineSound, Finished, Past
    <3>8. (Tidied(e))'
      BY <3>1, <3>4, <3>5 DEF EngineSound, Tidied
    <3>9. (Kept(e))'
      BY <2>1, <3>2, <3>5
    <3> QED
      BY <3>6, <3>7, <3>8, <3>9 DEF EngineSound
  <2>4. CASE AsksTriggers(e) \/ JoinsTriggers(e) \/ CleanupDrained(e)
    <3>1. UNCHANGED <<pc, call>> /\ engine[e].stage \notin {"free", "tearing"} /\ engine'[e].stage # "free"
      BY <1>2, <2>0, <2>4 DEF AsksTriggers, JoinsTriggers, CleanupDrained, Engine
    <3>2. /\ engine'[e].refusing = engine[e].refusing /\ engine'[e].cleaned = engine[e].cleaned
          /\ engine'[e].unloaded = engine[e].unloaded /\ engine'[e].runs = engine[e].runs
          /\ engine[e].closed => engine'[e].closed
      BY <1>2, <2>0, <2>4 DEF AsksTriggers, JoinsTriggers, CleanupDrained, Engine
    <3>3. ~Untouched(e) /\ ~Drained(e) /\ engine[e].refusing /\ ~engine[e].cleaned
      BY <3>1 DEF Untouched, Drained, EngineSound, Tidied
    <3>4. CASE AsksTriggers(e) \/ JoinsTriggers(e)
      <4>1. /\ engine'[e].stage \in {"joining", "waiting"} /\ engine'[e].clean = engine[e].clean
            /\ engine'[e].stage = "waiting" /\ engine'[e].stopped => engine'[e].triggers = "none"
        BY <1>2, <2>0, <3>4 DEF AsksTriggers, JoinsTriggers, Engine
      <4>2. ~(Drained(e))'
        BY <3>2, <3>3, <4>1 DEF Drained
      <4>3. (Grown(e))' /\ (Finished(e))'
        BY <1>1, <2>0, <3>1, <3>2, <3>3, <4>1, <4>2 DEF EngineSound, Grown, Finished
      <4>4. (Tidied(e))'
        BY <3>2, <3>3, <4>1, <4>2 DEF EngineSound, Tidied
      <4>5. (Kept(e))'
        BY <2>1, <3>1, <3>3
      <4> QED
        BY <4>3, <4>4, <4>5 DEF EngineSound
    <3>5. CASE CleanupDrained(e)
      <4>1. /\ engine[e].stage = "waiting" /\ engine[e].stopped /\ ~engine[e].runs
            /\ engine'[e].stage = "tearing" /\ engine'[e].closed
            /\ engine'[e].triggers = engine[e].triggers
        BY <1>2, <2>0, <3>5 DEF CleanupDrained, WorkDrained, Engine
      <4>2. (Drained(e))' /\ (Quiet(e))'
        BY <3>2, <4>1 DEF Drained, Quiet, EngineSound, Tidied
      <4>3. (Grown(e))' /\ (Finished(e))'
        BY <1>1, <2>0, <3>1, <3>2, <3>3, <4>1, <4>2 DEF EngineSound, Grown, Finished
      <4>4. (Tidied(e))'
        BY <3>2, <3>3, <4>1, <4>2 DEF EngineSound, Tidied
      <4>5. (Kept(e))'
        BY <2>1, <3>1, <3>3
      <4> QED
        BY <4>3, <4>4, <4>5 DEF EngineSound
    <3> QED
      BY <2>4, <3>4, <3>5
  <2>5. CASE CleanupGivesUp(e) \/ TearsDown(e)
    <3>1. (pc[e] = "tidying" /\ pc'[e] = "closing") \/ (pc[e] = "dead" /\ pc'[e] = "dead")
      BY <2>5, MovesOne, MovesSound DEF CleanupGivesUp, TearsDown, Leaves
    <3>2. /\ engine[e].stage # "free" /\ engine'[e].stage = "free"
          /\ engine'[e].refusing = engine[e].refusing /\ engine'[e].runs = engine[e].runs
          /\ engine'[e].triggers = engine[e].triggers
      BY <1>2, <2>0, <2>5 DEF CleanupGivesUp, TearsDown, Engine
    <3>3. ~Untouched(e) /\ engine[e].refusing /\ ~engine[e].cleaned /\ ~engine[e].unloaded
      BY <3>2 DEF Untouched, EngineSound, Tidied
    <3>4. (Grown(e))'
      BY <2>0, <3>1, <3>3 DEF EngineSound, Grown, Fresh, Inside
    <3>5. CASE CleanupGivesUp(e)
      <4>1. /\ engine[e].stage = "waiting" /\ ~engine'[e].clean /\ engine'[e].closed
            /\ engine'[e].cleaned = engine[e].cleaned /\ engine'[e].unloaded = engine[e].unloaded
        BY <1>2, <2>0, <3>5 DEF CleanupGivesUp, Engine
      <4>2. ~Drained(e) /\ ~(Drained(e))'
        BY <3>2, <3>3, <4>1 DEF Drained
      <4>3. (Finished(e))'
        BY <1>1, <2>0, <3>2, <3>3, <4>1, <4>2 DEF EngineSound, Finished
      <4>4. (Tidied(e))'
        BY <3>2, <3>3, <4>1, <4>2 DEF Tidied
      <4>5. (Kept(e))'
        BY <2>1, <3>1, <4>2
      <4> QED
        BY <3>4, <4>3, <4>4, <4>5 DEF EngineSound
    <3>6. CASE TearsDown(e)
      <4>1. /\ engine[e].stage = "tearing" /\ engine'[e].cleaned
            /\ engine'[e].closed = engine[e].closed
        BY <1>2, <2>0, <3>6 DEF TearsDown, Engine
      <4>2. Drained(e) /\ (Drained(e))' /\ (Quiet(e))' /\ engine'[e].closed
        BY <3>2, <4>1 DEF Drained, Quiet, EngineSound, Tidied
      <4>3. (Finished(e))'
        BY <3>2, <3>3, <4>2 DEF Finished
      <4>4. (Tidied(e))'
        BY <3>2, <3>3, <4>1, <4>2 DEF Tidied
      <4>5. (Kept(e))'
        BY <2>1, <3>1, <4>2
      <4> QED
        BY <3>4, <4>3, <4>4, <4>5 DEF EngineSound
    <3> QED
      BY <2>5, <3>5, <3>6
  <2> QED
    BY <2>2, <2>3, <2>4, <2>5 DEF CleanupStep
<1> QED
  BY <1>5, <1>6

(* A step of stop() clears away an engine that is clean, and begins the     *)
(* clean-up of its own generation's engine only when its thread is dead.    *)
LEMMA StopSound ==
  ASSUME IInv, Built, NEW e \in Generation, EngineSound(e), NEW c \in Caller, StopStep(c),
         e \notin overtaken'
  PROVE  EngineSound(e)'
<1>0. /\ call \in [Caller -> Call] /\ engine \in [Generation -> Engine] /\ e # Nobody
      /\ UNCHANGED pc
  BY DEF IInv, TypeOK, Nobody, Generation, StopStep, StopReads, StopJoins, StopTimesOut, StopLooks,
     ShutdownBegins, ShutdownEnds, StopFinishes, StopSuperseded
<1>1. CASE StopReads(c) \/ StopJoins(c) \/ StopTimesOut(c) \/ StopLooks(c) \/ StopSuperseded(c)
  <2>1. UNCHANGED <<controller, engine>> /\ current' = current
    BY <1>1 DEF StopReads, StopJoins, StopTimesOut, StopLooks, StopSuperseded, controller
  <2>2. /\ \A d \in Caller : d # c => call'[d] = call[d]
        /\ call'[c].engine = e => call'[c].at \notin Shutting
    BY <1>0, <1>1 DEF StopReads, StopJoins, StopTimesOut, StopLooks, StopSuperseded, NoCall, Call, Shutting
  <2> QED
    BY <1>0, <2>1, <2>2, LeftAlone
<1>2. CASE ShutdownBegins(c)
  <2>1. /\ engine' = engine /\ current' = current
        /\ \A d \in Caller : d # c => call'[d] = call[d]
        /\ call'[c].engine = call[c].engine /\ call'[c].at = "cleaning" /\ call[c].at = "shutting"
    BY <1>0, <1>2 DEF ShutdownBegins, Call
  <2>2. CASE call[c].engine # e
    BY <1>0, <2>1, <2>2, LeftAlone
  <2>3. CASE call[c].engine = e
    <3>1. call[c].generation = e
      BY <1>2, <2>3 DEF ShutdownBegins
    <3>2. ~Alive(e)
      BY <2>1, <3>1 DEF IInv, Joined, AfterJoin, AfterLook
    <3>3. engine[e].built
      BY <1>0, <2>3 DEF Built
    <3>4. pc[e] = "dead"
      BY <3>2, <3>3 DEF Alive, EngineSound, Grown
    <3>5. (Kept(e))'
      BY <1>0, <2>1, <3>4 DEF EngineSound, Kept, Shutting, Drained
    <3>6. (Grown(e))' /\ (Finished(e))' /\ (Tidied(e))'
      BY <1>0, <2>1 DEF EngineSound, Grown, Finished, Tidied, Untouched, Drained, Quiet
    <3> QED
      BY <3>5, <3>6 DEF EngineSound
  <2> QED
    BY <2>2, <2>3
<1>3. CASE ShutdownEnds(c)
  <2>1. /\ current' = current /\ call[c].at = "judging"
        /\ \A d \in Caller : d # c => call'[d] = call[d]
        /\ call'[c].engine = e => call[c].engine = e /\ call'[c].at = "finishing" /\ engine[e].clean
    BY <1>0, <1>3 DEF ShutdownEnds, NoCall, Call, controller
  <2>2. engine'[e] = engine[e]
    <3>1. CASE call[c].engine # e
      BY <1>0, <1>3, <3>1 DEF ShutdownEnds
    <3>2. CASE call[c].engine = e
      <4>1. pc[e] = "dead" /\ engine[e].built
        BY <1>0, <2>1, <3>2 DEF EngineSound, Kept, Shutting, Built
      <4>2. engine[e].closed
        BY <4>1 DEF EngineSound, Finished, Past
      <4>3. engine' = [engine EXCEPT ![e].closed = engine[e].closed \/ engine[e].clean]
        BY <1>3, <3>2 DEF ShutdownEnds
      <4>4. (engine[e].closed \/ engine[e].clean) = TRUE
        BY <4>2
      <4>5. engine' = [engine EXCEPT ![e].closed = TRUE]
        BY <4>3, <4>4
      <4> QED
        BY <1>0, <4>2, <4>5 DEF Engine
    <3> QED
      BY <3>1, <3>2
  <2>3. CASE call'[c].engine # e
    BY <1>0, <2>1, <2>2, <2>3, LeftAlone
  <2>4. CASE call'[c].engine = e
    <3>1. pc[e] = "dead" /\ engine[e].built
      BY <1>0, <2>1, <2>4 DEF EngineSound, Kept, Shutting, Built
    <3>2. Drained(e)
      BY <2>1, <2>4, <3>1 DEF EngineSound, Finished, Past
    <3>3. (Kept(e))'
      BY <1>0, <2>1, <2>2, <3>1, <3>2 DEF EngineSound, Kept, Drained
    <3>4. (Grown(e))' /\ (Finished(e))' /\ (Tidied(e))'
      BY <1>0, <2>1, <2>2 DEF EngineSound, Grown, Finished, Tidied, Untouched, Drained, Quiet
    <3> QED
      BY <3>3, <3>4 DEF EngineSound
  <2> QED
    BY <2>3, <2>4
<1>4. CASE StopFinishes(c)
  <2>1. /\ engine' = engine /\ call[c].at = "finishing"
        /\ \A d \in Caller : d # c => call'[d] = call[d]
        /\ call'[c].at = "idle"
    BY <1>0, <1>4 DEF StopFinishes, NoCall
  <2>2. e = current => e = current' \/ Drained(e)
    BY <1>4, <2>1 DEF StopFinishes, EngineSound, Kept
  <2> QED
    BY <1>0, <2>1, <2>2, LeftAlone DEF Shutting
<1> QED
  BY <1>1, <1>2, <1>3, <1>4 DEF StopStep

(* What the controller or a call of stop() holds has been built.            *)
LEMMA BuiltKeeps ==
  ASSUME IInv, IInv', EngineInv, [Next]_vars
  PROVE  Built'
<1>0. /\ engine \in [Generation -> Engine] /\ call \in [Caller -> Call]
      /\ current \in {Nobody} \union Generation
      /\ \A c \in Caller : call[c].engine \in {Nobody} \union Generation
  BY DEF IInv, TypeOK, Call
<1>1. \A e \in Generation : engine[e].built => engine'[e].built
  <2>1. CASE UNCHANGED engine
    BY <2>1
  <2>2. ASSUME NEW g \in Generation, EngineBuilt(g) \/ TakesFlag(g) \/ MountTriggers(g) \/ Closes(g)
        PROVE  \A e \in Generation : engine[e].built => engine'[e].built
    BY <1>0, <2>2 DEF EngineBuilt, TakesFlag, MountTriggers, Closes, Engine
  <2>3. ASSUME NEW g \in Generation, CleanupStep(g)
        PROVE  \A e \in Generation : engine[e].built => engine'[e].built
    BY <1>0, <2>3 DEF CleanupStep, CleanupSkipped, CleanupBegins, AsksTriggers, JoinsTriggers,
       CleanupDrained, CleanupGivesUp, TearsDown, Engine
  <2>4. ASSUME NEW g \in Generation, WorkStep(g)
        PROVE  \A e \in Generation : engine[e].built => engine'[e].built
    BY <1>0, <2>4 DEF WorkStep, TriggerExits, RunStarts, RunEnds, Engine
  <2>5. ASSUME NEW c \in Caller, ShutdownEnds(c)
        PROVE  \A e \in Generation : engine[e].built => engine'[e].built
    BY <1>0, <2>5 DEF ShutdownEnds, Engine
  <2>6. ASSUME NEW g \in Generation, ThreadStep(g)
        PROVE  \/ UNCHANGED engine
               \/ EngineBuilt(g) \/ TakesFlag(g) \/ MountTriggers(g) \/ Closes(g)
    BY <2>6 DEF ThreadStep, FactoryRaises, EngineOpens, RulesPrepared, PreparationFails, LoopEnds,
       Ends, Reports, Dies
  <2>7. ASSUME NEW c \in Caller, StopAsks(c) \/ StopStep(c)
        PROVE  UNCHANGED engine \/ ShutdownEnds(c)
    BY <2>7 DEF StopAsks, AskToStop, StopStep, StopReads, StopJoins, StopTimesOut, StopLooks,
       ShutdownBegins, StopFinishes, StopSuperseded
  <2> QED
    BY <2>1, <2>2, <2>3, <2>4, <2>5, <2>6, <2>7 DEF Next, Start, StartFails, RequestStop, AskToStop, vars
<1>2. current' # Nobody => engine'[current'].built
  <2>1. current' \in {current, Nobody} \/ \E g \in Generation : EngineBuilt(g)
    BY DEF Next, vars, controller, Start, StartFails, RequestStop, AskToStop, StopAsks,
       ThreadStep, FactoryRaises, EngineOpens, TakesFlag, RulesPrepared, PreparationFails,
       MountTriggers, LoopEnds, Closes, Ends, Reports, Dies, CleanupStep, CleanupSkipped,
       CleanupBegins, AsksTriggers, JoinsTriggers, CleanupDrained, CleanupGivesUp, TearsDown,
       WorkStep, TriggerExits, RunStarts, RunEnds, StopStep, StopReads, StopJoins, StopTimesOut,
       StopLooks, ShutdownBegins, ShutdownEnds, StopFinishes, StopSuperseded
  <2>2. ASSUME NEW g \in Generation, EngineBuilt(g) PROVE engine'[current'].built
    BY <1>0, <2>2 DEF EngineBuilt, Engine
  <2> QED
    BY <1>0, <1>1, <2>1, <2>2 DEF EngineInv, Built
<1>3. ASSUME NEW c \in Caller, call'[c].engine # Nobody PROVE engine'[call'[c].engine].built
  <2>1. call'[c].engine \in {call[c].engine, current, Nobody}
    <3>1. CASE UNCHANGED call
      BY <3>1
    <3>2. ASSUME NEW d \in Caller, StopAsks(d) \/ StopStep(d)
          PROVE call'[c].engine \in {call[c].engine, current, Nobody}
      <4>1. call[c] \in Call /\ call[d] \in Call
        BY <1>0
      <4>2. CASE c # d
        BY <1>0, <3>2, <4>2 DEF StopAsks, StopStep, StopReads, StopJoins, StopTimesOut, StopLooks,
           ShutdownBegins, ShutdownEnds, StopFinishes, StopSuperseded
      <4>3. CASE c = d
        BY <1>0, <3>2, <4>1, <4>3 DEF StopAsks, StopStep, StopReads, StopJoins, StopTimesOut,
           StopLooks, ShutdownBegins, ShutdownEnds, StopFinishes, StopSuperseded, NoCall, Call
      <4> QED
        BY <4>2, <4>3
    <3>3. ASSUME NEW e \in Generation, CleanupStep(e)
          PROVE call'[c].engine \in {call[c].engine, current, Nobody}
      <4>1. \/ UNCHANGED call
            \/ Moves(e, "cleaning", "tidying", "tidying")
            \/ Moves(e, "cleaning", "closing", "judging")
            \/ Moves(e, "tidying", "closing", "judging")
        BY <3>3 DEF CleanupStep, CleanupSkipped, CleanupBegins, AsksTriggers, JoinsTriggers,
           CleanupDrained, CleanupGivesUp, TearsDown, Leaves
      <4>2. CASE Moves(e, "cleaning", "tidying", "tidying")
        BY <4>2, MovesOne
      <4>3. CASE Moves(e, "cleaning", "closing", "judging")
        BY <4>3, MovesOne
      <4>4. CASE Moves(e, "tidying", "closing", "judging")
        BY <4>4, MovesOne
      <4> QED
        BY <4>1, <4>2, <4>3, <4>4
    <3>4. ASSUME NEW g \in Generation, ThreadStep(g) \/ WorkStep(g) PROVE UNCHANGED call
      BY <3>4 DEF ThreadStep, FactoryRaises, EngineBuilt, EngineOpens, TakesFlag, RulesPrepared,
         PreparationFails, MountTriggers, LoopEnds, Closes, Ends, Reports, Dies,
         WorkStep, TriggerExits, RunStarts, RunEnds
    <3> QED
      BY <3>1, <3>2, <3>3, <3>4 DEF Next, vars, Start, StartFails, RequestStop
  <2> QED
    BY <1>0, <1>1, <1>3, <2>1 DEF EngineInv, Built
<1> QED
  BY <1>2, <1>3 DEF Built

LEMMA NextEngineInv == IInv /\ IInv' /\ EngineInv /\ [Next]_vars => EngineInv'
<1> SUFFICES ASSUME IInv, IInv', EngineInv, [Next]_vars PROVE EngineInv'
  OBVIOUS
<1>1. Built'
  BY BuiltKeeps
<1>2. ASSUME NEW e \in Generation, e \notin overtaken' PROVE EngineSound(e)'
  <2>1. overtaken \subseteq overtaken'
    BY DEF Next, vars, controller, Start, StartFails, RequestStop, AskToStop, StopAsks,
       ThreadStep, FactoryRaises, EngineBuilt, EngineOpens, TakesFlag, RulesPrepared,
       PreparationFails, MountTriggers, LoopEnds, Closes, Ends, Reports, Dies, CleanupStep,
       CleanupSkipped, CleanupBegins, AsksTriggers, JoinsTriggers, CleanupDrained, CleanupGivesUp,
       TearsDown, WorkStep, TriggerExits, RunStarts, RunEnds, StopStep, StopReads, StopJoins,
       StopTimesOut, StopLooks, ShutdownBegins, ShutdownEnds, StopFinishes, StopSuperseded
  <2>2. EngineSound(e) /\ Built
    BY <1>2, <2>1 DEF EngineInv
  <2>3. CASE Start \/ StartFails
    BY <2>2, <2>3, StartSound
  <2>4. CASE RequestStop \/ UNCHANGED vars
    <3>1. UNCHANGED <<current, pc, engine, call>>
      BY <2>4 DEF RequestStop, AskToStop, vars, controller
    <3> QED
      BY <2>2, <3>1, LeftAlone
  <2>5. ASSUME NEW g \in Generation, ThreadStep(g) \/ CleanupStep(g) \/ WorkStep(g)
        PROVE  EngineSound(e)'
    BY <2>2, <2>5, ThreadSound, CleanupSound, WorkSound
  <2>6. ASSUME NEW c \in Caller, StopAsks(c) PROVE EngineSound(e)'
    <3>1. /\ UNCHANGED <<current, pc, engine>> /\ call[c] \in Call
          /\ \A d \in Caller : d # c => call'[d] = call[d]
          /\ call'[c] = [call[c] EXCEPT !.at = "asked"]
      BY <2>6 DEF StopAsks, AskToStop, IInv, TypeOK
    <3>2. call'[c].at = "asked"
      BY <3>1 DEF Call
    <3> QED
      BY <2>2, <3>1, <3>2, LeftAlone DEF Shutting
  <2>7. ASSUME NEW c \in Caller, StopStep(c) PROVE EngineSound(e)'
    BY <1>2, <2>2, <2>7, StopSound
  <2> QED
    BY <2>3, <2>4, <2>5, <2>6, <2>7 DEF Next
<1> QED
  BY <1>1, <1>2 DEF EngineInv

(* Every engine is torn down in order, whoever cleans it up.                *)
THEOREM EnginesSound == Spec => []EngineInv
<1>1. Init => EngineInv
  BY InitEngineInv
<1>2. IInv /\ IInv' /\ EngineInv /\ [Next]_vars => EngineInv'
  BY NextEngineInv
<1> QED
  BY <1>1, <1>2, Invariance, PTL DEF Spec

(* When the controller says "stopped", nothing runs of any engine that was  *)
(* not shut down by a stop() older than itself: no trigger, no workflow     *)
(* run, and its privilege session is closed.                                *)
THEOREM StoppedIsQuiet == Spec => []StoppedMeansQuiet
<1>1. IInv /\ EngineInv => StoppedMeansQuiet
  <2> SUFFICES ASSUME IInv, EngineInv, state = "stopped",
                      NEW e \in Generation \ overtaken, engine[e].built
               PROVE  Quiet(e) /\ engine[e].closed
    BY DEF StoppedMeansQuiet
  <2>1. current # e
    BY DEF IInv, StoppedMeansOver, Nobody, Generation
  <2> QED
    BY <2>1 DEF EngineInv, EngineSound, Finished, Tidied
<1> QED
  BY <1>1, Invariance, EnginesSound, PTL

(* The plug-ins of such an engine are torn down once, and only when nothing *)
(* of it runs any more.                                                     *)
THEOREM TornDownIdle == Spec => []UnloadedIdle
<1>1. EngineInv => UnloadedIdle
  BY DEF EngineInv, EngineSound, Tidied, Drained, UnloadedIdle
<1> QED
  BY <1>1, EnginesSound, PTL
=============================================================================
