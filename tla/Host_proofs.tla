----------------------------- MODULE Host_proofs -----------------------------
(* Theorems about what surrounds the automation core, for any number of     *)
(* processes, launches, sessions, commands and threads: processes that were *)
(* asked to leave do, dashboards are found, what a command acquired is      *)
(* given back when its session closes, what rules call was judged, actions  *)
(* that block end with what they report, drafts are answered, what is typed *)
(* into password fields is not recorded, and triggers report what they saw. *)
EXTENDS MCHost, TLAPS, FiniteSetTheorems, SequenceTheorems, WellFoundedInduction

-----------------------------------------------------------------------------
(* AppHost.  Before the services are built nobody can ask a process to      *)
(* leave; once it cleans up nobody can start its engine again; and until    *)
(* then it has the API port or has begun to give it up.                     *)
Mains == {"none", "claiming", "preparing", "starting", "launching", "serving", "cleaning",
          "stopping", "closing", "returned", "gone"}

HostTypes ==
  /\ main \in [Hosts -> Mains]
  /\ engine \in [Hosts -> {"off", "on", "told"}]
  /\ server \in [Hosts -> {"none", "serving", "told", "draining", "over"}]
  /\ tray \in [Hosts -> {"none", "idle", "exiting", "over"}]

Early(h) ==
  main[h] \in {"none", "claiming", "preparing"} =>
    engine[h] = "off" /\ tray[h] = "none" /\ h \notin asked

Late(h) ==
  /\ main[h] \in {"stopping", "closing", "returned", "gone"} => tray[h] # "idle"
  /\ main[h] \in {"closing", "returned"} /\ engine[h] # "off" => h \in armed
  /\ main[h] = "gone" => engine[h] = "off"

HoldsPort(h) ==
  /\ main[h] \in {"preparing", "starting", "launching"} => apiPort = h
  /\ main[h] = "serving" =>
       server[h] \in {"serving", "told", "draining"} /\ (server[h] # "draining" => apiPort = h)

Leaving(h) == h \in asked /\ Living(h) => tray[h] = "exiting" \/ h \in armed \/ CleaningUp(h)

HostInv ==
  /\ HostTypes /\ asked \subseteq Hosts
  /\ \A h \in Hosts : Early(h) /\ Late(h) /\ HoldsPort(h) /\ Leaving(h)

LEMMA HostInvInit == HostInit => HostInv
  BY DEF HostInit, HostInv, HostTypes, Mains, Early, Late, HoldsPort, Leaving

(* A step is one of one process, and takes the port only from nobody.       *)
HostStep(h) ==
  \/ LaunchHost(h) \/ ClaimApiPort(h) \/ PrepareFails(h) \/ StartEngine(h) \/ Serve(h)
  \/ \E works \in BOOLEAN : StartTray(h, works)
  \/ DrainServer(h) \/ LeaveServe(h)
  \/ SignalEarly(h) \/ BeginCleanup(h) \/ CloseUp(h) \/ EndProcess(h) \/ ForceExit(h)
  \/ EngineJoined(h)
  \/ EngineEnds(h) \/ ActionHangs(h) \/ (\E on \in BOOLEAN : Toggle(h, on))
  \/ TrayExit(h) \/ TrayShutsDown(h) \/ ApiShutdown(h)

LEMMA HostStepOwn ==
  ASSUME HostInv, NEW h \in Hosts, HostStep(h)
  PROVE  /\ HostTypes' /\ asked' \subseteq Hosts
         /\ Early(h)' /\ Late(h)' /\ HoldsPort(h)' /\ Leaving(h)'
         /\ apiPort' \in {apiPort, Free} \/ (apiPort = Free /\ apiPort' = h)
         /\ apiPort' # apiPort => apiPort \in {h, Free}
         /\ \A g \in Hosts : g # h =>
              /\ main'[g] = main[g] /\ engine'[g] = engine[g] /\ server'[g] = server[g]
              /\ tray'[g] = tray[g] /\ (g \in armed' <=> g \in armed) /\ (g \in asked' <=> g \in asked)
<1> USE DEF HostInv, HostTypes, Mains, Early, Late, HoldsPort, Leaving, Living, CleaningUp,
            MainGoes, TrayGoes, TrayStops, EngineStarted, EngineTold, ShutdownRequested
<1>1. CASE LaunchHost(h)
  BY <1>1 DEF LaunchHost
<1>2. CASE ClaimApiPort(h)
  BY <1>2 DEF ClaimApiPort
<1>3. CASE PrepareFails(h)
  BY <1>3 DEF PrepareFails
<1>4. CASE StartEngine(h)
  BY <1>4 DEF StartEngine
<1>5. CASE Serve(h)
  BY <1>5 DEF Serve
<1>6. ASSUME NEW works \in BOOLEAN, StartTray(h, works) PROVE StartTray(h, TRUE) \/ StartTray(h, FALSE)
  BY <1>6
<1>7. CASE StartTray(h, TRUE)
  BY <1>7 DEF StartTray
<1>8. CASE StartTray(h, FALSE)
  BY <1>8 DEF StartTray
<1>9. CASE DrainServer(h)
  BY <1>9 DEF DrainServer
<1>10. CASE LeaveServe(h)
  BY <1>10 DEF LeaveServe
<1>11. CASE SignalEarly(h)
  BY <1>11 DEF SignalEarly
<1>12. CASE BeginCleanup(h)
  BY <1>12 DEF BeginCleanup
<1>13. CASE CloseUp(h)
  BY <1>13 DEF CloseUp
<1>14. CASE EndProcess(h)
  BY <1>14 DEF EndProcess
<1>15. CASE ForceExit(h)
  BY <1>15 DEF ForceExit
<1>16. CASE EngineJoined(h)
  BY <1>16 DEF EngineJoined
<1>17. CASE EngineEnds(h)
  BY <1>17 DEF EngineEnds
<1>18. CASE ActionHangs(h)
  BY <1>18 DEF ActionHangs
<1>19. ASSUME NEW on \in BOOLEAN, Toggle(h, on) PROVE Toggle(h, TRUE) \/ Toggle(h, FALSE)
  BY <1>19
<1>20. CASE Toggle(h, TRUE)
  BY <1>20 DEF Toggle
<1>21. CASE Toggle(h, FALSE)
  BY <1>21 DEF Toggle
<1>22. CASE TrayExit(h)
  BY <1>22 DEF TrayExit
<1>23. CASE TrayShutsDown(h)
  BY <1>23 DEF TrayShutsDown
<1>24. CASE ApiShutdown(h)
  BY <1>24 DEF ApiShutdown
<1> QED
  BY <1>1, <1>2, <1>3, <1>4, <1>5, <1>6, <1>7, <1>8, <1>9, <1>10, <1>11, <1>12, <1>13, <1>14,
     <1>15, <1>16, <1>17, <1>18, <1>19, <1>20, <1>21, <1>22, <1>23, <1>24 DEF HostStep

LEMMA HostInvStep == HostInv /\ [HostNext]_hostVars => HostInv'
<1> SUFFICES ASSUME HostInv, [HostNext]_hostVars PROVE HostInv'
  OBVIOUS
<1>1. CASE UNCHANGED hostVars
  BY <1>1 DEF hostVars, HostInv, HostTypes, Early, Late, HoldsPort, Leaving, Living, CleaningUp
<1>2. ASSUME NEW h \in Hosts, HostStep(h) PROVE HostInv'
  <2>1. /\ HostTypes' /\ asked' \subseteq Hosts
        /\ Early(h)' /\ Late(h)' /\ HoldsPort(h)' /\ Leaving(h)'
    BY <1>2, HostStepOwn
  <2>2. ASSUME NEW g \in Hosts, g # h
        PROVE  Early(g)' /\ Late(g)' /\ HoldsPort(g)' /\ Leaving(g)'
    <3>1. /\ main'[g] = main[g] /\ engine'[g] = engine[g] /\ server'[g] = server[g]
          /\ tray'[g] = tray[g] /\ (g \in armed' <=> g \in armed) /\ (g \in asked' <=> g \in asked)
      BY <1>2, <2>2, HostStepOwn
    <3>2. apiPort' # apiPort => apiPort \in {h, Free}
      BY <1>2, HostStepOwn
    <3>3. g # Free
      BY HostConstants
    <3>4. Early(g)' /\ Late(g)' /\ Leaving(g)'
      BY <3>1 DEF HostInv, Early, Late, Leaving, Living, CleaningUp
    <3>5. HoldsPort(g)'
      BY <2>2, <3>1, <3>2, <3>3 DEF HostInv, HoldsPort
    <3> QED
      BY <3>4, <3>5
  <2> QED
    BY <2>1, <2>2 DEF HostInv
<1> QED
  BY <1>1, <1>2 DEF HostNext, HostStep

(* A process that was asked to leave is on its way at every moment, what    *)
(* has cleaned up leaves no engine at work but by force, and an engine is   *)
(* at work only in the process that has the API port or is leaving.         *)
THEOREM ProcessesLeave == HostSpec => []HostsLeave
<1>1. HostInv => HostsLeave
  <2> SUFFICES ASSUME HostInv PROVE HostsLeave
    OBVIOUS
  <2>1. ASSUME NEW h \in Hosts, engine[h] # "off"
        PROVE  apiPort = h \/ server[h] = "draining" \/ CleaningUp(h)
    BY <2>1 DEF HostInv, HostTypes, Mains, Early, Late, HoldsPort, CleaningUp
  <2> QED
    BY <2>1 DEF HostInv, HostsLeave, Late, Leaving
<1> QED
  BY <1>1, HostInvInit, HostInvStep, PTL DEF HostSpec

-----------------------------------------------------------------------------
(* Dashboards.  The launch that has the control port is the one that        *)
(* publishes its secret and serves; nobody else writes the file.            *)
BoardPlaces == {"idle", "claiming", "reading", "asking", "publishing", "yielded", "failed",
                "preparing", "open", "leaving", "comparing", "removing", "gone"}
HasServed == {"preparing", "open", "leaving", "comparing", "removing", "gone"}

BoardInv ==
  /\ board \in [Boards -> BoardPlaces] /\ controlPort \in Boards \cup {Nobody}
  /\ \A d \in Boards : board[d] = "publishing" \/ Serving(d) => controlPort = d
  /\ \A d \in Boards : Serving(d) => secretFile \in {d, Nobody}
  /\ \A d \in Boards :
       Serving(d) /\ secretFile = Nobody => \E e \in Boards \ {d} : board[e] = "gone"
  /\ show \subseteq Boards /\ quit \subseteq Boards
  /\ \A d \in show \cup quit : board[d] \in HasServed

LEMMA BoardInvInit == DashboardInit => BoardInv
  BY DEF DashboardInit, BoardInv, BoardPlaces, Serving

(* Steps that touch neither the port nor the file, and end no serving.      *)
LEMMA BoardMoves ==
  ASSUME BoardInv, NEW d \in Boards, NEW to \in BoardPlaces,
         board' = [board EXCEPT ![d] = to], UNCHANGED <<controlPort, secretFile>>,
         to # "publishing", board[d] # "gone",
         to \in {"preparing", "open", "leaving"} => Serving(d),
         board[d] \in HasServed => to \in HasServed,
         \A e \in (show' \cup quit') \ (show \cup quit) : Serving(e) /\ e # d,
         show' \subseteq Boards, quit' \subseteq Boards
  PROVE  BoardInv'
<1>1. \A e \in Boards : e # d => board'[e] = board[e] /\ ((Serving(e))' <=> Serving(e))
  BY DEF BoardInv, Serving
<1>2. board'[d] = to /\ ((Serving(d))' => Serving(d))
  BY DEF BoardInv, Serving
<1>3. \A e \in Boards : board[e] = "gone" => board'[e] = "gone"
  BY <1>1
<1>4. \A e \in show' \cup quit' : board'[e] \in HasServed
  BY <1>1, <1>2 DEF BoardInv, Serving, HasServed
<1> QED
  BY <1>1, <1>2, <1>3, <1>4 DEF BoardInv

LEMMA BoardInvStep == BoardInv /\ [DashboardNext]_dashboardVars => BoardInv'
<1> SUFFICES ASSUME BoardInv, [DashboardNext]_dashboardVars PROVE BoardInv'
  OBVIOUS
<1>0. show \subseteq Boards /\ quit \subseteq Boards /\ Nobody \notin Boards
  BY DashboardConstants DEF BoardInv
<1>1. CASE UNCHANGED dashboardVars
  BY <1>1 DEF dashboardVars, BoardInv, Serving
<1>2. ASSUME NEW d \in Boards,
             \/ OpenBoard(d) \/ ReadSecret(d) \/ AskInVain(d) \/ CloseWindow(d) \/ CompareSecret(d)
             \/ \E built \in BOOLEAN : ShowWindow(d, built)
             \/ ClaimPort(d) /\ ~Bindable
      PROVE  BoardInv'
  <2>1. PICK to \in BoardPlaces :
          /\ board' = [board EXCEPT ![d] = to] /\ UNCHANGED <<controlPort, secretFile, show, quit>>
          /\ to # "publishing" /\ board[d] # "gone"
          /\ to \in {"preparing", "open", "leaving"} => Serving(d)
          /\ board[d] \in HasServed => to \in HasServed
    BY <1>2 DEF OpenBoard, ReadSecret, AskInVain, CloseWindow, CompareSecret, ShowWindow, ClaimPort,
       BoardDoes, QuietCommands, Serving, HasServed, BoardPlaces
  <2> QED
    BY <1>0, <2>1, BoardMoves
<1>3. ASSUME NEW d \in Boards, AskToShow(d) PROVE BoardInv'
  <2>1. /\ board' = [board EXCEPT ![d] = "yielded"] /\ UNCHANGED <<controlPort, secretFile, quit>>
        /\ show' = show \cup {controlPort} /\ board[d] = "asking"
        /\ controlPort # Nobody /\ Serving(controlPort)
    BY <1>3 DEF AskToShow, BoardDoes, Heeds
  <2>2. controlPort \in Boards /\ controlPort # d
    BY <2>1 DEF BoardInv, Serving
  <2> QED
    BY <1>0, <2>1, <2>2, BoardMoves DEF BoardPlaces, HasServed
<1>4. ASSUME NEW d \in Boards, ClaimPort(d), Bindable PROVE BoardInv'
  BY <1>0, <1>4 DEF ClaimPort, Bindable, BoardDoes, QuietCommands, BoardInv, BoardPlaces, Serving, HasServed
<1>5. ASSUME NEW d \in Boards, PublishSecret(d) PROVE BoardInv'
  BY <1>0, <1>5 DEF PublishSecret, BoardDoes, QuietCommands, BoardInv, BoardPlaces, Serving, HasServed
<1>6. ASSUME NEW d \in Boards, PublishFails(d) \/ CloseServer(d) PROVE BoardInv'
  BY <1>0, <1>6 DEF PublishFails, CloseServer, BoardDoes, QuietCommands, BoardInv, BoardPlaces,
     Serving, HasServed
<1>7. ASSUME NEW d \in Boards, RemoveSecret(d) PROVE BoardInv'
  BY <1>0, <1>7 DEF RemoveSecret, BoardDoes, QuietCommands, BoardInv, BoardPlaces, Serving, HasServed
<1>8. ASSUME NEW d \in Boards, ComeToFront(d) PROVE BoardInv'
  BY <1>0, <1>8 DEF ComeToFront, BoardInv, Serving
<1>9. ASSUME NEW q \in Quitters, ReadToQuit(q) \/ SendQuit(q) PROVE BoardInv'
  <2>1. /\ UNCHANGED <<board, controlPort, secretFile, show>>
        /\ quit' = quit \/ (Serving(controlPort) /\ controlPort # Nobody /\ quit' = quit \cup {controlPort})
    BY <1>9 DEF ReadToQuit, SendQuit, Heeds
  <2> QED
    BY <1>0, <2>1 DEF BoardInv, Serving, HasServed
<1> QED
  BY <1>1, <1>2, <1>3, <1>4, <1>5, <1>6, <1>7, <1>8, <1>9 DEF DashboardNext

(* There is one window at most, its process has the port, the file never    *)
(* offers a secret that the serving dashboard would refuse, and requests to *)
(* show or to quit have gone to a process that served.                      *)
THEOREM DashboardFound == DashboardSpec => []DashboardsFound
<1>1. BoardInv => DashboardsFound
  BY DEF BoardInv, DashboardsFound, Serving, HasServed
<1> QED
  BY <1>1, BoardInvInit, BoardInvStep, PTL DEF DashboardSpec

-----------------------------------------------------------------------------
(* ExtensionSessions.  A session that was opened is listed, about to be     *)
(* closed or closed; a callback waits only with a session that is not       *)
(* closed; and what is held after it was handed over has its callback.      *)
Stages == {"new", "posted", "done", "checking", "entering", "inside", "holding", "registered",
           "stays", "closes"}

SessionTypes ==
  /\ listed \subseteq Sessions /\ shut \subseteq Sessions /\ doomed \subseteq Sessions
  /\ freeing \in Seq(Commands) /\ cleanups \in [Sessions -> Seq(Commands)]
  /\ stage \in [Commands -> Stages] /\ ofSession \in [Commands -> SUBSET Sessions]
  /\ resource \in [Commands -> {"none", "held", "freed", "stopped"}]

Waits(c, s) == \E k \in 1 .. Len(cleanups[s]) : cleanups[s][k] = c
Freed(c) == \E k \in 1 .. Len(freeing) : freeing[k] = c

Opened(s) == \E c \in Commands : Serves(c, s)

SessionsApart ==
  /\ listed \cap doomed = {} /\ listed \cap shut = {} /\ doomed \cap shut = {}
  /\ \A s \in Sessions : Opened(s) <=> s \in listed \cup doomed \cup shut

OneSession(c) ==
  /\ stage[c] = "new" => ofSession[c] = {} /\ resource[c] = "none"
  /\ stage[c] # "new" => \E s \in Sessions : ofSession[c] = {s}

HandedOver(c) ==
  /\ \A s \in Sessions : Waits(c, s) => Serves(c, s) /\ s \notin shut
  /\ Freed(c) => stage[c] # "new" /\ ofSession[c] \subseteq shut
  /\ resource[c] = "held" /\ stage[c] # "holding" =>
       Freed(c) \/ \E s \in Sessions : Waits(c, s)
  /\ resource[c] = "freed" => ofSession[c] \subseteq shut

SessionInv ==
  /\ SessionTypes /\ SessionsApart
  /\ \A c \in Commands : OneSession(c) /\ HandedOver(c)

LEMMA SessionInvInit == SessionInit => SessionInv
<1> SUFFICES ASSUME SessionInit PROVE SessionInv
  OBVIOUS
<1>1. SessionTypes /\ SessionsApart
  BY DEF SessionInit, SessionTypes, SessionsApart, Stages, Opened, Serves
<1>2. ASSUME NEW c \in Commands PROVE OneSession(c) /\ HandedOver(c)
  BY DEF SessionInit, OneSession, HandedOver, Waits, Freed
<1> QED
  BY <1>1, <1>2 DEF SessionInv

(* A step of the loop that opens, finds or drops sessions.                  *)
LoopMove(fresh, c, to, of) ==
  /\ LoopFree /\ UNCHANGED <<shut, freeing, cleanups, resource>>
  /\ to = "new" => stage[c] = "new"
  /\ stage[c] = "holding" => to = "holding"
  /\ Moves(c, to) \/ (UNCHANGED stage /\ to = stage[c])
  /\ ofSession' = [ofSession EXCEPT ![c] = of]
  /\ of = ofSession[c] \/ (stage[c] = "new" /\ to # "new")
  /\ to # "new" => \E s \in Sessions : of = {s}
  /\ \A s \in fresh : ~Opened(s) /\ of = {s}
  /\ \A s \in of : Opened(s) \/ s \in fresh
  /\ listed' \cup doomed' = listed \cup fresh
  /\ listed' \cap doomed' = {}

LEMMA LoopKeeps ==
  ASSUME SessionInv, NEW fresh \in SUBSET Sessions,
         NEW c \in Commands, NEW to \in Stages, NEW of \in SUBSET Sessions,
         LoopMove(fresh, c, to, of)
  PROVE  SessionInv'
<1> USE DEF SessionInv, SessionTypes, LoopMove
<1>0. doomed = {} /\ freeing = <<>>
  BY DEF LoopFree
<1>1. stage' = [stage EXCEPT ![c] = to]
  BY DEF Moves
<1>2. SessionTypes'
  BY <1>1
<1>3. ASSUME NEW s \in Sessions PROVE (Opened(s))' <=> Opened(s) \/ s \in fresh
  BY DEF Opened, Serves, OneSession
<1>4. SessionsApart'
  BY <1>0, <1>3 DEF SessionsApart
<1>5. ASSUME NEW d \in Commands PROVE OneSession(d)' /\ HandedOver(d)'
  <2>1. OneSession(d)'
    BY <1>1 DEF OneSession
  <2>2. stage[d] = "new" => ~Freed(d) /\ resource[d] = "none" /\ \A s \in Sessions : ~Waits(d, s)
    BY DEF HandedOver, OneSession, Serves
  <2>3. stage[d] # "new" => ofSession'[d] = ofSession[d]
    OBVIOUS
  <2>4. HandedOver(d)'
    BY <1>1, <2>2, <2>3 DEF HandedOver, Waits, Freed, Serves
  <2> QED
    BY <2>1, <2>4
<1> QED
  BY <1>2, <1>4, <1>5

(* A step of a command's thread that hands nothing over.                    *)
LEMMA ThreadKeeps ==
  ASSUME SessionInv, NEW c \in Commands, NEW to \in Stages,
         Moves(c, to), to # "new", stage[c] \notin {"new", "holding"},
         UNCHANGED <<listed, shut, doomed, freeing, cleanups, ofSession>>,
         \/ UNCHANGED resource
         \/ to = "holding" /\ resource' = [resource EXCEPT ![c] = "held"]
         \/ \E o \in Commands : resource' = [resource EXCEPT ![o] = "stopped"] /\ resource[o] = "held"
  PROVE  SessionInv'
<1> USE DEF SessionInv, SessionTypes, Moves
<1>1. SessionTypes'
  OBVIOUS
<1>2. SessionsApart'
  BY DEF SessionsApart, Opened, Serves
<1>3. ASSUME NEW d \in Commands PROVE OneSession(d)' /\ HandedOver(d)'
  BY DEF OneSession, HandedOver, Waits, Freed, Serves
<1> QED
  BY <1>1, <1>2, <1>3

LEMMA OpenKeeps ==
  ASSUME SessionInv, NEW c \in Commands, NEW s \in Sessions,
         (\E available \in BOOLEAN : OpenSession(c, s, available)) \/ ReuseSession(c, s)
  PROVE  SessionInv'
<1>1. stage[c] = "new" /\ LoopFree /\ UNCHANGED <<shut, freeing, cleanups, resource>>
  BY DEF OpenSession, ReuseSession
<1>2. ofSession' = [ofSession EXCEPT ![c] = {s}]
  BY DEF OpenSession, ReuseSession
<1>3. PICK to \in {"posted", "done"} : Moves(c, to)
  BY DEF OpenSession, ReuseSession
<1>4. Opened(s) <=> ~FreshSession(s)
  BY DEF Opened, FreshSession
<1>5. ~Opened(s) => s \notin listed
  BY DEF SessionInv, SessionsApart
<1>6. CASE \E available \in BOOLEAN : OpenSession(c, s, available)
  <2>1. ~Opened(s)
    BY <1>4, <1>6 DEF OpenSession
  <2>2. listed' \cup doomed' = listed \cup {s} /\ listed' \cap doomed' = {}
    BY <1>5, <1>6, <2>1 DEF OpenSession, Expired
  <2>3. LoopMove({s}, c, to, {s})
    BY <1>1, <1>2, <1>3, <2>1, <2>2 DEF LoopMove
  <2> QED
    BY <2>3, LoopKeeps DEF Stages
<1>7. CASE ReuseSession(c, s)
  <2>1. Opened(s)
    BY <1>4, <1>7 DEF ReuseSession
  <2>2. listed' \cup doomed' = listed \cup {} /\ listed' \cap doomed' = {}
    BY <1>7 DEF ReuseSession, Drops, Expired
  <2>3. PICK fresh \in SUBSET Sessions, of \in SUBSET Sessions : fresh = {} /\ of = {s}
    OBVIOUS
  <2>4. LoopMove(fresh, c, to, of)
    BY <1>1, <1>2, <1>3, <2>1, <2>2, <2>3 DEF LoopMove
  <2> QED
    BY <2>4, LoopKeeps DEF Stages
<1> QED
  BY <1>6, <1>7

LEMMA DropKeeps ==
  ASSUME SessionInv, NEW x, Drops(x), LoopFree, NEW c \in Commands, NEW to \in Stages,
         UNCHANGED <<shut, freeing, cleanups, resource, ofSession>>,
         Moves(c, to) \/ (UNCHANGED stage /\ to = stage[c]),
         to = stage[c] \/ (to = "done" /\ stage[c] \notin {"new", "holding"})
  PROVE  SessionInv'
<1>1. listed' \cup doomed' = listed \cup {} /\ listed' \cap doomed' = {}
  BY DEF Drops
<1>2. ofSession' = [ofSession EXCEPT ![c] = ofSession[c]] /\ ofSession[c] \in SUBSET Sessions
  BY DEF SessionInv, SessionTypes
<1>3. to # "new" => \E s \in Sessions : ofSession[c] = {s}
  BY DEF SessionInv, OneSession
<1>4. \A s \in ofSession[c] : Opened(s)
  BY DEF Opened, Serves
<1>5. PICK of \in SUBSET Sessions : of = ofSession[c]
  BY <1>2
<1>6. LoopMove({}, c, to, of)
  BY <1>1, <1>2, <1>3, <1>4, <1>5 DEF LoopMove
<1> QED
  BY <1>6, LoopKeeps

(* Closing takes the callbacks of a session over, all of them and once.     *)
LEMMA CloseKeeps ==
  ASSUME SessionInv, NEW s \in Sessions, CloseNext(s)
  PROVE  SessionInv'
<1> USE DEF SessionInv, SessionTypes
<1>1. /\ s \in doomed /\ s \notin shut /\ freeing = <<>>
      /\ doomed' = doomed \ {s} /\ shut' = shut \cup {s}
      /\ freeing' = Reverse(cleanups[s]) /\ cleanups' = [cleanups EXCEPT ![s] = <<>>]
      /\ UNCHANGED <<listed, stage, ofSession, resource>>
  BY DEF CloseNext, SessionsApart
<1>2. PICK q \in Seq(Commands) : q = cleanups[s]
  OBVIOUS
<1>3. /\ freeing' \in Seq(Commands) /\ Len(freeing') = Len(q)
      /\ \A k \in 1 .. Len(q) : freeing'[k] = q[(Len(q) - k) + 1]
  BY <1>1, <1>2 DEF Reverse
<1>4. ASSUME NEW c \in Commands PROVE (Freed(c))' <=> Waits(c, s)
  <2>1. ASSUME NEW k \in 1 .. Len(q), q[k] = c PROVE (Freed(c))'
    <3>1. (Len(q) - k) + 1 \in 1 .. Len(q) /\ (Len(q) - ((Len(q) - k) + 1)) + 1 = k
      OBVIOUS
    <3> QED
      BY <1>3, <2>1, <3>1 DEF Freed
  <2>2. ASSUME NEW k \in 1 .. Len(q), freeing'[k] = c PROVE Waits(c, s)
    <3>1. (Len(q) - k) + 1 \in 1 .. Len(q)
      OBVIOUS
    <3> QED
      BY <1>2, <1>3, <2>2, <3>1 DEF Waits
  <2> QED
    BY <1>2, <1>3, <2>1, <2>2 DEF Freed, Waits
<1>5. SessionTypes'
  BY <1>1, <1>3
<1>6. SessionsApart'
  BY <1>1 DEF SessionsApart, Opened, Serves
<1>7. ASSUME NEW c \in Commands PROVE OneSession(c)' /\ HandedOver(c)'
  <2>1. OneSession(c)' /\ ~Freed(c)
    BY <1>1 DEF OneSession, Freed
  <2>2. \A t \in Sessions : (Waits(c, t))' <=> Waits(c, t) /\ t # s
    BY <1>1 DEF Waits
  <2>3. Waits(c, s) => stage[c] # "new" /\ ofSession[c] = {s}
    BY DEF HandedOver, OneSession, Serves
  <2>4. HandedOver(c)'
    BY <1>1, <1>4, <2>1, <2>2, <2>3 DEF HandedOver, Serves
  <2> QED
    BY <2>1, <2>4
<1> QED
  BY <1>5, <1>6, <1>7

LEMMA FreeKeeps ==
  ASSUME SessionInv, FreeNext
  PROVE  SessionInv'
<1> USE DEF SessionInv, SessionTypes
<1>1. PICK h \in Commands : h = Head(freeing)
  BY DEF FreeNext
<1>2. /\ freeing # <<>> /\ freeing' = Tail(freeing) /\ freeing' \in Seq(Commands)
      /\ resource' = [resource EXCEPT ![h] = IF resource[h] = "held" THEN "freed" ELSE resource[h]]
      /\ UNCHANGED <<listed, shut, doomed, cleanups, stage, ofSession>>
  BY <1>1 DEF FreeNext, Frees
<1>3. Freed(h)
  BY <1>1, <1>2 DEF Freed
<1>4. ASSUME NEW c \in Commands PROVE ((Freed(c))' => Freed(c)) /\ (Freed(c) => (Freed(c))' \/ c = h)
  <2>1. ASSUME NEW k \in 1 .. Len(freeing'), freeing'[k] = c PROVE Freed(c)
    <3>1. k + 1 \in 1 .. Len(freeing) /\ freeing[k + 1] = c
      BY <1>2, <2>1
    <3> QED
      BY <3>1 DEF Freed
  <2>2. ASSUME NEW k \in 1 .. Len(freeing), freeing[k] = c, c # h PROVE (Freed(c))'
    <3>1. k # 1
      BY <1>1, <1>2, <2>2
    <3>2. k - 1 \in 1 .. Len(freeing') /\ freeing'[k - 1] = c
      BY <1>2, <2>2, <3>1
    <3> QED
      BY <3>2 DEF Freed
  <2> QED
    BY <2>1, <2>2 DEF Freed
<1>5. SessionTypes' /\ SessionsApart'
  BY <1>2 DEF SessionsApart, Opened, Serves
<1>6. ASSUME NEW c \in Commands PROVE OneSession(c)' /\ HandedOver(c)'
  <2>1. OneSession(c)'
    BY <1>2, <1>3 DEF OneSession, HandedOver
  <2>2. HandedOver(c)'
    BY <1>2, <1>3, <1>4 DEF HandedOver, Waits, Serves
  <2> QED
    BY <2>1, <2>2
<1> QED
  BY <1>5, <1>6

(* Handing over: to the session, or at once when it is closed.              *)
LEMMA RegisterKeeps ==
  ASSUME SessionInv, NEW c \in Commands, RegisterCleanup(c)
  PROVE  SessionInv'
<1> USE DEF SessionInv, SessionTypes
<1>1. /\ stage[c] = "holding" /\ stage' = [stage EXCEPT ![c] = "registered"]
      /\ UNCHANGED <<listed, shut, doomed, freeing, ofSession>>
  BY DEF RegisterCleanup, Moves
<1>2. PICK s \in Sessions : ofSession[c] = {s}
  BY <1>1 DEF OneSession
<1>3. SessionsApart'
  BY <1>1 DEF SessionsApart, Opened, Serves
<1>4. CASE s \in shut
  <2>1. resource' = [resource EXCEPT ![c] = IF resource[c] = "held" THEN "freed" ELSE resource[c]]
    BY <1>2, <1>4 DEF RegisterCleanup, Frees
  <2>2. UNCHANGED cleanups
    BY <1>2, <1>4 DEF RegisterCleanup
  <2>3. SessionTypes'
    BY <1>1, <2>1, <2>2 DEF Stages
  <2>4. ASSUME NEW d \in Commands PROVE OneSession(d)' /\ HandedOver(d)'
    <3>1. OneSession(d)'
      BY <1>1, <2>1 DEF OneSession
    <3>2. \A t \in Sessions : (Waits(d, t))' <=> Waits(d, t)
      BY <2>2 DEF Waits
    <3>3. (Freed(d))' <=> Freed(d)
      BY <1>1 DEF Freed
    <3>4. d # c => resource'[d] = resource[d] /\ stage'[d] = stage[d]
      BY <1>1, <2>1
    <3>5. resource'[c] # "held" /\ ofSession'[c] \subseteq shut'
      BY <1>1, <1>2, <1>4, <2>1
    <3>6. HandedOver(d)'
      BY <1>1, <3>2, <3>3, <3>4, <3>5 DEF HandedOver, Serves
    <3> QED
      BY <3>1, <3>6
  <2> QED
    BY <1>3, <2>3, <2>4
<1>5. CASE s \notin shut
  <2>1. UNCHANGED resource
    BY <1>2, <1>5 DEF RegisterCleanup
  <2>2. cleanups' = [t \in Sessions |-> IF Serves(c, t) THEN Append(cleanups[t], c) ELSE cleanups[t]]
    BY <1>2, <1>5 DEF RegisterCleanup
  <2>3. SessionTypes'
    <3>1. ASSUME NEW t \in Sessions PROVE cleanups'[t] \in Seq(Commands)
      BY <2>2
    <3>2. cleanups' \in [Sessions -> Seq(Commands)]
      BY <2>2, <3>1
    <3> QED
      BY <1>1, <2>1, <3>2 DEF Stages
  <2>4. \A t \in Sessions : t # s => cleanups'[t] = cleanups[t]
    BY <1>2, <2>2 DEF Serves
  <2>5. PICK q \in Seq(Commands) : q = cleanups[s]
    OBVIOUS
  <2>6. cleanups'[s] = Append(q, c)
    BY <1>2, <2>2, <2>5 DEF Serves
  <2>7. \A d \in Commands : (Waits(d, s))' <=> Waits(d, s) \/ d = c
    <3>1. ASSUME NEW d \in Commands, (Waits(d, s))' PROVE Waits(d, s) \/ d = c
      BY <2>5, <2>6, <3>1 DEF Waits
    <3>2. ASSUME NEW d \in Commands, Waits(d, s) PROVE (Waits(d, s))'
      <4>1. PICK k \in 1 .. Len(q) : q[k] = d
        BY <2>5, <3>2 DEF Waits
      <4>2. k \in 1 .. Len(Append(q, c)) /\ Append(q, c)[k] = d
        BY <4>1
      <4> QED
        BY <2>6, <4>2 DEF Waits
    <3>3. (Waits(c, s))'
      <4>1. Len(q) + 1 \in 1 .. Len(Append(q, c)) /\ Append(q, c)[Len(q) + 1] = c
        OBVIOUS
      <4> QED
        BY <2>6, <4>1 DEF Waits
    <3> QED
      BY <3>1, <3>2, <3>3
  <2>8. \A d \in Commands, t \in Sessions : t # s => ((Waits(d, t))' <=> Waits(d, t))
    BY <2>4 DEF Waits
  <2>9. ASSUME NEW d \in Commands PROVE OneSession(d)' /\ HandedOver(d)'
    <3>1. OneSession(d)'
      BY <1>1, <2>1 DEF OneSession
    <3>2. HandedOver(d)'
      BY <1>1, <1>2, <1>5, <2>1, <2>7, <2>8 DEF HandedOver, Freed, Serves
    <3> QED
      BY <3>1, <3>2
  <2> QED
    BY <1>3, <2>3, <2>9
<1> QED
  BY <1>4, <1>5

LEMMA SessionInvStep == SessionInv /\ [SessionNext]_sessionVars => SessionInv'
<1> SUFFICES ASSUME SessionInv, [SessionNext]_sessionVars PROVE SessionInv'
  OBVIOUS
<1>0. stage \in [Commands -> Stages]
  BY DEF SessionInv, SessionTypes
<1>1. CASE \/ UNCHANGED sessionVars \/ LoadAgain \/ \E s \in Sessions : GrowIdle(s)
  <2>1. UNCHANGED <<listed, shut, doomed, freeing, cleanups, stage, ofSession, resource>>
    BY <1>1 DEF sessionVars, LoadAgain, GrowIdle
  <2>2. SessionTypes' /\ SessionsApart'
    BY <2>1 DEF SessionInv, SessionTypes, SessionsApart, Opened, Serves
  <2>3. ASSUME NEW c \in Commands PROVE OneSession(c)' /\ HandedOver(c)'
    <3>1. \A s \in Sessions : Waits(c, s)' <=> Waits(c, s)
      BY <2>1 DEF Waits
    <3>2. (Freed(c))' <=> Freed(c)
      BY <2>1 DEF Freed
    <3> QED
      BY <2>1, <3>1, <3>2 DEF SessionInv, OneSession, HandedOver, Serves
  <2> QED
    BY <2>2, <2>3 DEF SessionInv
<1>2. ASSUME NEW c \in Commands, NEW s \in Sessions,
             (\E available \in BOOLEAN : OpenSession(c, s, available)) \/ ReuseSession(c, s)
      PROVE  SessionInv'
  BY <1>2, OpenKeeps
<1>3. ASSUME NEW ss \in SUBSET Sessions, CloseSession(ss) PROVE SessionInv'
  <2>1. PICK c \in Commands : TRUE
    BY <1>3 DEF CloseSession, SessionInv, SessionTypes, SessionsApart, Opened
  <2>2. PICK x : Drops(x)
    BY <1>3 DEF CloseSession
  <2>3. LoopFree /\ UNCHANGED <<shut, freeing, cleanups, resource, ofSession, stage>>
    BY <1>3 DEF CloseSession
  <2> QED
    BY <1>0, <2>2, <2>3, DropKeeps
<1>4. ASSUME NEW s \in Sessions, CloseNext(s) PROVE SessionInv'
  BY <1>4, CloseKeeps
<1>5. CASE FreeNext
  BY <1>5, FreeKeeps
<1>6. ASSUME NEW c \in Commands, RegisterCleanup(c) PROVE SessionInv'
  BY <1>6, RegisterKeeps
<1>7. ASSUME NEW c \in Commands, Respond(c) PROVE SessionInv'
  <2>1. PICK x : Drops(x)
    BY <1>7 DEF Respond
  <2>2. /\ LoopFree /\ UNCHANGED <<shut, freeing, cleanups, resource, ofSession>>
        /\ Moves(c, "done") /\ stage[c] \notin {"new", "holding"} /\ "done" \in Stages
    BY <1>7 DEF Respond, Stages
  <2> QED
    BY <2>1, <2>2, DropKeeps
<1>8. ASSUME NEW c \in Commands, TakeSlot(c) \/ CheckClosed(c) \/ EnterCommand(c) PROVE SessionInv'
  <2>1. PICK to \in Stages \ {"new"} : Moves(c, to)
    BY <1>8 DEF TakeSlot, CheckClosed, EnterCommand, Stages
  <2>2. /\ stage[c] \notin {"new", "holding"}
        /\ UNCHANGED <<listed, shut, doomed, freeing, cleanups, ofSession, resource>>
    BY <1>8 DEF TakeSlot, CheckClosed, EnterCommand, KeepSessions
  <2> QED
    BY <2>1, <2>2, ThreadKeeps
<1>9. ASSUME NEW c \in Commands, AcquireResource(c) PROVE SessionInv'
  <2>1. /\ stage[c] \notin {"new", "holding"} /\ Moves(c, "holding") /\ "holding" \in Stages
        /\ UNCHANGED <<listed, shut, doomed, freeing, cleanups, ofSession>>
        /\ resource' = [resource EXCEPT ![c] = "held"]
    BY <1>9 DEF AcquireResource, KeepSessions, Stages
  <2> QED
    BY <2>1, ThreadKeeps
<1>10. ASSUME NEW c \in Commands, NEW o \in Commands, StopResource(c, o) PROVE SessionInv'
  <2>1. /\ stage[c] \notin {"new", "holding"} /\ Moves(c, "registered") /\ "registered" \in Stages
        /\ UNCHANGED <<listed, shut, doomed, freeing, cleanups, ofSession>>
        /\ resource' = [resource EXCEPT ![o] = "stopped"] /\ resource[o] = "held"
    BY <1>10 DEF StopResource, KeepSessions, Stages
  <2> QED
    BY <2>1, ThreadKeeps
<1>11. ASSUME NEW c \in Commands, NEW how \in {"stays", "closes"}, ReturnFrom(c, how) PROVE SessionInv'
  <2>1. /\ stage[c] \notin {"new", "holding"} /\ Moves(c, how) /\ how \in Stages /\ how # "new"
        /\ UNCHANGED <<listed, shut, doomed, freeing, cleanups, ofSession, resource>>
    BY <1>11 DEF ReturnFrom, KeepSessions, Stages
  <2> QED
    BY <2>1, ThreadKeeps
<1> QED
  BY <1>1, <1>2, <1>3, <1>4, <1>5, <1>6, <1>7, <1>8, <1>9, <1>10, <1>11 DEF SessionNext

(* What a command acquired is given back when its session closes, whenever  *)
(* that is, and not before.                                                 *)
THEOREM ResourcesGivenBack == SessionSpec => []ResourcesFreed
<1>1. SessionInv => ResourcesFreed
  <2> SUFFICES ASSUME SessionInv, NEW c \in Commands
               PROVE  /\ listed \cap (shut \cup doomed) = {}
                      /\ resource[c] = "held" =>
                           \/ stage[c] = "holding" \/ ofSession[c] \subseteq listed \cup doomed
                           \/ \E k \in 1 .. Len(freeing) : freeing[k] = c
                      /\ resource[c] = "freed" => ofSession[c] \subseteq shut
    BY DEF ResourcesFreed, SessionInv, SessionsApart
  <2>1. ASSUME NEW s \in Sessions, Waits(c, s) PROVE ofSession[c] \subseteq listed \cup doomed
    BY <2>1 DEF SessionInv, HandedOver, OneSession, SessionsApart, Opened, Serves
  <2> QED
    BY <2>1 DEF SessionInv, SessionsApart, HandedOver, Freed
<1> QED
  BY <1>1, SessionInvInit, SessionInvStep, PTL DEF SessionSpec

-----------------------------------------------------------------------------
(* PluginLoading.  The content of a folder, and of what was read from one.  *)
Content == [flaw : {"none", "unreadable", "schema", "passed over", "forbidden", "undeclared",
                    "absent"},
            sign : {"release", "author", "none"}, admin : BOOLEAN,
            runs : {"well", "isolated", "import fails", "setup fails", "handlers fail"},
            commands : BOOLEAN, build : {1, 2}]
Doings == {"free", "waiting", "reading", "importing", "setting up", "authorising", "extending",
           "done", "failed"}

Callers == [doing : Doings, folder : FolderNames \cup {Unheld}, content : Content \cup {NoRun}]

LoadingTypes ==
  /\ scanned \in 0 .. 3 /\ disk \in [FolderNames -> Content]
  /\ session \in {"ours", "none", "next"}
  /\ thread \in [Threads -> Callers]
  /\ run \in Content \cup {NoRun}
  /\ meta \in FolderNames \cup {Unheld} /\ claim \in FolderNames \cup {Unheld}
  /\ pending \in [folder : FolderNames \cup {Unheld}, content : Content \cup {NoRun}]

(* Content that was judged and accepted, and whose files are recorded if    *)
(* they have to be: this is for good, whatever is on the disk by now.       *)
Judged(f, c) ==
  /\ Considered(c) /\ Allowed(f, c)
  /\ mode = "strict" /\ ~Shipped(f) => manifest = Files(c)
Accepted == {x \in FolderNames \X Content : Judged(x[1], x[2])}

(* A thread that waits for the lock, or loads, has the one folder accepted. *)
Wants(t) == thread[t].doing = "waiting" \/ Importing(t)
OneFolder ==
  /\ \A t, u \in Threads : Wants(t) /\ Wants(u) => thread[t].folder = thread[u].folder
  /\ \A t \in Threads : Wants(t) =>
       /\ claim # Unheld => thread[t].folder = claim
       /\ pending # NoEntry => thread[t].folder = pending.folder
  /\ pending # NoEntry => claim = pending.folder /\ run = NoRun
                          /\ <<pending.folder, pending.content>> \in Accepted

(* Once it imported, what it imported is registered, unless the registry    *)
(* was cleared meanwhile.                                                   *)
LoadsSoundly(t) ==
  /\ Wants(t) => <<thread[t].folder, thread[t].content>> \in Accepted
  /\ Importing(t) => holder = t
  /\ thread[t].doing \in {"reading", "importing"} => run = NoRun
  /\ thread[t].doing \in {"setting up", "authorising", "extending"} =>
       \/ run = thread[t].content
       \/ run = NoRun /\ engineLife = "cleared"
  /\ thread[t].doing = "authorising" => thread[t].content.admin

(* Nothing is asked for while folders are scanned; after the registry is    *)
(* cleared only the API's thread may still be loading.                      *)
Before ==
  scanned < 3 =>
    /\ run = NoRun /\ handlers = NoRun /\ engineLife = "live"
    /\ \A t \in Threads : thread[t].doing = "free"
    /\ pending = NoEntry => meta = Unheld /\ claim = Unheld
After ==
  engineLife = "cleared" => pending = NoEntry /\ \A t \in Threads : Wants(t) => t = Api

Registered ==
  /\ run # NoRun => /\ <<claim, run>> \in Accepted /\ meta = claim
                    /\ handlers \in {NoRun, run} /\ run.runs # "import fails"
  /\ run = NoRun /\ (engineLife # "cleared" \/ \E t \in Threads : Wants(t)) => handlers = NoRun
  /\ engineLife # "cleared" /\ run = NoRun /\ pending = NoEntry
       /\ (\A t \in Threads : ~Importing(t)) => meta = Unheld /\ claim = Unheld

(* What became of a scanned folder.                                         *)
Explained(f) ==
  \/ PassedOver(disk[f]) \/ \E g \in diagnosed : KindOf(g) = KindOf(f)
  \/ claim # Unheld /\ KindOf(claim) = KindOf(f)
ScannedExplained ==
  engineLife # "cleared" => \A i \in 1 .. scanned : Explained(Folders[i])

LoadingCore ==
  /\ LoadingTypes /\ OneFolder /\ (\A t \in Threads : LoadsSoundly(t)) /\ Before /\ After
  /\ Registered /\ ScannedExplained
LoadingInv == LoadingCore /\ AuthorisedForTheSession

LEMMA FolderFacts ==
  /\ FolderNames = {"shipped action", "own trigger", "own action"} /\ Len(Folders) = 3
  /\ \A i \in 1 .. 3 : Folders[i] \in FolderNames
  /\ \A f \in FolderNames : \E i \in 1 .. 3 : Folders[i] = f
<1>1. DOMAIN Folders = 1 .. 3 /\ Len(Folders) = 3
  BY DEF Folders
<1>2. Folders[1] = "shipped action" /\ Folders[2] = "own trigger" /\ Folders[3] = "own action"
  BY DEF Folders
<1>3. 1 .. 3 = {1, 2, 3}
  OBVIOUS
<1> QED
  BY <1>1, <1>2, <1>3 DEF FolderNames

LEMMA ContentFacts ==
  /\ Fine \in Content /\ NoRun \notin Content /\ Contents \cup {NoFolder} \cup Edited \subseteq Content
  /\ \A c \in Content : Files(c) # NoFiles
<1>1. Fine \in Content
  BY DEF Fine, Content
<1>2. ASSUME NEW c \in Content PROVE c # NoRun /\ Files(c) # NoFiles
  <2>1. c.flaw # "not loaded" /\ Files(c).flaw = c.flaw
    BY DEF Content, Files
  <2>2. NoRun.flaw = "not loaded" /\ NoFiles.flaw = "not loaded"
    BY DEF NoRun, NoFiles, Files, Fine
  <2> QED
    BY <2>1, <2>2
<1>3. Contents \subseteq Content
  <2>1. [Fine EXCEPT !.commands = TRUE] \in Content
    BY DEF Content, Fine
  <2>2. \A x \in {"unreadable", "schema", "passed over", "forbidden", "undeclared"} :
          [Fine EXCEPT !.flaw = x] \in Content
    BY DEF Content, Fine
  <2>3. [flaw : {"none"}, sign : {"release", "author", "none"}, admin : BOOLEAN,
         runs : {"well"}, commands : {FALSE}, build : {1}] \subseteq Content
    BY DEF Content
  <2>4. \A r \in {"isolated", "import fails", "setup fails", "handlers fail"} :
          [Fine EXCEPT !.runs = r] \in Content
    BY DEF Content, Fine
  <2> QED
    BY <2>1, <2>2, <2>3, <2>4 DEF Contents
<1>4. NoFolder \in Content /\ Edited \subseteq Content
  BY DEF NoFolder, Edited, Content, Fine
<1> QED
  BY <1>1, <1>2, <1>3, <1>4

(* What was read again counts as judged.                                    *)
LEMMA JudgedAgain ==
  ASSUME NEW f, NEW before, NEW now \in Content, <<f, before>> \in Accepted,
         Unchanged(f, now, before)
  PROVE  <<f, now>> \in Accepted
<1>1. f \in FolderNames /\ before \in Content /\ Judged(f, before)
  BY DEF Accepted
<1>2. /\ Files(now) = Files(before) /\ CanRead(now) /\ SignatureKind(f, now) = SignatureKind(f, before)
  BY DEF Unchanged, UnchangedSignature
<1>3. now.flaw = before.flaw /\ now.admin = before.admin
  <2>1. Files(now).flaw = now.flaw /\ Files(now).admin = now.admin
    BY DEF Files, Content
  <2>2. Files(before).flaw = before.flaw /\ Files(before).admin = before.admin
    BY <1>1 DEF Files, Content
  <2> QED
    BY <1>2, <2>1, <2>2
<1>4. Considered(now) /\ Allowed(f, now)
  BY <1>1, <1>2, <1>3 DEF Judged, Considered, CanRead, Allowed, Strictly
<1>5. Judged(f, now)
  BY <1>1, <1>2, <1>4 DEF Judged
<1> QED
  BY <1>1, <1>5 DEF Accepted

(* A verdict is for good.                                                   *)
LEMMA JudgedForGood ==
  ASSUME UNCHANGED <<mode, off>>, manifest' = manifest \/ manifest = NoFiles
  PROVE  Accepted \subseteq Accepted'
<1> SUFFICES ASSUME NEW x \in Accepted PROVE x \in Accepted'
  OBVIOUS
<1>1. x \in FolderNames \X Content /\ Judged(x[1], x[2]) /\ x[2] \in Content
  BY DEF Accepted
<1>2. (Considered(x[2]))' /\ (Allowed(x[1], x[2]))'
  BY <1>1 DEF Judged, Considered, Allowed
<1>3. mode' = "strict" /\ ~Shipped(x[1]) => manifest' = Files(x[2])
  BY <1>1, ContentFacts DEF Judged
<1>4. (Judged(x[1], x[2]))'
  BY <1>2, <1>3 DEF Judged
<1> QED
  BY <1>1, <1>4 DEF Accepted

LEMMA LoadingInvInit == LoadingInit => LoadingInv
<1> SUFFICES ASSUME LoadingInit PROVE LoadingInv
  OBVIOUS
<1>1. thread = [t \in Threads |-> Idle] /\ Idle = [doing |-> "free", folder |-> Unheld, content |-> NoRun]
  BY DEF LoadingInit, NothingScanned, Idle
<1>2. /\ scanned = 0 /\ session = "ours" /\ run = NoRun /\ meta = Unheld /\ claim = Unheld
      /\ pending = NoEntry /\ handlers = NoRun /\ admins = {} /\ elevated = {} /\ engineLife = "live"
  BY DEF LoadingInit, NothingScanned
<1>3. disk \in [FolderNames -> Content]
  BY ContentFacts DEF LoadingInit
<1>4. LoadingTypes
  BY <1>1, <1>2, <1>3 DEF LoadingTypes, Callers, Doings, NoEntry
<1>5. \A t \in Threads : thread[t].doing = "free" /\ ~Wants(t) /\ ~Importing(t)
  BY <1>1 DEF Wants, Importing
<1>6. \A t \in Threads : LoadsSoundly(t)
  BY <1>5 DEF LoadsSoundly
<1>7. OneFolder /\ Before /\ After
  BY <1>2, <1>5 DEF OneFolder, Before, After
<1>8. Registered /\ ScannedExplained /\ AuthorisedForTheSession
  BY <1>2, <1>5 DEF Registered, ScannedExplained, AuthorisedForTheSession
<1> QED
  BY <1>4, <1>6, <1>7, <1>8 DEF LoadingInv, LoadingCore, LoadingCore

(* The scan.                                                                *)
LEMMA ScanKeeps ==
  ASSUME LoadingInv, NEW saved \in BOOLEAN, LoadFolder(saved) PROVE LoadingInv'
<1>0. PICK f, c : f = Folders[scanned + 1] /\ c = disk[f]
  OBVIOUS
<1>1. /\ scanned < 3 /\ scanned' = scanned + 1 /\ scanned \in 0 .. 3 /\ f \in FolderNames /\ c \in Content
      /\ UNCHANGED <<mode, off, run, handlers, adminVars, disk, holder, thread, engineLife, edits>>
  <2>1. scanned < 3 /\ scanned \in 0 .. 3 /\ disk \in [FolderNames -> Content]
    BY FolderFacts DEF LoadFolder, LoadingInv, LoadingCore, LoadingTypes
  <2>2. scanned + 1 \in 1 .. 3
    BY <2>1
  <2>3. f \in FolderNames
    BY <1>0, <2>2, FolderFacts
  <2> QED
    BY <1>0, <2>1, <2>3 DEF LoadFolder
<1>2. manifest' = IF Considered(c) /\ Allowed(f, c) /\ ~Shipped(f) /\ manifest = NoFiles /\ saved
                  THEN Files(c) ELSE manifest
  BY <1>0 DEF LoadFolder
<1>3. Accepted \subseteq Accepted'
  BY <1>1, <1>2, JudgedForGood
<1>4. /\ run = NoRun /\ handlers = NoRun /\ engineLife = "live"
      /\ \A t \in Threads : thread[t].doing = "free" /\ ~Wants(t) /\ ~Importing(t)
      /\ \A t \in Threads : (thread[t].doing = "free" /\ ~Wants(t) /\ ~Importing(t))'
  BY <1>1 DEF LoadingInv, LoadingCore, Before, Wants, Importing
<1>5. AuthorisedForTheSession'
  BY <1>1 DEF LoadingInv, LoadingCore, AuthorisedForTheSession, adminVars
<1>6. \A t \in Threads : LoadsSoundly(t)'
  BY <1>1, <1>4 DEF LoadsSoundly
<1>7. After'
  BY <1>1, <1>4 DEF After
<1>8. \A i \in 1 .. scanned : Explained(Folders[i])
  BY <1>4 DEF LoadingInv, LoadingCore, ScannedExplained
<1>9. CASE Admitted(f, c, saved)
  <2>1. pending' = [folder |-> f, content |-> c] /\ meta' = f /\ claim' = f /\ diagnosed' = diagnosed
    BY <1>0, <1>9 DEF LoadFolder
  <2>2. <<f, c>> \in Accepted'
    <3>1. Considered(c) /\ Allowed(f, c) /\ (mode = "strict" => Recorded(f, c, saved))
      BY <1>9 DEF Admitted
    <3>2. (Considered(c))' /\ (Allowed(f, c))'
      BY <1>1, <3>1 DEF Considered, Allowed
    <3>3. mode = "strict" /\ ~Shipped(f) => manifest' = Files(c)
      BY <1>2, <3>1 DEF Recorded
    <3> QED
      BY <1>1, <3>2, <3>3 DEF Accepted, Judged
  <2>3. LoadingTypes'
    BY <1>1, <2>1 DEF LoadingInv, LoadingCore, LoadingTypes, adminVars
  <2>4. f # Unheld /\ pending' # NoEntry
    BY <1>1, <2>1, LoadingConstants DEF NoEntry
  <2>5. OneFolder' /\ Before' /\ Registered'
    BY <1>1, <1>4, <2>1, <2>2, <2>4 DEF OneFolder, Before, Registered
  <2>6. claim = Unheld \/ KindOf(claim) = KindOf(f)
    BY <1>9 DEF Admitted
  <2>7. ASSUME NEW i \in 1 .. scanned' PROVE (Explained(Folders[i]))'
    <3>1. CASE i = scanned + 1
      BY <1>0, <1>1, <2>1, <2>4, <3>1 DEF Explained
    <3>2. CASE i # scanned + 1
      <4>1. i \in 1 .. scanned
        BY <1>1, <3>2
      <4>2. PICK g : g = Folders[i]
        OBVIOUS
      <4>3. Explained(g)
        BY <1>8, <4>1, <4>2
      <4>4. (Explained(g))'
        BY <1>1, <2>1, <2>4, <2>6, <4>3 DEF Explained, PassedOver
      <4> QED
        BY <4>2, <4>4
    <3> QED
      BY <3>1, <3>2
  <2> QED
    BY <1>5, <1>6, <1>7, <2>3, <2>5, <2>7 DEF LoadingInv, LoadingCore, ScannedExplained
<1>10. CASE ~Admitted(f, c, saved)
  <2>1. /\ UNCHANGED <<pending, meta, claim>>
        /\ diagnosed' = IF PassedOver(c) THEN diagnosed ELSE diagnosed \cup {f}
    BY <1>0, <1>10 DEF LoadFolder
  <2>2. LoadingTypes'
    BY <1>1, <2>1 DEF LoadingInv, LoadingCore, LoadingTypes, adminVars
  <2>3. OneFolder' /\ Before' /\ Registered'
    BY <1>1, <1>3, <1>4, <2>1 DEF LoadingInv, LoadingCore, OneFolder, Before, Registered
  <2>4. ASSUME NEW i \in 1 .. scanned' PROVE (Explained(Folders[i]))'
    <3>1. CASE i = scanned + 1
      BY <1>0, <1>1, <2>1, <3>1 DEF Explained, PassedOver
    <3>2. CASE i # scanned + 1
      <4>1. i \in 1 .. scanned
        BY <1>1, <3>2
      <4>2. PICK g : g = Folders[i]
        OBVIOUS
      <4>3. Explained(g)
        BY <1>8, <4>1, <4>2
      <4>4. (Explained(g))'
        BY <1>1, <2>1, <4>3 DEF Explained, PassedOver
      <4> QED
        BY <4>2, <4>4
    <3> QED
      BY <3>1, <3>2
  <2> QED
    BY <1>5, <1>6, <1>7, <2>2, <2>3, <2>4 DEF LoadingInv, LoadingCore, ScannedExplained
<1> QED
  BY <1>9, <1>10

LEMMA ScanIsOver == scanned' = 3 => Before'
BY DEF Before

(* A step of one caller.                                                    *)
NowDoes(t, d, f, c) ==
  /\ thread' \in [Threads -> Callers] /\ \A u \in Threads \ {t} : thread'[u] = thread[u]
  /\ thread'[t].doing = d /\ thread'[t].folder = f /\ thread'[t].content = c

LEMMA DoesMove ==
  ASSUME LoadingTypes, NEW t \in Threads, NEW d \in Doings, ThreadDoes(t, d)
  PROVE  NowDoes(t, d, thread[t].folder, thread[t].content)
BY DEF LoadingTypes, ThreadDoes, NowDoes, Callers

RegistryStays == UNCHANGED <<verdictVars, registryVars, disk, engineLife, session>>

(* The verdicts do not depend on who asks.                                  *)
LEMMA VerdictsStay == ASSUME UNCHANGED verdictVars PROVE Accepted' = Accepted
BY DEF verdictVars, Accepted, Judged, Considered, Allowed, Strictly

(* A caller leaves, or has nothing to wait for.                             *)
LEMMA LeaveKeeps ==
  ASSUME LoadingCore, scanned = 3, RegistryStays, NEW t \in Threads, NEW d \in {"free", "done", "failed"},
         NEW f, NEW c, NowDoes(t, d, f, c),
         thread[t].doing \notin {"reading", "importing"},
         Importing(t) \/ holder' = holder, Importing(t) => run # NoRun \/ engineLife = "cleared"
  PROVE  LoadingCore'
<1>1. /\ UNCHANGED <<mode, off, manifest, scanned, diagnosed, pending, meta, claim, run, handlers, disk,
                     engineLife, session>>
      /\ Accepted' = Accepted
  BY VerdictsStay DEF RegistryStays, verdictVars, registryVars
<1>2. LoadingTypes'
  BY <1>1 DEF LoadingCore, LoadingTypes, NowDoes
<1>3. ASSUME NEW u \in Threads
      PROVE  /\ Wants(u)' => u # t /\ Wants(u) /\ thread'[u] = thread[u]
             /\ Importing(u)' => u # t /\ Importing(u)
             /\ Importing(u) /\ u # t => Importing(u)'
  BY DEF NowDoes, Wants, Importing
<1>4. ASSUME NEW u \in Threads PROVE LoadsSoundly(u)'
  <2>1. CASE u = t
    BY <2>1 DEF LoadsSoundly, NowDoes, Wants, Importing
  <2>2. CASE u # t
    <3>1. LoadsSoundly(u) /\ LoadsSoundly(t) /\ thread'[u] = thread[u]
      BY <2>2 DEF LoadingCore, NowDoes
    <3>2. Importing(u) => holder' = u
      BY <2>2, <3>1 DEF LoadsSoundly
    <3> QED
      BY <1>1, <1>3, <2>2, <3>1, <3>2 DEF LoadsSoundly
  <2> QED
    BY <2>1, <2>2
<1>5. OneFolder' /\ Before' /\ After'
  <2>1. scanned' = 3
    BY <1>1
  <2>2. OneFolder'
    BY <1>1, <1>3 DEF LoadingCore, OneFolder
  <2>3. After'
    BY <1>1, <1>3 DEF LoadingCore, After
  <2> QED
    BY <2>1, <2>2, <2>3, ScanIsOver
<1>6. Registered'
  BY <1>1, <1>3 DEF LoadingCore, Registered
<1>7. ScannedExplained'
  BY <1>1 DEF LoadingCore, ScannedExplained, Explained, PassedOver
<1> QED
  BY <1>2, <1>4, <1>5, <1>6, <1>7 DEF LoadingCore

(* A caller goes on with its import.                                        *)
LEMMA ProgressKeeps ==
  ASSUME LoadingCore, scanned = 3, RegistryStays, holder' = holder, NEW t \in Threads,
         NEW d \in {"importing", "setting up", "authorising", "extending"}, NEW c \in Content,
         NowDoes(t, d, thread[t].folder, c), d = "authorising" => c.admin,
         \/ /\ d = "importing" /\ thread[t].doing = "reading"
            /\ <<thread[t].folder, c>> \in Accepted
         \/ /\ d # "importing" /\ thread[t].doing \in {"setting up", "authorising"}
            /\ c = thread[t].content
  PROVE  LoadingCore'
<1>1. /\ UNCHANGED <<mode, off, manifest, scanned, diagnosed, pending, meta, claim, run, handlers, disk,
                     engineLife, session>>
      /\ Accepted' = Accepted
  BY VerdictsStay DEF RegistryStays, verdictVars, registryVars
<1>2. LoadingTypes'
  BY <1>1 DEF LoadingCore, LoadingTypes, NowDoes
<1>3. ASSUME NEW u \in Threads
      PROVE  /\ Wants(u)' <=> Wants(u)
             /\ Importing(u)' <=> Importing(u)
             /\ thread'[u].folder = thread[u].folder
  BY DEF NowDoes, Wants, Importing
<1>4. ASSUME NEW u \in Threads PROVE LoadsSoundly(u)'
  <2>0. LoadsSoundly(u) /\ LoadsSoundly(t) /\ Importing(t) /\ Wants(t)
    BY DEF LoadingCore, Importing, Wants
  <2>1. CASE u = t
    BY <1>1, <2>0, <2>1 DEF LoadsSoundly, NowDoes
  <2>2. CASE u # t
    BY <1>1, <1>3, <2>0, <2>2 DEF LoadsSoundly, NowDoes
  <2> QED
    BY <2>1, <2>2
<1>5. OneFolder' /\ Before' /\ After'
  <2>1. scanned' = 3
    BY <1>1
  <2>2. OneFolder'
    BY ZenonT(60), <1>1, <1>3 DEF LoadingCore, OneFolder
  <2>3. After'
    BY <1>1, <1>3 DEF LoadingCore, After
  <2> QED
    BY <2>1, <2>2, <2>3, ScanIsOver
<1>6. Registered'
  BY <1>1, <1>3 DEF LoadingCore, Registered
<1>7. ScannedExplained'
  BY <1>1 DEF LoadingCore, ScannedExplained, Explained, PassedOver
<1> QED
  BY <1>2, <1>4, <1>5, <1>6, <1>7 DEF LoadingCore

(* A caller has to wait for what was accepted.                              *)
LEMMA WaitKeeps ==
  ASSUME LoadingCore, scanned = 3, RegistryStays, holder' = holder, NEW t \in Threads,
         thread[t].doing = "free", pending # NoEntry,
         NowDoes(t, "waiting", pending.folder, pending.content)
  PROVE  LoadingCore'
<1>1. /\ UNCHANGED <<mode, off, manifest, scanned, diagnosed, pending, meta, claim, run, handlers, disk,
                     engineLife, session>>
      /\ Accepted' = Accepted /\ engineLife # "cleared"
  BY VerdictsStay DEF RegistryStays, verdictVars, registryVars, LoadingCore, After
<1>2. LoadingTypes'
  BY <1>1 DEF LoadingCore, LoadingTypes, NowDoes
<1>3. ASSUME NEW u \in Threads
      PROVE  /\ Wants(u)' <=> Wants(u) \/ u = t
             /\ Importing(u)' <=> Importing(u)
             /\ u # t => thread'[u] = thread[u]
  BY DEF NowDoes, Wants, Importing
<1>4. ASSUME NEW u \in Threads PROVE LoadsSoundly(u)'
  <2>0. LoadsSoundly(u)
    BY DEF LoadingCore
  <2>1. CASE u = t
    BY <1>1, <2>1 DEF LoadsSoundly, NowDoes, Importing, LoadingCore, OneFolder
  <2>2. CASE u # t
    BY <1>1, <1>3, <2>0, <2>2 DEF LoadsSoundly
  <2> QED
    BY <2>1, <2>2
<1>5. OneFolder'
  BY <1>1, <1>3 DEF LoadingCore, OneFolder, NowDoes
<1>6. Before' /\ After'
  BY <1>1 DEF LoadingCore, Before, After
<1>7. Registered'
  BY <1>1, <1>3 DEF LoadingCore, Registered
<1>8. ScannedExplained'
  BY <1>1 DEF LoadingCore, ScannedExplained, Explained, PassedOver
<1> QED
  BY <1>2, <1>4, <1>5, <1>6, <1>7, <1>8 DEF LoadingCore

(* A caller gets the lock and claims the id for its folder.                 *)
LEMMA EnterKeeps ==
  ASSUME LoadingCore, scanned = 3, NEW t \in Threads, thread[t].doing = "waiting", run = NoRun,
         holder = Unheld, holder' = t, claim' = thread[t].folder,
         UNCHANGED <<verdictVars, pending, meta, run, handlers, disk, engineLife, session>>,
         NowDoes(t, "reading", thread[t].folder, thread[t].content)
  PROVE  LoadingCore'
<1>1. /\ UNCHANGED <<mode, off, manifest, scanned, diagnosed>>
      /\ Accepted' = Accepted
  BY VerdictsStay DEF verdictVars
<1>2. Wants(t) /\ LoadsSoundly(t) /\ thread[t].folder \in FolderNames /\ thread[t].folder # Unheld
  BY LoadingConstants DEF Wants, LoadsSoundly, LoadingCore, Accepted
<1>3. ASSUME NEW u \in Threads
      PROVE  /\ Wants(u)' <=> Wants(u)
             /\ Importing(u)' <=> u = t
             /\ ~Importing(u)
             /\ thread'[u].folder = thread[u].folder
  <2>1. ~Importing(u)
    BY LoadingConstants DEF LoadingCore, LoadsSoundly
  <2> QED
    BY <2>1 DEF NowDoes, Wants, Importing
<1>4. LoadingTypes'
  BY <1>1, <1>2 DEF LoadingCore, LoadingTypes, NowDoes
<1>5. ASSUME NEW u \in Threads PROVE LoadsSoundly(u)'
  <2>0. LoadsSoundly(u)
    BY DEF LoadingCore
  <2>1. CASE u = t
    BY <1>1, <1>2, <2>1 DEF LoadsSoundly, NowDoes
  <2>2. CASE u # t
    BY <1>1, <1>3, <2>0, <2>2 DEF LoadsSoundly, NowDoes
  <2> QED
    BY <2>1, <2>2
<1>6. OneFolder'
  BY <1>1, <1>2, <1>3 DEF LoadingCore, OneFolder
<1>7. Before'
  BY <1>1 DEF Before
<1>8. After' /\ Registered'
  BY <1>1, <1>2, <1>3 DEF LoadingCore, After, Registered
<1>9. ScannedExplained'
  BY <1>1, <1>2 DEF LoadingCore, ScannedExplained, Explained, PassedOver, OneFolder
<1> QED
  BY <1>4, <1>5, <1>6, <1>7, <1>8, <1>9 DEF LoadingCore

(* What was read is registered.                                             *)
LEMMA RegisteringKeeps ==
  ASSUME LoadingCore, scanned = 3, NEW t \in Threads, thread[t].doing \in {"reading", "importing"},
         NEW c \in Content, <<thread[t].folder, c>> \in Accepted, c.runs # "import fails",
         run' = c, meta' = thread[t].folder, claim' = thread[t].folder, pending' = NoEntry,
         UNCHANGED <<verdictVars, handlers, disk, engineLife, session>>,
         NEW d \in {"done", "setting up"}, d = "setting up" => holder' = holder,
         NowDoes(t, d, thread[t].folder, c)
  PROVE  LoadingCore'
<1>1. /\ UNCHANGED <<mode, off, manifest, scanned, diagnosed>>
      /\ Accepted' = Accepted
  BY VerdictsStay DEF verdictVars
<1>2. /\ Wants(t) /\ Importing(t) /\ LoadsSoundly(t) /\ thread[t].folder \in FolderNames
      /\ thread[t].folder # Unheld
  BY LoadingConstants DEF Wants, Importing, LoadsSoundly, LoadingCore, Accepted
<1>3. ASSUME NEW u \in Threads
      PROVE  /\ Wants(u)' => Wants(u)
             /\ Importing(u)' => u = t /\ d = "setting up"
             /\ u # t => thread'[u] = thread[u]
             /\ thread'[u].folder = thread[u].folder
  <2>1. Importing(u) => u = t
    BY <1>2 DEF LoadingCore, LoadsSoundly
  <2> QED
    BY <1>2, <2>1 DEF NowDoes, Wants, Importing
<1>4. LoadingTypes' /\ run' # NoRun
  BY <1>1, <1>2, ContentFacts DEF LoadingCore, LoadingTypes, NowDoes, NoEntry
<1>5. ASSUME NEW u \in Threads PROVE LoadsSoundly(u)'
  <2>0. LoadsSoundly(u)
    BY DEF LoadingCore
  <2>1. CASE u = t
    <3>1. CASE d = "done"
      BY <2>1, <3>1 DEF LoadsSoundly, NowDoes, Wants, Importing
    <3>2. CASE d = "setting up"
      BY <1>1, <1>2, <2>1, <3>2 DEF LoadsSoundly, NowDoes, Wants, Importing
    <3> QED
      BY <3>1, <3>2
  <2>2. CASE u # t
    <3>1. ~Importing(u)' /\ thread'[u] = thread[u]
      BY <1>3, <2>2
    <3>2. (thread[u].doing \notin {"reading", "importing", "setting up", "authorising", "extending"})'
      BY <3>1 DEF Importing
    <3> QED
      BY <1>1, <1>3, <2>0, <2>2, <3>1, <3>2 DEF LoadsSoundly
  <2> QED
    BY <2>1, <2>2
<1>6. OneFolder'
  <2>1. \A u \in Threads : Wants(u) => thread[u].folder = thread[t].folder
    BY <1>2 DEF LoadingCore, OneFolder
  <2>2. \A u \in Threads : Wants(u)' => thread'[u].folder = thread[t].folder
    BY <1>3, <2>1
  <2> QED
    BY <2>2 DEF OneFolder
<1>7. Before'
  <2>1. scanned' = 3
    BY <1>1
  <2> QED
    BY <2>1, ScanIsOver
<1>8. handlers = NoRun
  BY <1>2 DEF LoadingCore, Registered, LoadsSoundly
<1>9. After' /\ Registered'
  BY <1>1, <1>2, <1>3, <1>4, <1>8 DEF LoadingCore, After, Registered
<1>10. ScannedExplained'
  BY <1>1, <1>2 DEF LoadingCore, ScannedExplained, Explained, PassedOver, OneFolder
<1> QED
  BY <1>4, <1>5, <1>6, <1>7, <1>9, <1>10 DEF LoadingCore

(* An import that fails leaves nothing behind.                              *)
LEMMA FailKeeps ==
  ASSUME LoadingCore, scanned = 3, NEW t \in Threads, Importing(t), FailLoading(t)
  PROVE  LoadingCore'
<1>1. /\ UNCHANGED <<mode, off, manifest, scanned, session, disk, engineLife>>
      /\ diagnosed' = diagnosed \cup {thread[t].folder}
      /\ run' = NoRun /\ meta' = Unheld /\ claim' = Unheld /\ pending' = NoEntry /\ handlers' = NoRun
  BY DEF FailLoading, adminVars
<1>2. Accepted' = Accepted
  BY <1>1 DEF Accepted, Judged, Considered, Allowed, Strictly
<1>3. Wants(t) /\ LoadsSoundly(t) /\ thread[t].folder \in FolderNames
  BY DEF Wants, LoadsSoundly, LoadingCore, Accepted
<1>4. NowDoes(t, "done", thread[t].folder, NoRun)
  BY DEF FailLoading, NowDoes, LoadingCore, LoadingTypes, Callers, Doings
<1>5. LoadingTypes'
  BY <1>1, <1>4 DEF LoadingCore, LoadingTypes, NowDoes, NoEntry
<1>6. ASSUME NEW u \in Threads
      PROVE  /\ Wants(u)' => Wants(u)
             /\ ~Importing(u)'
             /\ thread'[u].folder = thread[u].folder
             /\ u # t => thread'[u] = thread[u]
  <2>1. Importing(u) => u = t
    BY <1>3 DEF LoadingCore, LoadsSoundly
  <2> QED
    BY <1>4, <2>1 DEF NowDoes, Wants, Importing
<1>7. ASSUME NEW u \in Threads PROVE LoadsSoundly(u)'
  <2>1. (thread[u].doing \notin {"reading", "importing", "setting up", "authorising", "extending"})'
    BY <1>6 DEF Importing
  <2>2. CASE u = t
    BY <1>4, <2>1, <2>2 DEF LoadsSoundly, NowDoes, Wants, Importing
  <2>3. CASE u # t
    BY <1>2, <1>6, <2>1, <2>3 DEF LoadsSoundly, LoadingCore
  <2> QED
    BY <2>2, <2>3
<1>8. OneFolder' /\ Before'
  BY <1>1, <1>6 DEF LoadingCore, OneFolder, Before
<1>9. After' /\ Registered'
  BY <1>1, <1>6 DEF LoadingCore, After, Registered
<1>10. claim # Unheld => claim = thread[t].folder
  BY <1>3 DEF LoadingCore, OneFolder
<1>11. ScannedExplained'
  BY <1>1, <1>10 DEF LoadingCore, ScannedExplained, Explained, PassedOver
<1> QED
  BY <1>5, <1>7, <1>8, <1>9, <1>11 DEF LoadingCore

(* The commands of a plug-in come with it.                                  *)
LEMMA ExtendKeeps ==
  ASSUME LoadingCore, scanned = 3, NEW t \in Threads, LoadExtensions(t)
  PROVE  LoadingCore'
<1>1. /\ UNCHANGED <<mode, off, manifest, scanned, session, pending, meta, claim, run, disk, engineLife>>
      /\ diagnosed \subseteq diagnosed' /\ handlers' \in {handlers, thread[t].content}
      /\ thread[t].doing = "extending"
  BY DEF LoadExtensions, adminVars
<1>2. Accepted' = Accepted
  BY <1>1 DEF Accepted, Judged, Considered, Allowed, Strictly
<1>3. Wants(t) /\ Importing(t) /\ LoadsSoundly(t) /\ thread[t].content \in Content
  BY <1>1 DEF Wants, Importing, LoadsSoundly, LoadingCore, Accepted
<1>4. NowDoes(t, "done", thread[t].folder, thread[t].content)
  BY DoesMove DEF LoadExtensions, ThreadLeaves, LoadingCore, Doings
<1>5. LoadingTypes'
  BY <1>1, <1>4 DEF LoadingCore, LoadingTypes, NowDoes
<1>6. ASSUME NEW u \in Threads
      PROVE  /\ Wants(u)' => u # t /\ Wants(u)
             /\ ~Importing(u)'
             /\ thread'[u].folder = thread[u].folder
             /\ u # t => thread'[u] = thread[u]
  <2>1. Importing(u) => u = t
    BY <1>3 DEF LoadingCore, LoadsSoundly
  <2> QED
    BY <1>4, <2>1 DEF NowDoes, Wants, Importing
<1>7. ASSUME NEW u \in Threads PROVE LoadsSoundly(u)'
  <2>1. (thread[u].doing \notin {"reading", "importing", "setting up", "authorising", "extending"})'
    BY <1>6 DEF Importing
  <2>2. CASE u = t
    BY <1>4, <2>1, <2>2 DEF LoadsSoundly, NowDoes, Wants, Importing
  <2>3. CASE u # t
    BY <1>2, <1>6, <2>1, <2>3 DEF LoadsSoundly, LoadingCore
  <2> QED
    BY <2>2, <2>3
<1>8. OneFolder' /\ After'
  BY <1>1, <1>2, <1>6 DEF LoadingCore, OneFolder, After
<1>9. Before'
  BY <1>1, ScanIsOver
<1>10. run = thread[t].content \/ (run = NoRun /\ engineLife = "cleared")
  BY <1>1, <1>3 DEF LoadsSoundly
<1>11. run # NoRun => handlers' \in {NoRun, run}
  BY <1>1, <1>10 DEF LoadingCore, Registered
<1>12. engineLife = "cleared" => \A u \in Threads : ~Wants(u)'
  BY <1>3, <1>6 DEF LoadingCore, After
<1>13. Registered'
  BY <1>1, <1>2, <1>3, <1>10, <1>11, <1>12, ContentFacts DEF LoadingCore, Registered
<1>14. ScannedExplained'
  BY <1>1 DEF LoadingCore, ScannedExplained, Explained, PassedOver
<1> QED
  BY <1>5, <1>7, <1>8, <1>9, <1>13, <1>14 DEF LoadingCore

(* Around the callers.                                                      *)
LEMMA EditKeeps ==
  ASSUME LoadingCore, NEW f \in FolderNames, NEW c \in Edited, EditFolder(f, c)
  PROVE  LoadingCore'
<1>1. /\ UNCHANGED <<mode, off, manifest, scanned, session, pending, meta, claim, run, handlers, thread,
                     holder, diagnosed, engineLife>>
      /\ f = claim /\ f # Unheld /\ disk' = [disk EXCEPT ![f] = c]
  BY LoadingConstants DEF EditFolder, verdictVars, registryVars, adminVars
<1>2. Accepted' = Accepted
  BY <1>1 DEF Accepted, Judged, Considered, Allowed, Strictly
<1>3. LoadingTypes'
  BY <1>1, ContentFacts DEF LoadingCore, LoadingTypes
<1>4. \A t \in Threads : (Wants(t)' <=> Wants(t)) /\ (Importing(t)' <=> Importing(t))
  BY <1>1 DEF Wants, Importing
<1>5. ASSUME NEW t \in Threads PROVE LoadsSoundly(t)'
  BY <1>1, <1>2, <1>4 DEF LoadingCore, LoadsSoundly
<1>6. OneFolder' /\ Before' /\ After' /\ Registered'
  BY <1>1, <1>2, <1>4 DEF LoadingCore, OneFolder, Before, After, Registered
<1>7. ASSUME NEW g \in FolderNames, Explained(g) PROVE (Explained(g))'
  BY <1>1, <1>7 DEF Explained, PassedOver, LoadingCore, LoadingTypes
<1>8. ScannedExplained'
  <2> SUFFICES ASSUME engineLife # "cleared", NEW i \in 1 .. scanned PROVE (Explained(Folders[i]))'
    BY <1>1 DEF ScannedExplained
  <2>0. i \in 1 .. 3
    BY DEF LoadingCore, LoadingTypes
  <2>1. PICK g \in FolderNames : g = Folders[i]
    BY <2>0, FolderFacts
  <2>2. Explained(g)
    BY <2>1 DEF LoadingCore, ScannedExplained
  <2> QED
    BY <1>7, <2>1, <2>2
<1> QED
  BY <1>3, <1>5, <1>6, <1>8 DEF LoadingCore

LEMMA CloseKeepsLoading ==
  ASSUME LoadingCore, scanned = 3, session' \in {"ours", "none", "next"},
         \/ engineLife # "cleared" /\ engineLife' = "closed"
         \/ engineLife' = engineLife,
         UNCHANGED <<verdictVars, registryVars, disk, holder, thread>>
  PROVE  LoadingCore'
<1>1. /\ UNCHANGED <<mode, off, manifest, scanned, pending, meta, claim, run, handlers, diagnosed>>
      /\ Accepted' = Accepted /\ (engineLife' = "cleared" <=> engineLife = "cleared")
  BY VerdictsStay DEF verdictVars, registryVars
<1>2. LoadingTypes'
  BY <1>1 DEF LoadingCore, LoadingTypes
<1>3. \A t \in Threads : (Wants(t)' <=> Wants(t)) /\ (Importing(t)' <=> Importing(t))
  BY <1>1 DEF Wants, Importing
<1>4. ASSUME NEW t \in Threads PROVE LoadsSoundly(t)'
  BY <1>1, <1>3 DEF LoadingCore, LoadsSoundly
<1>5. OneFolder' /\ After' /\ Registered'
  BY <1>1, <1>3 DEF LoadingCore, OneFolder, After, Registered
<1>6. Before'
  BY <1>1, ScanIsOver
<1>7. ScannedExplained'
  BY <1>1 DEF LoadingCore, ScannedExplained, Explained, PassedOver
<1> QED
  BY <1>2, <1>4, <1>5, <1>6, <1>7 DEF LoadingCore

LEMMA ClearKeeps ==
  ASSUME LoadingCore, ClearRegistry PROVE LoadingCore'
<1>1. /\ UNCHANGED <<mode, off, manifest, scanned, session, diagnosed, disk, holder, thread>>
      /\ engineLife = "closed" /\ engineLife' = "cleared"
      /\ run' = NoRun /\ meta' = Unheld /\ claim' = Unheld /\ pending' = NoEntry /\ handlers' = NoRun
      /\ \A t \in Workers \cup {Reloader} : thread[t].doing \in {"free", "done", "failed"}
  BY DEF ClearRegistry, verdictVars, adminVars
<1>2. Accepted' = Accepted
  BY <1>1 DEF Accepted, Judged, Considered, Allowed, Strictly
<1>3. LoadingTypes'
  BY <1>1 DEF LoadingCore, LoadingTypes, NoEntry
<1>4. \A t \in Threads : (Wants(t)' <=> Wants(t)) /\ (Importing(t)' <=> Importing(t))
  BY <1>1 DEF Wants, Importing
<1>5. ASSUME NEW t \in Threads PROVE LoadsSoundly(t)'
  BY <1>1, <1>2, <1>4 DEF LoadingCore, LoadsSoundly
<1>6. scanned' = 3
  BY <1>1 DEF LoadingCore, LoadingTypes, Before
<1>7. \A t \in Threads : Wants(t) => t = Api
  BY <1>1 DEF Wants, Importing, Threads
<1>8. OneFolder' /\ Before' /\ After' /\ Registered' /\ ScannedExplained'
  BY <1>1, <1>4, <1>6, <1>7, ScanIsOver DEF LoadingCore, OneFolder, After, Registered, ScannedExplained
<1> QED
  BY <1>3, <1>5, <1>8 DEF LoadingCore

(* Each action of a caller.                                                 *)
LEMMA CallerKeeps ==
  ASSUME LoadingCore, scanned = 3, NEW t \in Threads,
         \/ Resolve(t) \/ EnterLoading(t) \/ ReadAgain(t) \/ RefuseChanged(t)
         \/ Import(t) \/ ImportFails(t) \/ SetUp(t) \/ SetUpFails(t) \/ Authorise(t)
         \/ LoadExtensions(t) \/ CallAgain(t)
  PROVE  LoadingCore'
<1>1. LoadsSoundly(t) /\ LoadingTypes /\ thread[t] \in Callers
  BY DEF LoadingCore, LoadingTypes
<1>2. CASE Resolve(t)
  <2>1. RegistryStays /\ holder' = holder /\ thread[t].doing = "free" /\ ~Importing(t)
    BY <1>2 DEF Resolve, RegistryStays, adminVars, Importing
  <2>2. CASE run = NoRun /\ pending # NoEntry
    <3>1. thread' = [thread EXCEPT ![t] = [doing |-> "waiting", folder |-> pending.folder,
                                           content |-> pending.content]]
      BY <1>2, <2>2 DEF Resolve
    <3>2. NowDoes(t, "waiting", pending.folder, pending.content)
      BY <1>1, <3>1 DEF NowDoes, LoadingTypes, Callers, Doings
    <3> QED
      BY <2>1, <2>2, <3>2, WaitKeeps
  <2>3. CASE run # NoRun
    <3>1. thread' = [thread EXCEPT ![t] = [doing |-> "done", folder |-> claim, content |-> run]]
      BY <1>2, <2>3 DEF Resolve
    <3>2. NowDoes(t, "done", claim, run)
      BY <1>1, <3>1 DEF NowDoes, LoadingTypes, Callers, Doings
    <3> QED
      BY <2>1, <3>2, LeaveKeeps
  <2>4. CASE run = NoRun /\ pending = NoEntry
    <3>1. thread' = [thread EXCEPT ![t] = [Idle EXCEPT !.doing = "done"]]
      BY <1>2, <2>4 DEF Resolve
    <3>2. NowDoes(t, "done", Unheld, NoRun)
      BY <1>1, <3>1 DEF NowDoes, LoadingTypes, Callers, Doings, Idle
    <3> QED
      BY <2>1, <3>2, LeaveKeeps
  <2> QED
    BY <2>2, <2>3, <2>4
<1>3. CASE EnterLoading(t)
  <2>1. thread[t].doing = "waiting" /\ ~Importing(t) /\ holder = Unheld
    BY <1>3 DEF EnterLoading, Importing
  <2>2. CASE run # NoRun
    <3>1. /\ thread' = [thread EXCEPT ![t].doing = "done", ![t].content = run]
          /\ holder' = holder /\ RegistryStays
      BY <1>3, <2>2 DEF EnterLoading, RegistryStays, registryVars, adminVars
    <3>2. NowDoes(t, "done", thread[t].folder, run)
      BY <1>1, <3>1 DEF NowDoes, LoadingTypes, Callers, Doings
    <3> QED
      BY <2>1, <3>1, <3>2, LeaveKeeps
  <2>3. CASE run = NoRun
    <3>1. /\ ThreadDoes(t, "reading") /\ holder' = t /\ claim' = thread[t].folder
          /\ UNCHANGED <<verdictVars, pending, meta, run, handlers, disk, engineLife, session>>
      BY <1>3, <2>3 DEF EnterLoading, adminVars
    <3>2. NowDoes(t, "reading", thread[t].folder, thread[t].content)
      BY <1>1, <3>1, DoesMove DEF Doings
    <3> QED
      BY <2>1, <2>3, <3>1, <3>2, EnterKeeps
  <2> QED
    BY <2>2, <2>3
<1>4. CASE ReadAgain(t)
  <2>0. PICK f, now : f = thread[t].folder /\ now = disk[f]
    OBVIOUS
  <2>1. /\ thread[t].doing = "reading" /\ Importing(t) /\ Wants(t)
        /\ Unchanged(f, now, thread[t].content)
        /\ UNCHANGED <<verdictVars, handlers, disk, engineLife, session>>
    BY <1>4, <2>0 DEF ReadAgain, Importing, Wants, adminVars
  <2>2. <<f, thread[t].content>> \in Accepted /\ f \in FolderNames /\ now \in Content
    BY <1>1, <2>0, <2>1 DEF LoadsSoundly, Accepted, LoadingTypes
  <2>3. <<f, now>> \in Accepted
    BY <2>1, <2>2, JudgedAgain
  <2>4. CASE now.runs = "isolated" /\ KindOf(f) = "action"
    <3>1. /\ run' = now /\ meta' = f /\ claim' = f /\ pending' = NoEntry
          /\ thread' = [thread EXCEPT ![t].doing = "done", ![t].content = now]
      BY <1>4, <2>0, <2>4 DEF ReadAgain
    <3>2. NowDoes(t, "done", thread[t].folder, now)
      BY <1>1, <2>2, <3>1 DEF NowDoes, LoadingTypes, Callers, Doings
    <3> QED
      BY <2>0, <2>1, <2>2, <2>3, <2>4, <3>1, <3>2, RegisteringKeeps
  <2>5. CASE ~(now.runs = "isolated" /\ KindOf(f) = "action")
    <3>1. /\ thread' = [thread EXCEPT ![t].doing = "importing", ![t].content = now]
          /\ UNCHANGED <<run, meta, claim, pending, holder>>
      BY <1>4, <2>0, <2>5 DEF ReadAgain
    <3>2. NowDoes(t, "importing", thread[t].folder, now)
      BY <1>1, <2>2, <3>1 DEF NowDoes, LoadingTypes, Callers, Doings
    <3>3. RegistryStays /\ holder' = holder
      BY <2>1, <3>1 DEF RegistryStays, registryVars
    <3> QED
      BY <2>0, <2>1, <2>2, <2>3, <3>2, <3>3, ProgressKeeps
  <2> QED
    BY <2>4, <2>5
<1>5. CASE RefuseChanged(t) \/ ImportFails(t) \/ SetUpFails(t)
  <2>1. Importing(t) /\ FailLoading(t)
    BY <1>5 DEF RefuseChanged, ImportFails, SetUpFails, Importing
  <2> QED
    BY <2>1, FailKeeps
<1>6. CASE Import(t)
  <2>1. /\ thread[t].doing = "importing" /\ thread[t].content.runs # "import fails"
        /\ Importing(t) /\ Wants(t)
        /\ run' = thread[t].content /\ meta' = thread[t].folder /\ claim' = thread[t].folder
        /\ pending' = NoEntry /\ ThreadDoes(t, "setting up") /\ holder' = holder
        /\ UNCHANGED <<verdictVars, handlers, disk, engineLife, session>>
    BY <1>6 DEF Import, RegisterRun, Importing, Wants, adminVars
  <2>2. <<thread[t].folder, thread[t].content>> \in Accepted /\ thread[t].content \in Content
    BY <1>1, <2>1 DEF LoadsSoundly, Accepted
  <2>3. NowDoes(t, "setting up", thread[t].folder, thread[t].content)
    BY <1>1, <2>1, DoesMove DEF Doings
  <2> QED
    BY <2>1, <2>2, <2>3, RegisteringKeeps
<1>7. CASE SetUp(t)
  <2>1. PICK d \in {"authorising", "extending"} :
          ThreadDoes(t, d) /\ (d = "authorising" => thread[t].content.admin)
    BY <1>7 DEF SetUp
  <2>2. thread[t].doing = "setting up" /\ RegistryStays /\ holder' = holder /\ Wants(t)
    BY <1>7 DEF SetUp, RegistryStays, adminVars, Wants, Importing
  <2>3. NowDoes(t, d, thread[t].folder, thread[t].content)
    BY <1>1, <2>1, DoesMove DEF Doings
  <2>4. thread[t].content \in Content
    BY <1>1, <2>2 DEF LoadsSoundly, Accepted
  <2> QED
    BY <2>1, <2>2, <2>3, <2>4, ProgressKeeps
<1>8. CASE Authorise(t)
  <2>1. thread[t].doing = "authorising" /\ RegistryStays /\ Wants(t) /\ Importing(t)
    BY <1>8 DEF Authorise, RegistryStays, Wants, Importing
  <2>2. thread[t].content \in Content /\ thread[t].content # NoRun
    BY <1>1, <2>1, ContentFacts DEF LoadsSoundly, Accepted
  <2>3. CASE ThreadLeaves(t, "failed")
    <3>1. NowDoes(t, "failed", thread[t].folder, thread[t].content)
      BY <1>1, <2>3, DoesMove DEF Doings, ThreadLeaves
    <3>2. run # NoRun \/ engineLife = "cleared"
      BY <1>1, <2>1, <2>2 DEF LoadsSoundly
    <3> QED
      BY <2>1, <3>1, <3>2, LeaveKeeps
  <2>4. CASE ThreadDoes(t, "extending") /\ holder' = holder
    <3>1. NowDoes(t, "extending", thread[t].folder, thread[t].content)
      BY <1>1, <2>4, DoesMove DEF Doings
    <3> QED
      BY <2>1, <2>2, <2>4, <3>1, ProgressKeeps
  <2> QED
    BY <1>8, <2>3, <2>4 DEF Authorise
<1>9. CASE LoadExtensions(t)
  BY <1>9, ExtendKeeps
<1>10. CASE CallAgain(t)
  <2>1. /\ thread[t].doing \in {"done", "failed"} /\ RegistryStays /\ holder' = holder
        /\ thread' = [thread EXCEPT ![t] = Idle] /\ ~Importing(t)
    BY <1>10 DEF CallAgain, RegistryStays, adminVars, Importing
  <2>2. NowDoes(t, "free", Unheld, NoRun)
    BY <1>1, <2>1 DEF NowDoes, LoadingTypes, Callers, Doings, Idle
  <2> QED
    BY <2>1, <2>2, LeaveKeeps
<1> QED
  BY <1>2, <1>3, <1>4, <1>5, <1>6, <1>7, <1>8, <1>9, <1>10

(* Who may run commands as administrator.                                   *)
LEMMA AdminKeeps ==
  ASSUME LoadingInv, LoadingNext PROVE AuthorisedForTheSession'
<1>0. AuthorisedForTheSession /\ session \in {"ours", "none", "next"}
  BY DEF LoadingInv, LoadingCore, LoadingTypes
<1>1. CASE UNCHANGED adminVars
  BY <1>0, <1>1 DEF AuthorisedForTheSession, adminVars
<1>2. ASSUME NEW t \in Threads, Authorise(t) PROVE AuthorisedForTheSession'
  <2>1. thread[t].content.admin
    BY <1>2 DEF Authorise, LoadingInv, LoadingCore, LoadsSoundly
  <2>2. /\ UNCHANGED <<session, elevated>>
        /\ \/ UNCHANGED admins
           \/ session = "ours" /\ admins' = admins \cup {<<"ours", thread[t].content>>}
    BY <1>0, <1>2 DEF Authorise
  <2> QED
    BY <1>0, <2>1, <2>2 DEF AuthorisedForTheSession
<1>3. ASSUME NEW t \in Threads, RunAsAdmin(t) PROVE AuthorisedForTheSession'
  <2>1. PICK c : c = thread[t].content
    OBVIOUS
  <2>2. /\ <<"ours", c>> \in admins /\ UNCHANGED <<session, admins>>
        /\ elevated' = elevated \cup {<<session, c>>}
    BY <1>3, <2>1 DEF RunAsAdmin
  <2>3. session = "ours" /\ c.admin
    BY <1>0, <2>2 DEF AuthorisedForTheSession
  <2> QED
    BY <1>0, <2>2, <2>3 DEF AuthorisedForTheSession
<1>4. CASE CloseEngine
  BY <1>0, <1>4 DEF CloseEngine, EndsSession, AuthorisedForTheSession
<1>5. CASE NextEngine
  BY <1>0, <1>5 DEF NextEngine, AuthorisedForTheSession
<1>6. ASSUME NEW t \in Threads,
             \/ Resolve(t) \/ EnterLoading(t) \/ ReadAgain(t) \/ RefuseChanged(t)
             \/ Import(t) \/ ImportFails(t) \/ SetUp(t) \/ SetUpFails(t) \/ LoadExtensions(t)
             \/ CallAgain(t)
      PROVE  UNCHANGED adminVars
  BY <1>6 DEF Resolve, EnterLoading, ReadAgain, RefuseChanged, Import, ImportFails, SetUp,
              SetUpFails, LoadExtensions, CallAgain, FailLoading
<1>7. ASSUME \/ \E saved \in BOOLEAN : LoadFolder(saved)
             \/ \E f \in FolderNames, c \in Edited : EditFolder(f, c)
             \/ ClearRegistry
      PROVE  UNCHANGED adminVars
  BY <1>7 DEF LoadFolder, EditFolder, ClearRegistry
<1> QED
  BY <1>1, <1>2, <1>3, <1>4, <1>5, <1>6, <1>7 DEF LoadingNext

LEMMA LoadingInvStep == LoadingInv /\ [LoadingNext]_loadingVars => LoadingInv'
<1> SUFFICES ASSUME LoadingInv, [LoadingNext]_loadingVars PROVE LoadingInv'
  OBVIOUS
<1>0. LoadingCore
  BY DEF LoadingInv
<1>1. CASE UNCHANGED loadingVars
  <2>1. UNCHANGED <<verdictVars, registryVars, disk, holder, thread, session, engineLife>>
    BY <1>1 DEF loadingVars, adminVars
  <2>2. UNCHANGED <<mode, off, manifest, scanned, pending, meta, claim, run, handlers, diagnosed>>
    BY <2>1 DEF verdictVars, registryVars
  <2>3. Accepted' = Accepted
    BY <2>1, VerdictsStay
  <2>4. \A t \in Threads : (Wants(t)' <=> Wants(t)) /\ (Importing(t)' <=> Importing(t))
    BY <2>1 DEF Wants, Importing
  <2>5. LoadingTypes' /\ \A t \in Threads : LoadsSoundly(t)'
    BY <1>0, <2>1, <2>2, <2>3, <2>4 DEF LoadingCore, LoadingTypes, LoadsSoundly
  <2>6. OneFolder' /\ Before' /\ After' /\ Registered'
    BY <1>0, <2>1, <2>2, <2>3, <2>4 DEF LoadingCore, OneFolder, Before, After, Registered
  <2>7. ScannedExplained'
    BY <1>0, <2>1, <2>2 DEF LoadingCore, ScannedExplained, Explained, PassedOver
  <2>8. AuthorisedForTheSession'
    BY <1>1 DEF LoadingInv, AuthorisedForTheSession, loadingVars, adminVars
  <2> QED
    BY <2>5, <2>6, <2>7, <2>8 DEF LoadingInv, LoadingCore
<1>2. ASSUME NEW saved \in BOOLEAN, LoadFolder(saved) PROVE LoadingInv'
  BY <1>2, ScanKeeps
<1>3. CASE LoadingNext
  <2>1. AuthorisedForTheSession'
    BY <1>3, AdminKeeps
  <2>2. ASSUME NEW t \in Threads,
               \/ Resolve(t) \/ EnterLoading(t) \/ ReadAgain(t) \/ RefuseChanged(t)
               \/ Import(t) \/ ImportFails(t) \/ SetUp(t) \/ SetUpFails(t) \/ Authorise(t)
               \/ LoadExtensions(t) \/ CallAgain(t)
        PROVE  LoadingCore'
    <3>1. scanned = 3
      <4>1. thread[t].doing = "free" => scanned = 3
        BY <2>2, FolderFacts DEF Resolve, EnterLoading, ReadAgain, RefuseChanged, Import,
              ImportFails, SetUp, SetUpFails, Authorise, LoadExtensions, CallAgain
      <4>2. thread[t].doing # "free" => scanned = 3
        BY <1>0 DEF LoadingCore, LoadingTypes, Before
      <4> QED
        BY <4>1, <4>2
    <3> QED
      BY <1>0, <2>2, <3>1, CallerKeeps
  <2>3. ASSUME NEW t \in Threads, RunAsAdmin(t) PROVE LoadingCore'
    <3>1. UNCHANGED <<verdictVars, registryVars, session, disk, holder, thread, engineLife>>
      BY <2>3 DEF RunAsAdmin
    <3>2. scanned = 3
      BY <1>0, <2>3 DEF RunAsAdmin, LoadingCore, LoadingTypes, Before
    <3>3. session' \in {"ours", "none", "next"}
      BY <1>0, <3>1 DEF LoadingCore, LoadingTypes
    <3> QED
      BY <1>0, <3>1, <3>2, <3>3, CloseKeepsLoading
  <2>4. ASSUME NEW f \in FolderNames, NEW c \in Edited, EditFolder(f, c) PROVE LoadingCore'
    BY <1>0, <2>4, EditKeeps
  <2>5. CASE CloseEngine
    <3>1. /\ UNCHANGED <<verdictVars, registryVars, disk, holder, thread>>
          /\ engineLife # "cleared" /\ engineLife' = "closed" /\ scanned = 3
      BY <2>5, FolderFacts DEF CloseEngine
    <3>2. session' \in {"ours", "none", "next"}
      BY <1>0, <2>5 DEF CloseEngine, LoadingCore, LoadingTypes
    <3> QED
      BY <1>0, <2>1, <3>1, <3>2, CloseKeepsLoading DEF LoadingInv
  <2>6. CASE ClearRegistry
    BY <1>0, <2>1, <2>6, ClearKeeps DEF LoadingInv
  <2>7. CASE NextEngine
    <3>1. /\ UNCHANGED <<verdictVars, registryVars, disk, holder, thread, engineLife>>
          /\ session' = "next" /\ engineLife # "live"
      BY <2>7 DEF NextEngine
    <3>2. scanned = 3
      BY <1>0, <3>1 DEF LoadingCore, LoadingTypes, Before
    <3> QED
      BY <1>0, <2>1, <3>1, <3>2, CloseKeepsLoading DEF LoadingInv
  <2> QED
    BY <1>2, <1>3, <2>1, <2>2, <2>3, <2>4, <2>5, <2>6, <2>7 DEF LoadingNext, LoadingInv
<1> QED
  BY <1>1, <1>3

(* What rules can call was judged, accepted and not changed since, an       *)
(* import is whole or leaves nothing, and what runs as administrator was    *)
(* authorised for the engine's session.                                     *)
THEOREM LoadedVerified == LoadingSpec => []LoadedIsVerified
<1>1. LoadingInv => LoadedIsVerified
  <2> SUFFICES ASSUME LoadingInv PROVE LoadedIsVerified
    OBVIOUS
  <2>1. RunsAreVerified
    <3> SUFFICES ASSUME run # NoRun PROVE RunsAreVerified
      BY DEF RunsAreVerified
    <3>1. /\ <<claim, run>> \in Accepted /\ handlers \in {NoRun, run} /\ run.runs # "import fails"
      BY DEF LoadingInv, LoadingCore, Registered
    <3>2. claim # Unheld /\ Judged(claim, run)
      BY <3>1, LoadingConstants DEF Accepted
    <3> QED
      BY <3>1, <3>2 DEF RunsAreVerified, Judged
  <2>2. NothingHalfLoaded
    <3> SUFFICES ASSUME engineLife # "cleared" PROVE NothingHalfLoaded
      BY DEF NothingHalfLoaded
    <3>1. run = NoRun /\ pending = NoEntry /\ (\A t \in Threads : ~Importing(t)) =>
             meta = Unheld /\ claim = Unheld /\ handlers = NoRun
      BY DEF LoadingInv, LoadingCore, Registered
    <3>2. run # NoRun => meta = claim /\ pending = NoEntry
      BY DEF LoadingInv, LoadingCore, Registered, OneFolder
    <3>3. ASSUME scanned = Len(Folders), claim = Unheld, NEW f \in FolderNames
          PROVE  PassedOver(disk[f]) \/ \E g \in diagnosed : g = f \/ KindOf(g) = KindOf(f)
      <4>1. PICK i \in 1 .. 3 : Folders[i] = f
        BY FolderFacts
      <4>2. Explained(f)
        BY <3>3, <4>1, FolderFacts DEF LoadingInv, LoadingCore, ScannedExplained
      <4> QED
        BY <3>3, <4>2 DEF Explained
    <3> QED
      BY <3>1, <3>2, <3>3 DEF NothingHalfLoaded
  <2> QED
    BY <2>1, <2>2 DEF LoadedIsVerified, LoadingInv
<1> QED
  BY <1>1, LoadingInvInit, LoadingInvStep, PTL DEF LoadingSpec

-----------------------------------------------------------------------------
(* CommandActions.  Every piece written is kept, cut off or still in the    *)
(* pipe; a reader that is over left nothing there, or its output is marked, *)
(* or the piece came after its last look.                                   *)
CommandTypes ==
  /\ {wrote, pipe, kept} \subseteq Nat
  /\ step \in {"asked", "polling", "joining", "collecting", "over"}
  /\ child \in {"none", "running", "good", "bad", "killed"}
  /\ outputReader \in {"off", "looking", "saw_nothing", "over"}

Ending ==
  /\ step \in {"joining", "collecting", "over"} => child # "running"
  /\ step = "over" => outputReader \in {"off", "over"}
  /\ step = "asked" <=> (child = "none" /\ step # "over")
  /\ step = "asked" => outputReader = "off" /\ ~halt
  /\ exited => Gone
  /\ halt /\ outputReader # "over" => cut
  /\ verdictOf = "ok" => step = "over" /\ outputReader = "over" /\ ~broken

Output ==
  /\ outputReader = "off" => wrote = 0 /\ kept = 0 /\ pipe = 0
  /\ child = "running" => outputReader # "off"
  /\ ~cut => kept + pipe = wrote
  /\ outputReader = "saw_nothing" => slipped \/ pipe = 0
  /\ outputReader = "over" /\ ~cut /\ ~broken => (pipe = 0 /\ Gone) \/ slipped

CommandInv == CommandTypes /\ Ending /\ Output

LEMMA CommandInvInit == CommandInit => CommandInv
  BY DEF CommandInit, CommandInv, CommandTypes, Ending, Output, Gone

LEMMA CommandInvStep == CommandInv /\ [CommandNext]_commandVars => CommandInv'
<1> SUFFICES ASSUME CommandInv, [CommandNext]_commandVars PROVE CommandInv'
  OBVIOUS
<1> USE DEF childVars, outputVars, typedVars, outsideVars
<1>1. CASE CommandWrites
  <2>1. CommandTypes'
    BY <1>1, CommandConstants DEF CommandWrites, CommandInv, CommandTypes
  <2>2. Ending'
    BY <1>1 DEF CommandWrites, CommandInv, CommandTypes, Ending, Gone
  <2>3. Output'
    <3>1. /\ child = "running" /\ pipe' = pipe + 1 /\ wrote' = wrote + 1 /\ {kept, pipe, wrote} \subseteq Nat
          /\ UNCHANGED <<step, child, outputReader, kept, cut, broken>>
      BY <1>1 DEF CommandWrites, CommandInv, CommandTypes
    <3>2. /\ slipped => slipped'
          /\ outputReader = "saw_nothing" => slipped'
      BY <1>1 DEF CommandWrites
    <3>3. ~cut => kept + pipe' = wrote'
      BY <3>1 DEF CommandInv, Output
    <3> QED
      BY <3>1, <3>2, <3>3 DEF CommandInv, Ending, Output, Gone
  <2> QED
    BY <2>1, <2>2, <2>3 DEF CommandInv
<1>2. CASE CommandOverdue
  <2>1. CommandTypes'
    BY <1>2, CommandConstants DEF CommandOverdue, CommandInv, CommandTypes
  <2>2. Ending'
    BY <1>2 DEF CommandOverdue, CommandInv, CommandTypes, Ending, Gone
  <2>3. Output'
    BY <1>2 DEF CommandOverdue, CommandInv, CommandTypes, Ending, Output, Gone
  <2> QED
    BY <2>1, <2>2, <2>3 DEF CommandInv
<1>3. CASE CommandCalledOff
  <2>1. CommandTypes'
    BY <1>3, CommandConstants DEF CommandCalledOff, CommandInv, CommandTypes
  <2>2. Ending'
    BY <1>3 DEF CommandCalledOff, CommandInv, CommandTypes, Ending, Gone
  <2>3. Output'
    BY <1>3 DEF CommandCalledOff, CommandInv, CommandTypes, Ending, Output, Gone
  <2> QED
    BY <2>1, <2>2, <2>3 DEF CommandInv
<1>4. CASE ReaderGives
  <2>1. CommandTypes'
    BY <1>4, CommandConstants DEF ReaderGives, CommandInv, CommandTypes
  <2>2. Ending'
    BY <1>4 DEF ReaderGives, CommandInv, CommandTypes, Ending, Gone
  <2>3. Output'
    BY <1>4 DEF ReaderGives, CommandInv, CommandTypes, Ending, Output, Gone
  <2> QED
    BY <2>1, <2>2, <2>3 DEF CommandInv
<1>5. CASE ReaderTakes
  <2>1. CommandTypes'
    BY <1>5, CommandConstants DEF ReaderTakes, CommandInv, CommandTypes
  <2>2. Ending'
    BY <1>5 DEF ReaderTakes, CommandInv, CommandTypes, Ending, Gone
  <2>3. Output'
    <3>1. /\ outputReader = "looking" /\ UNCHANGED <<outputReader, child, wrote, broken, slipped>>
          /\ pipe' = pipe - 1 /\ pipe > 0 /\ {kept, pipe, wrote} \subseteq Nat
          /\ cut' = (cut \/ kept >= OutputLimit)
          /\ kept' = IF kept < OutputLimit THEN kept + 1 ELSE kept
      BY <1>5 DEF ReaderTakes, CommandInv, CommandTypes
    <3>2. ~cut' => ~cut /\ ~(kept >= OutputLimit)
      BY <3>1, Zenon
    <3>3. ~(kept >= OutputLimit) => kept' = kept + 1
      BY <3>1, CommandConstants
    <3>4. ~cut' => ~cut /\ kept' = kept + 1
      BY <3>2, <3>3, Zenon
    <3>5. ~cut' => kept' + pipe' = wrote'
      BY <3>1, <3>4 DEF CommandInv, Output
    <3> QED
      BY <3>1, <3>5 DEF Output
  <2> QED
    BY <2>1, <2>2, <2>3 DEF CommandInv
<1>6. CASE ReaderSeesNothing
  <2>1. CommandTypes'
    BY <1>6, CommandConstants DEF ReaderSeesNothing, CommandInv, CommandTypes
  <2>2. Ending'
    BY <1>6 DEF ReaderSeesNothing, CommandInv, CommandTypes, Ending, Gone
  <2>3. Output'
    BY <1>6 DEF ReaderSeesNothing, CommandInv, CommandTypes, Ending, Output, Gone
  <2> QED
    BY <2>1, <2>2, <2>3 DEF CommandInv
<1>7. CASE ReaderTurns
  <2>1. CommandTypes'
    BY <1>7, CommandConstants DEF ReaderTurns, CommandInv, CommandTypes
  <2>2. Ending'
    BY <1>7 DEF ReaderTurns, CommandInv, CommandTypes, Ending, Gone
  <2>3. Output'
    BY <1>7 DEF ReaderTurns, CommandInv, CommandTypes, Ending, Output, Gone
  <2> QED
    BY <2>1, <2>2, <2>3 DEF CommandInv
<1>8. CASE ReaderBreaks
  <2>1. CommandTypes'
    BY <1>8, CommandConstants DEF ReaderBreaks, CommandInv, CommandTypes
  <2>2. Ending'
    BY <1>8 DEF ReaderBreaks, CommandInv, CommandTypes, Ending, Gone
  <2>3. Output'
    BY <1>8 DEF ReaderBreaks, CommandInv, CommandTypes, Ending, Output, Gone
  <2> QED
    BY <2>1, <2>2, <2>3 DEF CommandInv
<1>9. CASE PollCommand
  <2>1. CommandTypes'
    BY <1>9, CommandConstants DEF PollCommand, CommandInv, CommandTypes
  <2>2. Ending'
    BY <1>9 DEF PollCommand, CommandInv, CommandTypes, Ending, Gone
  <2>3. Output'
    BY <1>9 DEF PollCommand, CommandInv, CommandTypes, Ending, Output, Gone
  <2> QED
    BY <2>1, <2>2, <2>3 DEF CommandInv
<1>10. CASE JoinReaders
  <2>1. CommandTypes'
    BY <1>10, CommandConstants DEF JoinReaders, CommandInv, CommandTypes
  <2>2. Ending'
    BY <1>10 DEF JoinReaders, CommandInv, CommandTypes, Ending, Gone
  <2>3. Output'
    BY <1>10 DEF JoinReaders, CommandInv, CommandTypes, Ending, Output, Gone
  <2> QED
    BY <2>1, <2>2, <2>3 DEF CommandInv
<1>11. CASE Collect
  <2>1. CommandTypes'
    BY <1>11, CommandConstants DEF Collect, CommandInv, CommandTypes
  <2>2. Ending'
    BY <1>11 DEF Collect, CommandInv, CommandTypes, Ending, Gone
  <2>3. Output'
    BY <1>11 DEF Collect, CommandInv, CommandTypes, Ending, Output, Gone
  <2> QED
    BY <2>1, <2>2, <2>3 DEF CommandInv
<1>12. ASSUME NEW how \in {"good", "bad"}, NEW kin \in BOOLEAN, CommandEnds(how, kin)
      PROVE  CommandInv'
  <2>1. CommandTypes'
    BY <1>12, CommandConstants DEF CommandEnds, CommandInv, CommandTypes
  <2>2. Ending'
    BY <1>12 DEF CommandEnds, CommandInv, CommandTypes, Ending, Gone
  <2>3. Output'
    BY <1>12 DEF CommandEnds, CommandInv, CommandTypes, Ending, Output, Gone
  <2> QED
    BY <2>1, <2>2, <2>3 DEF CommandInv
<1>13. ASSUME NEW there \in BOOLEAN, Launch(there) PROVE CommandInv'
  <2>1. CommandTypes'
    BY <1>13, CommandConstants DEF Launch, CommandInv, CommandTypes
  <2>2. Ending'
    <3>1. /\ step = "asked" /\ child = "none" /\ ~exited /\ verdictOf # "ok"
          /\ outputReader = "off" /\ ~halt /\ UNCHANGED <<exited, halt>>
      BY <1>13 DEF Launch, CommandInv, Ending, Gone
    <3>2. CASE calledOff \/ ~there
      <4>1. step' = "over" /\ verdictOf' \in {"cancelled", "failed"} /\ UNCHANGED <<child, outputReader>>
        BY <1>13, <3>2 DEF Launch
      <4> QED
        BY <3>1, <4>1 DEF Ending
    <3>3. CASE ~(calledOff \/ ~there)
      <4>1. /\ step' = "polling" /\ child' = "running" /\ outputReader' = "looking"
            /\ verdictOf' = verdictOf
        BY <1>13, <3>3 DEF Launch
      <4> QED
        BY <3>1, <4>1 DEF Ending
    <3> QED
      BY <3>2, <3>3
  <2>3. Output'
    BY <1>13 DEF Launch, CommandInv, CommandTypes, Ending, Output, Gone
  <2> QED
    BY <2>1, <2>2, <2>3 DEF CommandInv
<1>14. ASSUME NEW typed, NEW n, SendKeys(typed, n) PROVE CommandInv'
  <2>1. CommandTypes'
    BY <1>14, CommandConstants DEF SendKeys, CommandInv, CommandTypes
  <2>2. Ending'
    BY <1>14 DEF SendKeys, CommandInv, CommandTypes, Ending, Gone
  <2>3. Output'
    BY <1>14 DEF SendKeys, CommandInv, CommandTypes, Ending, Output, Gone
  <2> QED
    BY <2>1, <2>2, <2>3 DEF CommandInv
<1>15. CASE UNCHANGED commandVars
  <2>1. CommandTypes'
    BY <1>15, CommandConstants DEF commandVars, CommandInv, CommandTypes
  <2>2. Ending'
    BY <1>15 DEF commandVars, CommandInv, CommandTypes, Ending, Gone
  <2>3. Output'
    BY <1>15 DEF commandVars, CommandInv, CommandTypes, Ending, Output, Gone
  <2> QED
    BY <2>1, <2>2, <2>3 DEF CommandInv
<1> QED
  BY <1>1, <1>2, <1>3, <1>4, <1>5, <1>6, <1>7, <1>8, <1>9, <1>10, <1>11, <1>12, <1>13, <1>14, <1>15
  DEF CommandNext

(* When run_powershell returns neither the command nor a reader is left, and*)
(* output that is not marked is all there was, but for what came between a  *)
(* reader's last look and its end, for any output and any limit.            *)
THEOREM CommandsEnd == CommandSpec => []CommandsSettle
<1>1. CommandInv => CommandsSettle
  BY DEF CommandInv, CommandTypes, Ending, Output, OutputAccounted, CommandGone, CommandsSettle
<1> QED
  BY <1>1, CommandInvInit, CommandInvStep, PTL DEF CommandSpec

-----------------------------------------------------------------------------
(* TransferActions.  A socket is only shut down once the action has to stop,*)
(* and whoever takes its end for the server's finds that out afterwards.    *)
Busy == {"asked", "connecting", "receiving", "reading", "received", "placing", "writing"}

TransferTypes ==
  /\ errand \in Errands
  /\ phase \in Busy \cup {"leaving", "over"}
  /\ link \in {"none", "open", "shut"}
  /\ got \in Nat
  /\ target \in {"none", "before", "theirs", "part", "whole"}
  /\ {scratch, appeared, watching, overdue, abandoned} \subseteq BOOLEAN

Complete == got = errand.size \/ (errand.kind = "request" /\ got > PieceLimit)

Honest ==
  /\ link = "shut" => Refusing
  /\ phase \in Busy => ending = "none"
  /\ phase = "received" => Complete \/ Refusing
  /\ phase = "placing" => errand.kind = "download" /\ Complete
  /\ ending = "ok" /\ errand.kind # "write" => Complete

OnDisk ==
  /\ appeared /\ ~errand.overwrite => target = "theirs"
  /\ errand.kind = "write" => phase \in {"asked", "writing", "over"}
  /\ phase = "writing" => errand.kind = "write" /\ target = "part"
  /\ errand.kind = "download" => target # "part" /\ (target = "whole" => ending = "ok")

Tidied == phase \in {"asked", "writing", "over"} => ~watching /\ link = "none" /\ ~scratch

TransferInv == TransferTypes /\ Honest /\ OnDisk /\ Tidied

LEMMA ErrandFields ==
  ASSUME NEW e \in Errands
  PROVE  /\ e.kind \in {"download", "request", "write"} /\ e.overwrite \in BOOLEAN
         /\ e.size \in Nat /\ e.declared \in Nat
  BY TransferConstants DEF Errands, Undeclared

LEMMA TransferInvInit == TransferInit => TransferInv
<1> SUFFICES ASSUME TransferInit PROVE TransferInv
  OBVIOUS
<1>1. TransferTypes
  BY DEF TransferInit, NothingMoved, TransferTypes, Busy
<1>2. Honest /\ OnDisk /\ Tidied
  BY DEF TransferInit, NothingMoved, Honest, OnDisk, Tidied, Busy
<1> QED
  BY <1>1, <1>2 DEF TransferInv

LEMMA TransferInvStep == TransferInv /\ [TransferNext]_transferVars => TransferInv'
<1> SUFFICES ASSUME TransferInv, [TransferNext]_transferVars PROVE TransferInv'
  OBVIOUS
<1>a. /\ errand.kind \in {"download", "request", "write"} /\ errand.overwrite \in BOOLEAN
      /\ errand.size \in Nat /\ errand.declared \in Nat
  BY ErrandFields DEF TransferInv, TransferTypes
<1> USE DEF Moved, Ends, Refusing, Stopped, Blame
<1>1. CASE TimeIsUp
  <2>1. TransferTypes'
    BY <1>1, <1>a DEF TimeIsUp, TransferInv, TransferTypes, Busy
  <2>2. Honest'
    BY <1>1, <1>a, TransferConstants DEF TimeIsUp, TransferInv, TransferTypes, Honest, OnDisk, Tidied,
           Busy, Complete, Undeclared
  <2>3. OnDisk' /\ Tidied'
    BY <1>1, <1>a DEF TimeIsUp, TransferInv, TransferTypes, Honest, OnDisk, Tidied, Busy
  <2> QED
    BY <2>1, <2>2, <2>3 DEF TransferInv
<1>2. CASE CallOff
  <2>1. TransferTypes'
    BY <1>2, <1>a DEF CallOff, TransferInv, TransferTypes, Busy
  <2>2. Honest'
    BY <1>2, <1>a, TransferConstants DEF CallOff, TransferInv, TransferTypes, Honest, OnDisk, Tidied,
           Busy, Complete, Undeclared
  <2>3. OnDisk' /\ Tidied'
    BY <1>2, <1>a DEF CallOff, TransferInv, TransferTypes, Honest, OnDisk, Tidied, Busy
  <2> QED
    BY <2>1, <2>2, <2>3 DEF TransferInv
<1>3. CASE FileAppears
  <2>1. TransferTypes'
    BY <1>3, <1>a DEF FileAppears, TransferInv, TransferTypes, Busy
  <2>2. Honest'
    BY <1>3, <1>a, TransferConstants DEF FileAppears, TransferInv, TransferTypes, Honest, OnDisk, Tidied,
           Busy, Complete, Undeclared
  <2>3. OnDisk' /\ Tidied'
    BY <1>3, <1>a DEF FileAppears, TransferInv, TransferTypes, Honest, OnDisk, Tidied, Busy
  <2> QED
    BY <2>1, <2>2, <2>3 DEF TransferInv
<1>4. CASE Interrupt
  <2>1. TransferTypes'
    BY <1>4, <1>a DEF Interrupt, TransferInv, TransferTypes, Busy
  <2>2. Honest'
    BY <1>4, <1>a, TransferConstants DEF Interrupt, TransferInv, TransferTypes, Honest, OnDisk, Tidied,
           Busy, Complete, Undeclared
  <2>3. OnDisk' /\ Tidied'
    BY <1>4, <1>a DEF Interrupt, TransferInv, TransferTypes, Honest, OnDisk, Tidied, Busy
  <2> QED
    BY <2>1, <2>2, <2>3 DEF TransferInv
<1>5. CASE BeginDownload
  <2>1. TransferTypes'
    BY <1>5, <1>a DEF BeginDownload, TransferInv, TransferTypes, Busy
  <2>2. Honest'
    BY <1>5, <1>a, TransferConstants DEF BeginDownload, TransferInv, TransferTypes, Honest, OnDisk, Tidied,
           Busy, Complete, Undeclared
  <2>3. OnDisk' /\ Tidied'
    BY <1>5, <1>a DEF BeginDownload, TransferInv, TransferTypes, Honest, OnDisk, Tidied, Busy
  <2> QED
    BY <2>1, <2>2, <2>3 DEF TransferInv
<1>6. CASE BeginRequest
  <2>1. TransferTypes'
    BY <1>6, <1>a DEF BeginRequest, TransferInv, TransferTypes, Busy
  <2>2. Honest'
    BY <1>6, <1>a, TransferConstants DEF BeginRequest, TransferInv, TransferTypes, Honest, OnDisk, Tidied,
           Busy, Complete, Undeclared
  <2>3. OnDisk' /\ Tidied'
    BY <1>6, <1>a DEF BeginRequest, TransferInv, TransferTypes, Honest, OnDisk, Tidied, Busy
  <2> QED
    BY <2>1, <2>2, <2>3 DEF TransferInv
<1>7. CASE Dial
  <2>1. TransferTypes'
    BY <1>7, <1>a DEF Dial, TransferInv, TransferTypes, Busy
  <2>2. Honest'
    BY <1>7, <1>a, TransferConstants DEF Dial, TransferInv, TransferTypes, Honest, OnDisk, Tidied,
           Busy, Complete, Undeclared
  <2>3. OnDisk' /\ Tidied'
    BY <1>7, <1>a DEF Dial, TransferInv, TransferTypes, Honest, OnDisk, Tidied, Busy
  <2> QED
    BY <2>1, <2>2, <2>3 DEF TransferInv
<1>8. CASE DialFails
  <2>1. TransferTypes'
    BY <1>8, <1>a DEF DialFails, TransferInv, TransferTypes, Busy
  <2>2. Honest'
    BY <1>8, <1>a, TransferConstants DEF DialFails, TransferInv, TransferTypes, Honest, OnDisk, Tidied,
           Busy, Complete, Undeclared
  <2>3. OnDisk' /\ Tidied'
    BY <1>8, <1>a DEF DialFails, TransferInv, TransferTypes, Honest, OnDisk, Tidied, Busy
  <2> QED
    BY <2>1, <2>2, <2>3 DEF TransferInv
<1>9. CASE FollowRedirect
  <2>1. TransferTypes'
    BY <1>9, <1>a DEF FollowRedirect, TransferInv, TransferTypes, Busy
  <2>2. Honest'
    BY <1>9, <1>a, TransferConstants DEF FollowRedirect, TransferInv, TransferTypes, Honest, OnDisk, Tidied,
           Busy, Complete, Undeclared
  <2>3. OnDisk' /\ Tidied'
    BY <1>9, <1>a DEF FollowRedirect, TransferInv, TransferTypes, Honest, OnDisk, Tidied, Busy
  <2> QED
    BY <2>1, <2>2, <2>3 DEF TransferInv
<1>10. CASE ReadHead
  <2>1. TransferTypes'
    BY <1>10, <1>a DEF ReadHead, TransferInv, TransferTypes, Busy
  <2>2. Honest'
    BY <1>10, <1>a, TransferConstants DEF ReadHead, TransferInv, TransferTypes, Honest, OnDisk, Tidied,
           Busy, Complete, Undeclared
  <2>3. OnDisk' /\ Tidied'
    BY <1>10, <1>a DEF ReadHead, TransferInv, TransferTypes, Honest, OnDisk, Tidied, Busy
  <2> QED
    BY <2>1, <2>2, <2>3 DEF TransferInv
<1>11. CASE NextTurn
  <2>1. TransferTypes'
    BY <1>11, <1>a DEF NextTurn, TransferInv, TransferTypes, Busy
  <2>2. Honest'
    BY <1>11, <1>a, TransferConstants DEF NextTurn, TransferInv, TransferTypes, Honest, OnDisk, Tidied,
           Busy, Complete, Undeclared
  <2>3. OnDisk' /\ Tidied'
    BY <1>11, <1>a DEF NextTurn, TransferInv, TransferTypes, Honest, OnDisk, Tidied, Busy
  <2> QED
    BY <2>1, <2>2, <2>3 DEF TransferInv
<1>12. CASE ReadPiece
  <2>1. TransferTypes'
    BY <1>12, <1>a DEF ReadPiece, TransferInv, TransferTypes, Busy
  <2>2. Honest'
    BY <1>12, <1>a, TransferConstants DEF ReadPiece, TransferInv, TransferTypes, Honest, OnDisk, Tidied,
           Busy, Complete, Undeclared
  <2>3. OnDisk' /\ Tidied'
    BY <1>12, <1>a DEF ReadPiece, TransferInv, TransferTypes, Honest, OnDisk, Tidied, Busy
  <2> QED
    BY <2>1, <2>2, <2>3 DEF TransferInv
<1>13. CASE ReadNothing
  <2>1. TransferTypes'
    BY <1>13, <1>a DEF ReadNothing, TransferInv, TransferTypes, Busy
  <2>2. Honest'
    BY <1>13, <1>a, TransferConstants DEF ReadNothing, TransferInv, TransferTypes, Honest, OnDisk, Tidied,
           Busy, Complete, Undeclared
  <2>3. OnDisk' /\ Tidied'
    BY <1>13, <1>a DEF ReadNothing, TransferInv, TransferTypes, Honest, OnDisk, Tidied, Busy
  <2> QED
    BY <2>1, <2>2, <2>3 DEF TransferInv
<1>14. CASE ReadBreaks
  <2>1. TransferTypes'
    BY <1>14, <1>a DEF ReadBreaks, TransferInv, TransferTypes, Busy
  <2>2. Honest'
    BY <1>14, <1>a, TransferConstants DEF ReadBreaks, TransferInv, TransferTypes, Honest, OnDisk, Tidied,
           Busy, Complete, Undeclared
  <2>3. OnDisk' /\ Tidied'
    BY <1>14, <1>a DEF ReadBreaks, TransferInv, TransferTypes, Honest, OnDisk, Tidied, Busy
  <2> QED
    BY <2>1, <2>2, <2>3 DEF TransferInv
<1>15. CASE AcceptAnswer
  <2>1. TransferTypes'
    BY <1>15, <1>a DEF AcceptAnswer, TransferInv, TransferTypes, Busy
  <2>2. Honest'
    BY <1>15, <1>a, TransferConstants DEF AcceptAnswer, TransferInv, TransferTypes, Honest, OnDisk, Tidied,
           Busy, Complete, Undeclared
  <2>3. OnDisk' /\ Tidied'
    BY <1>15, <1>a DEF AcceptAnswer, TransferInv, TransferTypes, Honest, OnDisk, Tidied, Busy
  <2> QED
    BY <2>1, <2>2, <2>3 DEF TransferInv
<1>16. CASE AcceptFile
  <2>1. TransferTypes'
    BY <1>16, <1>a DEF AcceptFile, TransferInv, TransferTypes, Busy
  <2>2. Honest'
    BY <1>16, <1>a, TransferConstants DEF AcceptFile, TransferInv, TransferTypes, Honest, OnDisk, Tidied,
           Busy, Complete, Undeclared
  <2>3. OnDisk' /\ Tidied'
    BY <1>16, <1>a DEF AcceptFile, TransferInv, TransferTypes, Honest, OnDisk, Tidied, Busy
  <2> QED
    BY <2>1, <2>2, <2>3 DEF TransferInv
<1>17. CASE Place
  <2>1. TransferTypes'
    BY <1>17, <1>a DEF Place, TransferInv, TransferTypes, Busy
  <2>2. Honest'
    BY <1>17, <1>a, TransferConstants DEF Place, TransferInv, TransferTypes, Honest, OnDisk, Tidied,
           Busy, Complete, Undeclared
  <2>3. OnDisk' /\ Tidied'
    BY <1>17, <1>a DEF Place, TransferInv, TransferTypes, Honest, OnDisk, Tidied, Busy
  <2> QED
    BY <2>1, <2>2, <2>3 DEF TransferInv
<1>18. CASE StopWatcher
  <2>1. TransferTypes'
    BY <1>18, <1>a DEF StopWatcher, TransferInv, TransferTypes, Busy
  <2>2. Honest'
    BY <1>18, <1>a, TransferConstants DEF StopWatcher, TransferInv, TransferTypes, Honest, OnDisk, Tidied,
           Busy, Complete, Undeclared
  <2>3. OnDisk' /\ Tidied'
    BY <1>18, <1>a DEF StopWatcher, TransferInv, TransferTypes, Honest, OnDisk, Tidied, Busy
  <2> QED
    BY <2>1, <2>2, <2>3 DEF TransferInv
<1>19. CASE CleanAfter
  <2>1. TransferTypes'
    BY <1>19, <1>a DEF CleanAfter, TransferInv, TransferTypes, Busy
  <2>2. Honest'
    BY <1>19, <1>a, TransferConstants DEF CleanAfter, TransferInv, TransferTypes, Honest, OnDisk, Tidied,
           Busy, Complete, Undeclared
  <2>3. OnDisk' /\ Tidied'
    BY <1>19, <1>a DEF CleanAfter, TransferInv, TransferTypes, Honest, OnDisk, Tidied, Busy
  <2> QED
    BY <2>1, <2>2, <2>3 DEF TransferInv
<1>20. CASE OpenForWriting
  <2>1. TransferTypes'
    BY <1>20, <1>a DEF OpenForWriting, TransferInv, TransferTypes, Busy
  <2>2. Honest'
    BY <1>20, <1>a, TransferConstants DEF OpenForWriting, TransferInv, TransferTypes, Honest, OnDisk, Tidied,
           Busy, Complete, Undeclared
  <2>3. OnDisk' /\ Tidied'
    BY <1>20, <1>a DEF OpenForWriting, TransferInv, TransferTypes, Honest, OnDisk, Tidied, Busy
  <2> QED
    BY <2>1, <2>2, <2>3 DEF TransferInv
<1>21. ASSUME NEW works \in BOOLEAN, WriteText(works) PROVE TransferInv'
  <2>1. TransferTypes'
    BY <1>21, <1>a DEF WriteText, TransferInv, TransferTypes, Busy
  <2>2. Honest'
    BY <1>21, <1>a, TransferConstants DEF WriteText, TransferInv, TransferTypes, Honest, OnDisk, Tidied,
           Busy, Complete, Undeclared
  <2>3. OnDisk' /\ Tidied'
    BY <1>21, <1>a DEF WriteText, TransferInv, TransferTypes, Honest, OnDisk, Tidied, Busy
  <2> QED
    BY <2>1, <2>2, <2>3 DEF TransferInv
<1>22. CASE UNCHANGED transferVars
  <2>1. TransferTypes'
    BY <1>22, <1>a DEF transferVars, TransferInv, TransferTypes, Busy
  <2>2. Honest'
    BY <1>22, <1>a, TransferConstants DEF transferVars, TransferInv, TransferTypes, Honest, OnDisk, Tidied,
           Busy, Complete, Undeclared
  <2>3. OnDisk' /\ Tidied'
    BY <1>22, <1>a DEF transferVars, TransferInv, TransferTypes, Honest, OnDisk, Tidied, Busy
  <2> QED
    BY <2>1, <2>2, <2>3 DEF TransferInv
<1> QED
  BY <1>1, <1>2, <1>3, <1>4, <1>5, <1>6, <1>7, <1>8, <1>9, <1>10, <1>11, <1>12,
     <1>13, <1>14, <1>15, <1>16, <1>17, <1>18, <1>19, <1>20, <1>21, <1>22
  DEF TransferNext

(* What a server sends in however many pieces, and whoever interferes: a    *)
(* success means the whole answer, no download leaves part of a file,       *)
(* nobody else's file is lost, and nothing is left open.                    *)
THEOREM TransfersEnd == TransferSpec => []TransfersSettle
<1>1. TransferInv => TransfersSettle
  BY DEF TransferInv, Honest, OnDisk, Tidied, Complete, TransfersSettle, SuccessIsWhole,
         NothingPartial, OthersFilesKept, TransferTidy
<1> QED
  BY <1>1, TransferInvInit, TransferInvStep, PTL DEF TransferSpec

-----------------------------------------------------------------------------
(* PluginWorker.  A call knows at each stage whether its process can still  *)
(* be alive, whether it is registered and whether it has reported a crash;  *)
(* and an answer in the pipe was written by an action that ran.             *)
Lines == {"ready", "refused", "ok", "error", "noise"}
Underway == {"awaits_ready", "sends", "awaits_result"}
WorkerTypes ==
  /\ callAt \in [Calls -> Underway \cup {"new", "started", "raising", "completed", "stops",
                                         "awaits_exit", "ended"}]
  /\ process \in [Calls -> {"none", "booting", "reading", "acting", "exiting", "mute", "gone"}]
  /\ protocol \in [Calls -> Seq(Lines)]
  /\ answer \in [Calls -> Lines \cup {"none", "raised"}]
  /\ ran \in [Calls -> {0, Given}]
  /\ reports \in [Calls -> Nat]
  /\ registered \subseteq Calls /\ sweep \subseteq Calls

ProcessOf(c) ==
  /\ callAt[c] = "new" => process[c] = "none"
  /\ callAt[c] = "ended" => process[c] = "gone"
  /\ c \in registered => callAt[c] \in Underway \cup {"raising", "completed"}
  /\ c \in sweep => callAt[c] # "new"

AnswerOf(c) ==
  /\ callAt[c] \in Underway \cup {"new", "started"} => answer[c] = "none"
  /\ reports[c] = IF answer[c] = "raised" THEN 1 ELSE 0
  /\ answer[c] \in {"ok", "error"} => ran[c] = Given

WorkOf(c) ==
  /\ process[c] = "acting" => ran[c] = Given
  /\ \A k \in 1 .. Len(protocol[c]) : protocol[c][k] \in {"ok", "error"} => ran[c] = Given

CallInv(c) == ProcessOf(c) /\ AnswerOf(c) /\ WorkOf(c)
WorkerInv == WorkerTypes /\ \A c \in Calls : CallInv(c)

LEMMA WorkerInvInit == WorkerInit => WorkerInv
<1> SUFFICES ASSUME WorkerInit PROVE WorkerInv
  OBVIOUS
<1>1. WorkerTypes
  BY DEF WorkerInit, WorkerTypes, Underway
<1>2. ASSUME NEW c \in Calls PROVE CallInv(c)
  BY DEF WorkerInit, CallInv, ProcessOf, AnswerOf, WorkOf, Underway
<1> QED
  BY <1>1, <1>2 DEF WorkerInv

(* A step of one call leaves the others alone.                              *)
OtherCall(d) ==
  /\ callAt'[d] = callAt[d] /\ process'[d] = process[d] /\ protocol'[d] = protocol[d]
  /\ answer'[d] = answer[d] /\ ran'[d] = ran[d] /\ reports'[d] = reports[d]
  /\ d \in registered' <=> d \in registered
  /\ d \in sweep' => d \in sweep

LEMMA CallMove ==
  ASSUME WorkerInv, WorkerTypes', NEW c \in Calls, CallInv(c)',
         \A d \in Calls \ {c} : OtherCall(d)
  PROVE  WorkerInv'
<1>1. ASSUME NEW d \in Calls, d # c PROVE CallInv(d)'
  <2>1. OtherCall(d) /\ CallInv(d)
    BY <1>1 DEF WorkerInv
  <2> QED
    BY <2>1 DEF OtherCall, CallInv, ProcessOf, AnswerOf, WorkOf
<1> QED
  BY <1>1 DEF WorkerInv

LEMMA LineWritten ==
  ASSUME NEW lines \in Seq(Lines), NEW line \in Lines
  PROVE  /\ Len(Append(lines, line)) = Len(lines) + 1
         /\ Append(lines, line)[Len(lines) + 1] = line
         /\ \A k \in 1 .. Len(lines) : Append(lines, line)[k] = lines[k]
  OBVIOUS

LEMMA LineRead ==
  ASSUME NEW lines \in Seq(Lines), lines # <<>>
  PROVE  /\ Len(Tail(lines)) = Len(lines) - 1 /\ Head(lines) = lines[1] /\ 1 \in 1 .. Len(lines)
         /\ \A k \in 1 .. Len(Tail(lines)) : Tail(lines)[k] = lines[k + 1]
  OBVIOUS

LEMMA WorkerInvStep == WorkerInv /\ [WorkerNext]_workerVars => WorkerInv'
<1> SUFFICES ASSUME WorkerInv, [WorkerNext]_workerVars PROVE WorkerInv'
  OBVIOUS
<1> USE DEF KeepCalls, KeepWorker, Becomes, Goes, Writes, Receive, RaisesAfter, Waiting
<1>1. ASSUME NEW c \in Calls, StartWorker(c) PROVE WorkerInv'
  <2>1. WorkerTypes'
    BY <1>1 DEF StartWorker, WorkerInv, WorkerTypes, Underway, Lines
  <2>2. \A d \in Calls \ {c} : OtherCall(d)
    BY <1>1 DEF StartWorker, WorkerInv, WorkerTypes, OtherCall
  <2>3. ProcessOf(c)'
    BY <1>1 DEF StartWorker, WorkerInv, WorkerTypes, CallInv, ProcessOf, Underway
  <2>4. AnswerOf(c)'
    BY <1>1 DEF StartWorker, WorkerInv, WorkerTypes, CallInv, AnswerOf, WorkOf, Underway
  <2>5. WorkOf(c)'
    BY <1>1 DEF StartWorker, WorkerInv, WorkerTypes, CallInv, WorkOf
  <2> QED
    BY <2>1, <2>2, <2>3, <2>4, <2>5, CallMove DEF CallInv
<1>2. ASSUME NEW c \in Calls, Register(c) PROVE WorkerInv'
  <2>1. WorkerTypes'
    BY <1>2 DEF Register, WorkerInv, WorkerTypes, Underway, Lines
  <2>2. \A d \in Calls \ {c} : OtherCall(d)
    BY <1>2 DEF Register, WorkerInv, WorkerTypes, OtherCall
  <2>3. ProcessOf(c)'
    BY <1>2 DEF Register, WorkerInv, WorkerTypes, CallInv, ProcessOf, Underway
  <2>4. AnswerOf(c)'
    BY <1>2 DEF Register, WorkerInv, WorkerTypes, CallInv, AnswerOf, WorkOf, Underway
  <2>5. WorkOf(c)'
    BY <1>2 DEF Register, WorkerInv, WorkerTypes, CallInv, WorkOf
  <2> QED
    BY <2>1, <2>2, <2>3, <2>4, <2>5, CallMove DEF CallInv
<1>3. ASSUME NEW c \in Calls, OutputEnds(c) PROVE WorkerInv'
  <2>1. WorkerTypes'
    BY <1>3 DEF OutputEnds, WorkerInv, WorkerTypes, Underway, Lines
  <2>2. \A d \in Calls \ {c} : OtherCall(d)
    BY <1>3 DEF OutputEnds, WorkerInv, WorkerTypes, OtherCall
  <2>3. ProcessOf(c)'
    BY <1>3 DEF OutputEnds, WorkerInv, WorkerTypes, CallInv, ProcessOf, Underway
  <2>4. AnswerOf(c)'
    <3>1. answer[c] = "none" /\ reports[c] = 0
      BY <1>3 DEF OutputEnds, WorkerInv, CallInv, AnswerOf, Underway
    <3>2. callAt'[c] = "raising" /\ reports'[c] = 1 /\ answer'[c] = "raised"
      BY <1>3, <3>1 DEF OutputEnds, WorkerInv, WorkerTypes
    <3> QED
      BY <3>2 DEF AnswerOf, Underway
  <2>5. WorkOf(c)'
    BY <1>3 DEF OutputEnds, WorkerInv, WorkerTypes, CallInv, WorkOf
  <2> QED
    BY <2>1, <2>2, <2>3, <2>4, <2>5, CallMove DEF CallInv
<1>4. ASSUME NEW c \in Calls, TimesOut(c) PROVE WorkerInv'
  <2>1. WorkerTypes'
    BY <1>4 DEF TimesOut, WorkerInv, WorkerTypes, Underway, Lines
  <2>2. \A d \in Calls \ {c} : OtherCall(d)
    BY <1>4 DEF TimesOut, WorkerInv, WorkerTypes, OtherCall
  <2>3. ProcessOf(c)'
    BY <1>4 DEF TimesOut, WorkerInv, WorkerTypes, CallInv, ProcessOf, Underway
  <2>4. AnswerOf(c)'
    <3>1. answer[c] = "none" /\ reports[c] = 0
      BY <1>4 DEF TimesOut, WorkerInv, CallInv, AnswerOf, Underway
    <3>2. callAt'[c] = "raising" /\ reports'[c] = 1 /\ answer'[c] = "raised"
      BY <1>4, <3>1 DEF TimesOut, WorkerInv, WorkerTypes
    <3> QED
      BY <3>2 DEF AnswerOf, Underway
  <2>5. WorkOf(c)'
    BY <1>4 DEF TimesOut, WorkerInv, WorkerTypes, CallInv, WorkOf
  <2> QED
    BY <2>1, <2>2, <2>3, <2>4, <2>5, CallMove DEF CallInv
<1>5. ASSUME NEW c \in Calls, TakeReady(c) PROVE WorkerInv'
  <2>1. WorkerTypes'
    BY <1>5 DEF TakeReady, WorkerInv, WorkerTypes, Underway, Lines
  <2>2. \A d \in Calls \ {c} : OtherCall(d)
    BY <1>5 DEF TakeReady, WorkerInv, WorkerTypes, OtherCall
  <2>3. ProcessOf(c)'
    BY <1>5 DEF TakeReady, WorkerInv, WorkerTypes, CallInv, ProcessOf, Underway
  <2>4. AnswerOf(c)'
    BY <1>5 DEF TakeReady, WorkerInv, WorkerTypes, CallInv, AnswerOf, WorkOf, Underway
  <2>5. WorkOf(c)'
    <3>1. protocol[c] # <<>> /\ protocol'[c] = Tail(protocol[c]) /\ UNCHANGED ran
      BY <1>5 DEF TakeReady, WorkerInv, WorkerTypes
    <3>2. process'[c] \in {process[c], "gone"}
      BY <1>5 DEF TakeReady, WorkerInv, WorkerTypes
    <3>3. protocol[c] \in Seq(Lines) /\ WorkOf(c)
      BY DEF WorkerInv, WorkerTypes, CallInv
    <3> QED
      BY <3>1, <3>2, <3>3, LineRead DEF WorkOf
  <2> QED
    BY <2>1, <2>2, <2>3, <2>4, <2>5, CallMove DEF CallInv
<1>6. ASSUME NEW c \in Calls, TakeAnswer(c) PROVE WorkerInv'
  <2>0. Head(protocol[c]) \in Lines /\ Tail(protocol[c]) \in Seq(Lines)
    BY <1>6 DEF TakeAnswer, WorkerInv, WorkerTypes
  <2>1. WorkerTypes'
    <3>1. CASE Head(protocol[c]) = "noise"
      <4>1. /\ protocol' = [protocol EXCEPT ![c] = Tail(@)] /\ process' = [process EXCEPT ![c] = "gone"]
            /\ callAt' = [callAt EXCEPT ![c] = "raising"] /\ answer' = [answer EXCEPT ![c] = "raised"]
            /\ reports' = [reports EXCEPT ![c] = @ + 1] /\ UNCHANGED <<registered, ran, sweep>>
        BY <1>6, <3>1 DEF TakeAnswer
      <4> QED
        BY <4>1, <2>0 DEF WorkerInv, WorkerTypes, Underway
    <3>2. CASE ~(Head(protocol[c]) = "noise")
      BY <1>6, <3>2, <2>0 DEF TakeAnswer, WorkerInv, WorkerTypes, Underway, Lines
    <3> QED
      BY <3>1, <3>2
  <2>2. \A d \in Calls \ {c} : OtherCall(d)
    BY <1>6 DEF TakeAnswer, WorkerInv, WorkerTypes, OtherCall
  <2>3. ProcessOf(c)'
    BY <1>6 DEF TakeAnswer, WorkerInv, WorkerTypes, CallInv, ProcessOf, Underway
  <2>4. AnswerOf(c)'
    <3>1. callAt[c] = "awaits_result" /\ answer[c] = "none" /\ reports[c] = 0 /\ UNCHANGED ran
      BY <1>6 DEF TakeAnswer, WorkerInv, CallInv, AnswerOf, Underway
    <3>2. CASE Head(protocol[c]) = "noise"
      <4>1. callAt'[c] = "raising" /\ reports'[c] = 1 /\ answer'[c] = "raised"
        BY <1>6, <3>1, <3>2 DEF TakeAnswer, WorkerInv, WorkerTypes
      <4> QED
        BY <4>1 DEF AnswerOf, Underway
    <3>3. CASE Head(protocol[c]) # "noise"
      <4>1. callAt'[c] = "completed" /\ answer'[c] = Head(protocol[c]) /\ UNCHANGED reports
        BY <1>6, <3>3 DEF TakeAnswer, WorkerInv, WorkerTypes
      <4>2. Head(protocol[c]) \in {"ok", "error"} => ran[c] = Given
        BY <1>6, LineRead DEF TakeAnswer, WorkerInv, WorkerTypes, CallInv, WorkOf
      <4> QED
        BY <2>0, <3>1, <4>1, <4>2 DEF AnswerOf, Underway, Lines
    <3> QED
      BY <3>2, <3>3
  <2>5. WorkOf(c)'
    <3>1. protocol[c] # <<>> /\ protocol'[c] = Tail(protocol[c]) /\ UNCHANGED ran
      BY <1>6 DEF TakeAnswer, WorkerInv, WorkerTypes
    <3>2. process'[c] \in {process[c], "gone"}
      BY <1>6 DEF TakeAnswer, WorkerInv, WorkerTypes
    <3>3. protocol[c] \in Seq(Lines) /\ WorkOf(c)
      BY DEF WorkerInv, WorkerTypes, CallInv
    <3> QED
      BY <3>1, <3>2, <3>3, LineRead DEF WorkOf
  <2> QED
    BY <2>1, <2>2, <2>3, <2>4, <2>5, CallMove DEF CallInv
<1>7. ASSUME NEW c \in Calls, SendRequest(c) PROVE WorkerInv'
  <2>1. WorkerTypes'
    <3>1. CASE process[c] = "gone"
      <4>1. /\ process' = [process EXCEPT ![c] = "gone"]
            /\ callAt' = [callAt EXCEPT ![c] = "raising"] /\ answer' = [answer EXCEPT ![c] = "raised"]
            /\ reports' = [reports EXCEPT ![c] = @ + 1] /\ UNCHANGED <<protocol, registered, ran, sweep>>
        BY <1>7, <3>1 DEF SendRequest
      <4> QED
        BY <4>1 DEF WorkerInv, WorkerTypes, Underway
    <3>2. CASE ~(process[c] = "gone")
      BY <1>7, <3>2 DEF SendRequest, WorkerInv, WorkerTypes, Underway, Lines
    <3> QED
      BY <3>1, <3>2
  <2>2. \A d \in Calls \ {c} : OtherCall(d)
    BY <1>7 DEF SendRequest, WorkerInv, WorkerTypes, OtherCall
  <2>3. ProcessOf(c)'
    BY <1>7 DEF SendRequest, WorkerInv, WorkerTypes, CallInv, ProcessOf, Underway
  <2>4. AnswerOf(c)'
    BY <1>7 DEF SendRequest, WorkerInv, WorkerTypes, CallInv, AnswerOf, WorkOf, Underway
  <2>5. WorkOf(c)'
    BY <1>7 DEF SendRequest, WorkerInv, WorkerTypes, CallInv, WorkOf
  <2> QED
    BY <2>1, <2>2, <2>3, <2>4, <2>5, CallMove DEF CallInv
<1>8. ASSUME NEW c \in Calls, Unregister(c) PROVE WorkerInv'
  <2>1. WorkerTypes'
    BY <1>8 DEF Unregister, WorkerInv, WorkerTypes, Underway, Lines
  <2>2. \A d \in Calls \ {c} : OtherCall(d)
    BY <1>8 DEF Unregister, WorkerInv, WorkerTypes, OtherCall
  <2>3. ProcessOf(c)'
    BY <1>8 DEF Unregister, WorkerInv, WorkerTypes, CallInv, ProcessOf, Underway
  <2>4. AnswerOf(c)'
    BY <1>8 DEF Unregister, WorkerInv, WorkerTypes, CallInv, AnswerOf, WorkOf, Underway
  <2>5. WorkOf(c)'
    BY <1>8 DEF Unregister, WorkerInv, WorkerTypes, CallInv, WorkOf
  <2> QED
    BY <2>1, <2>2, <2>3, <2>4, <2>5, CallMove DEF CallInv
<1>9. ASSUME NEW c \in Calls, EndCall(c) PROVE WorkerInv'
  <2>1. WorkerTypes'
    BY <1>9 DEF EndCall, WorkerInv, WorkerTypes, Underway, Lines
  <2>2. \A d \in Calls \ {c} : OtherCall(d)
    BY <1>9 DEF EndCall, WorkerInv, WorkerTypes, OtherCall
  <2>3. ProcessOf(c)'
    BY <1>9 DEF EndCall, WorkerInv, WorkerTypes, CallInv, ProcessOf, Underway
  <2>4. AnswerOf(c)'
    BY <1>9 DEF EndCall, WorkerInv, WorkerTypes, CallInv, AnswerOf, WorkOf, Underway
  <2>5. WorkOf(c)'
    BY <1>9 DEF EndCall, WorkerInv, WorkerTypes, CallInv, WorkOf
  <2> QED
    BY <2>1, <2>2, <2>3, <2>4, <2>5, CallMove DEF CallInv
<1>10. ASSUME NEW c \in Calls, SayReady(c) PROVE WorkerInv'
  <2>1. WorkerTypes'
    BY <1>10 DEF SayReady, WorkerInv, WorkerTypes, Underway, Lines
  <2>2. \A d \in Calls \ {c} : OtherCall(d)
    BY <1>10 DEF SayReady, WorkerInv, WorkerTypes, OtherCall
  <2>3. ProcessOf(c)'
    BY <1>10 DEF SayReady, WorkerInv, WorkerTypes, CallInv, ProcessOf, Underway
  <2>4. AnswerOf(c)'
    BY <1>10 DEF SayReady, WorkerInv, WorkerTypes, CallInv, AnswerOf, WorkOf, Underway
  <2>5. WorkOf(c)'
    <3>1. protocol'[c] = Append(protocol[c], "ready") /\ "ready" \in Lines
      BY <1>10 DEF SayReady, WorkerInv, WorkerTypes, Lines
    <3>2. process'[c] = "reading" /\ UNCHANGED ran
      BY <1>10 DEF SayReady, WorkerInv, WorkerTypes, CallInv, WorkOf
    <3>3. protocol[c] \in Seq(Lines) /\ WorkOf(c)
      BY DEF WorkerInv, WorkerTypes, CallInv
    <3> QED
      BY <3>1, <3>2, <3>3, LineWritten DEF WorkOf
  <2> QED
    BY <2>1, <2>2, <2>3, <2>4, <2>5, CallMove DEF CallInv
<1>11. ASSUME NEW c \in Calls, LoadFiles(c) PROVE WorkerInv'
  <2>1. WorkerTypes'
    <3>1. CASE tree = Given
      BY <1>11, <3>1 DEF LoadFiles, WorkerInv, WorkerTypes, Underway, Lines
    <3>2. CASE ~(tree = Given)
      <4>1. /\ process' = [process EXCEPT ![c] = "exiting"] /\ protocol' = [protocol EXCEPT ![c] = Append(@, "refused")]
            /\ UNCHANGED <<callAt, answer, reports, registered, ran, sweep>>
        BY <1>11, <3>2 DEF LoadFiles
      <4>2. "refused" \in Lines
        BY DEF Lines
      <4> QED
        BY <4>1, <4>2 DEF WorkerInv, WorkerTypes, Underway
    <3> QED
      BY <3>1, <3>2
  <2>2. \A d \in Calls \ {c} : OtherCall(d)
    BY <1>11 DEF LoadFiles, WorkerInv, WorkerTypes, OtherCall
  <2>3. ProcessOf(c)'
    BY <1>11 DEF LoadFiles, WorkerInv, WorkerTypes, CallInv, ProcessOf, Underway
  <2>4. AnswerOf(c)'
    BY <1>11 DEF LoadFiles, WorkerInv, WorkerTypes, CallInv, AnswerOf, WorkOf, Underway
  <2>5. WorkOf(c)'
    <3>1. protocol[c] \in Seq(Lines) /\ WorkOf(c)
      BY DEF WorkerInv, WorkerTypes, CallInv
    <3>2. CASE tree = Given
      <4>1. process'[c] = "acting" /\ ran'[c] = Given /\ UNCHANGED protocol
        BY <1>11, <3>2 DEF LoadFiles, WorkerInv, WorkerTypes
      <4> QED
        BY <4>1 DEF WorkOf
    <3>3. CASE tree # Given
      <4>1. protocol'[c] = Append(protocol[c], "refused") /\ process'[c] = "exiting" /\ UNCHANGED ran
        BY <1>11, <3>3 DEF LoadFiles, WorkerInv, WorkerTypes
      <4> QED
        BY <3>1, <4>1, LineWritten DEF WorkOf, Lines
    <3> QED
      BY <3>2, <3>3
  <2> QED
    BY <2>1, <2>2, <2>3, <2>4, <2>5, CallMove DEF CallInv
<1>12. ASSUME NEW c \in Calls, Chatters(c) PROVE WorkerInv'
  <2>1. WorkerTypes'
    BY <1>12 DEF Chatters, WorkerInv, WorkerTypes, Underway, Lines
  <2>2. \A d \in Calls \ {c} : OtherCall(d)
    BY <1>12 DEF Chatters, WorkerInv, WorkerTypes, OtherCall
  <2>3. ProcessOf(c)'
    BY <1>12 DEF Chatters, WorkerInv, WorkerTypes, CallInv, ProcessOf, Underway
  <2>4. AnswerOf(c)'
    BY <1>12 DEF Chatters, WorkerInv, WorkerTypes, CallInv, AnswerOf, WorkOf, Underway
  <2>5. WorkOf(c)'
    <3>1. protocol'[c] = Append(protocol[c], "noise") /\ "noise" \in Lines
      BY <1>12 DEF Chatters, WorkerInv, WorkerTypes, Lines
    <3>2. UNCHANGED <<process, ran>>
      BY <1>12 DEF Chatters, WorkerInv, WorkerTypes, CallInv, WorkOf
    <3>3. protocol[c] \in Seq(Lines) /\ WorkOf(c)
      BY DEF WorkerInv, WorkerTypes, CallInv
    <3> QED
      BY <3>1, <3>2, <3>3, LineWritten DEF WorkOf
  <2> QED
    BY <2>1, <2>2, <2>3, <2>4, <2>5, CallMove DEF CallInv
<1>13. ASSUME NEW c \in Calls, NEW line \in {"ok", "error"}, Answers(c, line) PROVE WorkerInv'
  <2>1. WorkerTypes'
    BY <1>13 DEF Answers, WorkerInv, WorkerTypes, Underway, Lines
  <2>2. \A d \in Calls \ {c} : OtherCall(d)
    BY <1>13 DEF Answers, WorkerInv, WorkerTypes, OtherCall
  <2>3. ProcessOf(c)'
    BY <1>13 DEF Answers, WorkerInv, WorkerTypes, CallInv, ProcessOf, Underway
  <2>4. AnswerOf(c)'
    BY <1>13 DEF Answers, WorkerInv, WorkerTypes, CallInv, AnswerOf, WorkOf, Underway
  <2>5. WorkOf(c)'
    <3>1. protocol'[c] = Append(protocol[c], line) /\ line \in Lines
      BY <1>13 DEF Answers, WorkerInv, WorkerTypes, Lines
    <3>2. process'[c] = "exiting" /\ UNCHANGED ran /\ ran[c] = Given
      BY <1>13 DEF Answers, WorkerInv, WorkerTypes, CallInv, WorkOf
    <3>3. protocol[c] \in Seq(Lines) /\ WorkOf(c)
      BY DEF WorkerInv, WorkerTypes, CallInv
    <3> QED
      BY <3>1, <3>2, <3>3, LineWritten DEF WorkOf
  <2> QED
    BY <2>1, <2>2, <2>3, <2>4, <2>5, CallMove DEF CallInv
<1>14. ASSUME NEW c \in Calls, NEW doing \in {"gone", "mute"}, Vanishes(c, doing) PROVE WorkerInv'
  <2>1. WorkerTypes'
    BY <1>14 DEF Vanishes, WorkerInv, WorkerTypes, Underway, Lines
  <2>2. \A d \in Calls \ {c} : OtherCall(d)
    BY <1>14 DEF Vanishes, WorkerInv, WorkerTypes, OtherCall
  <2>3. ProcessOf(c)'
    BY <1>14 DEF Vanishes, WorkerInv, WorkerTypes, CallInv, ProcessOf, Underway
  <2>4. AnswerOf(c)'
    BY <1>14 DEF Vanishes, WorkerInv, WorkerTypes, CallInv, AnswerOf, WorkOf, Underway
  <2>5. WorkOf(c)'
    BY <1>14 DEF Vanishes, WorkerInv, WorkerTypes, CallInv, WorkOf
  <2> QED
    BY <2>1, <2>2, <2>3, <2>4, <2>5, CallMove DEF CallInv
<1>15. ASSUME NEW c \in Calls, StopNext(c) PROVE WorkerInv'
  <2>1. WorkerTypes'
    BY <1>15 DEF StopNext, WorkerInv, WorkerTypes, Underway, Lines
  <2>2. \A d \in Calls \ {c} : OtherCall(d)
    BY <1>15 DEF StopNext, WorkerInv, WorkerTypes, OtherCall
  <2>3. ProcessOf(c)'
    BY <1>15 DEF StopNext, WorkerInv, WorkerTypes, CallInv, ProcessOf, Underway
  <2>4. AnswerOf(c)'
    BY <1>15 DEF StopNext, WorkerInv, WorkerTypes, CallInv, AnswerOf, WorkOf, Underway
  <2>5. WorkOf(c)'
    BY <1>15 DEF StopNext, WorkerInv, WorkerTypes, CallInv, WorkOf
  <2> QED
    BY <2>1, <2>2, <2>3, <2>4, <2>5, CallMove DEF CallInv
<1>16. CASE CopyRegister
  <2>1. WorkerTypes'
    BY <1>16 DEF CopyRegister, WorkerInv, WorkerTypes
  <2>2. ASSUME NEW c \in Calls PROVE CallInv(c)'
    BY <1>16 DEF CopyRegister, WorkerInv, CallInv, ProcessOf, AnswerOf, WorkOf, Underway
  <2> QED
    BY <2>1, <2>2 DEF WorkerInv
<1>17. CASE ReplaceFiles \/ UNCHANGED workerVars
  BY <1>17 DEF ReplaceFiles, workerVars, WorkerInv, WorkerTypes, CallInv, ProcessOf, AnswerOf, WorkOf
<1> QED
  BY <1>1, <1>2, <1>3, <1>4, <1>5, <1>6, <1>7, <1>8, <1>9,
     <1>10, <1>11, <1>12, <1>13, <1>14, <1>15, <1>16, <1>17 DEF WorkerNext

(* Any number of calls, an engine that shuts down and files that are        *)
(* replaced under them: no call that is over leaves a process, each crash   *)
(* is reported once, and an answer comes from the files that were checked.  *)
THEOREM CallsSettle == WorkerSpec => []CallsSettled
<1>1. WorkerInv => CallsSettled
  BY DEF WorkerInv, WorkerTypes, CallInv, ProcessOf, AnswerOf, CallsSettled, Ended, Alive, Underway
<1> QED
  BY <1>1, WorkerInvInit, WorkerInvStep, PTL DEF WorkerSpec

-----------------------------------------------------------------------------
(* QuietFolders.  A look that is remembered shows nothing newer than its    *)
(* own moment; what a check has listed is either still so or has changed    *)
(* since the check began.                                                   *)
Partial == UNION {[S -> Nat] : S \in SUBSET FileIds}
Checks == [at : {"idle", "listing", "judging", "quiet"}, of : Watched \cup {""}, seen : Partial,
           began : Nat, since : Nat, waited : Int]
Sights == [of : Watched, seen : [FileIds -> Nat], at : Nat, taken : Nat, stamps : Nat]

QuietTypes ==
  /\ moment \in Nat /\ stamps \in Nat
  /\ contents \in [Watched -> [FileIds -> Nat]]
  /\ checker \in [Checkers -> Checks]
  /\ observed \in Seq(Sights)

SoundLook(e) == e.at = e.taken /\ \A i \in FileIds : e.seen[i] <= e.stamps
SoundLooks == \A n \in 1 .. Len(observed) : SoundLook(observed[n])
NothingNewer == \A d \in Watched, i \in FileIds : contents[d][i] <= stamps

CheckHolds(k) ==
  LET x == checker[k] IN
  /\ x.at # "idle" => x.of \in Watched /\ x.began <= stamps
  /\ x.at = "listing" =>
       \A i \in DOMAIN x.seen :
         /\ x.seen[i] <= stamps
         /\ x.seen[i] = contents[x.of][i] \/ contents[x.of][i] > x.began
  /\ x.at \in {"judging", "quiet"} =>
       /\ x.waited >= Quiet[k]
       /\ \A i \in FileIds : contents[x.of][i] <= x.since \/ contents[x.of][i] > x.began

QuietInv == QuietTypes /\ SoundLooks /\ NothingNewer /\ \A k \in Checkers : CheckHolds(k)

LEMMA PartialFacts ==
  /\ NothingSeen \in Partial
  /\ \A f \in Partial : DOMAIN f \subseteq FileIds /\ \A i \in DOMAIN f : f[i] \in Nat
  /\ \A f \in Partial : DOMAIN f = FileIds => f \in [FileIds -> Nat]
<1>1. NothingSeen \in [{} -> Nat]
  BY DEF NothingSeen
<1> QED
  BY <1>1 DEF Partial

LEMMA PartialGrows ==
  ASSUME NEW f \in Partial, NEW i \in FileIds, NEW v \in Nat
  PROVE  [j \in DOMAIN f \cup {i} |-> IF j = i THEN v ELSE f[j]] \in Partial
<1>1. DOMAIN f \cup {i} \in SUBSET FileIds
  BY PartialFacts
<1>2. [j \in DOMAIN f \cup {i} |-> IF j = i THEN v ELSE f[j]] \in [DOMAIN f \cup {i} -> Nat]
  BY PartialFacts
<1> QED
  BY <1>1, <1>2 DEF Partial

LEMMA AtEaseIsCheck == AtEase \in Checks /\ AtEase.at = "idle"
  BY PartialFacts DEF AtEase, Checks

(* The place of a folder's observation, 0 if there is none.                 *)
LEMMA EntryFacts ==
  ASSUME QuietTypes, NEW d
  PROVE  /\ EntryOf(d) \in 0 .. Len(observed)
         /\ EntryOf(d) # 0 => observed[EntryOf(d)].of = d
<1> DEFINE P(n) == IF n = 0 THEN \A m \in DOMAIN observed : observed[m].of # d ELSE observed[n].of = d
<1>1. DOMAIN observed = 1 .. Len(observed) /\ Len(observed) \in Nat
  BY DEF QuietTypes
<1>2. \E n \in 0 .. Len(observed) : P(n)
  <2>1. CASE \A m \in DOMAIN observed : observed[m].of # d
    BY <1>1, <2>1
  <2>2. CASE \E m \in DOMAIN observed : observed[m].of = d
    BY <1>1, <2>2
  <2> QED
    BY <2>1, <2>2
<1>3. EntryOf(d) = CHOOSE n \in 0 .. Len(observed) : P(n)
  BY DEF EntryOf
<1>4. EntryOf(d) \in 0 .. Len(observed) /\ P(EntryOf(d))
  <2> HIDE DEF P
  <2> QED
    BY <1>2, <1>3
<1> QED
  BY <1>4

(* Whatever place it takes, remembering a look adds that look and nothing else. *)
LEMMA KeepLookFacts ==
  ASSUME QuietTypes, SoundLooks, NEW e \in Sights, SoundLook(e)
  PROVE  /\ KeepLook(e) \in Seq(Sights)
         /\ \A n \in 1 .. Len(KeepLook(e)) : SoundLook(KeepLook(e)[n])
<1> DEFINE n0 == EntryOf(e.of)
           all == IF n0 = 0 THEN Append(observed, e) ELSE [observed EXCEPT ![n0] = e]
<1>1. observed \in Seq(Sights) /\ n0 \in 0 .. Len(observed)
  BY EntryFacts DEF QuietTypes
<1>2. all \in Seq(Sights) /\ \A n \in 1 .. Len(all) : SoundLook(all[n])
  <2>1. CASE n0 = 0
    <3>1. all = Append(observed, e)
      BY <2>1
    <3> HIDE DEF all, n0
    <3>2. /\ all \in Seq(Sights) /\ Len(all) = Len(observed) + 1 /\ all[Len(observed) + 1] = e
          /\ \A n \in 1 .. Len(observed) : all[n] = observed[n]
      BY <1>1, <3>1
    <3>3. ASSUME NEW n \in 1 .. Len(all) PROVE SoundLook(all[n])
      <4>1. all[n] = e \/ (n \in 1 .. Len(observed) /\ all[n] = observed[n])
        BY <1>1, <3>2
      <4> QED
        BY <4>1 DEF SoundLooks
    <3> QED
      BY <3>2, <3>3
  <2>2. CASE n0 # 0
    <3>1. all = [observed EXCEPT ![n0] = e] /\ n0 \in 1 .. Len(observed)
      BY <1>1, <2>2
    <3> HIDE DEF all, n0
    <3>2. /\ all \in Seq(Sights) /\ Len(all) = Len(observed)
          /\ \A n \in 1 .. Len(observed) : all[n] = IF n = n0 THEN e ELSE observed[n]
      BY <1>1, <3>1
    <3>3. ASSUME NEW n \in 1 .. Len(all) PROVE SoundLook(all[n])
      BY <3>2 DEF SoundLooks
    <3> QED
      BY <3>2, <3>3
  <2> QED
    BY <2>1, <2>2
<1>3. KeepLook(e) = IF Len(all) > MaxObservations THEN Tail(all) ELSE all
  BY DEF KeepLook
<1> HIDE DEF all
<1>4. Len(all) > MaxObservations => all # <<>>
  BY <1>2, QuietConstants
<1>5. ASSUME all # <<>>
      PROVE  Tail(all) \in Seq(Sights) /\ \A n \in 1 .. Len(Tail(all)) : SoundLook(Tail(all)[n])
  <2>1. /\ Tail(all) \in Seq(Sights) /\ Len(Tail(all)) = Len(all) - 1 /\ Len(all) \in Nat
        /\ \A n \in 1 .. Len(Tail(all)) : Tail(all)[n] = all[n + 1]
    BY <1>2, <1>5
  <2>2. ASSUME NEW n \in 1 .. Len(Tail(all)) PROVE SoundLook(Tail(all)[n])
    <3>1. n + 1 \in 1 .. Len(all) /\ Tail(all)[n] = all[n + 1]
      BY <2>1
    <3> QED
      BY <1>2, <3>1
  <2> QED
    BY <2>1, <2>2
<1> QED
  BY <1>2, <1>3, <1>4, <1>5

LEMMA QuietInvInit == QuietInit => QuietInv
<1> SUFFICES ASSUME QuietInit PROVE QuietInv
  OBVIOUS
<1>1. QuietTypes
  BY AtEaseIsCheck DEF QuietInit, QuietTypes
<1>2. SoundLooks /\ NothingNewer
  BY DEF QuietInit, SoundLooks, NothingNewer
<1>3. ASSUME NEW k \in Checkers PROVE CheckHolds(k)
  BY AtEaseIsCheck DEF QuietInit, CheckHolds
<1> QED
  BY <1>1, <1>2, <1>3 DEF QuietInv

(* A step of one rule's check.                                              *)
LEMMA CheckMoves ==
  ASSUME QuietInv, UNCHANGED <<moment, stamps, contents>>, NEW k \in Checkers, NEW x \in Checks,
         checker' = [checker EXCEPT ![k] = x], CheckHolds(k)',
         observed' \in Seq(Sights), SoundLooks'
  PROVE  QuietInv'
<1>1. QuietTypes' /\ NothingNewer'
  BY DEF QuietInv, QuietTypes, NothingNewer
<1>2. ASSUME NEW j \in Checkers, j # k PROVE CheckHolds(j)'
  <2>1. checker'[j] = checker[j] /\ CheckHolds(j)
    BY <1>2 DEF QuietInv, QuietTypes
  <2> QED
    BY <2>1 DEF CheckHolds
<1> QED
  BY <1>1, <1>2 DEF QuietInv

LEMMA CheckEnds ==
  ASSUME QuietInv, UNCHANGED <<moment, stamps, contents>>, NEW k \in Checkers,
         checker' = [checker EXCEPT ![k] = AtEase], observed' \in Seq(Sights), SoundLooks'
  PROVE  QuietInv'
<1>1. checker'[k] = AtEase
  BY DEF QuietInv, QuietTypes
<1>2. CheckHolds(k)'
  BY <1>1, AtEaseIsCheck DEF CheckHolds
<1> QED
  BY <1>2, AtEaseIsCheck, CheckMoves

LEMMA ListKeeps ==
  ASSUME QuietInv, NEW k \in Checkers, NEW i \in FileIds, ListFile(k, i) PROVE QuietInv'
<1> DEFINE c == checker[k]
           v == contents[c.of][i]
           now == [j \in DOMAIN c.seen \cup {i} |-> IF j = i THEN v ELSE c.seen[j]]
           x == [c EXCEPT !.seen = now]
<1>1. c \in Checks /\ CheckHolds(k) /\ c.at = "listing"
  BY DEF QuietInv, QuietTypes, ListFile
<1>2. c.of \in Watched /\ c.seen \in Partial /\ c.began \in Nat
  BY <1>1 DEF Checks, CheckHolds
<1>3. v \in Nat /\ v <= stamps
  BY <1>2 DEF QuietInv, QuietTypes, NothingNewer
<1>4. now \in Partial
  BY <1>2, <1>3, PartialGrows
<1>5. checker' = [checker EXCEPT ![k] = x]
  BY DEF ListFile
<1> HIDE DEF now
<1>6. /\ x \in Checks /\ x.seen = now /\ x.of = c.of /\ x.at = c.at /\ x.began = c.began
  BY <1>1, <1>4 DEF Checks
<1> HIDE DEF x
<1>7. checker'[k] = x /\ UNCHANGED <<stamps, contents>>
  BY <1>5 DEF QuietInv, QuietTypes, ListFile
<1>8. ASSUME NEW j \in DOMAIN now
      PROVE  now[j] <= stamps /\ (now[j] = contents[c.of][j] \/ contents[c.of][j] > c.began)
  <2>1. DOMAIN now = DOMAIN c.seen \cup {i} /\ now[j] = IF j = i THEN v ELSE c.seen[j]
    BY <1>8 DEF now
  <2> QED
    BY <1>1, <1>3, <1>8, <2>1 DEF CheckHolds
<1>9. CheckHolds(k)'
  <2> HIDE DEF c
  <2>1. c.began <= stamps
    BY <1>1 DEF CheckHolds, c
  <2> QED
    BY <1>1, <1>2, <1>6, <1>7, <1>8, <2>1 DEF CheckHolds
<1> QED
  BY <1>5, <1>6, <1>9, CheckMoves DEF ListFile, QuietInv, QuietTypes, SoundLooks

LEMMA ObserveKeeps ==
  ASSUME QuietInv, NEW k \in Checkers, Observe(k) PROVE QuietInv'
<1> DEFINE c == checker[k]
           n == EntryOf(c.of)
<1>1. c \in Checks /\ CheckHolds(k) /\ c.at = "listing" /\ DOMAIN c.seen = FileIds
  BY DEF QuietInv, QuietTypes, Observe
<1>2. c.of \in Watched /\ c.seen \in [FileIds -> Nat] /\ c.began \in Nat /\ c.began <= stamps
  BY <1>1, PartialFacts DEF Checks, CheckHolds
<1>3. \A i \in FileIds : /\ c.seen[i] <= stamps
                         /\ c.seen[i] = contents[c.of][i] \/ contents[c.of][i] > c.began
  BY <1>1 DEF CheckHolds
<1>4. /\ n \in 0 .. Len(observed) /\ n # 0 => observed[n].of = c.of
      /\ n # 0 => observed[n] \in Sights /\ SoundLook(observed[n])
  <2>1. n \in 0 .. Len(observed) /\ (n # 0 => observed[n].of = c.of)
    BY EntryFacts DEF QuietInv
  <2> HIDE DEF n
  <2>2. n # 0 => n \in 1 .. Len(observed)
    BY <2>1 DEF QuietInv, QuietTypes
  <2> QED
    BY <2>1, <2>2 DEF QuietInv, QuietTypes, SoundLooks
<1>5. UNCHANGED <<moment, stamps, contents>>
  BY DEF Observe
<1>6. CASE n = 0 \/ observed[n].seen # c.seen
  <2>1. observed' = KeepLook(Look(k)) /\ checker' = [checker EXCEPT ![k] = AtEase]
    BY <1>6 DEF Observe
  <2>2. Look(k) \in Sights /\ SoundLook(Look(k))
    BY <1>2, <1>3 DEF Look, Sights, SoundLook, QuietInv, QuietTypes
  <2>3. observed' \in Seq(Sights) /\ \A m \in 1 .. Len(observed') : SoundLook(observed'[m])
    BY <2>1, <2>2, KeepLookFacts DEF QuietInv
  <2>4. SoundLooks'
    BY <2>3 DEF SoundLooks, SoundLook
  <2> QED
    BY <1>5, <2>1, <2>3, <2>4, CheckEnds
<1>7. CASE ~(n = 0 \/ observed[n].seen # c.seen)
  <2>1. UNCHANGED observed
    BY <1>7 DEF Observe
  <2>2. observed' \in Seq(Sights) /\ SoundLooks'
    BY <2>1 DEF QuietInv, QuietTypes, SoundLooks, SoundLook
  <2>3. CASE moment - observed[n].at < Quiet[k]
    <3>1. checker' = [checker EXCEPT ![k] = AtEase]
      BY <1>7, <2>3 DEF Observe
    <3> QED
      BY <1>5, <2>2, <3>1, CheckEnds
  <2>4. CASE ~(moment - observed[n].at < Quiet[k])
    <3> DEFINE x == [c EXCEPT !.at = "judging", !.since = observed[n].stamps,
                              !.waited = moment - observed[n].taken]
    <3>1. checker' = [checker EXCEPT ![k] = x]
      BY <1>7, <2>4 DEF Observe
    <3>2. n # 0 /\ observed[n].seen = c.seen
      BY <1>7
    <3>3. /\ observed[n].stamps \in Nat /\ observed[n].taken \in Nat /\ observed[n].at = observed[n].taken
          /\ \A i \in FileIds : c.seen[i] <= observed[n].stamps
      BY <1>4, <3>2 DEF Sights, SoundLook
    <3>4. moment \in Nat /\ Quiet[k] \in Nat
      BY QuietConstants DEF QuietInv, QuietTypes
    <3> HIDE DEF n
    <3>0. moment - observed[n].taken \in Int
      BY <3>3, <3>4
    <3>a. x = [c EXCEPT !.at = "judging", !.since = observed[n].stamps,
                        !.waited = moment - observed[n].taken]
      OBVIOUS
    <3>b. PICK stampsThen \in Nat, waited \in Int :
            stampsThen = observed[n].stamps /\ waited = moment - observed[n].taken
      BY <3>0, <3>3
    <3>c. x = [c EXCEPT !.at = "judging", !.since = stampsThen, !.waited = waited]
      BY <3>a, <3>b
    <3> HIDE DEF x, c
    <3>d. /\ x \in Checks /\ x.at = "judging" /\ x.of = c.of /\ x.began = c.began
          /\ x.since = stampsThen /\ x.waited = waited
      BY <1>1, <3>c DEF Checks
    <3> USE DEF c
    <3>5. /\ x \in Checks /\ x.at = "judging" /\ x.of = c.of /\ x.began = c.began
          /\ x.since = observed[n].stamps /\ x.waited = moment - observed[n].taken
      BY <3>b, <3>d
    <3> HIDE DEF x
    <3>6. checker'[k] = x
      BY <3>1 DEF QuietInv, QuietTypes
    <3>7. x.waited >= Quiet[k]
      BY <2>4, <3>3, <3>4, <3>5
    <3>8. \A i \in FileIds : contents[x.of][i] <= x.since \/ contents[x.of][i] > x.began
      BY <1>3, <3>3, <3>5
    <3>9. CheckHolds(k)'
      BY <1>2, <1>5, <3>5, <3>6, <3>7, <3>8 DEF CheckHolds
    <3> QED
      BY <1>5, <2>2, <3>1, <3>5, <3>9, CheckMoves
  <2> QED
    BY <2>3, <2>4
<1> QED
  BY <1>6, <1>7

LEMMA QuietInvStep == QuietInv /\ [QuietNext]_quietVars => QuietInv'
<1> SUFFICES ASSUME QuietInv, [QuietNext]_quietVars PROVE QuietInv'
  OBVIOUS
<1>1. CASE TimePasses
  BY <1>1 DEF TimePasses, QuietInv, QuietTypes, SoundLooks, SoundLook, NothingNewer, CheckHolds
<1>2. ASSUME NEW d \in Watched, NEW i \in FileIds, ChangeFile(d, i) PROVE QuietInv'
  <2>1. /\ stamps' = stamps + 1 /\ contents' = [contents EXCEPT ![d][i] = stamps + 1]
        /\ UNCHANGED <<moment, observed, checker, listing>>
    BY <1>2 DEF ChangeFile
  <2>2. contents \in [Watched -> [FileIds -> Nat]] /\ stamps \in Nat
    BY DEF QuietInv, QuietTypes
  <2>3. /\ contents' \in [Watched -> [FileIds -> Nat]]
        /\ \A e \in Watched, j \in FileIds : contents'[e][j] = contents[e][j] \/ contents'[e][j] = stamps + 1
    BY <2>1, <2>2
  <2>4. QuietTypes' /\ SoundLooks' /\ NothingNewer'
    BY <2>1, <2>2, <2>3 DEF QuietInv, QuietTypes, SoundLooks, SoundLook, NothingNewer
  <2>5. ASSUME NEW k \in Checkers PROVE CheckHolds(k)'
    <3>1. /\ checker'[k] = checker[k] /\ checker[k] \in Checks /\ CheckHolds(k)
          /\ checker[k].began \in Nat /\ checker[k].seen \in Partial
      BY <2>1 DEF QuietInv, QuietTypes, Checks
    <3>2. \A j \in DOMAIN checker[k].seen : j \in FileIds /\ checker[k].seen[j] \in Nat
      BY <3>1, PartialFacts
    <3> QED
      BY <2>1, <2>2, <2>3, <3>1, <3>2 DEF CheckHolds
  <2> QED
    BY <2>4, <2>5 DEF QuietInv
<1>3. ASSUME NEW k \in Checkers, NEW d \in Watched, BeginListing(k, d) PROVE QuietInv'
  <2> DEFINE x == [AtEase EXCEPT !.at = "listing", !.of = d, !.began = stamps]
  <2>1. checker' = [checker EXCEPT ![k] = x] /\ UNCHANGED <<moment, stamps, contents, observed>>
    BY <1>3 DEF BeginListing
  <2>0. stamps \in Nat
    BY DEF QuietInv, QuietTypes
  <2>c. AtEase \in Checks /\ AtEase.seen = NothingSeen
    BY AtEaseIsCheck DEF AtEase
  <2>a. x = [AtEase EXCEPT !.at = "listing", !.of = d, !.began = stamps]
    OBVIOUS
  <2> HIDE DEF x
  <2>2. /\ x \in Checks /\ x.at = "listing" /\ x.of = d /\ x.began = stamps
        /\ x.seen = NothingSeen
    BY <2>0, <2>a, <2>c DEF Checks
  <2>b. DOMAIN NothingSeen = {}
    BY DEF NothingSeen
  <2>3. checker'[k] = x
    BY <2>1 DEF QuietInv, QuietTypes
  <2>4. CheckHolds(k)'
    BY <2>0, <2>1, <2>2, <2>3, <2>b DEF CheckHolds
  <2> QED
    BY <2>1, <2>2, <2>4, CheckMoves DEF QuietInv, QuietTypes, SoundLooks
<1>4. ASSUME NEW k \in Checkers, NEW i \in FileIds, ListFile(k, i) PROVE QuietInv'
  BY <1>4, ListKeeps
<1>5. ASSUME NEW k \in Checkers, NEW free \in BOOLEAN, Judge(k, free) PROVE QuietInv'
  <2>1. UNCHANGED <<moment, stamps, contents, observed>>
    BY <1>5 DEF Judge
  <2>2. observed' \in Seq(Sights) /\ SoundLooks'
    BY <2>1 DEF QuietInv, QuietTypes, SoundLooks
  <2>3. CASE ~free
    <3>1. checker' = [checker EXCEPT ![k] = AtEase]
      BY <1>5, <2>3 DEF Judge
    <3> QED
      BY <2>1, <2>2, <3>1, CheckEnds
  <2>4. CASE free
    <3> DEFINE c == checker[k]
               x == [c EXCEPT !.at = "quiet"]
    <3>1. checker' = [checker EXCEPT ![k] = x] /\ c.at = "judging"
      BY <1>5, <2>4 DEF Judge
    <3>2. c \in Checks /\ CheckHolds(k)
      BY DEF QuietInv, QuietTypes
    <3>3. /\ x \in Checks /\ x.at = "quiet" /\ x.of = c.of /\ x.began = c.began
          /\ x.since = c.since /\ x.waited = c.waited
      BY <3>2 DEF Checks
    <3> HIDE DEF x
    <3>4. checker'[k] = x
      BY <3>1 DEF QuietInv, QuietTypes
    <3>5. CheckHolds(k)'
      BY <2>1, <3>1, <3>2, <3>3, <3>4 DEF CheckHolds
    <3> QED
      BY <2>1, <2>2, <3>1, <3>3, <3>5, CheckMoves
  <2> QED
    BY <2>3, <2>4
<1>6. ASSUME NEW k \in Checkers, Observe(k) PROVE QuietInv'
  BY <1>6, ObserveKeeps
<1>7. ASSUME NEW k \in Checkers, Acknowledge(k) PROVE QuietInv'
  BY <1>7, CheckEnds DEF Acknowledge, QuietInv, QuietTypes, SoundLooks
<1>8. CASE UNCHANGED quietVars
  BY <1>8 DEF quietVars, QuietInv, QuietTypes, SoundLooks, SoundLook, NothingNewer, CheckHolds
<1> QED
  BY <1>1, <1>2, <1>3, <1>4, <1>5, <1>6, <1>7, <1>8 DEF QuietNext

(* However many rules look at however many folders while the files change:  *)
(* a folder reported as quiet did not change from an observation that is    *)
(* old enough until this check began.                                       *)
THEOREM QuietIsQuiet == QuietSpec => []QuietMeansUnchanged
<1>1. QuietInv => QuietMeansUnchanged
  BY DEF QuietInv, CheckHolds, QuietMeansUnchanged
<1> QED
  BY <1>1, QuietInvInit, QuietInvStep, PTL DEF QuietSpec

-----------------------------------------------------------------------------
(* An isolated call and every built-in action that blocks end as they       *)
(* report, and leave nothing behind: no process of a call, no partial file, *)
(* no command or reader of its output, no folder called quiet that changed; *)
(* for any number of calls, pieces, files and rules.                        *)
THEOREM ActionsEnd ==
  WorkerSpec /\ TransferSpec /\ CommandSpec /\ QuietSpec => []ActionsSettle
<1>1. CallsSettled /\ TransfersSettle /\ CommandsSettle /\ QuietMeansUnchanged => ActionsSettle
  BY DEF ActionsSettle
<1> QED
  BY <1>1, CallsSettle, TransfersEnd, CommandsEnd, QuietIsQuiet, PTL

-----------------------------------------------------------------------------
(* DraftStream.  While a generator waits its stream is not cancelled, so    *)
(* that what ended its worker is in its queue, an answer before the end;    *)
(* hence a generator that leaves a client behind has told it, or finds      *)
(* something in its queue.                                                  *)
Outcomes == {"result", "error"}
LastItems == {"failure", "finish"}
Replies == {"answer", "bad_answer"}
StreamTypes ==
  /\ reader \in [Clients -> {"new", "waiting", "checking", "leaving", "cancelling", "joining", "over"}]
  /\ worker \in [Clients -> {"none", "connecting", "reading", "answering", "closing", "marking", "exited"}]
  /\ sent \in [Clients -> Seq(Outcomes \cup {"done"})]
  /\ items \in [Clients -> Seq({"delta"} \cup Replies \cup LastItems)]
  /\ freeSlots \in Nat

Reading == {c \in Clients : worker[c] \notin {"none", "marking", "exited"}}
SlotsCounted == IsFiniteSet(Reading) /\ freeSlots = StreamSlots - Cardinality(Reading)

Sent(c, what, k) == k \in 1 .. Len(sent[c]) /\ sent[c][k] \in what
Item(c, what, k) == k \in 1 .. Len(items[c]) /\ items[c][k] \in what

SaysOnce(c) ==
  /\ reader[c] # "over" => Len(sent[c]) <= 1 /\ (\A k \in 1 .. Len(sent[c]) : sent[c][k] \in Outcomes)
  /\ \A k : Sent(c, {"done"}, k) => k = Len(sent[c])
  /\ \A j, k : Sent(c, Outcomes, j) /\ Sent(c, Outcomes, k) => j = k
  /\ reader[c] = "over" /\ c \notin left => Sent(c, {"done"}, Len(sent[c]))

Unstarted(c) ==
  /\ reader[c] = "new" => worker[c] = "none" /\ sent[c] = <<>>
  /\ reader[c] \in {"new", "waiting", "checking"} => c \notin cancelled
  /\ worker[c] = "none" => items[c] = <<>> /\ reader[c] \in {"new", "over"}

HasAnswer(c) == (\E k : Sent(c, Outcomes, k)) \/ (\E k : Item(c, Replies, k))
Queued(c) ==
  reader[c] \in {"waiting", "checking"} =>
    /\ worker[c] \in {"closing", "marking"} /\ c \notin failed => HasAnswer(c)
    /\ worker[c] = "exited" => \E k : Item(c, LastItems, k)
    /\ \A k : Item(c, LastItems, k) => k = Len(items[c]) /\ worker[c] = "exited"
    /\ \A k : Item(c, {"finish"}, k) =>
         (\E j : Sent(c, Outcomes, j)) \/ (\E j : j < k /\ Item(c, Replies, j))

NotForgotten(c) ==
  reader[c] \in {"leaving", "cancelling", "joining", "over"} /\ c \notin left =>
    (\E k : Sent(c, Outcomes, k)) \/ items[c] # <<>>

ClientInv(c) == SaysOnce(c) /\ Unstarted(c) /\ Queued(c) /\ NotForgotten(c)
StreamInv == StreamTypes /\ SlotsCounted /\ \A c \in Clients : ClientInv(c)

LEMMA StreamInvInit == StreamInit => StreamInv
<1> SUFFICES ASSUME StreamInit PROVE StreamInv
  OBVIOUS
<1>1. StreamTypes
  BY StreamConstants DEF StreamInit, StreamTypes
<1>2. Reading = {}
  BY DEF StreamInit, Reading
<1>3. SlotsCounted
  BY <1>2, FS_EmptySet, StreamConstants DEF StreamInit, SlotsCounted
<1>4. ASSUME NEW c \in Clients PROVE ClientInv(c)
  BY DEF StreamInit, ClientInv, SaysOnce, Unstarted, Queued, NotForgotten, Sent, Item
<1> QED
  BY <1>1, <1>3, <1>4 DEF StreamInv

(* A step for one client leaves the others alone.                           *)
SameFor(d) ==
  /\ reader'[d] = reader[d] /\ sent'[d] = sent[d] /\ items'[d] = items[d] /\ worker'[d] = worker[d]
  /\ d \in left' <=> d \in left
  /\ d \in cancelled' <=> d \in cancelled
  /\ d \in failed' <=> d \in failed

LEMMA ClientMove ==
  ASSUME StreamInv, StreamTypes', SlotsCounted', NEW c \in Clients, ClientInv(c)',
         \A d \in Clients \ {c} : SameFor(d)
  PROVE  StreamInv'
<1>1. ASSUME NEW d \in Clients, d # c PROVE ClientInv(d)'
  <2>1. SameFor(d) /\ ClientInv(d)
    BY <1>1 DEF StreamInv
  <2>2. SaysOnce(d)' /\ Unstarted(d)' /\ NotForgotten(d)'
    BY <2>1 DEF SameFor, ClientInv, SaysOnce, Unstarted, NotForgotten, Sent, Item
  <2>3. Queued(d)'
    BY <2>1 DEF SameFor, ClientInv, Queued, HasAnswer, Sent, Item
  <2> QED
    BY <2>2, <2>3 DEF ClientInv
<1> QED
  BY <1>1 DEF StreamInv

LEMMA SlotsStay ==
  ASSUME StreamInv, UNCHANGED freeSlots, Reading' = Reading
  PROVE  SlotsCounted'
  BY DEF StreamInv, SlotsCounted

LEMMA QueueRead ==
  ASSUME NEW S, NEW s \in Seq(S), s # <<>>
  PROVE  /\ Tail(s) \in Seq(S) /\ Len(Tail(s)) = Len(s) - 1 /\ Len(s) \in Nat
         /\ Head(s) = s[1] /\ 1 \in 1 .. Len(s) /\ Head(s) \in S
         /\ \A k \in 1 .. Len(Tail(s)) : Tail(s)[k] = s[k + 1]
  OBVIOUS

LEMMA QueueGrows ==
  ASSUME NEW S, NEW s \in Seq(S), NEW e \in S
  PROVE  /\ Append(s, e) \in Seq(S) /\ Len(Append(s, e)) = Len(s) + 1 /\ Len(s) \in Nat
         /\ Append(s, e)[Len(s) + 1] = e
         /\ \A k \in 1 .. Len(s) : Append(s, e)[k] = s[k]
  OBVIOUS

LEMMA Says ==
  ASSUME StreamTypes, NEW c \in Clients, NEW what \in Seq(Outcomes \cup {"done"}),
         sent' = [sent EXCEPT ![c] = @ \o what]
  PROVE  sent' \in [Clients -> Seq(Outcomes \cup {"done"})] /\ sent'[c] = sent[c] \o what
<1>1. sent \in [Clients -> Seq(Outcomes \cup {"done"})]
  BY DEF StreamTypes
<1>2. sent[c] \o what \in Seq(Outcomes \cup {"done"})
  BY <1>1
<1> QED
  BY <1>1, <1>2

LEMMA StreamInvStep == StreamInv /\ [StreamNext]_streamVars => StreamInv'
<1> SUFFICES ASSUME StreamInv, [StreamNext]_streamVars PROVE StreamInv'
  OBVIOUS
<1> USE DEF KeepWorkers, KeepReaders, Reads, Does, WorkerFails
<1>0. CASE UNCHANGED streamVars
  BY <1>0 DEF streamVars, StreamInv, StreamTypes, SlotsCounted, Reading, ClientInv, SaysOnce,
              Unstarted, Queued, NotForgotten, HasAnswer, Sent, Item
<1>1. ASSUME NEW c \in Clients, StartStream(c) PROVE StreamInv'
  <2>1. StreamTypes'
    <3>0. StreamTypes /\ <<"error", "done">> \in Seq(Outcomes \cup {"done"})
      BY DEF StreamInv, Outcomes
    <3>1. CASE freeSlots = 0
      <4>1. /\ reader' = [reader EXCEPT ![c] = "over"] /\ sent' = [sent EXCEPT ![c] = @ \o <<"error", "done">>]
            /\ UNCHANGED <<worker, freeSlots, items>>
        BY <1>1, <3>1 DEF StartStream, SendsTo
      <4>2. sent' \in [Clients -> Seq(Outcomes \cup {"done"})]
        BY <3>0, <4>1, Says
      <4> QED
        BY <3>0, <4>1, <4>2 DEF StreamTypes
    <3>2. CASE freeSlots # 0
      <4>1. /\ reader' = [reader EXCEPT ![c] = "waiting"] /\ UNCHANGED <<sent, items>>
            /\ worker' = [worker EXCEPT ![c] = "connecting"] /\ freeSlots' = freeSlots - 1
        BY <1>1, <3>2 DEF StartStream
      <4> QED
        BY <3>0, <3>2, <4>1 DEF StreamTypes
    <3> QED
      BY <3>1, <3>2
  <2>2. \A d \in Clients \ {c} : SameFor(d)
    BY <1>1 DEF StartStream, SendsTo, Replies, LastItems, Outcomes, StreamInv, StreamTypes, SameFor
  <2>3. SlotsCounted'
    <3>1. CASE freeSlots = 0
      <4>1. Reading' = Reading /\ UNCHANGED freeSlots
        BY <1>1, <3>1 DEF StartStream, Reading, StreamInv, StreamTypes
      <4> QED
        BY <4>1, SlotsStay
    <3>2. CASE freeSlots # 0
      <4>1. worker[c] = "none" /\ worker' = [worker EXCEPT ![c] = "connecting"] /\ freeSlots' = freeSlots - 1
        BY <1>1, <3>2 DEF StartStream, StreamInv, ClientInv, Unstarted
      <4>2. Reading' = Reading \cup {c} /\ c \notin Reading
        BY <4>1 DEF Reading, StreamInv, StreamTypes
      <4>3. IsFiniteSet(Reading') /\ Cardinality(Reading') = Cardinality(Reading) + 1
        BY <4>2, FS_AddElement DEF StreamInv, SlotsCounted
      <4>4. freeSlots = StreamSlots - Cardinality(Reading) /\ Cardinality(Reading) \in Nat
        BY FS_CardinalityType DEF StreamInv, SlotsCounted
      <4> QED
        BY <4>1, <4>3, <4>4, StreamConstants DEF SlotsCounted
    <3> QED
      BY <3>1, <3>2
  <2>4. ClientInv(c)'
    <3>0. /\ reader[c] = "new" /\ worker[c] = "none" /\ sent[c] = <<>> /\ items[c] = <<>> /\ c \notin cancelled
          /\ UNCHANGED <<left, items, cancelled, failed>>
      BY <1>1 DEF StartStream, StreamInv, ClientInv, Unstarted
    <3>1. CASE freeSlots = 0
      <4>1. reader'[c] = "over" /\ sent'[c] = sent[c] \o <<"error", "done">> /\ worker' = worker
        BY <1>1, <3>1 DEF StartStream, SendsTo, StreamInv, StreamTypes
      <4>2. Len(sent'[c]) = 2 /\ sent'[c][1] = "error" /\ sent'[c][2] = "done"
        BY <3>0, <4>1
      <4>0. reader'[c] = "over"
        BY <4>1
      <4>5. \A k \in 1 .. Len(sent'[c]) : k = 1 \/ k = 2
        BY <4>2
      <4>6. \A k : Sent(c, {"done"}, k)' => k = 2
        BY <4>2, <4>5 DEF Sent
      <4>7. \A k : Sent(c, Outcomes, k)' => k = 1
        BY <4>2, <4>5 DEF Sent, Outcomes
      <4>8. Sent(c, {"done"}, 2)' /\ Len(sent'[c]) = 2
        BY <4>2 DEF Sent
      <4>3. SaysOnce(c)'
        BY <4>0, <4>6, <4>7, <4>8 DEF SaysOnce
      <4>4. Sent(c, Outcomes, 1)'
        BY <4>2 DEF Sent, Outcomes
      <4> QED
        BY <3>0, <4>1, <4>3, <4>4 DEF ClientInv, Unstarted, Queued, NotForgotten
    <3>2. CASE freeSlots # 0
      <4>1. reader'[c] = "waiting" /\ sent' = sent /\ worker'[c] = "connecting"
        BY <1>1, <3>2 DEF StartStream, StreamInv, StreamTypes
      <4> QED
        BY <3>0, <4>1 DEF ClientInv, SaysOnce, Unstarted, Queued, NotForgotten, Sent, Item
    <3> QED
      BY <3>1, <3>2
  <2> QED
    BY <2>1, <2>2, <2>3, <2>4, ClientMove
<1>2. ASSUME NEW c \in Clients, NoticeDisconnect(c) PROVE StreamInv'
  <2>1. StreamTypes'
    BY <1>2 DEF NoticeDisconnect, SendsTo, Replies, LastItems, Outcomes, StreamInv, StreamTypes
  <2>2. \A d \in Clients \ {c} : SameFor(d)
    BY <1>2 DEF NoticeDisconnect, SendsTo, Replies, LastItems, Outcomes, StreamInv, StreamTypes, SameFor
  <2>3. SlotsCounted'
    <3>1. Reading' = Reading /\ UNCHANGED freeSlots
      BY <1>2 DEF NoticeDisconnect, Reading, StreamInv, StreamTypes
    <3> QED
      BY <3>1, SlotsStay
  <2>4. ClientInv(c)'
    <3>1. /\ reader[c] = "waiting" /\ c \in left /\ reader'[c] = "leaving"
          /\ UNCHANGED <<left, sent, items, cancelled, worker, failed>>
      BY <1>2 DEF NoticeDisconnect, StreamInv, StreamTypes
    <3>2. SaysOnce(c) /\ Unstarted(c) /\ Queued(c) /\ NotForgotten(c)
      BY DEF StreamInv, ClientInv
    <3>3. SaysOnce(c)'
      BY <3>1, <3>2 DEF SaysOnce, Unstarted, Sent
    <3>4. Unstarted(c)'
      BY <3>1, <3>2 DEF Unstarted, Sent, Item
    <3>5. Queued(c)'
      BY <3>1, <3>2 DEF Unstarted, Queued, HasAnswer, Sent, Item, Replies, LastItems, Outcomes
    <3>6. NotForgotten(c)'
      BY <3>1, <3>2 DEF SaysOnce, Unstarted, Queued, NotForgotten, Sent, Item, Outcomes, LastItems
    <3> QED
      BY <3>3, <3>4, <3>5, <3>6 DEF ClientInv
  <2> QED
    BY <2>1, <2>2, <2>3, <2>4, ClientMove
<1>3. ASSUME NEW c \in Clients, TakeItem(c) PROVE StreamInv'
  <2>1. StreamTypes'
    <3>0. StreamTypes /\ <<>> \in Seq(Outcomes \cup {"done"}) /\ <<"result">> \in Seq(Outcomes \cup {"done"})
          /\ <<"error">> \in Seq(Outcomes \cup {"done"})
      BY DEF StreamInv, Outcomes
    <3>1. PICK what \in Seq(Outcomes \cup {"done"}) : sent' = [sent EXCEPT ![c] = @ \o what]
      <4> DEFINE item == Head(items[c])
      <4>1. CASE item = "answer" /\ ~Finalized(c)
        BY <1>3, <3>0, <4>1 DEF TakeItem, SendsTo
      <4>2. CASE item \in {"failure", "bad_answer"} /\ ~Finalized(c)
        BY <1>3, <3>0, <4>2 DEF TakeItem, SendsTo
      <4>3. CASE item \notin {"answer", "failure", "bad_answer"} \/ Finalized(c)
        BY <1>3, <3>0, <4>3 DEF TakeItem, SendsTo
      <4> QED
        BY <4>1, <4>2, <4>3
    <3>2. sent' \in [Clients -> Seq(Outcomes \cup {"done"})]
      BY <3>0, <3>1, Says
    <3>3. PICK doing \in {"leaving", "waiting"} : reader' = [reader EXCEPT ![c] = doing]
      BY <1>3 DEF TakeItem
    <3>4. items' = [items EXCEPT ![c] = Tail(@)] /\ items[c] # <<>> /\ UNCHANGED <<worker, freeSlots>>
      BY <1>3 DEF TakeItem
    <3>5. Tail(items[c]) \in Seq({"delta"} \cup Replies \cup LastItems)
      BY <3>0, <3>4, QueueRead DEF StreamTypes
    <3> QED
      BY <3>0, <3>2, <3>3, <3>4, <3>5 DEF StreamTypes
  <2>2. \A d \in Clients \ {c} : SameFor(d)
    BY <1>3 DEF TakeItem, SendsTo, Replies, LastItems, Outcomes, StreamInv, StreamTypes, SameFor
  <2>3. SlotsCounted'
    <3>1. Reading' = Reading /\ UNCHANGED freeSlots
      BY <1>3 DEF TakeItem, Reading, StreamInv, StreamTypes
    <3> QED
      BY <3>1, SlotsStay
  <2>4. ClientInv(c)'
    <3> DEFINE item == Head(items[c])
    <3>1. /\ reader[c] = "waiting" /\ items[c] # <<>> /\ items'[c] = Tail(items[c])
          /\ reader'[c] = IF item \in LastItems THEN "leaving" ELSE "waiting"
          /\ UNCHANGED <<left, cancelled, worker, failed>>
      BY <1>3 DEF TakeItem, LastItems, StreamInv, StreamTypes
    <3>2. sent[c] \in Seq(Outcomes \cup {"done"}) /\ items[c] \in Seq({"delta"} \cup Replies \cup LastItems)
      BY DEF StreamInv, StreamTypes
    <3>3. SaysOnce(c) /\ Unstarted(c) /\ Queued(c)
      BY DEF StreamInv, ClientInv
    <3>4. /\ Len(items'[c]) = Len(items[c]) - 1 /\ item = items[c][1] /\ 1 \in 1 .. Len(items[c])
          /\ Len(items[c]) \in Nat /\ item \in {"delta"} \cup Replies \cup LastItems
          /\ \A k \in 1 .. Len(items'[c]) : items'[c][k] = items[c][k + 1]
      BY <3>1, <3>2, QueueRead
    <3>5. Finalized(c) <=> \E k : Sent(c, Outcomes, k)
      BY DEF Finalized, Sent, Outcomes
    <3>6. Len(sent[c]) <= 1 /\ \A k \in 1 .. Len(sent[c]) : sent[c][k] \in Outcomes
      BY <3>1, <3>3 DEF SaysOnce
    <3>7. /\ (sent'[c] = sent[c] \/ (sent[c] = <<>> /\ Len(sent'[c]) = 1 /\ sent'[c][1] \in Outcomes))
          /\ item \in Replies \cup {"failure"} => \E k : k \in 1 .. Len(sent'[c]) /\ sent'[c][k] \in Outcomes
      <4>1. CASE Finalized(c)
        <5>1. sent' = [sent EXCEPT ![c] = @ \o <<>>]
          BY <1>3, <4>1 DEF TakeItem, SendsTo
        <5>2. sent'[c] = sent[c]
          BY <3>2, <5>1 DEF StreamInv, StreamTypes
        <5> QED
          BY <3>5, <4>1, <5>2 DEF Sent
      <4>2. CASE ~Finalized(c)
        <5>1. sent[c] = <<>>
          BY <3>2, <3>5, <3>6, <4>2 DEF Sent
        <5>2. CASE item = "answer"
          <6>1. sent' = [sent EXCEPT ![c] = @ \o <<"result">>]
            BY <1>3, <4>2, <5>2 DEF TakeItem, SendsTo
          <6>2. sent'[c] = sent[c] \o <<"result">>
            BY <6>1 DEF StreamInv, StreamTypes
          <6>3. Len(sent'[c]) = 1 /\ sent'[c][1] = "result"
            BY <5>1, <6>2
          <6> QED
            BY <5>1, <6>3 DEF Outcomes
        <5>3. CASE item \in {"failure", "bad_answer"}
          <6>1. sent' = [sent EXCEPT ![c] = @ \o <<"error">>]
            BY <1>3, <4>2, <5>3 DEF TakeItem, SendsTo
          <6>2. sent'[c] = sent[c] \o <<"error">>
            BY <6>1 DEF StreamInv, StreamTypes
          <6>3. Len(sent'[c]) = 1 /\ sent'[c][1] = "error"
            BY <5>1, <6>2
          <6> QED
            BY <5>1, <6>3 DEF Outcomes
        <5>4. CASE item \in {"delta", "finish"}
          <6>1. sent' = [sent EXCEPT ![c] = @ \o <<>>]
            BY <1>3, <4>2, <5>4 DEF TakeItem, SendsTo
          <6>2. sent'[c] = sent[c]
            BY <3>2, <6>1 DEF StreamInv, StreamTypes
          <6> QED
            BY <5>4, <6>2 DEF Replies
        <5> QED
          BY <3>4, <5>2, <5>3, <5>4 DEF Replies, LastItems
      <4> QED
        BY <4>1, <4>2
    <3>8. Len(sent'[c]) <= 1 /\ \A k \in 1 .. Len(sent'[c]) : sent'[c][k] \in Outcomes
      <4>1. CASE sent'[c] = sent[c]
        BY <3>6, <4>1
      <4>2. CASE Len(sent'[c]) = 1 /\ sent'[c][1] \in Outcomes
        <5>1. \A k \in 1 .. Len(sent'[c]) : k = 1
          BY <4>2
        <5> QED
          BY <4>2, <5>1
      <4> QED
        BY <3>7, <4>1, <4>2
    <3>a. sent'[c] \in Seq(Outcomes \cup {"done"})
      BY <2>1 DEF StreamTypes
    <3> HIDE DEF item
    <3>9. SaysOnce(c)'
      <4>1. reader'[c] # "over" /\ \A k : ~Sent(c, {"done"}, k)'
        BY <3>1, <3>8 DEF Sent, Outcomes
      <4> QED
        BY <3>8, <3>a, <4>1 DEF SaysOnce, Sent
    <3>10. Unstarted(c)'
      BY <3>1, <3>3 DEF Unstarted
    <3>11. (\E j : Sent(c, Outcomes, j)) => \E j : j \in 1 .. Len(sent'[c]) /\ sent'[c][j] \in Outcomes
      BY <3>7 DEF Sent
    <3>12. Queued(c)'
      <4>0. SUFFICES ASSUME reader'[c] \in {"waiting", "checking"} PROVE Queued(c)'
        BY DEF Queued
      <4>1. item \notin LastItems
        BY <3>1, <4>0
      <4>2. worker'[c] \in {"closing", "marking"} /\ c \notin failed' => HasAnswer(c)'
        <5>1. SUFFICES ASSUME HasAnswer(c) PROVE HasAnswer(c)'
          BY <3>1, <3>3 DEF Queued
        <5>2. CASE \E j : Sent(c, Outcomes, j)
          BY <3>11, <5>2 DEF HasAnswer, Sent
        <5>3. ASSUME NEW k, Item(c, Replies, k) PROVE HasAnswer(c)'
          <6>1. CASE k = 1
            BY <3>4, <3>7, <5>3, <6>1 DEF HasAnswer, Item, Sent
          <6>2. CASE k # 1
            <7>1. k - 1 \in 1 .. Len(items'[c]) /\ items'[c][k - 1] = items[c][k]
              BY <3>4, <5>3, <6>2 DEF Item
            <7> QED
              BY <5>3, <7>1 DEF HasAnswer, Item
          <6> QED
            BY <6>1, <6>2
        <5> QED
          BY <5>1, <5>2, <5>3 DEF HasAnswer
      <4>3. worker'[c] = "exited" => \E k : Item(c, LastItems, k)'
        <5>1. SUFFICES ASSUME NEW k, Item(c, LastItems, k) PROVE \E i : Item(c, LastItems, i)'
          BY <3>1, <3>3 DEF Queued
        <5>2. k # 1
          BY <3>4, <4>1, <5>1 DEF Item
        <5>3. k - 1 \in 1 .. Len(items'[c]) /\ items'[c][k - 1] = items[c][k]
          BY <3>4, <5>1, <5>2 DEF Item
        <5> QED
          BY <5>1, <5>3 DEF Item
      <4>4. ASSUME NEW k, Item(c, LastItems, k)' PROVE k = Len(items'[c]) /\ worker'[c] = "exited"
        <5>1. Item(c, LastItems, k + 1) /\ k \in Nat
          BY <3>4, <4>4 DEF Item
        <5>2. k + 1 = Len(items[c]) /\ worker[c] = "exited"
          BY <3>1, <3>3, <5>1 DEF Queued
        <5> QED
          BY <3>1, <3>4, <5>1, <5>2
      <4>5. ASSUME NEW k, Item(c, {"finish"}, k)'
            PROVE  (\E j : Sent(c, Outcomes, j)') \/ (\E j : j < k /\ Item(c, Replies, j)')
        <5>1. Item(c, {"finish"}, k + 1) /\ k \in Nat
          BY <3>4, <4>5 DEF Item
        <5>2. CASE \E j : Sent(c, Outcomes, j)
          BY <3>11, <5>2 DEF Sent
        <5>3. ASSUME NEW j, j < k + 1, Item(c, Replies, j)
              PROVE  (\E i : Sent(c, Outcomes, i)') \/ (\E i : i < k /\ Item(c, Replies, i)')
          <6>1. CASE j = 1
            BY <3>4, <3>7, <5>3, <6>1 DEF Item, Sent
          <6>2. CASE j # 1
            <7>1. j - 1 \in 1 .. Len(items'[c]) /\ items'[c][j - 1] = items[c][j] /\ j - 1 < k
              BY <3>4, <5>1, <5>3, <6>2 DEF Item
            <7> QED
              BY <5>3, <7>1 DEF Item
          <6> QED
            BY <6>1, <6>2
        <5> QED
          BY <3>1, <3>3, <5>1, <5>2, <5>3 DEF Queued
      <4> QED
        BY <4>2, <4>3, <4>4, <4>5 DEF Queued
    <3>13. NotForgotten(c)'
      <4>1. SUFFICES ASSUME item \in LastItems PROVE \E k : Sent(c, Outcomes, k)'
        BY <3>1 DEF NotForgotten
      <4>2. CASE item = "failure"
        BY <3>7, <4>2 DEF Sent
      <4>3. CASE item = "finish"
        <5>1. Item(c, {"finish"}, 1)
          BY <3>4, <4>3 DEF Item
        <5>2. \E j : Sent(c, Outcomes, j)
          BY <3>1, <3>3, <5>1 DEF Queued, Item
        <5> QED
          BY <3>11, <5>2 DEF Sent
      <4> QED
        BY <4>1, <4>2, <4>3 DEF LastItems
    <3> QED
      BY <3>9, <3>10, <3>12, <3>13 DEF ClientInv
  <2> QED
    BY <2>1, <2>2, <2>3, <2>4, ClientMove
<1>4. ASSUME NEW c \in Clients, TimeOut(c) PROVE StreamInv'
  <2>1. StreamTypes'
    BY <1>4 DEF TimeOut, SendsTo, Replies, LastItems, Outcomes, StreamInv, StreamTypes
  <2>2. \A d \in Clients \ {c} : SameFor(d)
    BY <1>4 DEF TimeOut, SendsTo, Replies, LastItems, Outcomes, StreamInv, StreamTypes, SameFor
  <2>3. SlotsCounted'
    <3>1. Reading' = Reading /\ UNCHANGED freeSlots
      BY <1>4 DEF TimeOut, Reading, StreamInv, StreamTypes
    <3> QED
      BY <3>1, SlotsStay
  <2>4. ClientInv(c)'
    <3>1. /\ reader[c] = "waiting" /\ reader'[c] = "checking"
          /\ UNCHANGED <<left, sent, items, cancelled, worker, failed>>
      BY <1>4 DEF TimeOut, StreamInv, StreamTypes
    <3>2. SaysOnce(c) /\ Unstarted(c) /\ Queued(c) /\ NotForgotten(c)
      BY DEF StreamInv, ClientInv
    <3>3. SaysOnce(c)'
      BY <3>1, <3>2 DEF SaysOnce, Unstarted, Sent
    <3>4. Unstarted(c)'
      BY <3>1, <3>2 DEF Unstarted, Sent, Item
    <3>5. Queued(c)'
      BY <3>1, <3>2 DEF Unstarted, Queued, HasAnswer, Sent, Item, Replies, LastItems, Outcomes
    <3>6. NotForgotten(c)'
      BY <3>1, <3>2 DEF SaysOnce, Unstarted, Queued, NotForgotten, Sent, Item, Outcomes, LastItems
    <3> QED
      BY <3>3, <3>4, <3>5, <3>6 DEF ClientInv
  <2> QED
    BY <2>1, <2>2, <2>3, <2>4, ClientMove
<1>5. ASSUME NEW c \in Clients, CheckWorker(c) PROVE StreamInv'
  <2>1. StreamTypes'
    BY <1>5 DEF CheckWorker, SendsTo, Replies, LastItems, Outcomes, StreamInv, StreamTypes
  <2>2. \A d \in Clients \ {c} : SameFor(d)
    BY <1>5 DEF CheckWorker, SendsTo, Replies, LastItems, Outcomes, StreamInv, StreamTypes, SameFor
  <2>3. SlotsCounted'
    <3>1. Reading' = Reading /\ UNCHANGED freeSlots
      BY <1>5 DEF CheckWorker, Reading, StreamInv, StreamTypes
    <3> QED
      BY <3>1, SlotsStay
  <2>4. ClientInv(c)'
    <3>1. /\ reader[c] = "checking" /\ reader'[c] = IF worker[c] = "exited" THEN "leaving" ELSE "waiting"
          /\ UNCHANGED <<left, sent, items, cancelled, worker, failed>>
      BY <1>5 DEF CheckWorker, StreamInv, StreamTypes
    <3>2. SaysOnce(c) /\ Unstarted(c) /\ Queued(c) /\ NotForgotten(c)
      BY DEF StreamInv, ClientInv
    <3>3. SaysOnce(c)'
      BY <3>1, <3>2 DEF SaysOnce, Unstarted, Sent
    <3>4. Unstarted(c)'
      BY <3>1, <3>2 DEF Unstarted, Sent, Item
    <3>5. Queued(c)'
      BY <3>1, <3>2 DEF Unstarted, Queued, HasAnswer, Sent, Item, Replies, LastItems, Outcomes
    <3>6. NotForgotten(c)'
      BY <3>1, <3>2 DEF SaysOnce, Unstarted, Queued, NotForgotten, Sent, Item, Outcomes, LastItems
    <3> QED
      BY <3>3, <3>4, <3>5, <3>6 DEF ClientInv
  <2> QED
    BY <2>1, <2>2, <2>3, <2>4, ClientMove
<1>6. ASSUME NEW c \in Clients, SetCancelled(c) PROVE StreamInv'
  <2>1. StreamTypes'
    BY <1>6 DEF SetCancelled, SendsTo, Replies, LastItems, Outcomes, StreamInv, StreamTypes
  <2>2. \A d \in Clients \ {c} : SameFor(d)
    BY <1>6 DEF SetCancelled, SendsTo, Replies, LastItems, Outcomes, StreamInv, StreamTypes, SameFor
  <2>3. SlotsCounted'
    <3>1. Reading' = Reading /\ UNCHANGED freeSlots
      BY <1>6 DEF SetCancelled, Reading, StreamInv, StreamTypes
    <3> QED
      BY <3>1, SlotsStay
  <2>4. ClientInv(c)'
    <3>1. /\ reader[c] = "leaving" /\ reader'[c] = "cancelling"
          /\ UNCHANGED <<left, sent, items, worker, failed>>
      BY <1>6 DEF SetCancelled, StreamInv, StreamTypes
    <3>2. SaysOnce(c) /\ Unstarted(c) /\ Queued(c) /\ NotForgotten(c)
      BY DEF StreamInv, ClientInv
    <3>3. SaysOnce(c)'
      BY <3>1, <3>2 DEF SaysOnce, Unstarted, Sent
    <3>4. Unstarted(c)'
      BY <3>1, <3>2 DEF Unstarted, Sent, Item
    <3>5. Queued(c)'
      BY <3>1, <3>2 DEF Unstarted, Queued, HasAnswer, Sent, Item, Replies, LastItems, Outcomes
    <3>6. NotForgotten(c)'
      BY <3>1, <3>2 DEF SaysOnce, Unstarted, Queued, NotForgotten, Sent, Item, Outcomes, LastItems
    <3> QED
      BY <3>3, <3>4, <3>5, <3>6 DEF ClientInv
  <2> QED
    BY <2>1, <2>2, <2>3, <2>4, ClientMove
<1>7. ASSUME NEW c \in Clients, CancelProvider(c) PROVE StreamInv'
  <2>1. StreamTypes'
    BY <1>7 DEF CancelProvider, SendsTo, Replies, LastItems, Outcomes, StreamInv, StreamTypes
  <2>2. \A d \in Clients \ {c} : SameFor(d)
    BY <1>7 DEF CancelProvider, SendsTo, Replies, LastItems, Outcomes, StreamInv, StreamTypes, SameFor
  <2>3. SlotsCounted'
    <3>1. Reading' = Reading /\ UNCHANGED freeSlots
      BY <1>7 DEF CancelProvider, Reading, StreamInv, StreamTypes
    <3> QED
      BY <3>1, SlotsStay
  <2>4. ClientInv(c)'
    <3>1. /\ reader[c] = "cancelling" /\ reader'[c] = "joining"
          /\ UNCHANGED <<left, sent, items, cancelled, worker, failed>>
      BY <1>7 DEF CancelProvider, StreamInv, StreamTypes
    <3>2. SaysOnce(c) /\ Unstarted(c) /\ Queued(c) /\ NotForgotten(c)
      BY DEF StreamInv, ClientInv
    <3>3. SaysOnce(c)'
      BY <3>1, <3>2 DEF SaysOnce, Unstarted, Sent
    <3>4. Unstarted(c)'
      BY <3>1, <3>2 DEF Unstarted, Sent, Item
    <3>5. Queued(c)'
      BY <3>1, <3>2 DEF Unstarted, Queued, HasAnswer, Sent, Item, Replies, LastItems, Outcomes
    <3>6. NotForgotten(c)'
      BY <3>1, <3>2 DEF SaysOnce, Unstarted, Queued, NotForgotten, Sent, Item, Outcomes, LastItems
    <3> QED
      BY <3>3, <3>4, <3>5, <3>6 DEF ClientInv
  <2> QED
    BY <2>1, <2>2, <2>3, <2>4, ClientMove
<1>8. ASSUME NEW c \in Clients, EndStream(c) PROVE StreamInv'
  <2>1. StreamTypes'
    <3>0. <<>> \in Seq(Outcomes \cup {"done"}) /\ <<"done">> \in Seq(Outcomes \cup {"done"})
      OBVIOUS
    <3>1. StreamTypes /\ (IF c \in left THEN <<>> ELSE <<"done">>) \in Seq(Outcomes \cup {"done"})
      BY <3>0, Zenon DEF StreamInv
    <3>2. PICK what \in Seq(Outcomes \cup {"done"}) : sent' = [sent EXCEPT ![c] = @ \o what]
      BY <1>8, <3>1 DEF EndStream, SendsTo
    <3>3. sent' \in [Clients -> Seq(Outcomes \cup {"done"})]
      BY <3>1, <3>2, Says
    <3>4. reader' = [reader EXCEPT ![c] = "over"] /\ UNCHANGED <<items, worker, freeSlots>>
      BY <1>8 DEF EndStream
    <3> QED
      BY <3>1, <3>3, <3>4 DEF StreamTypes
  <2>2. \A d \in Clients \ {c} : SameFor(d)
    BY <1>8 DEF EndStream, SendsTo, Replies, LastItems, Outcomes, StreamInv, StreamTypes, SameFor
  <2>3. SlotsCounted'
    <3>1. Reading' = Reading /\ UNCHANGED freeSlots
      BY <1>8 DEF EndStream, Reading, StreamInv, StreamTypes
    <3> QED
      BY <3>1, SlotsStay
  <2>4. ClientInv(c)'
    <3>1. /\ reader[c] = "joining" /\ reader'[c] = "over"
          /\ sent'[c] = sent[c] \o IF c \in left THEN <<>> ELSE <<"done">>
          /\ UNCHANGED <<left, items, cancelled, worker, failed>>
      BY <1>8 DEF EndStream, SendsTo, StreamInv, StreamTypes
    <3>2. sent[c] \in Seq(Outcomes \cup {"done"}) /\ items[c] \in Seq({"delta"} \cup Replies \cup LastItems)
      BY DEF StreamInv, StreamTypes
    <3>3. SaysOnce(c) /\ Unstarted(c) /\ NotForgotten(c)
      BY DEF StreamInv, ClientInv
    <3>4. Len(sent[c]) <= 1 /\ \A k \in 1 .. Len(sent[c]) : sent[c][k] \in Outcomes
      BY <3>1, <3>3 DEF SaysOnce
    <3>5. CASE c \in left
      <4>1. sent'[c] = sent[c]
        BY <3>1, <3>2, <3>5
      <4> QED
        BY <3>1, <3>3, <3>4, <3>5, <4>1 DEF ClientInv, SaysOnce, Unstarted, Queued, NotForgotten, Sent, Item, Outcomes
    <3>6. CASE c \notin left
      <4>1. sent'[c] = Append(sent[c], "done")
        BY <3>1, <3>2, <3>6
      <4>2. /\ Len(sent'[c]) = Len(sent[c]) + 1 /\ Len(sent[c]) \in Nat /\ sent'[c][Len(sent[c]) + 1] = "done"
            /\ \A k \in 1 .. Len(sent[c]) : sent'[c][k] = sent[c][k]
        BY <3>2, <4>1, QueueGrows
      <4>5. \A k \in 1 .. Len(sent'[c]) : k = Len(sent[c]) + 1 \/ k \in 1 .. Len(sent[c])
        BY <4>2
      <4>6. \A k : Sent(c, {"done"}, k)' => k = Len(sent'[c])
        BY <3>4, <4>2, <4>5 DEF Sent, Outcomes
      <4>7. \A k : Sent(c, Outcomes, k)' => Sent(c, Outcomes, k)
        BY <4>2, <4>5 DEF Sent, Outcomes
      <4>8. Sent(c, {"done"}, Len(sent[c]))'
        <5>1. Len(sent'[c]) \in 1 .. Len(sent'[c]) /\ sent'[c][Len(sent'[c])] = "done"
          BY <4>2
        <5> QED
          BY <5>1 DEF Sent
      <4>9. \A j, k : Sent(c, Outcomes, j) /\ Sent(c, Outcomes, k) => j = k
        BY <3>3 DEF SaysOnce
      <4>3. SaysOnce(c)'
        BY <3>1, <4>6, <4>7, <4>8, <4>9 DEF SaysOnce
      <4>4. NotForgotten(c)'
        BY <3>1, <3>3, <3>6, <4>2 DEF NotForgotten, Sent
      <4> QED
        BY <3>1, <3>3, <4>3, <4>4 DEF ClientInv, Unstarted, Queued, Item
    <3> QED
      BY <3>5, <3>6
  <2> QED
    BY <2>1, <2>2, <2>3, <2>4, ClientMove
<1>9. ASSUME NEW c \in Clients, Leave(c) PROVE StreamInv'
  <2>1. StreamTypes'
    BY <1>9 DEF Leave, SendsTo, Replies, LastItems, Outcomes, StreamInv, StreamTypes
  <2>2. \A d \in Clients \ {c} : SameFor(d)
    BY <1>9 DEF Leave, SendsTo, Replies, LastItems, Outcomes, StreamInv, StreamTypes, SameFor
  <2>3. SlotsCounted'
    <3>1. Reading' = Reading /\ UNCHANGED freeSlots
      BY <1>9 DEF Leave, Reading, StreamInv, StreamTypes
    <3> QED
      BY <3>1, SlotsStay
  <2>4. ClientInv(c)'
    <3>1. /\ reader[c] \notin {"new", "over"} /\ c \in left'
          /\ UNCHANGED <<reader, sent, items, cancelled, worker, failed>>
      BY <1>9 DEF Leave, StreamInv, StreamTypes
    <3>2. SaysOnce(c) /\ Unstarted(c) /\ Queued(c) /\ NotForgotten(c)
      BY DEF StreamInv, ClientInv
    <3>3. SaysOnce(c)'
      BY <3>1, <3>2 DEF SaysOnce, Unstarted, Sent
    <3>4. Unstarted(c)'
      BY <3>1, <3>2 DEF Unstarted, Sent, Item
    <3>5. Queued(c)'
      BY <3>1, <3>2 DEF Unstarted, Queued, HasAnswer, Sent, Item, Replies, LastItems, Outcomes
    <3>6. NotForgotten(c)'
      BY <3>1, <3>2 DEF SaysOnce, Unstarted, Queued, NotForgotten, Sent, Item, Outcomes, LastItems
    <3> QED
      BY <3>3, <3>4, <3>5, <3>6 DEF ClientInv
  <2> QED
    BY <2>1, <2>2, <2>3, <2>4, ClientMove
<1>10. ASSUME NEW c \in Clients, Connect(c) PROVE StreamInv'
  <2>1. StreamTypes'
    BY <1>10 DEF Connect, SendsTo, Replies, LastItems, Outcomes, StreamInv, StreamTypes
  <2>2. \A d \in Clients \ {c} : SameFor(d)
    BY <1>10 DEF Connect, SendsTo, Replies, LastItems, Outcomes, StreamInv, StreamTypes, SameFor
  <2>3. SlotsCounted'
    <3>1. Reading' = Reading /\ UNCHANGED freeSlots
      BY <1>10 DEF Connect, Reading, StreamInv, StreamTypes
    <3> QED
      BY <3>1, SlotsStay
  <2>4. ClientInv(c)'
    <3>1. /\ worker[c] = "connecting" /\ worker'[c] = IF c \in cancelled THEN "closing" ELSE "reading"
          /\ UNCHANGED <<reader, left, sent, cancelled, items, failed>>
      BY <1>10 DEF Connect, StreamInv, StreamTypes
    <3>2. SaysOnce(c) /\ Unstarted(c) /\ Queued(c) /\ NotForgotten(c)
      BY DEF StreamInv, ClientInv
    <3>3. SaysOnce(c)'
      BY <3>1, <3>2 DEF SaysOnce, Unstarted, Sent
    <3>4. Unstarted(c)'
      BY <3>1, <3>2 DEF Unstarted, Sent, Item
    <3>5. Queued(c)'
      BY <3>1, <3>2 DEF Unstarted, Queued, HasAnswer, Sent, Item, Replies, LastItems, Outcomes
    <3>6. NotForgotten(c)'
      BY <3>1, <3>2 DEF SaysOnce, Unstarted, Queued, NotForgotten, Sent, Item, Outcomes, LastItems
    <3> QED
      BY <3>3, <3>4, <3>5, <3>6 DEF ClientInv
  <2> QED
    BY <2>1, <2>2, <2>3, <2>4, ClientMove
<1>11. ASSUME NEW c \in Clients, FailStream(c) PROVE StreamInv'
  <2>1. StreamTypes'
    BY <1>11 DEF FailStream, SendsTo, Replies, LastItems, Outcomes, StreamInv, StreamTypes
  <2>2. \A d \in Clients \ {c} : SameFor(d)
    BY <1>11 DEF FailStream, SendsTo, Replies, LastItems, Outcomes, StreamInv, StreamTypes, SameFor
  <2>3. SlotsCounted'
    <3>1. Reading' = Reading /\ UNCHANGED freeSlots
      BY <1>11 DEF FailStream, Reading, StreamInv, StreamTypes
    <3> QED
      BY <3>1, SlotsStay
  <2>4. ClientInv(c)'
    <3>1. /\ worker[c] \in {"connecting", "reading", "answering"} /\ worker'[c] = "closing" /\ c \in failed'
          /\ UNCHANGED <<reader, left, sent, cancelled, items>>
      BY <1>11 DEF FailStream, StreamInv, StreamTypes
    <3>2. SaysOnce(c) /\ Unstarted(c) /\ Queued(c) /\ NotForgotten(c)
      BY DEF StreamInv, ClientInv
    <3>3. SaysOnce(c)'
      BY <3>1, <3>2 DEF SaysOnce, Unstarted, Sent
    <3>4. Unstarted(c)'
      BY <3>1, <3>2 DEF Unstarted, Sent, Item
    <3>5. Queued(c)'
      BY <3>1, <3>2 DEF Unstarted, Queued, HasAnswer, Sent, Item, Replies, LastItems, Outcomes
    <3>6. NotForgotten(c)'
      BY <3>1, <3>2 DEF SaysOnce, Unstarted, Queued, NotForgotten, Sent, Item, Outcomes, LastItems
    <3> QED
      BY <3>3, <3>4, <3>5, <3>6 DEF ClientInv
  <2> QED
    BY <2>1, <2>2, <2>3, <2>4, ClientMove
<1>12. ASSUME NEW c \in Clients, ReadDelta(c) PROVE StreamInv'
  <2>1. StreamTypes'
    BY <1>12 DEF ReadDelta, SendsTo, Enqueues, Replies, LastItems, Outcomes, StreamInv, StreamTypes
  <2>2. \A d \in Clients \ {c} : SameFor(d)
    BY <1>12 DEF ReadDelta, SendsTo, Enqueues, Replies, LastItems, Outcomes, StreamInv, StreamTypes, SameFor
  <2>3. SlotsCounted'
    <3>1. Reading' = Reading /\ UNCHANGED freeSlots
      BY <1>12 DEF ReadDelta, Reading, StreamInv, StreamTypes
    <3> QED
      BY <3>1, SlotsStay
  <2>4. ClientInv(c)'
    <3> DEFINE item == "delta"
    <3>1. /\ worker[c] = "reading" /\ worker'[c] = IF c \in cancelled THEN "closing" ELSE "reading"
          /\ items'[c] = IF c \in cancelled THEN items[c] ELSE Append(items[c], item)
          /\ UNCHANGED <<reader, left, sent, cancelled, failed>>
      BY <1>12 DEF ReadDelta, Enqueues, StreamInv, StreamTypes
    <3>2. sent[c] \in Seq(Outcomes \cup {"done"}) /\ items[c] \in Seq({"delta"} \cup Replies \cup LastItems)
      BY DEF StreamInv, StreamTypes
    <3>3. SaysOnce(c) /\ Unstarted(c) /\ Queued(c) /\ NotForgotten(c)
      BY DEF StreamInv, ClientInv
    <3>4. item \in {"delta"} \cup Replies \cup LastItems
      BY DEF Replies, LastItems
    <3>5. SaysOnce(c)' /\ Unstarted(c)'
      BY <3>1, <3>3 DEF SaysOnce, Unstarted, Sent
    <3>6. CASE c \in cancelled
      BY <3>1, <3>3, <3>5, <3>6 DEF ClientInv, Unstarted, Queued, NotForgotten, Sent, Item
    <3>7. CASE c \notin cancelled
      <4>1. /\ Len(items'[c]) = Len(items[c]) + 1 /\ Len(items[c]) \in Nat
            /\ items'[c][Len(items[c]) + 1] = item
            /\ \A k \in 1 .. Len(items[c]) : items'[c][k] = items[c][k]
        BY <3>1, <3>2, <3>4, <3>7, QueueGrows
      <4>2. NotForgotten(c)'
        BY <3>1, <3>3, <4>1 DEF NotForgotten, Sent
      <4>3. Queued(c)'
        BY <3>1, <3>3, <3>7, <4>1 DEF Queued, HasAnswer, Sent, Item, Replies, LastItems
      <4> QED
        BY <3>5, <4>2, <4>3 DEF ClientInv
    <3> QED
      BY <3>6, <3>7
  <2> QED
    BY <2>1, <2>2, <2>3, <2>4, ClientMove
<1>13. ASSUME NEW c \in Clients, EndOfAnswer(c) PROVE StreamInv'
  <2>1. StreamTypes'
    BY <1>13 DEF EndOfAnswer, SendsTo, Replies, LastItems, Outcomes, StreamInv, StreamTypes
  <2>2. \A d \in Clients \ {c} : SameFor(d)
    BY <1>13 DEF EndOfAnswer, SendsTo, Replies, LastItems, Outcomes, StreamInv, StreamTypes, SameFor
  <2>3. SlotsCounted'
    <3>1. Reading' = Reading /\ UNCHANGED freeSlots
      BY <1>13 DEF EndOfAnswer, Reading, StreamInv, StreamTypes
    <3> QED
      BY <3>1, SlotsStay
  <2>4. ClientInv(c)'
    <3>1. /\ worker[c] = "reading" /\ worker'[c] = IF c \in cancelled THEN "closing" ELSE "answering"
          /\ UNCHANGED <<reader, left, sent, cancelled, items, failed>>
      BY <1>13 DEF EndOfAnswer, StreamInv, StreamTypes
    <3>2. SaysOnce(c) /\ Unstarted(c) /\ Queued(c) /\ NotForgotten(c)
      BY DEF StreamInv, ClientInv
    <3>3. SaysOnce(c)'
      BY <3>1, <3>2 DEF SaysOnce, Unstarted, Sent
    <3>4. Unstarted(c)'
      BY <3>1, <3>2 DEF Unstarted, Sent, Item
    <3>5. Queued(c)'
      BY <3>1, <3>2 DEF Unstarted, Queued, HasAnswer, Sent, Item, Replies, LastItems, Outcomes
    <3>6. NotForgotten(c)'
      BY <3>1, <3>2 DEF SaysOnce, Unstarted, Queued, NotForgotten, Sent, Item, Outcomes, LastItems
    <3> QED
      BY <3>3, <3>4, <3>5, <3>6 DEF ClientInv
  <2> QED
    BY <2>1, <2>2, <2>3, <2>4, ClientMove
<1>14. ASSUME NEW c \in Clients, NEW reply \in Replies, GiveAnswer(c, reply) PROVE StreamInv'
  <2>1. StreamTypes'
    BY <1>14 DEF GiveAnswer, SendsTo, Enqueues, Replies, LastItems, Outcomes, StreamInv, StreamTypes
  <2>2. \A d \in Clients \ {c} : SameFor(d)
    BY <1>14 DEF GiveAnswer, SendsTo, Enqueues, Replies, LastItems, Outcomes, StreamInv, StreamTypes, SameFor
  <2>3. SlotsCounted'
    <3>1. Reading' = Reading /\ UNCHANGED freeSlots
      BY <1>14 DEF GiveAnswer, Reading, StreamInv, StreamTypes
    <3> QED
      BY <3>1, SlotsStay
  <2>4. ClientInv(c)'
    <3> DEFINE item == reply
    <3>1. /\ worker[c] = "answering" /\ worker'[c] = "closing"
          /\ items'[c] = IF c \in cancelled THEN items[c] ELSE Append(items[c], item)
          /\ UNCHANGED <<reader, left, sent, cancelled, failed>>
      BY <1>14 DEF GiveAnswer, Enqueues, StreamInv, StreamTypes
    <3>2. sent[c] \in Seq(Outcomes \cup {"done"}) /\ items[c] \in Seq({"delta"} \cup Replies \cup LastItems)
      BY DEF StreamInv, StreamTypes
    <3>3. SaysOnce(c) /\ Unstarted(c) /\ Queued(c) /\ NotForgotten(c)
      BY DEF StreamInv, ClientInv
    <3>4. item \in {"delta"} \cup Replies \cup LastItems
      BY DEF Replies, LastItems
    <3>5. SaysOnce(c)' /\ Unstarted(c)'
      BY <3>1, <3>3 DEF SaysOnce, Unstarted, Sent
    <3>6. CASE c \in cancelled
      BY <3>1, <3>3, <3>5, <3>6 DEF ClientInv, Unstarted, Queued, NotForgotten, Sent, Item
    <3>7. CASE c \notin cancelled
      <4>1. /\ Len(items'[c]) = Len(items[c]) + 1 /\ Len(items[c]) \in Nat
            /\ items'[c][Len(items[c]) + 1] = item
            /\ \A k \in 1 .. Len(items[c]) : items'[c][k] = items[c][k]
        BY <3>1, <3>2, <3>4, <3>7, QueueGrows
      <4>2. NotForgotten(c)'
        BY <3>1, <3>3, <4>1 DEF NotForgotten, Sent
      <4>3. Queued(c)'
        BY <3>1, <3>3, <3>7, <4>1 DEF Queued, HasAnswer, Sent, Item, Replies, LastItems
      <4> QED
        BY <3>5, <4>2, <4>3 DEF ClientInv
    <3> QED
      BY <3>6, <3>7
  <2> QED
    BY <2>1, <2>2, <2>3, <2>4, ClientMove
<1>15. ASSUME NEW c \in Clients, ReleaseSlot(c) PROVE StreamInv'
  <2>1. StreamTypes'
    BY <1>15 DEF ReleaseSlot, SendsTo, Replies, LastItems, Outcomes, StreamInv, StreamTypes
  <2>2. \A d \in Clients \ {c} : SameFor(d)
    BY <1>15 DEF ReleaseSlot, SendsTo, Replies, LastItems, Outcomes, StreamInv, StreamTypes, SameFor
  <2>3. SlotsCounted'
    <3>1. worker[c] = "closing" /\ worker' = [worker EXCEPT ![c] = "marking"] /\ freeSlots' = freeSlots + 1
      BY <1>15 DEF ReleaseSlot
    <3>2. Reading' = Reading \ {c} /\ c \in Reading
      BY <3>1 DEF Reading, StreamInv, StreamTypes
    <3>3. IsFiniteSet(Reading') /\ Cardinality(Reading') = Cardinality(Reading) - 1
      BY <3>2, FS_RemoveElement DEF StreamInv, SlotsCounted
    <3>4. freeSlots = StreamSlots - Cardinality(Reading) /\ Cardinality(Reading) \in Nat
      BY FS_CardinalityType DEF StreamInv, SlotsCounted
    <3> QED
      BY <3>1, <3>3, <3>4, StreamConstants DEF SlotsCounted
  <2>4. ClientInv(c)'
    <3>1. /\ worker[c] = "closing" /\ worker'[c] = "marking"
          /\ UNCHANGED <<reader, left, sent, cancelled, items, failed>>
      BY <1>15 DEF ReleaseSlot, StreamInv, StreamTypes
    <3>2. SaysOnce(c) /\ Unstarted(c) /\ Queued(c) /\ NotForgotten(c)
      BY DEF StreamInv, ClientInv
    <3>3. SaysOnce(c)'
      BY <3>1, <3>2 DEF SaysOnce, Unstarted, Sent
    <3>4. Unstarted(c)'
      BY <3>1, <3>2 DEF Unstarted, Sent, Item
    <3>5. Queued(c)'
      BY <3>1, <3>2 DEF Unstarted, Queued, HasAnswer, Sent, Item, Replies, LastItems, Outcomes
    <3>6. NotForgotten(c)'
      BY <3>1, <3>2 DEF SaysOnce, Unstarted, Queued, NotForgotten, Sent, Item, Outcomes, LastItems
    <3> QED
      BY <3>3, <3>4, <3>5, <3>6 DEF ClientInv
  <2> QED
    BY <2>1, <2>2, <2>3, <2>4, ClientMove
<1>16. ASSUME NEW c \in Clients, MarkEnd(c) PROVE StreamInv'
  <2>1. StreamTypes'
    BY <1>16 DEF MarkEnd, SendsTo, Enqueues, Replies, LastItems, Outcomes, StreamInv, StreamTypes
  <2>2. \A d \in Clients \ {c} : SameFor(d)
    BY <1>16 DEF MarkEnd, SendsTo, Enqueues, Replies, LastItems, Outcomes, StreamInv, StreamTypes, SameFor
  <2>3. SlotsCounted'
    <3>1. Reading' = Reading /\ UNCHANGED freeSlots
      BY <1>16 DEF MarkEnd, Reading, StreamInv, StreamTypes
    <3> QED
      BY <3>1, SlotsStay
  <2>4. ClientInv(c)'
    <3> DEFINE item == (IF c \in failed THEN "failure" ELSE "finish")
    <3>1. /\ worker[c] = "marking" /\ worker'[c] = "exited"
          /\ items'[c] = IF c \in cancelled THEN items[c] ELSE Append(items[c], item)
          /\ UNCHANGED <<reader, left, sent, cancelled, failed>>
      BY <1>16 DEF MarkEnd, Enqueues, StreamInv, StreamTypes
    <3>2. sent[c] \in Seq(Outcomes \cup {"done"}) /\ items[c] \in Seq({"delta"} \cup Replies \cup LastItems)
      BY DEF StreamInv, StreamTypes
    <3>3. SaysOnce(c) /\ Unstarted(c) /\ Queued(c) /\ NotForgotten(c)
      BY DEF StreamInv, ClientInv
    <3>4. item \in {"delta"} \cup Replies \cup LastItems
      BY DEF Replies, LastItems
    <3>5. SaysOnce(c)' /\ Unstarted(c)'
      BY <3>1, <3>3 DEF SaysOnce, Unstarted, Sent
    <3>6. CASE c \in cancelled
      BY <3>1, <3>3, <3>5, <3>6 DEF ClientInv, Unstarted, Queued, NotForgotten, Sent, Item
    <3>7. CASE c \notin cancelled
      <4>1. /\ Len(items'[c]) = Len(items[c]) + 1 /\ Len(items[c]) \in Nat
            /\ items'[c][Len(items[c]) + 1] = item
            /\ \A k \in 1 .. Len(items[c]) : items'[c][k] = items[c][k]
        BY <3>1, <3>2, <3>4, <3>7, QueueGrows
      <4>2. NotForgotten(c)'
        BY <3>1, <3>3, <4>1 DEF NotForgotten, Sent
      <4>3. Queued(c)'
        BY <3>1, <3>3, <3>7, <4>1 DEF Queued, HasAnswer, Sent, Item, Replies, LastItems
      <4> QED
        BY <3>5, <4>2, <4>3 DEF ClientInv
    <3> QED
      BY <3>6, <3>7
  <2> QED
    BY <2>1, <2>2, <2>3, <2>4, ClientMove
<1> QED
  BY <1>0, <1>1, <1>2, <1>3, <1>4, <1>5, <1>6, <1>7, <1>8,
     <1>9, <1>10, <1>11, <1>12, <1>13, <1>14, <1>15, <1>16 DEF StreamNext, Replies

(* However many clients ask and leave, in whatever order: a slot is taken    *)
(* exactly while a worker may still be reading, a client hears one outcome   *)
(* and then the end, and none that stays is forgotten.                       *)
THEOREM DraftsAnswer == StreamSpec => []StreamsAnswered
<1>1. ASSUME StreamInv PROVE StreamsAnswered
  <2>1. freeSlots = StreamSlots
          - Cardinality({c \in Clients : worker[c] \notin {"none", "marking", "exited"}})
    BY <1>1 DEF StreamInv, SlotsCounted, Reading
  <2>2. ASSUME NEW c \in Clients
        PROVE  /\ Cardinality(Told(c, {"result", "error"})) <= 1
               /\ Told(c, {"done"}) \subseteq {Len(sent[c])}
               /\ (reader[c] = "over" /\ c \notin left) =>
                    /\ Told(c, {"done"}) # {}
                    /\ Told(c, {"result", "error"}) # {} \/ items[c] # <<>>
    <3>0. ClientInv(c)
      BY <1>1 DEF StreamInv
    <3>1. \A j, k \in Told(c, {"result", "error"}) : j = k
      BY <3>0 DEF ClientInv, SaysOnce, Sent, Told, Outcomes
    <3>2. Cardinality(Told(c, {"result", "error"})) <= 1
      <4>1. CASE Told(c, {"result", "error"}) = {}
        BY <4>1, FS_EmptySet
      <4>2. ASSUME NEW k \in Told(c, {"result", "error"})
            PROVE  Cardinality(Told(c, {"result", "error"})) <= 1
        <5>1. Told(c, {"result", "error"}) = {k}
          BY <3>1, <4>2
        <5>2. Cardinality({k}) = 1
          BY FS_Singleton
        <5> QED
          BY <5>1, <5>2
      <4> QED
        BY <4>1, <4>2
    <3>3. Told(c, {"done"}) \subseteq {Len(sent[c])}
      BY <3>0 DEF ClientInv, SaysOnce, Sent, Told
    <3>4. (reader[c] = "over" /\ c \notin left) =>
            /\ Told(c, {"done"}) # {}
            /\ Told(c, {"result", "error"}) # {} \/ items[c] # <<>>
      BY <3>0 DEF ClientInv, SaysOnce, NotForgotten, Sent, Told, Outcomes
    <3> QED
      BY <3>2, <3>3, <3>4
  <2> QED
    BY <2>1, <2>2 DEF StreamsAnswered
<1> QED
  BY <1>1, StreamInvInit, StreamInvStep, PTL DEF StreamSpec

-----------------------------------------------------------------------------
(* Every set of numbers that is not empty has a least one.                  *)
LEMMA LeastNumber ==
  ASSUME NEW T \in SUBSET Nat, T # {}
  PROVE  \E x \in T : \A y \in T : x <= y
<1> DEFINE less == {ss \in Nat \X Nat : ss[1] < ss[2]}
<1>1. IsWellFoundedOn(less, Nat)
  BY NatLessThanWellFounded, Zenon DEF OpToRel
<1> HIDE DEF less
<1>2. T \subseteq Nat
  OBVIOUS
<1>3. \E x \in T : \A y \in T : ~(<<y, x>> \in less)
  BY <1>1, <1>2, WFMin, Zenon
<1>4. PICK x \in T : \A y \in T : ~(<<y, x>> \in less)
  BY <1>3
<1>5. ASSUME NEW y \in T PROVE x <= y
  <2>1. x \in Nat /\ y \in Nat
    BY <1>2
  <2>2. <<y, x>> \in Nat \X Nat /\ <<y, x>>[1] = y /\ <<y, x>>[2] = x
    BY <2>1
  <2>3. ~(y < x)
    BY <1>4, <2>2 DEF less
  <2> QED
    BY <2>1, <2>3
<1> QED
  BY <1>5

-----------------------------------------------------------------------------
(* InputRecorder.  An answer reaches the input it was asked for or nobody:  *)
(* while the hook waits, only the query with the number of its input is     *)
(* its own, so "plain" was seen since the wait began (OwnAnswer).           *)
Ways == {"down", "up"}
WaitingInputs == [what : {"key", "button"}, id : Keys \cup Buttons, way : Ways]
Recordable ==
  [what : {"key"}, id : Keys, way : Ways, plain : BOOLEAN]
    \cup [what : {"button"}, id : Buttons, way : Ways, control : BOOLEAN]
    \cup {Of("move", "move", "move"), Of("wheel", "wheel", "wheel")}

RecorderTypes ==
  /\ recorded \in Seq(Recordable) /\ inputs \in 0 .. MaxInputs
  /\ hook \in {NoInput} \cup WaitingInputs
  /\ hook.what = "key" => hook.id \in Keys
  /\ queued \in 0 .. inputs \cup {EndOfQueue} /\ querying \in 0 .. inputs \cup {ResolverOver}
  /\ found \in {"nothing", "plain", "password", "failure"}
  /\ password \in BOOLEAN /\ plainSeen \in BOOLEAN

OwnAnswer ==
  /\ found # "nothing" => querying \in 1 .. inputs
  /\ hook # NoInput =>
       /\ ~password => plainSeen
       /\ querying = inputs /\ found = "plain" => plainSeen
       /\ outcome = "plain" => plainSeen

RecorderInv == RecorderTypes /\ OwnAnswer /\ NoPasswordTyped

LEMMA RecorderInvInit == RecorderInit => RecorderInv
<1> SUFFICES ASSUME RecorderInit PROVE RecorderInv
  OBVIOUS
<1>1. /\ recorded = <<>> /\ inputs = 0 /\ hook = NoInput /\ queued = 0 /\ querying = 0
      /\ found = "nothing" /\ password \in BOOLEAN /\ plainSeen = FALSE
  BY DEF RecorderInit
<1>2. hook.what # "key"
  BY <1>1 DEF NoInput
<1>3. recorded \in Seq(Recordable) /\ Len(recorded) = 0
  BY <1>1
<1>4. RecorderTypes
  <2>1. inputs \in 0 .. MaxInputs
    BY <1>1, RecorderConstants
  <2>2. queued \in 0 .. inputs \cup {EndOfQueue} /\ querying \in 0 .. inputs \cup {ResolverOver}
    BY <1>1
  <2>3. hook \in {NoInput} \cup WaitingInputs
    BY <1>1
  <2>4. /\ found \in {"nothing", "plain", "password", "failure"}
        /\ password \in BOOLEAN /\ plainSeen \in BOOLEAN
    BY <1>1
  <2> QED
    BY <1>2, <1>3, <2>1, <2>2, <2>3, <2>4, Zenon DEF RecorderTypes
<1>5. OwnAnswer /\ NoPasswordTyped
  BY <1>1, <1>3 DEF OwnAnswer, NoPasswordTyped
<1> QED
  BY <1>4, <1>5 DEF RecorderInv

(* What is appended, or taken back, leaves the rest as it was.              *)
LEMMA RecordedAppend ==
  ASSUME NEW event \in Recordable, recorded \in Seq(Recordable), NoPasswordTyped, Appends(event),
         event.what = "key" => event.plain
  PROVE  recorded' \in Seq(Recordable) /\ NoPasswordTyped'
<1>1. CASE UNCHANGED recorded
  BY <1>1 DEF NoPasswordTyped
<1>2. CASE recorded' = Append(recorded, event)
  <2>1. /\ recorded' \in Seq(Recordable) /\ Len(recorded') = Len(recorded) + 1 /\ Len(recorded) \in Nat
        /\ \A k \in 1 .. Len(recorded) : recorded'[k] = recorded[k]
        /\ recorded'[Len(recorded) + 1] = event
    BY <1>2, AppendProperties, LenProperties
  <2>2. ASSUME NEW k \in 1 .. Len(recorded'), recorded'[k].what = "key" PROVE recorded'[k].plain
    <3>1. CASE k = Len(recorded) + 1
      BY <2>1, <2>2, <3>1
    <3>2. CASE k \in 1 .. Len(recorded)
      BY <2>1, <2>2, <3>2 DEF NoPasswordTyped
    <3> QED
      BY <2>1, <3>1, <3>2
  <2> QED
    BY <2>1, <2>2 DEF NoPasswordTyped
<1> QED
  BY <1>1, <1>2 DEF Appends

LEMMA RecordedTrim ==
  ASSUME recorded \in Seq(Recordable), NoPasswordTyped, recorded' = TrimStopModifiers(recorded)
  PROVE  recorded' \in Seq(Recordable) /\ NoPasswordTyped'
<1> DEFINE Kept(n) == \A k \in n + 1 .. Len(recorded) : recorded[k].id = StopKey /\ recorded[k].way = "down"
           Least(n) == Kept(n) /\ \A m \in 0 .. Len(recorded) : Kept(m) => n <= m
           T == {n \in 0 .. Len(recorded) : Kept(n)}
           rest == CHOOSE n \in 0 .. Len(recorded) : Least(n)
<1>1. Len(recorded) \in Nat
  BY LenProperties
<1>2. Len(recorded) \in T /\ T \in SUBSET Nat
  BY <1>1
<1>3. PICK n \in T : \A m \in T : n <= m
  BY <1>2, LeastNumber
<1>4. n \in 0 .. Len(recorded) /\ Least(n)
  BY <1>3
<1>5. rest \in 0 .. Len(recorded)
  <2> HIDE DEF Least
  <2> QED
    BY <1>4
<1>6. recorded' = SubSeq(recorded, 1, rest)
  BY DEF TrimStopModifiers
<1> HIDE DEF rest
<1>7. /\ recorded' \in Seq(Recordable) /\ Len(recorded') = rest
      /\ \A k \in 1 .. rest : recorded'[k] = recorded[k]
  BY <1>1, <1>5, <1>6, SubSeqProperties
<1> QED
  BY <1>1, <1>5, <1>7 DEF NoPasswordTyped

LEMMA RecordedControl ==
  ASSUME recorded \in Seq(Recordable), NoPasswordTyped,
         recorded' = [recorded EXCEPT ![Len(recorded)].control = TRUE]
  PROVE  recorded' \in Seq(Recordable) /\ NoPasswordTyped'
<1> DEFINE Marked(e) == [e EXCEPT !.control = TRUE]
<1>1. Len(recorded) \in Nat /\ DOMAIN recorded = 1 .. Len(recorded)
      /\ \A k \in 1 .. Len(recorded) : recorded[k] \in Recordable
  BY LenProperties, ElementOfSeq
<1>2. ASSUME NEW e \in Recordable 
      PROVE  /\ Marked(e) \in Recordable
             /\ Marked(e).what = e.what
             /\ e.what = "key" => Marked(e).plain = e.plain
  <2>1. CASE e \in [what : {"key"}, id : Keys, way : Ways, plain : BOOLEAN]
    BY <2>1 DEF Recordable
  <2>2. CASE e \in [what : {"button"}, id : Buttons, way : Ways, control : BOOLEAN]
    BY <2>2 DEF Recordable
  <2>3. CASE e \in {Of("move", "move", "move"), Of("wheel", "wheel", "wheel")}
    BY <2>3 DEF Recordable, Of
  <2> QED
    BY <2>1, <2>2, <2>3 DEF Recordable
<1>0. \A k \in 1 .. Len(recorded) :
        recorded'[k] = IF k = Len(recorded) THEN Marked(recorded[k]) ELSE recorded[k]
  BY <1>1
<1> HIDE DEF Marked
<1>3. ASSUME NEW k \in 1 .. Len(recorded)
      PROVE  /\ recorded'[k] \in Recordable /\ recorded'[k].what = recorded[k].what
             /\ recorded[k].what = "key" => recorded'[k].plain = recorded[k].plain
  <2>1. CASE k = Len(recorded)
    <3>1. recorded'[k] = Marked(recorded[k]) /\ recorded[k] \in Recordable
      BY <1>0, <1>1, <2>1
    <3>2. /\ Marked(recorded[k]) \in Recordable
          /\ Marked(recorded[k]).what = recorded[k].what
          /\ recorded[k].what = "key" => Marked(recorded[k]).plain = recorded[k].plain
      BY <1>2, <3>1
    <3> QED
      BY <3>1, <3>2, Zenon
  <2>2. CASE k # Len(recorded)
    BY <1>0, <1>1, <2>2
  <2> QED
    BY <2>1, <2>2
<1>4. recorded' = [k \in 1 .. Len(recorded) |-> recorded'[k]]
  BY <1>1
<1>5. recorded' \in [1 .. Len(recorded) -> Recordable]
  BY <1>1, <1>3, <1>4
<1>6. recorded' \in Seq(Recordable) /\ Len(recorded') = Len(recorded)
  BY <1>1, <1>5, SeqDef, LenProperties
<1> QED
  BY <1>3, <1>6 DEF NoPasswordTyped

LEMMA RecorderInvStep == RecorderInv /\ [RecorderNext]_recorderVars => RecorderInv'
<1> SUFFICES ASSUME RecorderInv, [RecorderNext]_recorderVars PROVE RecorderInv'
  OBVIOUS
<1> USE RecorderConstants DEF KeepResolver
<1>0. /\ recorded \in Seq(Recordable) /\ NoPasswordTyped /\ inputs \in Nat /\ MaxInputs \in Nat
      /\ RecorderTypes /\ OwnAnswer
  BY RecorderConstants DEF RecorderInv, RecorderTypes
\* The hook asks: the query gets a number no earlier one has.
<1>1. ASSUME NEW input \in WaitingInputs, Asks(input), inputs < MaxInputs, inputs' = inputs + 1,
             hook = NoInput, input.what = "key" => input.id \in Keys,
             recorded' \in Seq(Recordable), NoPasswordTyped'
      PROVE  RecorderInv'
  <2>0. /\ hook' = input /\ queued' \in {queued, inputs + 1} /\ UNCHANGED <<querying, found, password>>
        /\ plainSeen' \in BOOLEAN /\ inputs' = inputs + 1
    BY <1>1 DEF Asks
  <2>1. RecorderTypes'
    <3>1. inputs' \in 0 .. MaxInputs
      BY <1>0, <1>1
    <3>2. queued' \in 0 .. inputs' \cup {EndOfQueue} /\ querying' \in 0 .. inputs' \cup {ResolverOver}
      BY <1>0, <2>0 DEF RecorderTypes
    <3>3. hook' \in {NoInput} \cup WaitingInputs /\ (hook'.what = "key" => hook'.id \in Keys)
      BY <1>1, <2>0
    <3>4. /\ found' \in {"nothing", "plain", "password", "failure"}
          /\ password' \in BOOLEAN /\ plainSeen' \in BOOLEAN
      BY <1>0, <2>0 DEF RecorderTypes
    <3> QED
      BY <1>1, <3>1, <3>2, <3>3, <3>4 DEF RecorderTypes
  <2>2. OwnAnswer'
    <3>1. querying' # inputs' /\ (found' # "nothing" => querying' \in 1 .. inputs')
      BY <1>0, <1>1, <2>0 DEF RecorderTypes, OwnAnswer, ResolverOver
    <3>2. plainSeen' = ~password' /\ outcome' \in {"none", "unanswered"}
      BY <1>1 DEF Asks
    <3>3. ~password' => plainSeen'
      BY <3>2, Zenon
    <3>4. outcome' # "plain"
      BY <3>2
    <3> QED
      BY <3>1, <3>3, <3>4, Zenon DEF OwnAnswer
  <2> QED
    BY <1>1, <2>1, <2>2 DEF RecorderInv
\* An input that asks nothing.
<1>2. ASSUME UNCHANGED <<hook, outcome>>, KeepResolver, hook = NoInput,
             inputs < MaxInputs, inputs' = inputs + 1,
             recorded' \in Seq(Recordable), NoPasswordTyped'
      PROVE  RecorderInv'
  <2>1. RecorderTypes'
    BY <1>0, <1>2 DEF RecorderTypes
  <2>2. OwnAnswer'
    BY <1>0, <1>2 DEF RecorderTypes, OwnAnswer
  <2> QED
    BY <1>2, <2>1, <2>2 DEF RecorderInv
<1>3. ASSUME NEW way \in Ways, NEW k \in Keys, KeyInput(k, way) PROVE RecorderInv'
  <2>1. /\ inputs < MaxInputs /\ inputs' = inputs + 1 /\ hook = NoInput
        /\ recorded' \in Seq(Recordable) /\ NoPasswordTyped'
        /\ \/ Asks(Of("key", k, way))
           \/ UNCHANGED <<hook, outcome>> /\ KeepResolver
    BY <1>0, <1>3 DEF KeyInput, Input, NoPasswordTyped
  <2>2. Of("key", k, way) \in WaitingInputs /\ Of("key", k, way).id = k
    BY DEF Of, WaitingInputs
  <2> QED
    BY <1>1, <1>2, <2>1, <2>2
<1>4. ASSUME NEW way \in Ways, NEW b \in Buttons, ButtonInput(b, way) PROVE RecorderInv'
  <2> DEFINE event == [what |-> "button", id |-> b, way |-> way, control |-> FALSE]
  <2>1. event \in Recordable /\ event.what # "key"
    BY DEF Recordable
  <2>2. /\ inputs < MaxInputs /\ inputs' = inputs + 1 /\ hook = NoInput /\ Appends(event)
        /\ \/ Asks(Of("button", b, way))
           \/ UNCHANGED <<hook, outcome>> /\ KeepResolver
    BY <1>4 DEF ButtonInput, Input
  <2> HIDE DEF event
  <2>3. recorded' \in Seq(Recordable) /\ NoPasswordTyped'
    BY <1>0, <2>1, <2>2, RecordedAppend
  <2>4. Of("button", b, way) \in WaitingInputs /\ Of("button", b, way).what = "button"
    BY DEF Of, WaitingInputs
  <2> QED
    BY <1>1, <1>2, <2>2, <2>3, <2>4
<1>5. ASSUME NEW what \in {"move", "wheel"}, OtherInput(what) PROVE RecorderInv'
  <2>1. Of(what, what, what) \in Recordable /\ Of(what, what, what).what # "key"
    BY DEF Recordable, Of
  <2>2. /\ inputs < MaxInputs /\ inputs' = inputs + 1 /\ hook = NoInput /\ Appends(Of(what, what, what))
        /\ UNCHANGED <<hook, outcome>> /\ KeepResolver
    BY <1>5 DEF OtherInput, Input
  <2>3. recorded' \in Seq(Recordable) /\ NoPasswordTyped'
    BY <1>0, <2>1, <2>2, RecordedAppend
  <2> QED
    BY <1>2, <2>2, <2>3
<1>6. CASE StopHotkey
  <2>1. /\ inputs < MaxInputs /\ inputs' = inputs + 1 /\ hook = NoInput
        /\ recorded' = TrimStopModifiers(recorded) /\ UNCHANGED <<hook, outcome>> /\ KeepResolver
    BY <1>6 DEF StopHotkey, Input
  <2> QED
    BY <1>0, <1>2, <2>1, RecordedTrim
\* The hook goes on: what it has to say is its own answer.
<1>7. ASSUME hook # NoInput, hook' = NoInput, UNCHANGED inputs, KeepResolver,
             recorded' \in Seq(Recordable), NoPasswordTyped'
      PROVE  RecorderInv'
  <2>1. RecorderTypes'
    BY <1>0, <1>7 DEF RecorderTypes, NoInput
  <2>2. OwnAnswer'
    BY <1>0, <1>7 DEF RecorderTypes, OwnAnswer
  <2> QED
    BY <1>7, <2>1, <2>2 DEF RecorderInv
<1>8. CASE hook # NoInput /\ KeyOutcome
  <2> DEFINE event == [what |-> "key", id |-> hook.id, way |-> hook.way, plain |-> plainSeen]
  <2>1. /\ hook.what = "key" /\ hook' = NoInput /\ UNCHANGED inputs /\ KeepResolver
        /\ \/ outcome = "plain" /\ Appends(event)
           \/ UNCHANGED recorded
    BY <1>8 DEF KeyOutcome
  <2>0. hook.id \in Keys /\ hook.way \in Ways /\ plainSeen \in BOOLEAN
    BY <1>0, <1>8, <2>1 DEF RecorderTypes, WaitingInputs
  <2>2. event \in Recordable /\ event.plain = plainSeen
    BY <2>0 DEF Recordable
  <2>3. outcome = "plain" => plainSeen
    BY <1>0, <1>8 DEF OwnAnswer
  <2> HIDE DEF event
  <2>4. CASE outcome = "plain" /\ Appends(event)
    BY <1>0, <1>7, <1>8, <2>1, <2>2, <2>3, <2>4, RecordedAppend
  <2>5. CASE UNCHANGED recorded
    BY <1>0, <1>7, <1>8, <2>1, <2>5 DEF NoPasswordTyped
  <2> QED
    BY <2>1, <2>4, <2>5
<1>9. CASE hook # NoInput /\ ButtonOutcome
  <2>1. /\ hook' = NoInput /\ UNCHANGED inputs /\ KeepResolver
        /\ recorded' = [recorded EXCEPT ![Len(recorded)].control = TRUE] \/ recorded' = recorded
    BY <1>9 DEF ButtonOutcome
  <2>2. recorded' \in Seq(Recordable) /\ NoPasswordTyped'
    BY <1>0, <2>1, RecordedControl DEF NoPasswordTyped
  <2> QED
    BY <1>7, <1>9, <2>1, <2>2
\* The other steps leave the recording and the hook's input alone.
<1>10. ASSUME UNCHANGED <<recorded, inputs, hook>>, RecorderTypes', OwnAnswer' PROVE RecorderInv'
  BY <1>0, <1>10 DEF RecorderInv, NoPasswordTyped
<1>11. CASE HookGivesUp
  <2>1. RecorderTypes'
    BY <1>0, <1>11 DEF HookGivesUp, RecorderTypes
  <2>2. OwnAnswer'
    BY <1>0, <1>11 DEF HookGivesUp, OwnAnswer
  <2> QED
    BY <1>10, <1>11, <2>1, <2>2 DEF HookGivesUp
<1>12. CASE TakeQuery
  <2>1. RecorderTypes'
    BY <1>0, <1>12 DEF TakeQuery, RecorderTypes
  <2>2. OwnAnswer'
    BY <1>0, <1>12 DEF TakeQuery, RecorderTypes, OwnAnswer
  <2> QED
    BY <1>10, <1>12, <2>1, <2>2 DEF TakeQuery
<1>13. ASSUME NEW works \in BOOLEAN, Query(works) PROVE RecorderInv'
  <2>1. RecorderTypes'
    <3>1. /\ found' \in {"nothing", "plain", "password", "failure"}
          /\ UNCHANGED <<recorded, inputs, hook, queued, querying, password, plainSeen>>
      BY <1>13 DEF Query
    <3> QED
      BY <1>0, <3>1 DEF RecorderTypes
  <2>2. OwnAnswer'
    BY <1>0, <1>13 DEF Query, RecorderTypes, OwnAnswer, ResolverOver
  <2> QED
    BY <1>10, <1>13, <2>1, <2>2 DEF Query
<1>14. CASE FinishQuery
  <2>1. RecorderTypes'
    <3>1. /\ querying' = 0 /\ found' = "nothing"
          /\ UNCHANGED <<recorded, inputs, hook, queued, password, plainSeen>>
      BY <1>14 DEF FinishQuery
    <3>2. querying' \in 0 .. inputs' \cup {ResolverOver}
      BY <1>0, <3>1
    <3>3. found' \in {"nothing", "plain", "password", "failure"}
      BY <3>1
    <3> QED
      BY <1>0, <3>1, <3>2, <3>3 DEF RecorderTypes
  <2>2. hook # NoInput /\ outcome' = "plain" => outcome = "plain" \/ (querying = inputs /\ found = "plain")
    <3>1. \/ outcome' \in {outcome, "password", "no_control", "control"}
          \/ Answered(querying) /\ found = "plain"
      BY <1>14 DEF FinishQuery
    <3> QED
      BY <3>1 DEF Answered
  <2>3. OwnAnswer'
    BY <1>0, <1>14, <2>2 DEF FinishQuery, RecorderTypes, OwnAnswer
  <2> QED
    BY <1>10, <1>14, <2>1, <2>3 DEF FinishQuery
<1>15. CASE StopRecorder
  <2>1. RecorderTypes'
    BY <1>0, <1>15 DEF StopRecorder, RecorderTypes
  <2>2. OwnAnswer'
    BY <1>0, <1>15 DEF StopRecorder, OwnAnswer
  <2> QED
    BY <1>10, <1>15, <2>1, <2>2 DEF StopRecorder
<1>16. CASE FocusMoves
  <2>1. RecorderTypes'
    BY <1>0, <1>16 DEF FocusMoves, RecorderTypes
  <2>2. OwnAnswer'
    BY <1>0, <1>16 DEF FocusMoves, RecorderTypes, OwnAnswer
  <2> QED
    BY <1>10, <1>16, <2>1, <2>2 DEF FocusMoves
<1>17. CASE UNCHANGED recorderVars
  BY <1>0, <1>17 DEF recorderVars, RecorderInv, RecorderTypes, OwnAnswer, NoPasswordTyped
<1> QED
  BY <1>3, <1>4, <1>5, <1>6, <1>8, <1>9, <1>11, <1>12, <1>13, <1>14, <1>15, <1>16, <1>17
  DEF RecorderNext, HookGoesOn, Ways

(* A key is recorded only when the focus was seen outside a password field  *)
(* while that very key was held back, however slow the resolver is and      *)
(* wherever the focus goes; replays in between change nothing in that.      *)
THEOREM NoPasswordKept == MacroSpec => []NoPasswordTyped
<1>1. MacroInit => RecorderInv
  BY RecorderInvInit DEF MacroInit
<1>2. RecorderInv /\ [MacroNext]_<<recorderVars, replayVars>> => RecorderInv'
  BY RecorderInvStep DEF MacroNext
<1>3. RecorderInv => NoPasswordTyped
  BY DEF RecorderInv
<1> QED
  BY <1>1, <1>2, <1>3, PTL DEF MacroSpec

(* MacroReplay.  While a replay runs, all it has down is noted as pressed.  *)
ReplayInv ==
  /\ playing = 0 => pressedKeys = {} /\ pressedButtons = {} /\ down \subseteq jammed
  /\ playing # 0 => down \subseteq pressedKeys \cup pressedButtons

LEMMA ReplayInvStep ==
  ReplayInv /\ [MacroNext]_<<recorderVars, replayVars>> => ReplayInv'
<1> SUFFICES ASSUME ReplayInv, [MacroNext]_<<recorderVars, replayVars>> PROVE ReplayInv'
  OBVIOUS
<1>1. CASE UNCHANGED replayVars
  BY <1>1 DEF replayVars, ReplayInv
<1>2. CASE StartReplay
  BY <1>2 DEF StartReplay, ReplayInv
<1>3. CASE PlayStep
  <2>1. playing # 0 /\ playing' # 0
    BY <1>3 DEF PlayStep
  <2>2. PICK played : played = Macro[playing]
    OBVIOUS
  <2>3. /\ pressedKeys' = IF played.what = "key" THEN Tracks(pressedKeys, played) ELSE pressedKeys
        /\ pressedButtons' = IF played.what = "button" THEN Tracks(pressedButtons, played) ELSE pressedButtons
        /\ down' = IF played.what \in {"key", "button"} THEN Tracks(down, played)
                   ELSE IF played.what = "click" THEN down \ {played.id} ELSE down
    BY <1>3, <2>2 DEF PlayStep
  <2>4. down \subseteq pressedKeys \cup pressedButtons
    BY <2>1 DEF ReplayInv
  <2>5. down' \subseteq pressedKeys' \cup pressedButtons'
    <3>1. CASE played.what = "key"
      BY <2>3, <2>4, <3>1 DEF Tracks
    <3>2. CASE played.what = "button"
      BY <2>3, <2>4, <3>2 DEF Tracks
    <3>3. CASE played.what \notin {"key", "button"}
      BY <2>3, <2>4, <3>3
    <3> QED
      BY <3>1, <3>2, <3>3
  <2> QED
    BY <2>1, <2>5 DEF ReplayInv
<1>4. CASE PlayFails
  <2>1. playing # 0 /\ playing' # 0
    BY <1>4 DEF PlayFails, CutShort
  <2> QED
    BY <1>4, <2>1 DEF PlayFails, ReplayInv
<1>5. ASSUME NEW failing, ReleaseAll(failing) PROVE ReplayInv'
  BY <1>5 DEF ReleaseAll, ReplayInv
<1> QED
  BY <1>1, <1>2, <1>3, <1>4, <1>5 DEF MacroNext, replayVars

(* Whatever step a replay stops at, by its end, a failure or a cancellation, *)
(* execute_macro's finally clause leaves nothing pressed that the system     *)
(* would let go of, for any recording and any keys and buttons.              *)
THEOREM ReplaysLetGo == MacroSpec => []ReplayLetsGo
<1>1. MacroInit => ReplayInv
  BY DEF MacroInit, ReplayInit, ReplayInv
<1>2. ReplayInv => (playing = 0 => down \subseteq jammed)
  BY DEF ReplayInv
<1> QED
  BY <1>1, <1>2, ReplayInvStep, PTL DEF MacroSpec, ReplayLetsGo

-----------------------------------------------------------------------------
(* SampledTriggers.  What a trigger remembers at poll n is what the samples *)
(* before it say: whether one could be read, the last one (or what it makes *)
(* of it), and whether an alarm it reported is over.                        *)
Now == Len(samples) + 1                 \* the poll to come
Remembered(n) ==
  IF Earlier(n) = {} THEN "off"
  ELSE CASE sensor.kind = "power" -> At(Previous(n)).battery
         [] sensor.kind = "usage" ->
              IF Earlier(Previous(n)) = {} THEN "off" ELSE At(Previous(n))
         [] sensor.kind = "lock" -> Settled(n)
         [] OTHER -> At(Previous(n))
BatteryRecovered(n) ==
  \A m \in Earlier(n) : At(m) <= Threshold =>
    \E k \in Earlier(n) : k > m /\ At(k) > Threshold + Hysteresis
PowerRecovered(n) ==
  \A m \in Earlier(n) : Earlier(m) # {} /\ At(m).battery /\ At(m).percent <= 20 =>
    \E k \in Earlier(n) : k > m /\ (~At(k).battery \/ At(k).percent > 25)

MemoryAt(n) ==
  /\ sensor.kind # "battery" =>
       /\ memory.known <=> Earlier(n) # {} \/ sensor.first = "off"
       /\ memory.known => memory.last = Remembered(n)
  /\ sensor.kind = "lock" => (memory.pending <=> memory.known /\ At(Previous(n)) # memory.last)
  /\ sensor.kind = "battery" => (memory.armed <=> BatteryRecovered(n))
  /\ sensor.kind = "power" =>
       (memory.armed <=> (sensor.target = "low" => PowerRecovered(n)))
MemoryHolds == \A n \in {Now} : MemoryAt(n)

Is(s) == \E C : s \in Seq(C)
SensorTypes ==
  /\ sensor \in Sensors /\ samples \in Seq(SamplesOf(sensor.kind, sensor.target)) /\ samples # <<>>
  /\ sensor.first = "setup" => samples[1].ok
  /\ memory = Remembers(memory.known, memory.last, memory.pending, memory.armed)
  /\ memory.known \in BOOLEAN /\ memory.pending \in BOOLEAN /\ memory.armed \in BOOLEAN
  /\ Is(events)

SensorInv == SensorTypes /\ MemoryHolds /\ EventsMatchSamples

LEMMA GreatestNumber ==
  ASSUME NEW top \in Nat, NEW T \in SUBSET (1 .. top), T # {}
  PROVE  \E x \in T : \A y \in T : y <= x
<1> DEFINE U == {top - x : x \in T}
<1>0. \A x \in T : x \in Nat /\ x <= top /\ top - x \in Nat
  OBVIOUS
<1>1. U \in SUBSET Nat /\ U # {}
  BY <1>0
<1>2. PICK u \in U : \A v \in U : u <= v
  BY <1>1, LeastNumber
<1>3. PICK x \in T : u = top - x
  OBVIOUS
<1>4. ASSUME NEW y \in T PROVE y <= x
  <2>1. top - y \in U
    OBVIOUS
  <2>2. top - x <= top - y
    BY <1>2, <1>3, <2>1
  <2> QED
    BY <1>0, <2>2
<1> QED
  BY <1>4

(* The reading before n, if there is one.                                   *)
LEMMA PreviousReading ==
  ASSUME Len(samples) \in Nat, DOMAIN samples = 1 .. Len(samples), NEW n, Earlier(n) # {}
  PROVE  Previous(n) \in Earlier(n) /\ \A k \in Earlier(n) : k <= Previous(n)
<1>1. Earlier(n) \in SUBSET (1 .. Len(samples))
  BY DEF Earlier, Readable
<1>2. \E m \in Earlier(n) : \A k \in Earlier(n) : k <= m
  BY <1>1, GreatestNumber
<1> QED
  BY <1>2 DEF Previous

(* A new sample changes nothing about the earlier ones.                     *)
Sampled(s) ==
  /\ Len(samples) \in Nat \ {0} /\ DOMAIN samples = 1 .. Len(samples)
  /\ Len(samples') = Len(samples) + 1 /\ DOMAIN samples' = 1 .. Len(samples')
  /\ \A m \in 1 .. Len(samples) : samples'[m] = samples[m]
  /\ samples'[Len(samples) + 1] = s

LEMMA SampledSo ==
  ASSUME NEW S, samples \in Seq(S), samples # <<>>, NEW s \in S, samples' = Append(samples, s)
  PROVE  Sampled(s) /\ samples' \in Seq(S)
  BY AppendProperties, LenProperties, EmptySeq DEF Sampled

LEMMA PastStays ==
  ASSUME NEW s, Sampled(s), NEW n, n = Now
  PROVE  /\ Readable' = Readable \cup (IF s.ok THEN {n} ELSE {})
         /\ \A m \in Readable : At(m)' = At(m)
         /\ \A m \in 1 .. n : Earlier(m)' = Earlier(m) /\ Previous(m)' = Previous(m)
         /\ Earlier(n) = Readable /\ Readable \subseteq 1 .. n - 1
         /\ Earlier(n + 1)' = Readable'
         /\ n \in Nat /\ n > 1 /\ Now' = n + 1 /\ At(n)' = s.value
<1>1. /\ Len(samples) \in Nat \ {0} /\ DOMAIN samples = 1 .. Len(samples)
      /\ DOMAIN samples' = 1 .. Len(samples) + 1 /\ n = Len(samples) + 1 /\ Now' = n + 1
      /\ \A m \in 1 .. Len(samples) : samples'[m] = samples[m]
      /\ samples'[n] = s
  BY DEF Sampled, Now
<1>2. Readable' = Readable \cup (IF s.ok THEN {n} ELSE {})
  BY <1>1 DEF Readable
<1>3. Readable \subseteq 1 .. Len(samples) /\ Readable' \subseteq 1 .. n
  BY <1>1 DEF Readable
<1>4. \A m \in Readable : At(m)' = At(m)
  BY <1>1, <1>3 DEF At
<1>5. \A m \in 1 .. n : Earlier(m)' = Earlier(m)
  BY <1>1, <1>2, <1>3 DEF Earlier
<1>6. \A m \in 1 .. n : Previous(m)' = Previous(m)
  <2> SUFFICES ASSUME NEW m \in 1 .. n PROVE Previous(m)' = Previous(m)
    OBVIOUS
  <2>1. Earlier(m)' = Earlier(m)
    BY <1>5
  <2> QED
    BY <2>1 DEF Previous
<1>7. Earlier(n) = Readable /\ Earlier(n + 1)' = Readable'
  <2>1. \A m \in Readable : m < n
    BY <1>1, <1>3
  <2>2. \A m \in Readable' : m < n + 1
    BY <1>1, <1>3
  <2> QED
    BY <2>1, <2>2 DEF Earlier
<1>8. At(n)' = s.value
  BY <1>1 DEF At
<1> QED
  BY <1>1, <1>2, <1>3, <1>4, <1>5, <1>6, <1>7, <1>8

(* After the sample: it is the reading before the next, or changes nothing. *)
LEMMA PastGrows ==
  ASSUME NEW s, Sampled(s), NEW n, n = Now
  PROVE  /\ s.ok => Earlier(n + 1)' = Earlier(n) \cup {n} /\ Previous(n + 1)' = n
         /\ ~s.ok => Earlier(n + 1)' = Earlier(n) /\ Previous(n + 1)' = Previous(n)
<1>1. /\ n \in Nat /\ Earlier(n) = Readable /\ Earlier(n + 1)' = Readable'
      /\ Readable' = Readable \cup (IF s.ok THEN {n} ELSE {}) /\ Readable \subseteq 1 .. n - 1
  BY PastStays
<1>2. ASSUME s.ok PROVE Previous(n + 1)' = n
  <2> DEFINE E == Readable \cup {n}
  <2>1. Earlier(n + 1)' = E
    BY <1>1, <1>2
  <2>2. \A k \in Readable : k \in Nat /\ k < n
    BY <1>1
  <2>3. n \in E /\ \A k \in E : k <= n
    BY <1>1, <2>2
  <2>4. \A m \in E : n <= m => m = n
    BY <1>1, <2>2
  <2> HIDE DEF E
  <2>5. Previous(n + 1)' = CHOOSE m \in E : \A k \in E : k <= m
    BY <2>1 DEF Previous
  <2> QED
    BY <2>3, <2>4, <2>5
<1>3. ASSUME ~s.ok PROVE Earlier(n + 1)' = Earlier(n) /\ Previous(n + 1)' = Previous(n)
  <2>1. Earlier(n + 1)' = Earlier(n)
    BY <1>1, <1>3
  <2> QED
    BY <2>1 DEF Previous
<1> QED
  BY <1>1, <1>2, <1>3

LEMMA TheGreatest ==
  ASSUME NEW S \in SUBSET Nat, NEW d \in S, \A k \in S : k <= d
  PROVE  (CHOOSE m \in S : \A k \in S : k <= m) = d
<1>1. \A m \in S : d <= m => m = d
  OBVIOUS
<1> QED
  BY <1>1

(* What had been read, and what a lock had settled on, stays so.            *)
SteadyBefore(n) == {m \in Earlier(n) : Earlier(m) = {} \/ At(m) = At(Previous(m))}
LEMMA SteadyOnes ==
  Len(samples) \in Nat /\ DOMAIN samples = 1 .. Len(samples) =>
    \A o \in Nat : Earlier(o) # {} =>
      \E d \in SteadyBefore(o) : Settled(o) = At(d) /\ \A k \in SteadyBefore(o) : k <= d
<1> SUFFICES ASSUME Len(samples) \in Nat, DOMAIN samples = 1 .. Len(samples),
                    NEW n \in Nat, Earlier(n) # {}
             PROVE  \E d \in SteadyBefore(n) : Settled(n) = At(d) /\ \A k \in SteadyBefore(n) : k <= d
  OBVIOUS
<1> DEFINE S == SteadyBefore(n)
<1>1. S \in SUBSET (1 .. Len(samples)) /\ Earlier(n) \in SUBSET Nat /\ Readable \in SUBSET Nat
  BY DEF SteadyBefore, Earlier, Readable
<1>2. PICK m \in Earlier(n) : \A k \in Earlier(n) : m <= k
  BY <1>1, LeastNumber
<1>3. Earlier(m) = {}
  <2>1. m \in Nat /\ m < n
    BY <1>1, <1>2 DEF Earlier
  <2>2. ASSUME NEW k \in Earlier(m) PROVE FALSE
    <3>1. k \in Readable /\ k \in Nat /\ k < m
      BY <1>1, <2>2 DEF Earlier
    <3>2. k \in Earlier(n)
      BY <2>1, <3>1 DEF Earlier
    <3> QED
      BY <1>2, <2>1, <3>1, <3>2
  <2> QED
    BY <2>2
<1>4. S # {}
  BY <1>2, <1>3 DEF SteadyBefore
<1>5. PICK d \in S : \A k \in S : k <= d
  BY <1>1, <1>4, GreatestNumber
<1>6. Settled(n) = At(CHOOSE k \in S : \A j \in S : j <= k)
  BY DEF Settled, SteadyBefore
<1>7. (CHOOSE k \in S : \A j \in S : j <= k) = d
  <2> HIDE DEF S
  <2> QED
    BY <1>1, <1>5, TheGreatest
<1> QED
  BY <1>5, <1>6, <1>7

LEMMA SteadyOnesNext ==
  (Len(samples) \in Nat /\ DOMAIN samples = 1 .. Len(samples) =>
    \A o \in Nat : Earlier(o) # {} =>
      \E d \in SteadyBefore(o) : Settled(o) = At(d) /\ \A k \in SteadyBefore(o) : k <= d)'
  BY SteadyOnes, PTL

LEMMA PastValues ==
  ASSUME NEW s, Sampled(s), NEW n, n = Now
  PROVE  \A m \in 1 .. n : Earlier(m) # {} =>
           /\ Previous(m) \in Earlier(m) /\ Previous(m) \in Readable
           /\ At(Previous(m))' = At(Previous(m))
           /\ SteadyBefore(m)' = SteadyBefore(m) /\ Settled(m)' = Settled(m)
<1> SUFFICES ASSUME NEW m \in 1 .. n, Earlier(m) # {}
             PROVE  /\ Previous(m) \in Earlier(m) /\ Previous(m) \in Readable
                    /\ At(Previous(m))' = At(Previous(m))
                    /\ SteadyBefore(m)' = SteadyBefore(m) /\ Settled(m)' = Settled(m)
  OBVIOUS
<1>0. Len(samples) \in Nat /\ DOMAIN samples = 1 .. Len(samples)
      /\ Len(samples') \in Nat /\ DOMAIN samples' = 1 .. Len(samples')
  BY DEF Sampled
<1>1. /\ \A k \in Readable : At(k)' = At(k)
      /\ \A k \in 1 .. n : Earlier(k)' = Earlier(k) /\ Previous(k)' = Previous(k)
      /\ Readable \subseteq 1 .. n /\ n \in Nat
  BY PastStays
<1>2. \A k : Earlier(k) \subseteq Readable
  BY DEF Earlier
<1>3. ASSUME NEW k \in 1 .. n, Earlier(k) # {}
      PROVE  Previous(k) \in Earlier(k) /\ Previous(k) \in Readable /\ At(Previous(k))' = At(Previous(k))
  <2>1. Previous(k) \in Earlier(k)
    BY <1>0, <1>3, PreviousReading
  <2>2. PICK p \in Readable : p = Previous(k)
    BY <1>2, <2>1
  <2>3. At(p)' = At(p) /\ Previous(k)' = p
    BY <1>1, <2>2
  <2>4. At(Previous(k))' = At(p)'
    BY <2>3 DEF At
  <2> QED
    BY <2>1, <2>2, <2>3, <2>4
<1>4. SteadyBefore(m)' = SteadyBefore(m)
  <2>1. \A k \in Earlier(m) : k \in Readable /\ k \in 1 .. n
    BY <1>1, <1>2
  <2>2. \A k \in Earlier(m) : (Earlier(k)' = {} \/ At(k)' = At(Previous(k))')
                                <=> (Earlier(k) = {} \/ At(k) = At(Previous(k)))
    BY <1>1, <1>3, <2>1
  <2>3. Earlier(m)' = Earlier(m)
    BY <1>1
  <2> QED
    BY <2>2, <2>3 DEF SteadyBefore
<1>5. Settled(m)' = Settled(m)
  <2>0. SteadyBefore(m) \subseteq Readable
    BY <1>2 DEF SteadyBefore
  <2>1. PICK d \in SteadyBefore(m) : Settled(m) = At(d) /\ \A k \in SteadyBefore(m) : k <= d
    BY <1>0, <1>1, SteadyOnes
  <2>2. Earlier(m)' # {}
    BY <1>1
  <2>6. m \in Nat
    BY <1>1
  <2>7. Len(samples)' \in Nat /\ DOMAIN samples' = 1 .. Len(samples)'
    BY <1>0
  <2>3. PICK e \in SteadyBefore(m)' : Settled(m)' = At(e)' /\ \A k \in SteadyBefore(m)' : k <= e
    BY <2>2, <2>6, <2>7, SteadyOnesNext, Zenon
  <2>4. d \in Nat /\ e \in Nat /\ d \in Readable
    <3>1. e \in SteadyBefore(m)
      BY <1>4, Zenon
    <3>2. e \in Readable /\ d \in Readable
      BY <2>0, <3>1
    <3> QED
      BY <1>1, <3>2
  <2>5. d = e
    BY <1>4, <2>1, <2>3, <2>4
  <2> QED
    BY <1>1, <2>1, <2>3, <2>4, <2>5
<1> QED
  BY <1>3, <1>4, <1>5

(* What the poll to come has before it.                                     *)
LEMMA NextReading ==
  ASSUME NEW s, Sampled(s), s.ok, NEW n, n = Now
  PROVE  /\ n \in Nat /\ n > 1 /\ Now' = n + 1
         /\ At(n)' = s.value /\ Earlier(n)' = Earlier(n)
         /\ Earlier(n) # {} => /\ At(Previous(n))' = At(Previous(n)) /\ Settled(n)' = Settled(n)
                               /\ Earlier(Previous(n))' = Earlier(Previous(n))
                               /\ Previous(n) \in Readable
         /\ Earlier(n + 1)' = Earlier(n) \cup {n} /\ Earlier(n + 1)' # {}
         /\ At(Previous(n + 1))' = s.value /\ Earlier(Previous(n + 1))' = Earlier(n)
<1>1. /\ n \in Nat /\ n > 1 /\ Now' = n + 1 /\ At(n)' = s.value
      /\ \A m \in 1 .. n : Earlier(m)' = Earlier(m) /\ Previous(m)' = Previous(m)
      /\ Readable \subseteq 1 .. n - 1
  BY PastStays
<1>2. Earlier(n + 1)' = Earlier(n) \cup {n} /\ Previous(n + 1)' = n
  BY PastGrows
<1>3. n \in 1 .. n
  BY <1>1
<1>4. Earlier(n)' = Earlier(n)
  BY <1>1, <1>3
<1>5. ASSUME Earlier(n) # {}
      PROVE  /\ At(Previous(n))' = At(Previous(n)) /\ Settled(n)' = Settled(n)
             /\ Earlier(Previous(n))' = Earlier(Previous(n)) /\ Previous(n) \in Readable
  <2>1. /\ Previous(n) \in Readable /\ At(Previous(n))' = At(Previous(n)) /\ Settled(n)' = Settled(n)
    BY <1>3, <1>5, PastValues
  <2>0. Previous(n) \in 1 .. n - 1
    BY <1>1, <2>1
  <2>2. PICK p \in 1 .. n : p = Previous(n)
    <3> DEFINE q == Previous(n)
    <3>1. q \in 1 .. n - 1 /\ n \in Nat
      BY <1>1, <2>0
    <3> HIDE DEF q
    <3>2. q \in 1 .. n
      BY <3>1
    <3>3. \E p \in 1 .. n : p = q
      BY <3>2
    <3> QED
      BY <3>3 DEF q
  <2>3. Earlier(p)' = Earlier(p) /\ Previous(n)' = p
    BY <1>1, <1>3, <2>2
  <2>4. Earlier(Previous(n))' = Earlier(p)'
    BY <2>3 DEF Earlier
  <2> QED
    BY <2>1, <2>2, <2>3, <2>4
<1>6. At(Previous(n + 1))' = At(n)' /\ Earlier(Previous(n + 1))' = Earlier(n)'
  BY <1>2 DEF At, Earlier
<1> QED
  BY <1>1, <1>2, <1>4, <1>5, <1>6

(* The triggers there are, and what they can read.                          *)
SensorLike(c) ==
  /\ c.kind \in {"edge", "lock", "usage", "wifi", "clipboard", "items", "battery", "power"}
  /\ c.first = "off" => c.kind = "edge"
  /\ c.kind \in {"lock", "usage", "battery"} => c.first = "poll"
  /\ c.kind = "items" => c.first = "setup"
  /\ c.kind = "power" => c.target \in {"ac", "battery", "low", "resume"}
LEMMA SensorKinds == \A c \in Sensors : SensorLike(c)
<1> USE DEF Sensor, Edge, SensorLike
<1>1. \A c \in ProcessState \cup NetworkStatus \cup PathExists : SensorLike(c)
  BY DEF ProcessState, NetworkStatus, PathExists
<1>2. \A c \in TcpPort \cup FileContent \cup IdleDetect : SensorLike(c)
  BY DEF TcpPort, FileContent, IdleDetect
<1>3. \A c \in WindowTitle \cup AudioDevice \cup SessionLock \cup SystemResource : SensorLike(c)
  BY DEF WindowTitle, AudioDevice, SessionLock, SystemResource
<1>4. \A c \in WifiNetwork \cup Clipboard \cup UsbInsert \cup FolderMonitor : SensorLike(c)
  BY DEF WifiNetwork, Clipboard, UsbInsert, FolderMonitor
<1>5. \A c \in BatteryLevel \cup PowerState : SensorLike(c)
  BY DEF BatteryLevel, PowerState
<1> HIDE DEF Sensor, Edge, SensorLike
<1> QED
  BY <1>1, <1>2, <1>3, <1>4, <1>5 DEF Sensors

LEMMA SampleFacts ==
  ASSUME NEW kind, NEW aim, NEW s \in SamplesOf(kind, aim)
  PROVE  s.ok \in BOOLEAN /\ (s.ok => s.value \in Readings(kind, aim))
<1>1. ASSUME NEW x \in Readings(kind, aim), s = [ok |-> TRUE, value |-> x]
      PROVE  s.ok \in BOOLEAN /\ s.value \in Readings(kind, aim)
  BY <1>1
<1>2. ASSUME NEW resumed, s = [ok |-> FALSE, resumed |-> resumed]
      PROVE  s.ok = FALSE
  BY <1>2
<1>3. \/ \E x \in Readings(kind, aim) : s = [ok |-> TRUE, value |-> x]
      \/ \E resumed : s = [ok |-> FALSE, resumed |-> resumed]
  BY DEF SamplesOf, Read, Unreadable
<1> QED
  BY <1>1, <1>2, <1>3

LEMMA ReadingFacts ==
  ASSUME NEW kind, NEW aim, NEW x \in Readings(kind, aim)
  PROVE  /\ kind \in {"edge", "lock", "usage"} => x \in {"on", "off"}
         /\ kind = "items" => x \in SUBSET {"E:", "F:"}
         /\ kind = "battery" => x \in Nat
         /\ kind = "power" =>
              /\ x = [battery |-> x.battery, percent |-> x.percent, resumed |-> x.resumed]
              /\ x.battery \in BOOLEAN /\ x.percent \in Nat /\ x.resumed \in BOOLEAN
<1>1. CASE kind \in {"edge", "lock", "usage"}
  <2>1. Readings(kind, aim) = {"on", "off"}
    BY <1>1 DEF Readings, Edge
  <2> QED
    BY <1>1, <2>1
<1>2. CASE kind = "items"
  <2>1. Readings(kind, aim) = SUBSET {"E:", "F:"}
    BY <1>2 DEF Readings
  <2> QED
    BY <1>2, <2>1
<1>3. CASE kind = "battery"
  <2>1. Readings(kind, aim) =
          {Threshold, Threshold + 1, Threshold + Hysteresis, Threshold + Hysteresis + 1}
    BY <1>3 DEF Readings
  <2> QED
    BY <1>3, <2>1 DEF Threshold, Hysteresis
<1>4. CASE kind = "power"
  <2>1. \E percents, resumes : /\ percents \subseteq Nat /\ resumes \subseteq BOOLEAN
           /\ Readings(kind, aim) = [battery : BOOLEAN, percent : percents, resumed : resumes]
    <3> DEFINE percents == IF aim = "low" THEN {20, 25, 26} ELSE {50}
               resumes == IF aim = "resume" THEN BOOLEAN ELSE {FALSE}
    <3>1. percents \subseteq Nat
      OBVIOUS
    <3>3. resumes \subseteq BOOLEAN
      OBVIOUS
    <3>2. Readings(kind, aim) = [battery : BOOLEAN, percent : percents, resumed : resumes]
      BY <1>4 DEF Readings
    <3> QED
      BY <3>1, <3>2, <3>3
  <2>2. PICK percents, resumes : /\ percents \subseteq Nat /\ resumes \subseteq BOOLEAN
           /\ x \in [battery : BOOLEAN, percent : percents, resumed : resumes]
    BY <2>1
  <2> QED
    BY <1>4, <2>2
<1> QED
  BY <1>1, <1>2, <1>3, <1>4

(* What a poll that could read the state has to show for it.                *)
Counted(n) == IF sensor.kind = "items" THEN Cardinality(At(n) \ At(Previous(n))) ELSE 1
Reports(n, out) == Is(out) /\ Len(out) = IF Happened(n) THEN Counted(n) ELSE 0
Polls(n, s) ==
  /\ sensor \in Sensors /\ MemoryAt(n) /\ n = Now /\ Sampled(s) /\ s.ok
  /\ memory = Remembers(memory.known, memory.last, memory.pending, memory.armed)
  /\ memory.known \in BOOLEAN /\ memory.pending \in BOOLEAN /\ memory.armed \in BOOLEAN
  /\ sensor.first = "setup" => Earlier(n) # {}
  /\ s.value \in Readings(sensor.kind, sensor.target)
  /\ \A m \in Readable : At(m) \in Readings(sensor.kind, sensor.target)
  /\ UNCHANGED sensor /\ memory' = Polled(s.value).memory

LEMMA SendingOf ==
  ASSUME NEW C, NEW hit \in BOOLEAN, NEW what \in C
  PROVE  Sends(hit, what) \in Seq(C) /\ Len(Sends(hit, what)) = IF hit THEN 1 ELSE 0
<1>1. <<>> \in Seq(C) /\ Len(<<>>) = 0 /\ <<what>> \in Seq(C) /\ Len(<<what>>) = 1
  OBVIOUS
<1>2. CASE hit
  <2>1. Sends(hit, what) = <<what>>
    BY <1>2 DEF Sends
  <2>2. Sends(hit, what) \in Seq(C) /\ Len(Sends(hit, what)) = 1
    BY <1>1, <2>1, Zenon
  <2> QED
    BY <1>2, <2>2, Zenon
<1>3. CASE ~hit
  <2>1. Sends(hit, what) = <<>>
    BY <1>3 DEF Sends, Nothing
  <2>2. Sends(hit, what) \in Seq(C) /\ Len(Sends(hit, what)) = 0
    BY <1>1, <2>1, Zenon
  <2> QED
    BY <1>3, <2>2, Zenon
<1> QED
  BY <1>2, <1>3

LEMMA Sending ==
  ASSUME NEW hit \in BOOLEAN, NEW what
  PROVE  Is(Sends(hit, what)) /\ Len(Sends(hit, what)) = IF hit THEN 1 ELSE 0
<1>1. what \in {what}
  OBVIOUS
<1>2. Sends(hit, what) \in Seq({what}) /\ Len(Sends(hit, what)) = IF hit THEN 1 ELSE 0
  BY <1>1, SendingOf
<1>3. Is(Sends(hit, what))
  BY <1>2, Zenon DEF Is
<1> QED
  BY <1>2, <1>3

LEMMA EdgePolls ==
  ASSUME NEW s, NEW n, Polls(n, s), sensor.kind = "edge", NEW out, out = Polled(s.value).out
  PROVE  Reports(n, out)' /\ MemoryAt(n + 1)'
<1> DEFINE x == s.value
           t == sensor.target
           says == memory.known /\ x # memory.last /\ t \in {x, "changed"}
<1>1. Polled(x) = PollEdge(memory, x, t)
  BY DEF Polled
<1>2. memory' = Remember(memory, x) /\ out = Sends(says, x)
  BY <1>1 DEF Polls, PollEdge, Result
<1>3. /\ memory'.known = TRUE /\ memory'.last = x /\ memory'.pending = memory.pending
      /\ memory'.armed = memory.armed
  BY <1>2 DEF Remember, Remembers, Polls
<1>4. /\ memory.known <=> Earlier(n) # {} \/ sensor.first = "off"
      /\ memory.known => memory.last = IF Earlier(n) = {} THEN "off" ELSE At(Previous(n))
  BY DEF Polls, MemoryAt, Remembered
<1>5. Happened(n)' <=> says
  <2>1. CASE sensor.first = "off"
    <3>1. Happened(n)' <=> (IF Earlier(n) = {} THEN x = "on" ELSE x # At(Previous(n))) /\ t \in {x, "changed"}
      BY <2>1, NextReading DEF Happened, Changed, Polls
    <3>2. x \in {"on", "off"}
      BY ReadingFacts DEF Polls
    <3> QED
      BY <1>4, <2>1, <3>1, <3>2
  <2>2. CASE sensor.first # "off"
    <3>1. Happened(n)' <=> Earlier(n) # {} /\ x # At(Previous(n)) /\ t \in {x, "changed"}
      BY <2>2, NextReading DEF Happened, Changed, Polls
    <3> QED
      BY <1>4, <2>2, <3>1
  <2> QED
    BY <2>1, <2>2
<1>6. Reports(n, out)'
  BY <1>2, <1>5, Sending DEF Reports, Counted, Polls
<1>7. MemoryAt(n + 1)'
  BY <1>3, NextReading DEF Polls, MemoryAt, Remembered
<1> QED
  BY <1>6, <1>7

LEMMA UsagePolls ==
  ASSUME NEW s, NEW n, Polls(n, s), sensor.kind = "usage", NEW out, out = Polled(s.value).out
  PROVE  Reports(n, out)' /\ MemoryAt(n + 1)'
<1> DEFINE x == s.value
           says == memory.known /\ x = "on" /\ memory.last = "off"
<1>0. sensor.first # "off"
  BY SensorKinds DEF Polls, SensorLike
<1>1. Polled(x) = PollUsage(memory, x)
  BY DEF Polled
<1>2. /\ ~memory.known => memory' = Remember(memory, "off") /\ out = Nothing
      /\ memory.known => memory' = Remember(memory, x) /\ out = Sends(x = "on" /\ memory.last = "off", x)
  BY <1>1 DEF Polls, PollUsage, Result
<1>3. /\ memory'.known = TRUE /\ memory'.last = IF memory.known THEN x ELSE "off"
      /\ memory'.pending = memory.pending /\ memory'.armed = memory.armed
  BY <1>2 DEF Remember, Remembers, Polls
<1>4. /\ memory.known <=> Earlier(n) # {}
      /\ memory.known => memory.last = IF Earlier(Previous(n)) = {} THEN "off" ELSE At(Previous(n))
  BY <1>0 DEF Polls, MemoryAt, Remembered
<1>5. out = Sends(says, x)
  BY <1>2 DEF Sends, Nothing, Polls
<1>6. Happened(n)' <=> says
  <2>1. Happened(n)' <=> /\ Earlier(n) # {} /\ x = "on"
                         /\ x # At(Previous(n)) \/ Earlier(Previous(n)) = {}
    BY <1>0, NextReading DEF Happened, Changed, Polls
  <2>2. Earlier(n) # {} => At(Previous(n)) \in {"on", "off"}
    BY NextReading, ReadingFacts DEF Polls
  <2> QED
    BY <1>4, <2>1, <2>2
<1>7. Reports(n, out)'
  BY <1>5, <1>6, Sending DEF Reports, Counted, Polls
<1>8. MemoryAt(n + 1)'
  BY <1>3, <1>4, NextReading DEF Polls, MemoryAt, Remembered
<1> QED
  BY <1>7, <1>8

LEMMA WifiPolls ==
  ASSUME NEW s, NEW n, Polls(n, s), sensor.kind = "wifi", NEW out, out = Polled(s.value).out
  PROVE  Reports(n, out)' /\ MemoryAt(n + 1)'
<1> DEFINE x == s.value
           t == sensor.target
           fits == IF t = "connected" THEN x = "home"
                   ELSE IF t = "disconnected" THEN memory.last = "home" ELSE TRUE
           says == memory.known /\ x # memory.last /\ fits
<1>0. sensor.first # "off"
  BY SensorKinds DEF Polls, SensorLike
<1>1. Polled(x) = PollWifi(memory, x, t)
  BY DEF Polled
<1>2. memory' = Remember(memory, x) /\ out = Sends(says, x)
  BY <1>1 DEF Polls, PollWifi, Result
<1>3. /\ memory'.known = TRUE /\ memory'.last = x /\ memory'.pending = memory.pending
      /\ memory'.armed = memory.armed
  BY <1>2 DEF Remember, Remembers, Polls
<1>4. (memory.known <=> Earlier(n) # {}) /\ (memory.known => memory.last = At(Previous(n)))
  BY <1>0 DEF Polls, MemoryAt, Remembered
<1>5. Happened(n)' <=> says
  <2>1. Happened(n)' <=> /\ Earlier(n) # {} /\ x # At(Previous(n))
                         /\ IF t = "connected" THEN x = "home"
                            ELSE IF t = "disconnected" THEN At(Previous(n)) = "home" ELSE TRUE
    BY <1>0, NextReading DEF Happened, Changed, Polls
  <2> QED
    BY <1>4, <2>1
<1>6. Reports(n, out)'
  BY <1>2, <1>5, Sending DEF Reports, Counted, Polls
<1>7. MemoryAt(n + 1)'
  BY <1>3, NextReading DEF Polls, MemoryAt, Remembered
<1> QED
  BY <1>6, <1>7

LEMMA ClipboardPolls ==
  ASSUME NEW s, NEW n, Polls(n, s), sensor.kind = "clipboard", NEW out, out = Polled(s.value).out
  PROVE  Reports(n, out)' /\ MemoryAt(n + 1)'
<1> DEFINE x == s.value
           t == sensor.target
           says == (~memory.known \/ x # memory.last) /\ t \in {x, "any"}
<1>0. sensor.first # "off"
  BY SensorKinds DEF Polls, SensorLike
<1>1. Polled(x) = PollClipboard(memory, x, t)
  BY DEF Polled
<1>2. memory' = Remember(memory, x) /\ out = Sends(says, x)
  BY <1>1 DEF Polls, PollClipboard, Result
<1>3. /\ memory'.known = TRUE /\ memory'.last = x /\ memory'.pending = memory.pending
      /\ memory'.armed = memory.armed
  BY <1>2 DEF Remember, Remembers, Polls
<1>4. (memory.known <=> Earlier(n) # {}) /\ (memory.known => memory.last = At(Previous(n)))
  BY <1>0 DEF Polls, MemoryAt, Remembered
<1>5. Happened(n)' <=> says
  <2>1. Happened(n)' <=> (Earlier(n) = {} \/ x # At(Previous(n))) /\ t \in {x, "any"}
    BY <1>0, NextReading DEF Happened, Changed, Polls
  <2> QED
    BY <1>4, <2>1
<1>6. Reports(n, out)'
  BY <1>2, <1>5, Sending DEF Reports, Counted, Polls
<1>7. MemoryAt(n + 1)'
  BY <1>3, NextReading DEF Polls, MemoryAt, Remembered
<1> QED
  BY <1>6, <1>7

(* Each item that was not there before is one event.                        *)
LEMMA ItemsPolls ==
  ASSUME NEW s, NEW n, Polls(n, s), sensor.kind = "items", NEW out, out = Polled(s.value).out
  PROVE  Reports(n, out)' /\ MemoryAt(n + 1)'
<1> DEFINE x == s.value
           new == x \ memory.last
           E == Sends("E:" \in new, "E:")
           F == Sends("F:" \in new, "F:")
<1>0. sensor.first = "setup" /\ Earlier(n) # {}
  BY SensorKinds DEF Polls, SensorLike
<1>1. Polled(x) = PollItems(memory, x)
  BY DEF Polled
<1>2. memory' = Remember(memory, x) /\ out = E \o F
  BY <1>1 DEF Polls, PollItems, Result
<1>3. /\ memory'.known = TRUE /\ memory'.last = x /\ memory'.pending = memory.pending
      /\ memory'.armed = memory.armed
  BY <1>2 DEF Remember, Remembers, Polls
<1>4. memory.last = At(Previous(n))
  BY <1>0 DEF Polls, MemoryAt, Remembered
<1>5. new \in SUBSET {"E:", "F:"}
  BY ReadingFacts DEF Polls
<1>6. Is(out) /\ Len(out) = Cardinality(new)
  <2>1. "E:" \in {"E:", "F:"} /\ "F:" \in {"E:", "F:"}
    OBVIOUS
  <2>2. ("E:" \in new) \in BOOLEAN /\ ("F:" \in new) \in BOOLEAN
    OBVIOUS
  <2>4. /\ E \in Seq({"E:", "F:"}) /\ Len(E) = (IF "E:" \in new THEN 1 ELSE 0)
        /\ F \in Seq({"E:", "F:"}) /\ Len(F) = (IF "F:" \in new THEN 1 ELSE 0)
    BY <2>1, <2>2, SendingOf
  <2>3. E \o F \in Seq({"E:", "F:"}) /\ Len(E \o F) = Len(E) + Len(F)
    <3> HIDE DEF E, F
    <3> QED
      BY <2>4, ConcatProperties
  <2>5. Cardinality(new) = (IF "E:" \in new THEN 1 ELSE 0) + (IF "F:" \in new THEN 1 ELSE 0)
    <3>1. new = {} \/ new = {"E:"} \/ new = {"F:"} \/ new = {"E:", "F:"}
      BY <1>5
    <3>2. /\ Cardinality({}) = 0 /\ Cardinality({"E:"}) = 1 /\ Cardinality({"F:"}) = 1
          /\ Cardinality({"E:", "F:"}) = 2
      <4>1. Cardinality({}) = 0 /\ IsFiniteSet({"E:"}) /\ Cardinality({"E:"}) = 1 /\ Cardinality({"F:"}) = 1
        BY FS_EmptySet, FS_Singleton
      <4>2. {"E:", "F:"} = {"E:"} \cup {"F:"} /\ "F:" \notin {"E:"}
        OBVIOUS
      <4>3. Cardinality({"E:"} \cup {"F:"}) = Cardinality({"E:"}) + 1
        BY <4>1, <4>2, FS_AddElement
      <4> QED
        BY <4>1, <4>2, <4>3
    <3> HIDE DEF new
    <3> QED
      BY <3>1, <3>2
  <2>6. Is(out)
    BY <1>2, <2>3, Zenon DEF Is
  <2> QED
    BY <1>2, <2>3, <2>4, <2>5, <2>6
<1>7. Counted(n)' = Cardinality(new) /\ (Happened(n)' <=> new # {})
  <2>1. (At(n) \ At(Previous(n)))' = new
    BY <1>0, <1>4, NextReading DEF Polls
  <2>2. Counted(n)' = Cardinality((At(n) \ At(Previous(n)))')
    BY DEF Counted, Polls
  <2>3. Happened(n)' <=> (At(n) \ At(Previous(n)))' # {}
    BY <1>0 DEF Happened, Polls
  <2> QED
    BY <2>1, <2>2, <2>3
<1>8. Reports(n, out)'
  BY <1>6, <1>7, FS_EmptySet DEF Reports
<1>9. MemoryAt(n + 1)'
  BY <1>0, <1>3, NextReading DEF Polls, MemoryAt, Remembered
<1> QED
  BY <1>8, <1>9

(* A lock settles on a state that is its first or was read twice in a row.  *)
LEMMA SettledNext ==
  ASSUME NEW s, Sampled(s), s.ok, NEW n, n = Now
  PROVE  Settled(n + 1)' = IF Earlier(n) = {} \/ s.value = At(Previous(n)) THEN s.value ELSE Settled(n)
<1> DEFINE fits == Earlier(n) = {} \/ s.value = At(Previous(n))
<1>0. /\ Len(samples) \in Nat /\ DOMAIN samples = 1 .. Len(samples)
      /\ Len(samples)' \in Nat /\ DOMAIN samples' = 1 .. Len(samples)'
  BY DEF Sampled
<1>1. /\ n \in Nat /\ n > 1 /\ At(n)' = s.value /\ Earlier(n + 1)' = Earlier(n) \cup {n}
      /\ Earlier(n)' = Earlier(n) /\ (Earlier(n) # {} => At(Previous(n))' = At(Previous(n)))
  BY NextReading
<1>2. /\ \A m \in 1 .. n : Earlier(m)' = Earlier(m)
      /\ \A m \in Readable : At(m)' = At(m)
      /\ Earlier(n) = Readable /\ Readable \subseteq 1 .. n - 1
  BY PastStays
<1>3. \A m \in 1 .. n : Earlier(m) # {} => At(Previous(m))' = At(Previous(m))
  BY PastValues
<1>4. SteadyBefore(n + 1)' = SteadyBefore(n) \cup (IF fits THEN {n} ELSE {})
  <2>1. ASSUME NEW m \in Readable
        PROVE  (Earlier(m)' = {} \/ At(m)' = At(Previous(m))') <=> (Earlier(m) = {} \/ At(m) = At(Previous(m)))
    <3>1. m \in 1 .. n
      BY <1>1, <1>2
    <3> QED
      BY <1>2, <1>3, <3>1
  <2>2. (Earlier(n)' = {} \/ At(n)' = At(Previous(n))') <=> fits
    BY <1>1
  <2>3. SteadyBefore(n + 1)' =
          {m \in Earlier(n) \cup {n} : Earlier(m)' = {} \/ At(m)' = At(Previous(m))'}
    BY <1>1 DEF SteadyBefore
  <2>4. SteadyBefore(n) = {m \in Earlier(n) : Earlier(m) = {} \/ At(m) = At(Previous(m))}
    BY DEF SteadyBefore
  <2> DEFINE Old(m) == Earlier(m) = {} \/ At(m) = At(Previous(m))
             New(m) == Earlier(m)' = {} \/ At(m)' = At(Previous(m))'
  <2>5. /\ SteadyBefore(n + 1)' = {m \in Readable \cup {n} : New(m)}
        /\ SteadyBefore(n) = {m \in Readable : Old(m)}
        /\ \A m \in Readable : New(m) <=> Old(m)
        /\ New(n) <=> fits
    BY <1>2, <2>1, <2>2, <2>3, <2>4
  <2> HIDE DEF fits, Old, New
  <2>6. ASSUME NEW k
        PROVE  k \in SteadyBefore(n + 1)' <=> k \in SteadyBefore(n) \cup (IF fits THEN {n} ELSE {})
    <3>1. k \in SteadyBefore(n + 1)' <=> (k \in Readable \/ k = n) /\ New(k)
      BY <2>5
    <3>2. k \in SteadyBefore(n) <=> k \in Readable /\ Old(k)
      BY <2>5
    <3> QED
      BY <2>5, <3>1, <3>2
  <2> DEFINE L == SteadyBefore(n + 1)'
             R == SteadyBefore(n) \cup (IF fits THEN {n} ELSE {})
  <2>7. \A k : k \in L <=> k \in R
    BY <2>6, Zenon
  <2> HIDE DEF L, R
  <2>8. L = R
    BY <2>7
  <2> QED
    BY <2>8 DEF L, R
<1>5. SteadyBefore(n) \subseteq Readable /\ \A k \in SteadyBefore(n) : k \in Nat /\ k < n
  <2>1. \A k \in Readable : k \in Nat /\ k < n
    BY <1>1, <1>2
  <2> QED
    BY <1>2, <2>1 DEF SteadyBefore
<1>6. PICK e \in SteadyBefore(n + 1)' : Settled(n + 1)' = At(e)' /\ \A k \in SteadyBefore(n + 1)' : k <= e
  <2>1. n + 1 \in Nat /\ Earlier(n + 1)' # {}
    BY <1>1
  <2> QED
    BY <1>0, <2>1, SteadyOnesNext
<1>7. CASE fits
  <2>1. n \in SteadyBefore(n + 1)'
    BY <1>4, <1>7
  <2>2. n <= e /\ (e \in SteadyBefore(n) \/ e = n)
    BY <1>4, <1>6, <1>7, <2>1
  <2>3. e = n
    BY <1>1, <1>5, <2>2
  <2> QED
    BY <1>1, <1>6, <1>7, <2>3
<1>8. CASE ~fits
  <2>1. SteadyBefore(n + 1)' = SteadyBefore(n)
    BY <1>4, <1>8
  <2>2. PICK d \in SteadyBefore(n) : Settled(n) = At(d) /\ \A k \in SteadyBefore(n) : k <= d
    BY <1>0, <1>1, <1>8, SteadyOnes
  <2>3. e \in SteadyBefore(n) /\ d <= e /\ e <= d
    BY <1>6, <2>1, <2>2
  <2>4. d = e /\ d \in Readable
    BY <1>5, <2>2, <2>3
  <2>5. At(d)' = At(d)
    BY <1>2, <2>4
  <2> QED
    BY <1>6, <1>8, <2>2, <2>4, <2>5
<1> QED
  BY <1>7, <1>8

LEMMA LockPolls ==
  ASSUME NEW s, NEW n, Polls(n, s), sensor.kind = "lock", NEW out, out = Polled(s.value).out
  PROVE  Reports(n, out)' /\ MemoryAt(n + 1)'
<1> DEFINE x == s.value
           t == sensor.target
           says == memory.known /\ x # memory.last /\ memory.pending /\ t \in {x, "changed"}
<1>0. sensor.first # "off"
  BY SensorKinds DEF Polls, SensorLike
<1>1. Polled(x) = PollLock(memory, x, t)
  BY DEF Polled
<1>2. memory = Remembers(memory.known, memory.last, memory.pending, memory.armed)
      /\ memory.known \in BOOLEAN /\ memory.pending \in BOOLEAN
  BY DEF Polls
<1>3. out = Sends(says, x)
  <2>1. out = PollLock(memory, x, t).out
    BY <1>1
  <2>2. CASE ~memory.known
    BY <2>1, <2>2 DEF PollLock, Result, Nothing, Sends
  <2>3. CASE memory.known /\ x = memory.last
    BY <2>1, <2>3 DEF PollLock, Result, Nothing, Sends
  <2>4. CASE memory.known /\ x # memory.last /\ memory.pending
    BY <2>1, <2>4 DEF PollLock, Result, Nothing, Sends
  <2>5. CASE memory.known /\ x # memory.last /\ ~memory.pending
    BY <2>1, <2>5 DEF PollLock, Result, Nothing, Sends
  <2> QED
    BY <1>2, <2>2, <2>3, <2>4, <2>5
<1>4. /\ memory'.known = TRUE
      /\ memory'.last = IF memory.known /\ ~memory.pending THEN memory.last ELSE
                        IF memory.known /\ x = memory.last THEN memory.last ELSE x
      /\ memory'.pending = IF ~memory.known THEN memory.pending
                           ELSE x # memory.last /\ ~memory.pending
  <2>1. memory' = PollLock(memory, x, t).memory
    BY <1>1 DEF Polls
  <2>2. CASE ~memory.known
    <3>1. memory' = Remember(memory, x)
      BY <2>1, <2>2 DEF PollLock, Result
    <3> QED
      BY <1>2, <2>2, <3>1 DEF Remember, Remembers
  <2>3. CASE memory.known /\ x = memory.last
    <3>1. memory' = [memory EXCEPT !.pending = FALSE]
      BY <2>1, <2>3 DEF PollLock, Result
    <3> QED
      BY <1>2, <2>3, <3>1 DEF Remembers
  <2>4. CASE memory.known /\ x # memory.last /\ memory.pending
    <3>1. memory' = [Remember(memory, x) EXCEPT !.pending = FALSE]
      BY <2>1, <2>4 DEF PollLock, Result
    <3> QED
      BY <1>2, <2>4, <3>1 DEF Remember, Remembers
  <2>5. CASE memory.known /\ x # memory.last /\ ~memory.pending
    <3>1. memory' = [memory EXCEPT !.pending = TRUE]
      BY <2>1, <2>5 DEF PollLock, Result
    <3> QED
      BY <1>2, <2>5, <3>1 DEF Remembers
  <2> QED
    BY <1>2, <2>2, <2>3, <2>4, <2>5
<1>5. /\ memory.known <=> Earlier(n) # {}
      /\ memory.known => memory.last = Settled(n)
      /\ memory.pending <=> memory.known /\ At(Previous(n)) # memory.last
  BY <1>0 DEF Polls, MemoryAt, Remembered
<1>6. /\ x \in {"on", "off"}
      /\ memory.known => At(Previous(n)) \in {"on", "off"} /\ memory.last \in {"on", "off"}
  <2>1. \A m \in Readable : At(m) \in {"on", "off"}
    BY ReadingFacts DEF Polls
  <2>2. ASSUME memory.known PROVE At(Previous(n)) \in {"on", "off"} /\ Settled(n) \in {"on", "off"}
    <3>1. Previous(n) \in Readable
      BY <1>5, <2>2, NextReading DEF Polls
    <3>2. n \in Nat
      BY NextReading DEF Polls
    <3>3. PICK d \in SteadyBefore(n) : Settled(n) = At(d)
      BY <1>5, <2>2, <3>2, SteadyOnes DEF Polls, Sampled
    <3>4. d \in Readable
      BY <3>3 DEF SteadyBefore, Earlier
    <3> QED
      BY <2>1, <3>1, <3>3, <3>4
  <2> QED
    BY <1>5, <2>2, ReadingFacts DEF Polls
<1>7. Happened(n)' <=> says
  <2>1. Happened(n)' <=> /\ Earlier(n) # {} /\ x = At(Previous(n)) /\ x # Settled(n)
                         /\ t \in {x, "changed"}
    BY <1>0, NextReading DEF Happened, Polls
  <2> QED
    BY <1>5, <1>6, <2>1
<1>8. Reports(n, out)'
  BY <1>3, <1>7, Sending DEF Reports, Counted, Polls
<1>9. MemoryAt(n + 1)'
  <2>1. /\ Earlier(n + 1)' # {} /\ At(Previous(n + 1))' = x /\ sensor' = sensor
        /\ Settled(n + 1)' = IF Earlier(n) = {} \/ x = At(Previous(n)) THEN x ELSE Settled(n)
    BY NextReading, SettledNext DEF Polls
  <2>2. memory'.last = Settled(n + 1)'
    BY <1>4, <1>5, <1>6, <2>1
  <2>3. memory'.pending <=> At(Previous(n + 1))' # memory'.last
    BY <1>4, <1>5, <1>6, <2>1
  <2> QED
    BY <1>4, <2>1, <2>2, <2>3 DEF MemoryAt, Remembered
<1> QED
  BY <1>8, <1>9

LEMMA BatteryPolls ==
  ASSUME NEW s, NEW n, Polls(n, s), sensor.kind = "battery", NEW out, out = Polled(s.value).out
  PROVE  Reports(n, out)' /\ MemoryAt(n + 1)'
<1> DEFINE x == s.value
           says == memory.armed /\ x <= Threshold
           allowed == IF memory.armed THEN x > Threshold ELSE x > Threshold + Hysteresis
<1> USE DEF Threshold, Hysteresis
<1>0. sensor.first # "off"
  BY SensorKinds DEF Polls, SensorLike
<1>1. Polled(x) = PollBattery(memory, x)
  BY DEF Polled
<1>2. memory' = [memory EXCEPT !.armed = allowed] /\ out = Sends(says, "low")
  BY <1>1 DEF Polls, PollBattery, Result
<1>3. memory'.armed = allowed
  BY <1>2 DEF Remembers, Polls
<1>4. memory.armed <=> BatteryRecovered(n)
  BY DEF Polls, MemoryAt
<1>5. /\ x \in Nat /\ n \in Nat /\ n > 1 /\ Readable \subseteq 1 .. n - 1
      /\ \A m \in Readable : At(m) \in Nat /\ At(m)' = At(m)
      /\ Earlier(n) = Readable /\ Earlier(n)' = Readable /\ At(n)' = x
      /\ Earlier(n + 1)' = Readable \cup {n} /\ n \notin Readable
  <2>1. /\ n \in Nat /\ n > 1 /\ Readable \subseteq 1 .. n - 1 /\ At(n)' = x
        /\ \A m \in Readable : At(m)' = At(m)
        /\ Earlier(n) = Readable
    BY PastStays DEF Polls
  <2>2. Earlier(n)' = Readable /\ Earlier(n + 1)' = Readable \cup {n}
    BY <2>1, NextReading DEF Polls
  <2>3. x \in Nat /\ \A m \in Readable : At(m) \in Nat
    BY ReadingFacts DEF Polls
  <2>4. n \notin Readable
    BY <2>1
  <2> QED
    BY <2>1, <2>2, <2>3, <2>4
<1>6. BatteryRecovered(n) <=>
        \A m \in Readable : At(m) <= 20 => \E k \in Readable : k > m /\ At(k) > 20 + 5
  BY <1>5 DEF BatteryRecovered
<1>7. Happened(n)' <=> says
  <2>1. Happened(n)' <=> /\ x <= 20
                         /\ \A m \in Earlier(n)' : At(m)' <= 20 =>
                              \E k \in Earlier(n)' : k > m /\ At(k)' > 20 + 5
    BY <1>0, <1>5 DEF Happened, Alarm, Polls
  <2>2. (\A m \in Earlier(n)' : At(m)' <= 20 => \E k \in Earlier(n)' : k > m /\ At(k)' > 20 + 5)
          <=> BatteryRecovered(n)
    BY <1>5, <1>6
  <2> QED
    BY <1>4, <2>1, <2>2
<1>8. says \in BOOLEAN
  BY <1>5 DEF Polls
<1>9. Reports(n, out)'
  BY <1>2, <1>7, <1>8, Sending DEF Reports, Counted, Polls
<1>10. BatteryRecovered(n + 1)' <=> allowed
  <2>1. BatteryRecovered(n + 1)' <=>
          \A m \in Readable \cup {n} : At(m)' <= 20 =>
            \E k \in Readable \cup {n} : k > m /\ At(k)' > 20 + 5
    BY <1>5 DEF BatteryRecovered
  <2>2. \A m \in Readable : n > m /\ ~(m > n)
    BY <1>5
  <2>3. CASE x <= 20
    <3>1. ~(\E k \in Readable \cup {n} : k > n /\ At(k)' > 20 + 5)
      BY <1>5, <2>2
    <3>2. ~BatteryRecovered(n + 1)'
      BY <1>5, <2>1, <2>3, <3>1
    <3> QED
      BY <1>5, <2>3, <3>2
  <2>4. CASE x > 20 + 5
    <3>1. BatteryRecovered(n + 1)'
      BY <1>5, <2>1, <2>2, <2>4
    <3> QED
      BY <1>5, <2>4, <3>1
  <2>5. CASE x > 20 /\ ~(x > 20 + 5)
    <3>1. BatteryRecovered(n + 1)' <=> BatteryRecovered(n)
      BY <1>5, <1>6, <2>1, <2>2, <2>5
    <3> QED
      BY <1>4, <2>5, <3>1
  <2> QED
    BY <1>5, <2>3, <2>4, <2>5
<1>11. MemoryAt(n + 1)'
  BY <1>3, <1>10 DEF Polls, MemoryAt
<1> QED
  BY <1>9, <1>11

(* At most one of the three reports of power_state is asked for.            *)
LEMMA OneOfThree ==
  ASSUME NEW resume \in BOOLEAN, NEW change \in BOOLEAN, NEW low \in BOOLEAN, NEW now,
         ~(resume /\ change), ~(resume /\ low), ~(change /\ low),
         NEW out, out = Sends(resume, "resume") \o Sends(change, now) \o Sends(low, "low")
  PROVE  Is(out) /\ Len(out) = IF resume \/ change \/ low THEN 1 ELSE 0
<1> DEFINE C == {"resume", "low", now}
           A == Sends(resume, "resume")
           B == Sends(change, now)
           D == Sends(low, "low")
<1>1. /\ A \in Seq(C) /\ Len(A) = (IF resume THEN 1 ELSE 0)
      /\ B \in Seq(C) /\ Len(B) = (IF change THEN 1 ELSE 0)
      /\ D \in Seq(C) /\ Len(D) = (IF low THEN 1 ELSE 0)
  <2>1. "resume" \in C /\ now \in C /\ "low" \in C
    OBVIOUS
  <2> HIDE DEF C
  <2> QED
    BY <2>1, SendingOf
<1>2. out = A \o B \o D
  OBVIOUS
<1> HIDE DEF A, B, C, D
<1>3. A \o B \in Seq(C) /\ Len(A \o B) = Len(A) + Len(B)
  BY <1>1, ConcatProperties
<1>4. out \in Seq(C) /\ Len(out) = Len(A \o B) + Len(D)
  BY <1>1, <1>2, <1>3, ConcatProperties
<1>5. Is(out)
  BY <1>4, Zenon DEF Is
<1> QED
  BY <1>1, <1>3, <1>4, <1>5

LEMMA PowerPolls ==
  ASSUME NEW s, NEW n, Polls(n, s), sensor.kind = "power", NEW out, out = Polled(s.value).out
  PROVE  Reports(n, out)' /\ MemoryAt(n + 1)'
<1> DEFINE x == s.value
           t == sensor.target
           low == x.battery /\ x.percent <= 20
           over == ~x.battery \/ x.percent > 25
           now == IF x.battery THEN "battery" ELSE "ac"
           resume == x.resumed /\ t = "resume"
           change == memory.known /\ x.battery # memory.last /\ t = now
           warns == memory.known /\ low /\ memory.armed /\ t = "low"
           allowed == IF ~memory.known THEN memory.armed
                      ELSE IF warns THEN FALSE ELSE memory.armed \/ over
<1>0. sensor.first # "off" /\ t \in {"ac", "battery", "low", "resume"}
  BY SensorKinds DEF Polls, SensorLike
<1>1. Polled(x) = PollPower(memory, x, t)
  BY DEF Polled
<1>2. /\ memory = Remembers(memory.known, memory.last, memory.pending, memory.armed)
      /\ memory.known \in BOOLEAN /\ memory.armed \in BOOLEAN
  BY DEF Polls
<1>3. x.battery \in BOOLEAN /\ x.percent \in Nat /\ x.resumed \in BOOLEAN
  BY ReadingFacts DEF Polls
<1>4. /\ ~memory.known =>
           memory' = Remember(memory, x.battery) /\ out = Sends(resume, "resume")
      /\ memory.known =>
           /\ memory' = [Remember(memory, x.battery) EXCEPT !.armed =
                           IF low /\ memory.armed /\ t = "low" THEN FALSE ELSE memory.armed \/ over]
           /\ out = Sends(resume, "resume") \o Sends(x.battery # memory.last /\ t = now, now)
                      \o Sends(low /\ memory.armed /\ t = "low", "low")
  BY <1>1 DEF Polls, PollPower, Result
<1>5. memory'.known = TRUE /\ memory'.last = x.battery
  BY <1>2, <1>4 DEF Remember, Remembers
<1>6. memory'.armed = allowed
  <2>1. CASE memory.known
    <3>1. warns <=> low /\ memory.armed /\ t = "low"
      BY <2>1
    <3>2. memory'.armed = IF low /\ memory.armed /\ t = "low" THEN FALSE ELSE memory.armed \/ over
      BY <1>2, <1>4, <2>1 DEF Remember, Remembers
    <3> QED
      BY <2>1, <3>1, <3>2
  <2>2. CASE ~memory.known
    BY <1>2, <1>4, <2>2 DEF Remember, Remembers
  <2> QED
    BY <1>2, <2>1, <2>2
<1>7. /\ memory.known <=> Earlier(n) # {}
      /\ memory.known => memory.last = At(Previous(n)).battery
      /\ memory.armed <=> (t = "low" => PowerRecovered(n))
  BY <1>0 DEF Polls, MemoryAt, Remembered
<1>8. /\ n \in Nat /\ n > 1 /\ Readable \subseteq 1 .. n - 1
      /\ \A m \in Readable : At(m)' = At(m) /\ Earlier(m)' = Earlier(m)
                             /\ At(m).percent \in Nat /\ At(m).battery \in BOOLEAN
      /\ Earlier(n) = Readable /\ Earlier(n)' = Readable /\ At(n)' = x
      /\ Earlier(n + 1)' = Readable \cup {n} /\ n \notin Readable
  <2>1. /\ n \in Nat /\ n > 1 /\ Readable \subseteq 1 .. n - 1 /\ At(n)' = x
        /\ \A m \in Readable : At(m)' = At(m)
        /\ \A m \in 1 .. n : Earlier(m)' = Earlier(m)
        /\ Earlier(n) = Readable
    BY PastStays DEF Polls
  <2>2. Earlier(n)' = Readable /\ Earlier(n + 1)' = Readable \cup {n}
    BY <2>1, NextReading DEF Polls
  <2>3. \A m \in Readable : At(m).percent \in Nat /\ At(m).battery \in BOOLEAN
    BY ReadingFacts DEF Polls
  <2>4. n \notin Readable /\ \A m \in Readable : m \in 1 .. n
    BY <2>1
  <2> QED
    BY <2>1, <2>2, <2>3, <2>4
<1>9. PowerRecovered(n) <=>
        \A m \in Readable : Earlier(m) # {} /\ At(m).battery /\ At(m).percent <= 20 =>
          \E k \in Readable : k > m /\ (~At(k).battery \/ At(k).percent > 25)
  BY <1>8 DEF PowerRecovered
<1>10. Happened(n)' <=> resume \/ change \/ warns
  <2>1. CASE t = "resume"
    BY <1>0, <1>3, <1>8, <2>1 DEF Happened, Polls
  <2>2. CASE t = "low"
    <3>1. Happened(n)' <=>
            /\ Earlier(n)' # {} /\ low
            /\ \A m \in Earlier(n)' \ {k \in Readable' : Earlier(k)' = {}} :
                 At(m)'.battery /\ At(m)'.percent <= 20 =>
                   \E k \in Earlier(n)' : k > m /\ (~At(k)'.battery \/ At(k)'.percent > 25)
      BY <1>0, <1>8, <2>2 DEF Happened, Polls
    <3>2. Earlier(n)' \ {k \in Readable' : Earlier(k)' = {}} = {m \in Readable : Earlier(m) # {}}
      <4>1. Readable \subseteq Readable'
        BY PastStays DEF Polls
      <4> QED
        BY <1>8, <4>1
    <3>3. Happened(n)' <=> Earlier(n) # {} /\ low /\ PowerRecovered(n)
      BY <1>8, <1>9, <3>1, <3>2
    <3> QED
      BY <1>7, <2>2, <3>3
  <2>3. CASE t \in {"ac", "battery"}
    <3>1. Happened(n)' <=>
            /\ Earlier(n)' # {} /\ x.battery = (t = "battery")
            /\ At(Previous(n))'.battery # x.battery
      BY <1>0, <1>8, <2>3 DEF Happened, Polls
    <3>2. t = now <=> x.battery = (t = "battery")
      BY <1>3, <2>3
    <3>3. Earlier(n) # {} => At(Previous(n))' = At(Previous(n))
      BY NextReading DEF Polls
    <3> QED
      BY <1>7, <1>8, <2>3, <3>1, <3>2, <3>3
  <2> QED
    BY <1>0, <2>1, <2>2, <2>3
<1>11. Reports(n, out)'
  <2>1. /\ resume \in BOOLEAN /\ change \in BOOLEAN /\ warns \in BOOLEAN
        /\ ~(resume /\ change) /\ ~(resume /\ warns) /\ ~(change /\ warns)
    BY <1>2, <1>3
  <2>2. Is(out) /\ Len(out) = IF resume \/ change \/ warns THEN 1 ELSE 0
    <3>1. CASE memory.known
      <4>1. /\ (x.battery # memory.last /\ t = now) = change
            /\ (low /\ memory.armed /\ t = "low") = warns
        BY <1>2, <1>3, <3>1
      <4>2. out = Sends(resume, "resume") \o Sends(change, now) \o Sends(warns, "low")
        BY <1>4, <3>1, <4>1
      <4> HIDE DEF resume, change, warns, now
      <4> QED
        BY <2>1, <4>2, OneOfThree
    <3>2. CASE ~memory.known
      <4>1. out = Sends(resume, "resume") /\ ~change /\ ~warns
        BY <1>4, <3>2
      <4> HIDE DEF resume, change, warns
      <4> QED
        BY <2>1, <4>1, Sending
    <3> QED
      BY <1>2, <3>1, <3>2
  <2>3. Counted(n)' = 1
    BY DEF Counted, Polls
  <2> HIDE DEF resume, change, warns
  <2> QED
    BY <1>10, <2>2, <2>3 DEF Reports
<1>12. memory'.armed <=> (t = "low" => PowerRecovered(n + 1)')
  <2>1. PowerRecovered(n + 1)' <=>
          \A m \in Readable \cup {n} :
             Earlier(m)' # {} /\ At(m)'.battery /\ At(m)'.percent <= 20 =>
               \E k \in Readable \cup {n} : k > m /\ (~At(k)'.battery \/ At(k)'.percent > 25)
    BY <1>8 DEF PowerRecovered
  <2>2. \A m \in Readable : n > m /\ ~(m > n)
    BY <1>8
  <2>3. CASE Earlier(n) = {}
    <3>1. PowerRecovered(n) /\ PowerRecovered(n + 1)'
      BY <1>8, <1>9, <2>1, <2>3
    <3> QED
      BY <1>2, <1>6, <1>7, <2>3, <3>1
  <2>4. CASE Earlier(n) # {} /\ low
    <3>0. ~(n > n) /\ \A k \in Readable \cup {n} : ~(k > n)
      BY <1>8, <2>2
    <3>1. ~(\E k \in Readable \cup {n} : k > n /\ (~At(k)'.battery \/ At(k)'.percent > 25))
      BY <3>0, Zenon
    <3>2. ~PowerRecovered(n + 1)'
      BY <1>8, <2>1, <2>4, <3>1
    <3>3. ~over
      BY <1>3, <2>4
    <3>4. memory'.armed <=> memory.armed /\ t # "low"
      BY <1>2, <1>6, <1>7, <2>4, <3>3
    <3> QED
      BY <1>7, <3>2, <3>4
  <2>5. CASE Earlier(n) # {} /\ over
    <3>1. PowerRecovered(n + 1)'
      BY <1>3, <1>8, <2>1, <2>2, <2>5
    <3>2. ~low
      BY <1>3, <2>5
    <3> QED
      BY <1>2, <1>6, <1>7, <2>5, <3>1, <3>2
  <2>6. CASE Earlier(n) # {} /\ ~low /\ ~over
    <3>1. PowerRecovered(n + 1)' <=> PowerRecovered(n)
      BY <1>3, <1>8, <1>9, <2>1, <2>2, <2>6
    <3> QED
      BY <1>2, <1>6, <1>7, <2>6, <3>1
  <2> QED
    BY <2>3, <2>4, <2>5, <2>6
<1>13. MemoryAt(n + 1)'
  <2>1. /\ Earlier(n + 1)' # {} /\ At(Previous(n + 1))' = x /\ sensor' = sensor
    BY NextReading DEF Polls
  <2>2. Remembered(n + 1)' = x.battery
    BY <2>1 DEF Remembered
  <2> QED
    BY <1>5, <1>12, <2>1, <2>2 DEF MemoryAt
<1> QED
  BY <1>11, <1>13

(* A poll that could not read the state leaves everything as it was.        *)
LEMMA UnreadablePoll ==
  ASSUME NEW s, Sampled(s), ~s.ok, NEW n, n = Now, MemoryAt(n), sensor \in Sensors,
         UNCHANGED <<sensor, memory>>
  PROVE  MemoryAt(n + 1)'
<1>1. /\ Earlier(n + 1)' = Earlier(n) /\ Previous(n + 1)' = Previous(n)
  BY PastGrows
<1>2. /\ \A m \in Readable : At(m)' = At(m) /\ Earlier(m)' = Earlier(m)
      /\ Earlier(n) = Readable /\ Readable \subseteq 1 .. n - 1 /\ n \in Nat /\ n \in 1 .. n
  <2>1. /\ \A m \in Readable : At(m)' = At(m)
        /\ \A m \in 1 .. n : Earlier(m)' = Earlier(m)
        /\ Earlier(n) = Readable /\ Readable \subseteq 1 .. n - 1 /\ n \in Nat /\ n > 1
    BY PastStays
  <2>2. \A m \in Readable : m \in 1 .. n
    BY <2>1
  <2> QED
    BY <2>1, <2>2
<1>3. ASSUME Earlier(n) # {}
      PROVE  /\ At(Previous(n + 1))' = At(Previous(n)) /\ Settled(n)' = Settled(n)
             /\ Earlier(Previous(n + 1))' = Earlier(Previous(n))
  <2>1. /\ Previous(n) \in Readable /\ At(Previous(n))' = At(Previous(n)) /\ Settled(n)' = Settled(n)
    BY <1>2, <1>3, PastValues
  <2>2. At(Previous(n + 1))' = At(Previous(n))' /\ Previous(n)' = Previous(n)
    <3>1. Previous(n)' = Previous(n)
      BY <1>2, PastStays
    <3> QED
      BY <1>1, <3>1 DEF At
  <2>3. PICK p \in Readable : p = Previous(n)
    BY <2>1
  <2>4. Earlier(p)' = Earlier(p)
    BY <1>2, <2>3
  <2>5. Earlier(Previous(n + 1))' = Earlier(p)'
    BY <1>1, <2>3 DEF Earlier
  <2> QED
    BY <2>1, <2>2, <2>3, <2>4, <2>5
<1>4. Earlier(n) # {} => Settled(n + 1)' = Settled(n)
  <2>1. SteadyBefore(n + 1)' = SteadyBefore(n)'
    <3>1. Earlier(n + 1)' = Earlier(n)'
      BY <1>1, <1>2, PastStays
    <3> QED
      BY <3>1 DEF SteadyBefore
  <2>2. Settled(n + 1)' = Settled(n)'
    <3>1. Earlier(n + 1)' = Earlier(n)'
      BY <1>1, <1>2, PastStays
    <3> QED
      BY <3>1 DEF Settled, At
  <2> QED
    BY <1>3, <2>2
<1>5. memory.known => Remembered(n + 1)' = Remembered(n) 
  BY <1>1, <1>3, <1>4 DEF Remembered
<1>6. BatteryRecovered(n + 1)' <=> BatteryRecovered(n)
  BY <1>1, <1>2 DEF BatteryRecovered
<1>7. PowerRecovered(n + 1)' <=> PowerRecovered(n)
  <2>1. PowerRecovered(n) <=>
          \A m \in Readable : Earlier(m) # {} /\ At(m).battery /\ At(m).percent <= 20 =>
            \E k \in Readable : k > m /\ (~At(k).battery \/ At(k).percent > 25)
    BY <1>2 DEF PowerRecovered
  <2>2. PowerRecovered(n + 1)' <=>
          \A m \in Readable : Earlier(m)' # {} /\ At(m)'.battery /\ At(m)'.percent <= 20 =>
            \E k \in Readable : k > m /\ (~At(k)'.battery \/ At(k)'.percent > 25)
    BY <1>1, <1>2 DEF PowerRecovered
  <2> QED
    BY <1>2, <2>1, <2>2
<1>8. CASE sensor.kind = "battery"
  BY <1>6, <1>8 DEF MemoryAt
<1>9. CASE sensor.kind # "battery"
  <2>1. memory.known <=> Earlier(n) # {} \/ sensor.first = "off"
    BY <1>9 DEF MemoryAt
  <2>2. memory.known => memory.last = Remembered(n + 1)'
    BY <1>5, <1>9 DEF MemoryAt
  <2>3. sensor.kind = "power" => (memory.armed <=> (sensor.target = "low" => PowerRecovered(n + 1)'))
    BY <1>7, <1>9 DEF MemoryAt
  <2>4. sensor.kind = "lock" => sensor.first # "off"
    BY SensorKinds DEF SensorLike
  <2>5. sensor.kind = "lock" =>
          (memory.pending <=> memory.known /\ At(Previous(n + 1))' # memory.last)
    BY <1>3, <2>1, <2>4 DEF MemoryAt
  <2> QED
    BY <1>1, <1>9, <2>1, <2>2, <2>3, <2>5 DEF MemoryAt
<1> QED
  BY <1>8, <1>9

(* What the samples said of the polls before stays so.                      *)
LEMMA HappenedStays ==
  ASSUME NEW s, Sampled(s), UNCHANGED sensor, sensor \in Sensors,
         NEW m \in Readable, sensor.kind = "items" => Earlier(m) # {}
  PROVE  (Happened(m)' <=> Happened(m)) /\ Counted(m)' = Counted(m)
<1>1. PICK n : n = Now
  OBVIOUS
<1>2. /\ \A k \in Readable : At(k)' = At(k) /\ Earlier(k)' = Earlier(k) /\ (k > 1)' = (k > 1)
      /\ m \in 1 .. n /\ Earlier(m) \subseteq Readable
      /\ Readable' \cap (1 .. n - 1) = Readable
      /\ Earlier(m)' = Earlier(m) /\ At(m)' = At(m)
      /\ \A k \in Earlier(m) : k \in 1 .. n - 1
  <2>1. /\ \A k \in Readable : At(k)' = At(k)
        /\ \A k \in 1 .. n : Earlier(k)' = Earlier(k)
        /\ Readable \subseteq 1 .. n - 1 /\ n \in Nat /\ n > 1
        /\ Readable' = Readable \cup (IF s.ok THEN {n} ELSE {})
    BY <1>1, PastStays
  <2>2. \A k \in Readable : k \in 1 .. n
    BY <2>1
  <2>3. Earlier(m) \subseteq Readable
    BY DEF Earlier
  <2>4. n \notin 1 .. n - 1
    BY <2>1
  <2> QED
    BY <2>1, <2>2, <2>3, <2>4
<1>3. Earlier(m) # {} =>
        /\ At(Previous(m))' = At(Previous(m)) /\ Settled(m)' = Settled(m)
        /\ Earlier(Previous(m))' = Earlier(Previous(m))
  <2> SUFFICES ASSUME Earlier(m) # {} 
               PROVE  /\ At(Previous(m))' = At(Previous(m)) /\ Settled(m)' = Settled(m)
                      /\ Earlier(Previous(m))' = Earlier(Previous(m))
    OBVIOUS
  <2>1. /\ Previous(m) \in Readable /\ At(Previous(m))' = At(Previous(m)) /\ Settled(m)' = Settled(m)
    BY <1>1, <1>2, PastValues
  <2>2. PICK p \in Readable : p = Previous(m)
    BY <2>1
  <2>3. Previous(m)' = p
    BY <1>1, <1>2, <2>2, PastStays
  <2>4. Earlier(Previous(m))' = Earlier(p)'
    BY <2>3 DEF Earlier
  <2> QED
    BY <1>2, <2>1, <2>2, <2>4
<1>4. Changed(m)' <=> Changed(m)
  BY <1>2, <1>3 DEF Changed
<1>5. Counted(m)' = Counted(m)
  BY <1>2, <1>3 DEF Counted
<1> SUFFICES Happened(m)' <=> Happened(m)
  BY <1>5
<1> DEFINE x == At(m)
           t == sensor.target
           first == Earlier(m) = {}
<1>6. CASE sensor.first = "off" /\ sensor.kind = "edge"
  BY <1>2, <1>4, <1>6 DEF Happened
<1>10. CASE sensor.first # "off" /\ sensor.kind = "usage"
  BY <1>2, <1>3, <1>4, <1>10 DEF Happened
<1>11. CASE sensor.first # "off" /\ sensor.kind = "lock"
  BY <1>2, <1>3, <1>4, <1>11 DEF Happened
<1>12. CASE sensor.first # "off" /\ sensor.kind = "wifi"
  <2>0. Changed(m) => ~first
    BY DEF Changed
  <2>1. Happened(m) <=> Changed(m) /\ IF t = "connected" THEN x = "home"
                                      ELSE IF t = "disconnected" THEN At(Previous(m)) = "home" ELSE TRUE
    BY <1>12 DEF Happened
  <2>2. Happened(m)' <=> Changed(m)' /\ IF t = "connected" THEN x = "home"
                                      ELSE IF t = "disconnected" THEN At(Previous(m))' = "home" ELSE TRUE
    BY <1>2, <1>12 DEF Happened
  <2> QED
    BY <1>3, <1>4, <2>0, <2>1, <2>2
<1>13. CASE sensor.first # "off" /\ sensor.kind = "clipboard"
  BY <1>2, <1>3, <1>4, <1>13 DEF Happened
<1>14. CASE sensor.first # "off" /\ sensor.kind = "items"
  BY <1>2, <1>3, <1>4, <1>14 DEF Happened
<1>15. CASE sensor.first # "off" /\ sensor.kind = "edge"
  BY <1>2, <1>3, <1>4, <1>15 DEF Happened
<1>8. CASE sensor.first # "off" /\ sensor.kind = "battery"
  BY <1>2, <1>8 DEF Happened, Alarm
<1>9. CASE sensor.first # "off" /\ sensor.kind = "power"
  <2>1. Earlier(m)' \ {k \in Readable' : Earlier(k)' = {}} = Earlier(m) \ {k \in Readable : Earlier(k) = {}}
    <3>1. Readable \subseteq Readable'
      BY <1>2
    <3> QED
      BY <1>2, <3>1
  <2> DEFINE past == Earlier(m) \ {k \in Readable : Earlier(k) = {}}
  <2>2. CASE t = "low"
    <3>1. Happened(m) <=>
            /\ ~first /\ x.battery /\ x.percent <= 20
            /\ \A k \in past : At(k).battery /\ At(k).percent <= 20 =>
                 \E j \in Earlier(m) : j > k /\ (~At(j).battery \/ At(j).percent > 25)
      BY <1>9, <2>2 DEF Happened
    <3>2. Happened(m)' <=>
            /\ ~first /\ x.battery /\ x.percent <= 20
            /\ \A k \in past : At(k)'.battery /\ At(k)'.percent <= 20 =>
                 \E j \in Earlier(m) : j > k /\ (~At(j)'.battery \/ At(j)'.percent > 25)
      BY <1>2, <1>9, <2>1, <2>2 DEF Happened
    <3> QED
      BY <1>2, <3>1, <3>2
  <2>4. CASE t = "resume"
    <3>1. Happened(m) = x.resumed /\ Happened(m)' = x.resumed
      BY <1>2, <1>9, <2>4 DEF Happened
    <3> QED
      BY <3>1
  <2>3. CASE t # "low" /\ t # "resume"
    <3>1. Happened(m) <=> ~first /\ x.battery = (t = "battery") /\ At(Previous(m)).battery # x.battery
      BY <1>9, <2>3 DEF Happened
    <3>2. Happened(m)' <=> ~first /\ x.battery = (t = "battery") /\ At(Previous(m))'.battery # x.battery
      BY <1>2, <1>9, <2>3 DEF Happened
    <3> QED
      BY <1>3, <3>1, <3>2
  <2> QED
    BY <2>2, <2>3, <2>4
<1> QED
  BY <1>5, <1>6, <1>8, <1>9, <1>10, <1>11, <1>12, <1>13, <1>14, <1>15, SensorKinds DEF SensorLike

LEMMA PollReports ==
  ASSUME NEW s, NEW n, Polls(n, s), NEW out, out = Polled(s.value).out
  PROVE  Reports(n, out)' /\ MemoryAt(n + 1)'
<1>1. sensor.kind \in {"edge", "lock", "usage", "wifi", "clipboard", "items", "battery", "power"}
  BY SensorKinds DEF Polls, SensorLike
<1> QED
  BY <1>1, EdgePolls, LockPolls, UsagePolls, WifiPolls, ClipboardPolls, ItemsPolls, BatteryPolls,
     PowerPolls

LEMMA SomethingCounted ==
  ASSUME NEW s, NEW n, Polls(n, s)
  PROVE  Happened(n)' => Counted(n)' # 0
<1>1. CASE sensor.kind # "items"
  BY <1>1 DEF Counted, Polls
<1>2. CASE sensor.kind = "items"
  <2> DEFINE new == (At(n) \ At(Previous(n)))'
  <2>1. sensor.first # "off"
    BY <1>2, SensorKinds DEF Polls, SensorLike
  <2>2. (Happened(n)' <=> new # {}) /\ Counted(n)' = Cardinality(new)
    BY <1>2, <2>1 DEF Happened, Counted, Polls
  <2>3. new \in SUBSET {"E:", "F:"}
    BY <1>2, NextReading, ReadingFacts DEF Polls
  <2> HIDE DEF new
  <2>4. IsFiniteSet({"E:", "F:"})
    <3>1. IsFiniteSet({"F:"}) /\ {"E:", "F:"} = {"F:"} \cup {"E:"}
      BY FS_Singleton
    <3> QED
      BY <3>1, FS_AddElement
  <2>5. IsFiniteSet(new)
    BY <2>3, <2>4, FS_Subset
  <2> QED
    BY <2>2, <2>5, FS_EmptySet
<1> QED
  BY <1>1, <1>2

(* What the events of a poll add to those there are.                        *)
EventsOf(n) == {k \in DOMAIN events : events[k][1] = n}
PollsWithEvents == {events[k][1] : k \in DOMAIN events}
LEMMA EventsAdded ==
  ASSUME NEW C, NEW D, events \in Seq(C), NEW out \in Seq(D), NEW n,
         \A k \in DOMAIN events : events[k][1] # n,
         events' = events \o [k \in 1 .. Len(out) |-> <<n, out[k]>>]
  PROVE  /\ Is(events')
         /\ PollsWithEvents' = PollsWithEvents \cup (IF Len(out) = 0 THEN {} ELSE {n})
         /\ \A m : m # n => EventsOf(m)' = EventsOf(m)
         /\ Cardinality(EventsOf(n)') = Len(out)
<1> DEFINE added == [k \in 1 .. Len(out) |-> <<n, out[k]>>]
           l == Len(events)
           o == Len(out)
<1>1. l \in Nat /\ o \in Nat
  BY LenProperties
<1>2. added \in Seq({n} \X D) /\ Len(added) = o /\ \A k \in 1 .. o : added[k][1] = n
  <2>1. \A k \in 1 .. o : out[k] \in D
    BY ElementOfSeq
  <2>2. \A k \in 1 .. o : <<n, out[k]>> \in {n} \X D
    BY <2>1
  <2>3. added \in [1 .. o -> {n} \X D]
    BY <2>2
  <2>4. added \in Seq({n} \X D)
    BY <1>1, <2>3, SeqDef
  <2>5. DOMAIN added = 1 .. o
    BY <2>3
  <2>6. Len(added) = o
    BY <1>1, <2>4, <2>5, LenProperties
  <2> QED
    BY <2>4, <2>6
<1>3. events \in Seq(C \cup ({n} \X D)) /\ added \in Seq(C \cup ({n} \X D))
  <2>1. C \subseteq C \cup ({n} \X D) /\ ({n} \X D) \subseteq C \cup ({n} \X D)
    OBVIOUS
  <2> QED
    BY <1>2, <2>1, SeqMonotonic
<1> HIDE DEF added
<1>4. /\ events' \in Seq(C \cup ({n} \X D)) /\ Len(events') = l + o
      /\ \A k \in 1 .. l + o : events'[k] = IF k <= l THEN events[k] ELSE added[k - l]
  BY <1>2, <1>3, ConcatProperties DEF added
<1>5. DOMAIN events = 1 .. l /\ DOMAIN events' = 1 .. l + o
  BY <1>1, <1>4, LenProperties
<1>6. /\ \A k \in 1 .. l : k \in 1 .. l + o /\ events'[k] = events[k]
      /\ \A k \in 1 .. l + o : k \notin 1 .. l => k \in l + 1 .. l + o /\ events'[k][1] = n
      /\ \A k \in l + 1 .. l + o : k \in 1 .. l + o /\ k \notin 1 .. l /\ events'[k][1] = n
  <2>1. \A k \in 1 .. l : k \in 1 .. l + o /\ events'[k] = events[k]
    BY <1>1, <1>4
  <2>2. ASSUME NEW k \in l + 1 .. l + o
        PROVE  k \in 1 .. l + o /\ k \notin 1 .. l /\ events'[k][1] = n
    <3>1. k - l \in 1 .. o /\ ~(k <= l) /\ k \in 1 .. l + o /\ k \notin 1 .. l
      BY <1>1
    <3> QED
      BY <1>2, <1>4, <3>1
  <2>3. \A k \in 1 .. l + o : k \notin 1 .. l => k \in l + 1 .. l + o
    BY <1>1
  <2> QED
    BY <2>1, <2>2, <2>3
<1>7. Is(events')
  BY <1>4, Zenon DEF Is
<1>8. PollsWithEvents' = PollsWithEvents \cup (IF o = 0 THEN {} ELSE {n})
  <2>1. PollsWithEvents = {events[k][1] : k \in 1 .. l} /\ PollsWithEvents' = {events'[k][1] : k \in 1 .. l + o}
    BY <1>5 DEF PollsWithEvents
  <2>2. CASE o = 0
    <3>1. \A k \in 1 .. l + o : k \in 1 .. l
      BY <1>1, <2>2
    <3> QED
      BY <1>6, <2>1, <2>2, <3>1
  <2>3. CASE o # 0
    <3>1. l + 1 \in l + 1 .. l + o /\ l + 1 \in 1 .. l + o
      BY <1>1, <2>3
    <3>2. n \in PollsWithEvents'
      BY <1>6, <2>1, <3>1
    <3>3. PollsWithEvents \subseteq PollsWithEvents'
      BY <1>6, <2>1
    <3>4. ASSUME NEW p \in PollsWithEvents', p # n PROVE p \in PollsWithEvents
      <4>1. PICK k \in 1 .. l + o : p = events'[k][1]
        BY <2>1, <3>4
      <4>2. k \in 1 .. l /\ events'[k] = events[k]
        BY <1>6, <3>4, <4>1
      <4> QED
        BY <2>1, <4>1, <4>2
    <3> QED
      BY <2>3, <3>2, <3>3, <3>4
  <2> QED
    BY <2>2, <2>3
<1>9. ASSUME NEW m, m # n PROVE EventsOf(m)' = EventsOf(m)
  <2>1. EventsOf(m) = {k \in 1 .. l : events[k][1] = m} /\ EventsOf(m)' = {k \in 1 .. l + o : events'[k][1] = m}
    BY <1>5 DEF EventsOf
  <2> QED
    BY <1>6, <1>9, <2>1
<1>10. Cardinality(EventsOf(n)') = o
  <2>1. EventsOf(n)' = {k \in 1 .. l + o : events'[k][1] = n}
    BY <1>5 DEF EventsOf
  <2>2. \A k \in 1 .. l : events[k][1] # n
    BY <1>5
  <2>3. EventsOf(n)' = l + 1 .. l + o
    BY <1>6, <2>1, <2>2
  <2>4. Cardinality(l + 1 .. l + o) = o
    <3>0. l + 1 \in Int /\ l + o \in Int
      BY <1>1
    <3>1. Cardinality(l + 1 .. l + o) = IF l + 1 > l + o THEN 0 ELSE (l + o) - (l + 1) + 1
      BY <3>0, FS_Interval
    <3> QED
      BY <1>1, <3>1
  <2> QED
    BY <2>3, <2>4
<1> QED
  BY <1>7, <1>8, <1>9, <1>10

Remembering(m) ==
  /\ m = Remembers(m.known, m.last, m.pending, m.armed)
  /\ m.known \in BOOLEAN /\ m.pending \in BOOLEAN /\ m.armed \in BOOLEAN
LEMMA RememberingSo ==
  ASSUME NEW m, Remembering(m), NEW x, NEW waits \in BOOLEAN, NEW fires \in BOOLEAN
  PROVE  /\ Remembering(Remember(m, x))
         /\ Remembering([m EXCEPT !.pending = waits]) /\ Remembering([m EXCEPT !.armed = fires])
<1>1. PICK knows, last, seen, ready :
        /\ m = [known |-> knows, last |-> last, pending |-> seen, armed |-> ready]
        /\ knows \in BOOLEAN /\ seen \in BOOLEAN /\ ready \in BOOLEAN
  BY DEF Remembering, Remembers
<1>2. ASSUME NEW k \in BOOLEAN, NEW l, NEW p \in BOOLEAN, NEW a \in BOOLEAN
      PROVE  Remembering(Remembers(k, l, p, a))
  BY DEF Remembering, Remembers
<1>3. Remember(m, x) = Remembers(TRUE, x, seen, ready)
  <2>1. Remember(m, x) = [[known |-> knows, last |-> last, pending |-> seen, armed |-> ready]
                            EXCEPT !.known = TRUE, !.last = x]
    BY <1>1, Zenon DEF Remember
  <2>2. [[known |-> knows, last |-> last, pending |-> seen, armed |-> ready]
            EXCEPT !.known = TRUE, !.last = x]
          \in [known : {TRUE}, last : {x}, pending : {seen}, armed : {ready}]
    OBVIOUS
  <2>3. Remember(m, x) \in [known : {TRUE}, last : {x}, pending : {seen}, armed : {ready}]
    BY <2>1, <2>2, Zenon
  <2>4. Remember(m, x) = [known |-> TRUE, last |-> x, pending |-> seen, armed |-> ready]
    BY <2>3
  <2> QED
    BY <2>4, Zenon DEF Remembers
<1>4. [m EXCEPT !.pending = waits] = Remembers(knows, last, waits, ready)
  BY <1>1 DEF Remembers
<1>5. [m EXCEPT !.armed = fires] = Remembers(knows, last, seen, fires)
  BY <1>1 DEF Remembers
<1>6. Remembering(Remember(m, x))
  BY <1>1, <1>2, <1>3
<1>7. Remembering([m EXCEPT !.pending = waits])
  BY <1>1, <1>2, <1>4
<1>8. Remembering([m EXCEPT !.armed = fires])
  BY <1>1, <1>2, <1>5
<1> QED
  BY <1>6, <1>7, <1>8

LEMMA PolledMemory ==
  ASSUME NEW s, NEW n, Polls(n, s)
  PROVE  Remembering(memory')
<1> DEFINE x == s.value
<1>0. Remembering(memory) /\ memory' = Polled(x).memory
  BY DEF Polls, Remembering
<1>1. CASE sensor.kind = "edge"
  BY <1>0, <1>1, RememberingSo DEF Polled, PollEdge, Result
<1>2. CASE sensor.kind = "wifi"
  BY <1>0, <1>2, RememberingSo DEF Polled, PollWifi, Result
<1>3. CASE sensor.kind = "clipboard"
  BY <1>0, <1>3, RememberingSo DEF Polled, PollClipboard, Result
<1>4. CASE sensor.kind = "items"
  BY <1>0, <1>4, RememberingSo DEF Polled, PollItems, Result
<1>5. CASE sensor.kind = "usage"
  BY <1>0, <1>5, RememberingSo DEF Polled, PollUsage, Result
<1>6. CASE sensor.kind = "lock"
  <2>1. memory' = PollLock(memory, x, sensor.target).memory
    BY <1>0, <1>6 DEF Polled
  <2>2. \/ memory' = Remember(memory, x)
        \/ memory' = [memory EXCEPT !.pending = FALSE]
        \/ memory' = [Remember(memory, x) EXCEPT !.pending = FALSE]
        \/ memory' = [memory EXCEPT !.pending = TRUE]
    BY <2>1 DEF PollLock, Result
  <2>3. TRUE \in BOOLEAN /\ FALSE \in BOOLEAN /\ memory.armed \in BOOLEAN
    BY <1>0 DEF Remembering
  <2>4. Remembering(Remember(memory, x))
    BY <1>0, <2>3, RememberingSo
  <2>5. /\ Remembering([memory EXCEPT !.pending = FALSE]) /\ Remembering([memory EXCEPT !.pending = TRUE])
        /\ Remembering([Remember(memory, x) EXCEPT !.pending = FALSE])
    BY <1>0, <2>3, <2>4, RememberingSo
  <2> QED
    BY <2>2, <2>4, <2>5
<1>7. CASE sensor.kind = "battery"
  <2> DEFINE fires == IF memory.armed THEN x > Threshold ELSE x > Threshold + Hysteresis
  <2>1. memory' = [memory EXCEPT !.armed = fires]
    BY <1>0, <1>7 DEF Polled, PollBattery, Result
  <2>2. fires \in BOOLEAN
    <3>1. (x > Threshold) \in BOOLEAN /\ (x > Threshold + Hysteresis) \in BOOLEAN
      BY <1>7, ReadingFacts DEF Polls, Threshold, Hysteresis
    <3> QED
      BY <3>1
  <2> HIDE DEF fires
  <2> QED
    BY <1>0, <2>1, <2>2, RememberingSo
<1>8. CASE sensor.kind = "power"
  <2> DEFINE warns == x.battery /\ x.percent <= 20 /\ memory.armed /\ sensor.target = "low"
             fires == IF warns THEN FALSE ELSE memory.armed \/ ~x.battery \/ x.percent > 25
  <2>1. memory' = PollPower(memory, x, sensor.target).memory
    BY <1>0, <1>8 DEF Polled
  <2>2. \/ memory' = Remember(memory, x.battery)
        \/ memory' = [Remember(memory, x.battery) EXCEPT !.armed = fires]
    BY <2>1 DEF PollPower, Result
  <2>3. fires \in BOOLEAN
    BY <1>8, ReadingFacts DEF Polls, Remembering
  <2> HIDE DEF fires
  <2>4. memory.pending \in BOOLEAN /\ memory.armed \in BOOLEAN
    BY <1>0 DEF Remembering
  <2>5. Remembering(Remember(memory, x.battery))
    BY <1>0, <2>4, RememberingSo
  <2>6. Remembering([Remember(memory, x.battery) EXCEPT !.armed = fires])
    BY <2>3, <2>4, <2>5, RememberingSo
  <2> QED
    BY <2>2, <2>5, <2>6
<1> QED
  BY <1>1, <1>2, <1>3, <1>4, <1>5, <1>6, <1>7, <1>8, SensorKinds DEF Polls, SensorLike

LEMMA SensorInvInit == SensorInit => SensorInv
<1> SUFFICES ASSUME SensorInit PROVE SensorInv
  OBVIOUS
<1>1. PICK s \in SamplesOf(sensor.kind, sensor.target) :
        /\ sensor.first = "setup" => s.ok
        /\ samples = IF SampledBySetup(sensor) THEN <<s>> ELSE <<Unreadable(FALSE)>>
        /\ memory = FirstMemory(sensor, samples[1])
  BY DEF SensorInit
<1> DEFINE S == SamplesOf(sensor.kind, sensor.target)
           r == samples[1]
<1>2. r \in S /\ samples = <<r>> /\ (~SampledBySetup(sensor) => r = Unreadable(FALSE))
  <2>1. Unreadable(FALSE) \in S
    BY DEF SamplesOf
  <2>2. CASE SampledBySetup(sensor)
    BY <1>1, <2>2
  <2>3. CASE ~SampledBySetup(sensor)
    BY <1>1, <2>1, <2>3
  <2> QED
    BY <2>2, <2>3
<1>3. samples \in Seq(S) /\ samples # <<>> /\ Len(samples) = 1 /\ DOMAIN samples = {1}
  <2> HIDE DEF S
  <2>1. <<r>> \in Seq(S) /\ <<r>> # <<>> /\ Len(<<r>>) = 1 /\ DOMAIN <<r>> = 1 .. 1
    BY <1>2
  <2>2. 1 .. 1 = {1}
    OBVIOUS
  <2> HIDE DEF r
  <2> QED
    BY <1>2, <2>1, <2>2, Zenon
<1>4. sensor.first = "setup" => r.ok
  BY <1>1 DEF SampledBySetup
<1>5. r.ok \in BOOLEAN /\ (r.ok => r.value \in Readings(sensor.kind, sensor.target))
      /\ (~SampledBySetup(sensor) => ~r.ok)
  BY <1>2, SampleFacts DEF Unreadable
<1>6. SensorLike(sensor) /\ sensor \in Sensors
  BY SensorKinds DEF SensorInit
<1>7. /\ r.ok => memory = Remembers(TRUE, IF sensor.kind = "power" THEN r.value.battery ELSE r.value, FALSE, TRUE)
      /\ ~r.ok => memory = Remembers(sensor.first = "off", "off", FALSE, TRUE)
  BY <1>1, <1>5 DEF FirstMemory
<1>0. PICK knows, last :
        /\ knows \in BOOLEAN /\ memory = Remembers(knows, last, FALSE, TRUE)
        /\ knows <=> r.ok \/ sensor.first = "off"
        /\ r.ok => last = IF sensor.kind = "power" THEN r.value.battery ELSE r.value
        /\ ~r.ok => last = "off"
  <2>1. CASE r.ok
    BY <1>7, <2>1
  <2>2. CASE ~r.ok
    BY <1>7, <2>2
  <2> QED
    BY <1>5, <2>1, <2>2
<1>9. /\ memory.known <=> r.ok \/ sensor.first = "off"
      /\ memory.pending = FALSE /\ memory.armed = TRUE
      /\ r.ok => memory.last = IF sensor.kind = "power" THEN r.value.battery ELSE r.value
      /\ ~r.ok => memory.last = "off"
  BY <1>0 DEF Remembers
<1>8. Remembering(memory)
  BY <1>0 DEF Remembering, Remembers
<1>10. /\ Readable = IF r.ok THEN {1} ELSE {}
       /\ Now = 2 /\ Earlier(2) = Readable /\ Earlier(1) = {} /\ At(1) = r.value
       /\ r.ok => Previous(2) = 1
  <2>1. Readable = IF r.ok THEN {1} ELSE {}
    BY <1>3, <1>5 DEF Readable
  <2>2. Earlier(2) = Readable /\ Earlier(1) = {}
    BY <2>1 DEF Earlier
  <2>3. r.ok => Previous(2) = 1
    BY <2>1, <2>2 DEF Previous
  <2> QED
    BY <1>3, <2>1, <2>2, <2>3 DEF Now, At
<1>11. MemoryAt(2)
  <2>1. sensor.kind = "lock" /\ r.ok => FALSE
    BY <1>5, <1>6 DEF SampledBySetup, SensorLike
  <2>2. sensor.kind = "usage" /\ r.ok => FALSE
    BY <1>5, <1>6 DEF SampledBySetup, SensorLike
  <2>3. sensor.kind = "battery" => ~r.ok
    BY <1>5, <1>6 DEF SampledBySetup, SensorLike
  <2>4. BatteryRecovered(2) \/ r.ok
    BY <1>10 DEF BatteryRecovered
  <2>5. PowerRecovered(2)
    BY <1>10 DEF PowerRecovered
  <2>6. sensor.kind # "battery" => /\ memory.known <=> Earlier(2) # {} \/ sensor.first = "off"
                                   /\ memory.known => memory.last = Remembered(2)
    <3>1. Earlier(2) # {} <=> r.ok
      BY <1>10
    <3>2. CASE r.ok
      BY <1>9, <1>10, <2>1, <2>2, <3>1, <3>2 DEF Remembered
    <3>3. CASE ~r.ok
      BY <1>9, <1>10, <3>1, <3>3 DEF Remembered
    <3> QED
      BY <1>5, <1>9, <3>1, <3>2, <3>3
  <2>7. sensor.kind = "lock" => (memory.pending <=> memory.known /\ At(Previous(2)) # memory.last)
    BY <1>6, <1>9, <2>1 DEF SensorLike
  <2> QED
    BY <1>9, <2>3, <2>4, <2>5, <2>6, <2>7 DEF MemoryAt
<1>12. EventsMatchSamples
  <2>1. events = <<>> /\ DOMAIN events = {}
    BY DEF SensorInit
  <2>2. Readable \ {1} = {}
    BY <1>10
  <2> QED
    BY <2>1, <2>2 DEF EventsMatchSamples
<1>13. Is(events)
  <2>1. events \in Seq({})
    BY DEF SensorInit
  <2> QED
    BY <2>1, Zenon DEF Is
<1> QED
  BY <1>3, <1>4, <1>6, <1>8, <1>10, <1>11, <1>12, <1>13
  DEF SensorInv, SensorTypes, MemoryHolds, Remembering

LEMMA MatchedEvents ==
  EventsMatchSamples <=>
    /\ PollsWithEvents = {m \in Readable \ {1} : Happened(m)}
    /\ \A m \in PollsWithEvents : Cardinality(EventsOf(m)) = Counted(m)
<1>1. ASSUME NEW k \in DOMAIN events
      PROVE  LET m == events[k][1] IN
             (Cardinality({j \in DOMAIN events : events[j][1] = m})
                = IF sensor.kind = "items" THEN Cardinality(At(m) \ At(Previous(m))) ELSE 1)
             <=> Cardinality(EventsOf(m)) = Counted(m)
  BY Zenon DEF EventsOf, Counted
<1> QED
  BY <1>1, Zenon DEF EventsMatchSamples, PollsWithEvents
LEMMA MatchedEventsNext ==
  (EventsMatchSamples <=>
    /\ PollsWithEvents = {m \in Readable \ {1} : Happened(m)}
    /\ \A m \in PollsWithEvents : Cardinality(EventsOf(m)) = Counted(m))'
  BY MatchedEvents, PTL

LEMMA SensorInvStep == SensorInv /\ [SensorNext]_sensorVars => SensorInv'
<1> SUFFICES ASSUME SensorInv, [SensorNext]_sensorVars PROVE SensorInv'
  OBVIOUS
<1>1. CASE UNCHANGED sensorVars
  <2>1. Now' = Now /\ memory' = memory /\ sensor' = sensor /\ samples' = samples /\ events' = events
    BY <1>1 DEF sensorVars, Now
  <2>2. SensorTypes'
    BY <2>1 DEF SensorInv, SensorTypes, Is
  <2>3. Readable' = Readable /\ \A m : Earlier(m)' = Earlier(m) /\ Previous(m)' = Previous(m) /\ At(m)' = At(m)
    BY <2>1 DEF Readable, Earlier, Previous, At
  <2>4. MemoryHolds'
    <3>1. \A m : /\ Remembered(m)' = Remembered(m) /\ (BatteryRecovered(m)' <=> BatteryRecovered(m))
                 /\ (PowerRecovered(m)' <=> PowerRecovered(m))
      BY <2>1 DEF Remembered, Settled, BatteryRecovered, PowerRecovered, Earlier, Previous, At, Readable
    <3> QED
      BY <2>1, <3>1 DEF SensorInv, MemoryHolds, MemoryAt, Earlier, Previous, At, Readable
  <2>5. EventsMatchSamples'
    <3>1. \A m : Changed(m)' = Changed(m) /\ Settled(m)' = Settled(m)
      <4>1. \A m : Settled(m)' = Settled(m)
        BY <2>1 DEF Settled, Earlier, Previous, At, Readable
      <4>2. \A m : Changed(m)' = Changed(m)
        BY <2>1 DEF Changed, Earlier, Previous, At, Readable
      <4> QED
        BY <4>1, <4>2
    <3>2. \A m : Happened(m)' = Happened(m)
      BY <2>1, <2>3, <3>1, Zenon DEF Happened, Alarm
    <3> QED
      BY <2>1, <2>3, <3>2, Zenon DEF SensorInv, EventsMatchSamples
  <2> QED
    BY <2>2, <2>4, <2>5 DEF SensorInv
<1>2. ASSUME NEW s \in SamplesOf(sensor.kind, sensor.target), PollSensor(s) PROVE SensorInv'
  <2> DEFINE S == SamplesOf(sensor.kind, sensor.target)
  <2>0. PICK n : n = Len(samples) + 1
    OBVIOUS
  <2>1. /\ samples \in Seq(S) /\ samples # <<>> /\ samples' = Append(samples, s)
        /\ sensor' = sensor /\ sensor \in Sensors
        /\ sensor.first = "setup" => samples[1].ok
        /\ MemoryAt(n) /\ n = Now /\ EventsMatchSamples /\ Remembering(memory)
    BY <1>2, <2>0 DEF PollSensor, SensorInv, SensorTypes, MemoryHolds, Now, Remembering
  <2>2. Sampled(s) /\ samples' \in Seq(S)
    BY <2>1, SampledSo
  <2>3. /\ n \in Nat /\ n > 1 /\ Readable \subseteq 1 .. n - 1 /\ Now' = n + 1
        /\ Readable' = Readable \cup (IF s.ok THEN {n} ELSE {})
        /\ Earlier(n) = Readable /\ n \notin Readable /\ Len(samples') = n
    <3>1. /\ n \in Nat /\ n > 1 /\ Readable \subseteq 1 .. n - 1 /\ Now' = n + 1
          /\ Readable' = Readable \cup (IF s.ok THEN {n} ELSE {})
          /\ Earlier(n) = Readable
      BY <2>1, <2>2, PastStays
    <3>2. n \notin Readable /\ Len(samples') = n
      BY <2>0, <2>2, <3>1 DEF Sampled
    <3> QED
      BY <3>1, <3>2
  <2>4. sensor.first = "setup" => 1 \in Readable /\ Readable # {}
    BY <2>1, <2>2 DEF Readable, Sampled
  <2>5. SensorTypes' <=> Is(events') /\ Remembering(memory')
    <3>1. samples' # <<>> /\ samples'[1] = samples[1]
      BY <2>1, <2>2 DEF Sampled
    <3> QED
      BY <2>1, <2>2, <3>1 DEF SensorTypes, Remembering
  <2>6. /\ PollsWithEvents = {m \in Readable \ {1} : Happened(m)}
        /\ \A m \in PollsWithEvents : Cardinality(EventsOf(m)) = Counted(m)
    BY <2>1, MatchedEvents
  <2>7. \A m \in Readable \ {1} : (Happened(m)' <=> Happened(m)) /\ Counted(m)' = Counted(m)
    <3> SUFFICES ASSUME NEW m \in Readable \ {1}
                 PROVE  (Happened(m)' <=> Happened(m)) /\ Counted(m)' = Counted(m)
      OBVIOUS
    <3>1. sensor.kind = "items" => Earlier(m) # {}
      <4>1. sensor.kind = "items" => 1 \in Readable
        BY <2>1, <2>4, SensorKinds DEF SensorLike
      <4>2. 1 < m
        BY <2>3
      <4> QED
        BY <4>1, <4>2 DEF Earlier
    <3> QED
      BY <2>1, <2>2, <3>1, HappenedStays
  <2>8. CASE ~s.ok
    <3>1. memory' = memory /\ events' = events
      BY <1>2, <2>8 DEF PollSensor
    <3>2. MemoryAt(n + 1)'
      BY <2>1, <2>2, <2>8, <3>1, UnreadablePoll
    <3>3. /\ PollsWithEvents' = PollsWithEvents /\ Readable' = Readable
          /\ \A m : EventsOf(m)' = EventsOf(m)
      BY <2>3, <2>8, <3>1 DEF PollsWithEvents, EventsOf
    <3>4. PollsWithEvents' = {m \in Readable' \ {1} : Happened(m)'}
      BY <2>6, <2>7, <3>3
    <3>5. \A m \in PollsWithEvents' : Cardinality(EventsOf(m)') = Counted(m)'
      BY <2>6, <2>7, <3>3
    <3>6. EventsMatchSamples'
      BY <3>4, <3>5, MatchedEventsNext
    <3>7. SensorTypes'
      BY <2>1, <2>5, <3>1 DEF SensorInv, SensorTypes, Is
    <3> QED
      BY <2>3, <3>2, <3>6, <3>7 DEF SensorInv, MemoryHolds
  <2>9. CASE s.ok
    <3>0. PICK out : out = Polled(s.value).out
      OBVIOUS
    <3>1. memory' = Polled(s.value).memory /\ events' = events \o [k \in 1 .. Len(out) |-> <<n, out[k]>>]
      BY <1>2, <2>3, <2>9, <3>0 DEF PollSensor
    <3>2. Polls(n, s)
      <4>1. s.value \in Readings(sensor.kind, sensor.target)
        BY <2>9, SampleFacts
      <4>2. ASSUME NEW m \in Readable PROVE At(m) \in Readings(sensor.kind, sensor.target)
        <5>1. samples[m] \in S /\ samples[m].ok
          BY <2>1, ElementOfSeq, LenProperties DEF Readable
        <5> QED
          BY <5>1, SampleFacts DEF At
      <4> QED
        BY <2>1, <2>2, <2>3, <2>4, <2>9, <3>1, <4>1, <4>2 DEF Polls, Remembering
    <3>3. Reports(n, out)' /\ MemoryAt(n + 1)'
      BY <3>0, <3>2, PollReports
    <3>4. /\ Is(out) /\ (Len(out) = IF Happened(n)' THEN Counted(n)' ELSE 0)
          /\ Happened(n)' => Counted(n)' # 0
      BY <3>2, <3>3, SomethingCounted DEF Reports
    <3>5. PICK C, D : events \in Seq(C) /\ out \in Seq(D)
      BY <3>4 DEF SensorInv, SensorTypes, Is
    <3>6. \A m \in PollsWithEvents : m \in Readable /\ m # 1 /\ m # n
      BY <2>3, <2>6
    <3>7. /\ Is(events')
          /\ PollsWithEvents' = PollsWithEvents \cup (IF Len(out) = 0 THEN {} ELSE {n})
          /\ \A m : m # n => EventsOf(m)' = EventsOf(m)
          /\ Cardinality(EventsOf(n)') = Len(out)
      <4>1. \A k \in DOMAIN events : events[k][1] # n
        BY <3>6 DEF PollsWithEvents
      <4> QED
        BY <3>1, <3>5, <4>1, EventsAdded
    <3>8. Len(out) = 0 <=> ~Happened(n)'
      BY <3>4
    <3>9. PollsWithEvents' = {m \in Readable' \ {1} : Happened(m)'}
      <4>1. ASSUME NEW m
            PROVE  m \in PollsWithEvents' <=> m \in Readable' \ {1} /\ Happened(m)'
        <5>1. CASE m = n
          BY <2>3, <2>9, <3>6, <3>7, <3>8, <5>1
        <5>2. CASE m # n
          <6>1. m \in PollsWithEvents' <=> m \in PollsWithEvents
            BY <3>7, <5>2
          <6>2. m \in Readable' \ {1} <=> m \in Readable \ {1}
            BY <2>3, <5>2
          <6> QED
            BY <2>6, <2>7, <6>1, <6>2
        <5> QED
          BY <5>1, <5>2
      <4> QED
        BY <4>1
    <3>10. ASSUME NEW m \in PollsWithEvents' PROVE Cardinality(EventsOf(m)') = Counted(m)'
      <4>1. CASE m = n
        BY <3>4, <3>6, <3>7, <3>8, <4>1
      <4>2. CASE m # n
        <5>1. m \in PollsWithEvents /\ m \in Readable \ {1}
          BY <3>6, <3>7, <4>2
        <5> QED
          BY <2>6, <2>7, <3>7, <4>2, <5>1
      <4> QED
        BY <4>1, <4>2
    <3>11. EventsMatchSamples'
      BY <3>9, <3>10, MatchedEventsNext
    <3>12. SensorTypes'
      BY <2>5, <3>2, <3>7, PolledMemory
    <3> QED
      BY <2>3, <3>3, <3>11, <3>12 DEF SensorInv, MemoryHolds
  <2> QED
    BY <2>1, <2>8, <2>9, SampleFacts
<1> QED
  BY <1>1, <1>2 DEF SensorNext

(* A built-in trigger that polls fires at exactly the polls at which its    *)
(* samples say that what it watches happened, whatever it could not read    *)
(* in between: once for a change, once for an item, never for the state it  *)
(* started in, and for a low battery once until it has recovered.           *)
THEOREM EventsFollowSamples == SensorSpec => []EventsMatchSamples
<1>1. SensorInv => EventsMatchSamples
  BY DEF SensorInv
<1> QED
  BY <1>1, SensorInvInit, SensorInvStep, PTL DEF SensorSpec

-----------------------------------------------------------------------------
(* ScheduleTriggers.  A daily alarm remembers the last day on which it went *)
(* off, which is the last day that was due and looked at late enough; an    *)
(* interval remembers the look it counts from, and has not looked a full    *)
(* interval later; a start-up alarm remembers that it rang.                 *)
HeardOn(d) == {t \in Looks : Day(t) = d /\ Minute(t) >= d * DayLength + alarm.at}
DailyRings == UNION {FirstOf(HeardOn(d)) : d \in RingDays}
StartupLooks == {t \in Looks : t >= started + alarm.at}
LooksAfter(u) == {t \in Looks : t >= u + alarm.at * MinuteLength}
Origins == FirstOf(Looks) \cup Rings
IntervalRings == UNION {FirstOf(LooksAfter(u)) : u \in Origins}
RingsDue ==
  CASE alarm.kind \in {"time_schedule", "cron"} -> DailyRings
    [] alarm.kind = "startup" -> FirstOf(StartupLooks)
    [] alarm.kind = "interval" -> IntervalRings

DailyMemo ==
  /\ memo # Never => memo \in RingDays /\ HeardOn(memo) # {}
  /\ \A d \in RingDays : HeardOn(d) # {} => memo # Never /\ memo >= d
IntervalMemo ==
  IF Looks = {} THEN memo = Never
  ELSE /\ memo \in Origins /\ LooksAfter(memo) = {}
       /\ \A u \in Origins : u # memo => u < memo /\ LooksAfter(u) # {}
StartupMemo == memo = Never <=> StartupLooks = {}
MemoSays ==
  /\ alarm.kind \in {"time_schedule", "cron"} => DailyMemo
  /\ alarm.kind = "interval" => IntervalMemo
  /\ alarm.kind = "startup" => StartupMemo

AlarmLike(a) ==
  /\ a.kind \in {"time_schedule", "cron", "interval", "startup"} /\ a.at \in Nat
  /\ a.kind \in {"time_schedule", "cron"} => a.at < DayLength /\ a.days \subseteq 0 .. LastDay
  /\ a.kind = "time_schedule" => a.days = 0 .. LastDay
  /\ a.kind \in {"interval", "startup"} => a.at > 0
ClockTypes ==
  /\ AlarmLike(alarm) /\ started \in Instants
  /\ polls \in Seq(Instants) /\ rings \in Seq(Instants)
LooksInOrder == \A t \in Looks : started <= t /\ t <= LastLook
RingsInOrder == \A k \in 1 .. Len(rings) - 1 : rings[k] < rings[k + 1]
ClockInv ==
  ClockTypes /\ LooksInOrder /\ RingsInOrder /\ Rings \subseteq Looks /\ Rings = RingsDue /\ MemoSays

LEMMA Quotient ==
  ASSUME NEW a \in Nat, NEW b \in Nat \ {0}
  PROVE  a \div b \in Nat /\ \A q \in Nat : a \div b >= q <=> a >= q * b
<1>1. a \div b \in Nat /\ b * (a \div b) <= a /\ a < b * (a \div b) + b
  OBVIOUS
<1> DEFINE d == a \div b
<1> HIDE DEF d
<1>2. d \in Nat /\ b * d <= a /\ a < b * d + b
  BY <1>1 DEF d
<1>3. ASSUME NEW q \in Nat PROVE d >= q <=> a >= q * b
  BY <1>2
<1> QED
  BY <1>1, <1>3 DEF d

(* An instant, its minute and its day.                                      *)
LEMMA DayFacts ==
  ASSUME NEW t \in Instants
  PROVE  /\ t \in Nat /\ Minute(t) \in Nat /\ Day(t) \in 0 .. LastDay
         /\ \A q \in Nat : Minute(t) >= q <=> t >= q * MinuteLength
         /\ \A q \in Nat : Day(t) >= q <=> Minute(t) >= q * DayLength
<1>0. /\ MinuteLength \in Nat \ {0} /\ DayLength \in Nat \ {0} /\ LastDay \in Nat
  BY ClockConstants
<1>1. /\ t \in Nat /\ t < (LastDay + 1) * DayLength * MinuteLength
  <2>1. (LastDay + 1) * DayLength * MinuteLength \in Nat
    BY <1>0
  <2> QED
    BY <2>1 DEF Instants
<1>2. Minute(t) \in Nat /\ \A q \in Nat : Minute(t) >= q <=> t >= q * MinuteLength
  BY <1>0, <1>1, Quotient DEF Minute
<1>3. Day(t) \in Nat /\ \A q \in Nat : Day(t) >= q <=> Minute(t) >= q * DayLength
  BY <1>0, <1>2, Quotient DEF Day
<1>4. ~(Day(t) >= LastDay + 1)
  <2> DEFINE q == (LastDay + 1) * DayLength
  <2>1. LastDay + 1 \in Nat /\ q \in Nat
    BY <1>0
  <2>2. Day(t) >= LastDay + 1 <=> Minute(t) >= q
    BY <1>3, <2>1
  <2>3. t < q * MinuteLength
    BY <1>1
  <2> HIDE DEF q
  <2>4. Minute(t) >= q <=> t >= q * MinuteLength
    BY <1>2, <2>1
  <2>5. q * MinuteLength \in Nat
    BY <1>0, <2>1
  <2> QED
    BY <1>1, <2>2, <2>3, <2>4, <2>5
<1> QED
  BY <1>0, <1>1, <1>2, <1>3, <1>4

LEMMA MinuteOfDay ==
  ASSUME NEW t \in Instants, NEW d \in Nat, NEW at \in Nat, at < DayLength
  PROVE  /\ Minute(t) = d * DayLength + at => Day(t) = d
         /\ d * DayLength + at \in Nat /\ Day(t) * DayLength <= Minute(t)
<1>0. DayLength \in Nat \ {0}
  BY ClockConstants
<1>1. Minute(t) \in Nat /\ Day(t) \in Nat /\ \A q \in Nat : Day(t) >= q <=> Minute(t) >= q * DayLength
  BY DayFacts
<1>2. d * DayLength \in Nat /\ (d + 1) * DayLength = d * DayLength + DayLength
  BY <1>0
<1>3. ASSUME Minute(t) = d * DayLength + at PROVE Day(t) = d
  <2>1. Day(t) >= d <=> Minute(t) >= d * DayLength
    BY <1>1
  <2>2. Day(t) >= d + 1 <=> Minute(t) >= (d + 1) * DayLength
    <3>1. d + 1 \in Nat
      OBVIOUS
    <3> QED
      BY <1>1, <3>1
  <2>3. Minute(t) >= d * DayLength /\ ~(Minute(t) >= (d + 1) * DayLength)
    <3> DEFINE q == d * DayLength
    <3>1. q \in Nat /\ (d + 1) * DayLength = q + DayLength /\ Minute(t) = q + at
      BY <1>2, <1>3
    <3> HIDE DEF q
    <3>2. Minute(t) >= q /\ ~(Minute(t) >= q + DayLength)
      BY <1>0, <3>1
    <3> QED
      BY <3>1, <3>2 DEF q
  <2> QED
    BY <1>1, <2>1, <2>2, <2>3
<1>4. Day(t) * DayLength <= Minute(t)
  <2>1. Day(t) >= Day(t) /\ Day(t) * DayLength \in Nat
    BY <1>0, <1>1
  <2> QED
    BY <1>1, <2>1
<1> QED
  BY <1>2, <1>3, <1>4

LEMMA TimeGoesOn ==
  ASSUME NEW t \in Instants, NEW u \in Instants, t <= u
  PROVE  Minute(t) <= Minute(u) /\ Day(t) <= Day(u)
<1>0. /\ MinuteLength \in Nat \ {0} /\ DayLength \in Nat \ {0}
  BY ClockConstants
<1>1. /\ t \in Nat /\ Minute(t) \in Nat /\ Day(t) \in Nat
      /\ \A q \in Nat : Minute(t) >= q <=> t >= q * MinuteLength
      /\ \A q \in Nat : Day(t) >= q <=> Minute(t) >= q * DayLength
  BY DayFacts
<1>2. /\ u \in Nat /\ Minute(u) \in Nat /\ Day(u) \in Nat
      /\ \A q \in Nat : Minute(u) >= q <=> u >= q * MinuteLength
      /\ \A q \in Nat : Day(u) >= q <=> Minute(u) >= q * DayLength
  BY DayFacts
<1>3. Minute(t) <= Minute(u)
  <2>1. t >= Minute(t) * MinuteLength /\ Minute(t) * MinuteLength \in Nat
    BY <1>0, <1>1
  <2> QED
    BY <1>1, <1>2, <2>1
<1>4. Day(t) <= Day(u)
  <2>1. Minute(t) >= Day(t) * DayLength /\ Day(t) * DayLength \in Nat
    BY <1>0, <1>1
  <2> QED
    BY <1>1, <1>2, <1>3, <2>1
<1> QED
  BY <1>3, <1>4

(* What was first stays first when later ones come.                         *)
LEMMA FirstStays ==
  ASSUME NEW S \in SUBSET Int, NEW now \in Int, \A t \in S : t < now
  PROVE  FirstOf(S \cup {now}) = IF S = {} THEN {now} ELSE FirstOf(S)
<1>1. CASE S = {}
  BY <1>1 DEF FirstOf
<1>2. CASE S # {}
  <2>1. PICK s \in S : s < now
    BY <1>2
  <2>2. \A t \in S : t \in Int /\ now \notin S /\ t <= now
    OBVIOUS
  <2>3. ~(now <= s)
    BY <2>1
  <2>4. ASSUME NEW t
        PROVE  t \in FirstOf(S \cup {now}) <=> t \in FirstOf(S)
    BY <2>1, <2>2, <2>3 DEF FirstOf
  <2> QED
    BY <1>2, <2>4
<1> QED
  BY <1>1, <1>2

LEMMA FirstOfNone == FirstOf({}) = {}
  BY DEF FirstOf

(* One look at the clock.                                                   *)
LooksAt(now) ==
  /\ ClockTypes /\ LooksInOrder /\ RingsInOrder /\ Rings \subseteq Looks /\ now \in Instants
  /\ PollClock(now)

LEMMA LooksOf ==
  ASSUME NEW s \in Seq(Instants), NEW now \in Instants, NEW k, k = Append(s, now)
  PROVE  /\ k \in Seq(Instants) /\ Len(k) = Len(s) + 1 /\ Len(s) \in Nat /\ k # <<>> /\ k[Len(k)] = now
         /\ \A x : (\E i \in DOMAIN k : x = k[i]) <=> (\E i \in DOMAIN s : x = s[i]) \/ x = now
         /\ \A i \in 1 .. Len(s) : k[i] = s[i] /\ s[i] \in Instants
         /\ k[Len(s) + 1] = now /\ DOMAIN s = 1 .. Len(s)
<1>1. /\ k \in Seq(Instants) /\ Len(k) = Len(s) + 1 /\ Len(s) \in Nat
      /\ \A i \in 1 .. Len(s) : k[i] = s[i] /\ s[i] \in Instants
      /\ k[Len(s) + 1] = now
  BY AppendProperties, LenProperties, ElementOfSeq
<1>2. DOMAIN s = 1 .. Len(s) /\ DOMAIN k = 1 .. Len(s) + 1
  BY <1>1, LenProperties
<1>3. k # <<>> /\ k[Len(k)] = now
  BY <1>1
<1>4. \A x : (\E i \in DOMAIN k : x = k[i]) <=> (\E i \in DOMAIN s : x = s[i]) \/ x = now
  <2>1. 1 .. Len(s) + 1 = 1 .. Len(s) \cup {Len(s) + 1}
    BY <1>1
  <2> QED
    BY <1>1, <1>2, <2>1
<1> QED
  BY <1>1, <1>2, <1>3, <1>4

LEMMA OneLook ==
  ASSUME NEW now, LooksAt(now)
  PROVE  /\ Looks' = Looks \cup {now} /\ now \in Instants /\ Looks \subseteq Instants
         /\ \A t \in Looks : t < now /\ started <= t
         /\ started <= now /\ started \in Instants /\ UNCHANGED <<alarm, started>>
         /\ LastLook <= now /\ LastLook \in Looks \cup {started}
         /\ \A t \in Looks : t <= LastLook
         /\ Looks = {} => LastLook = started
         /\ Looks # {} => LastLook \in Looks
         /\ Rings' = Rings \cup (IF Due(now) THEN {now} ELSE {}) /\ Rings \subseteq Looks
         /\ LooksInOrder' /\ RingsInOrder' /\ ClockTypes' /\ Rings' \subseteq Looks'
<1>0. /\ polls \in Seq(Instants) /\ rings \in Seq(Instants) /\ now \in Instants /\ started \in Instants
      /\ polls' = Append(polls, now) /\ alarm' = alarm /\ started' = started
      /\ rings' = IF Due(now) THEN Append(rings, now) ELSE rings
      /\ now >= LastLook /\ (polls # <<>> => now > LastLook)
      /\ \A t \in Looks : started <= t /\ t <= LastLook
  BY DEF LooksAt, ClockTypes, PollClock, LooksInOrder
<1>1. /\ polls' \in Seq(Instants) /\ polls' # <<>> /\ Last(polls') = now
      /\ Looks' = Looks \cup {now}
  <2>1. PICK k : k = polls'
    OBVIOUS
  <2>2. k = Append(polls, now)
    BY <1>0, <2>1
  <2>3. /\ k \in Seq(Instants) /\ k # <<>> /\ k[Len(k)] = now
        /\ \A x : (\E i \in DOMAIN k : x = k[i]) <=> (\E i \in DOMAIN polls : x = polls[i]) \/ x = now
    BY <1>0, <2>2, LooksOf
  <2>4. Looks' = {k[i] : i \in DOMAIN k}
    BY <2>1 DEF Looks
  <2>5. \A x : x \in Looks' <=> x \in Looks \/ x = now
    BY <2>3, <2>4 DEF Looks
  <2>6. Looks' = Looks \cup {now}
    BY <2>5
  <2>7. Last(k) = now
    BY <2>3 DEF Last
  <2> QED
    BY <2>1, <2>3, <2>6, <2>7
<1>2. LastLook' = now
  BY <1>1 DEF LastLook
<1>3. /\ Len(polls) \in Nat /\ DOMAIN polls = 1 .. Len(polls)
      /\ \A i \in 1 .. Len(polls) : polls[i] \in Instants
  BY <1>0, LooksOf
<1>4. Looks \subseteq Instants /\ Instants \subseteq Nat
  BY <1>3, DayFacts DEF Looks
<1>5. /\ LastLook \in Looks \cup {started} /\ started <= LastLook
      /\ \A t \in Looks : t < now
      /\ Looks = {} => LastLook = started
      /\ Looks # {} => LastLook \in Looks
  <2>1. CASE polls = <<>>
    <3>1. Looks = {} /\ LastLook = started
      BY <1>3, <2>1 DEF Looks, LastLook
    <3> QED
      BY <1>0, <1>4, <3>1
  <2>2. CASE polls # <<>>
    <3>1. Len(polls) \in 1 .. Len(polls)
      BY <1>0, <1>3, <2>2, EmptySeq
    <3>2. LastLook = polls[Len(polls)]
      BY <2>2 DEF LastLook, Last
    <3>3. LastLook \in Looks
      BY <1>3, <3>1, <3>2 DEF Looks
    <3>4. LastLook < now /\ LastLook \in Nat /\ now \in Nat
      BY <1>0, <1>4, <2>2, <3>3
    <3>5. \A t \in Looks : t < now
      BY <1>0, <1>4, <3>4
    <3> QED
      BY <1>0, <3>3, <3>5
  <2> QED
    BY <2>1, <2>2
<1>6. started \in Nat /\ now \in Nat /\ LastLook \in Nat /\ started <= now
  BY <1>0, <1>4, <1>5
<1>7. LooksInOrder' /\ ClockTypes' /\ rings' \in Seq(Instants)
  <2>1. rings' \in Seq(Instants)
    BY <1>0, AppendProperties
  <2>2. \A t \in Looks' : started <= t /\ t <= now
    BY <1>0, <1>1, <1>4, <1>5, <1>6
  <2> QED
    BY <1>0, <1>1, <1>2, <2>1, <2>2 DEF LooksInOrder, ClockTypes, LooksAt
<1>8. /\ Rings' = Rings \cup (IF Due(now) THEN {now} ELSE {}) /\ Rings \subseteq Looks
      /\ RingsInOrder'
  <2>0. Rings \subseteq Looks /\ RingsInOrder
    BY DEF LooksAt
  <2>1. CASE ~Due(now)
    BY <1>0, <2>0, <2>1 DEF Rings, RingsInOrder
  <2>2. CASE Due(now)
    <3>1. rings' = Append(rings, now)
      BY <1>0, <2>2
    <3>2. /\ Rings' = Rings \cup {now} /\ Len(rings') = Len(rings) + 1 /\ Len(rings) \in Nat
          /\ \A i \in 1 .. Len(rings) : rings'[i] = rings[i] /\ rings[i] \in Instants
          /\ rings'[Len(rings) + 1] = now /\ DOMAIN rings = 1 .. Len(rings)
      <4>1. PICK k : k = rings'
        OBVIOUS
      <4>2. k = Append(rings, now)
        BY <3>1, <4>1
      <4>3. /\ \A x : (\E i \in DOMAIN k : x = k[i]) <=> (\E i \in DOMAIN rings : x = rings[i]) \/ x = now
            /\ Len(k) = Len(rings) + 1 /\ Len(rings) \in Nat
            /\ \A i \in 1 .. Len(rings) : k[i] = rings[i] /\ rings[i] \in Instants
            /\ k[Len(rings) + 1] = now /\ DOMAIN rings = 1 .. Len(rings)
        <5>1. rings \in Seq(Instants) /\ now \in Instants
          BY <1>0
        <5> QED
          BY ONLY <5>1, <4>2, LooksOf
      <4>4. Rings' = {k[i] : i \in DOMAIN k}
        BY <4>1 DEF Rings
      <4>5. \A x : x \in Rings' <=> x \in Rings \/ x = now
        BY <4>3, <4>4 DEF Rings
      <4>6. Rings' = Rings \cup {now}
        BY <4>5
      <4> QED
        BY <4>1, <4>3, <4>6
    <3>3. \A i \in 1 .. Len(rings) : rings[i] < now
      BY <1>5, <2>0, <3>2 DEF Rings
    <3>4. ASSUME NEW k \in 1 .. Len(rings') - 1 PROVE rings'[k] < rings'[k + 1]
      <4>1. k \in 1 .. Len(rings)
        BY <3>2
      <4>2. CASE k = Len(rings)
        BY <3>2, <3>3, <4>1, <4>2
      <4>3. CASE k # Len(rings)
        <5>0. Len(rings) \in Nat
          BY <3>2
        <5>1. k \in 1 .. Len(rings) - 1 /\ k + 1 \in 1 .. Len(rings)
          BY <4>1, <4>3, <5>0
        <5> QED
          BY <2>0, <3>2, <4>1, <5>1 DEF RingsInOrder
      <4> QED
        BY <4>2, <4>3
    <3> QED
      BY <2>0, <2>2, <3>2, <3>4 DEF RingsInOrder
  <2> QED
    BY <2>1, <2>2
<1>9. Rings' \subseteq Looks'
  BY <1>1, <1>8
<1> QED
  BY <1>0, <1>1, <1>4, <1>5, <1>6, <1>7, <1>8, <1>9

(* A start-up alarm.                                                        *)
LEMMA StartupLook ==
  ASSUME NEW now, LooksAt(now), alarm.kind = "startup",
         Rings = FirstOf(StartupLooks), StartupMemo
  PROVE  Rings' = FirstOf(StartupLooks)' /\ StartupMemo'
<1>0. PICK at : at = alarm.at
  OBVIOUS
<1>1. /\ Looks' = Looks \cup {now} /\ now \in Int /\ Looks \subseteq Int /\ now # Never
      /\ \A t \in Looks : t < now
      /\ started \in Int /\ started' = started /\ alarm' = alarm
      /\ Rings' = Rings \cup (IF Due(now) THEN {now} ELSE {})
      /\ at \in Int
  <2>1. now \in Nat /\ started \in Nat /\ Instants \subseteq Nat
    BY OneLook, DayFacts
  <2>2. at \in Nat
    BY <1>0 DEF LooksAt, ClockTypes, AlarmLike
  <2>3. /\ Looks' = Looks \cup {now} /\ Looks \subseteq Instants
        /\ \A t \in Looks : t < now
        /\ started' = started /\ alarm' = alarm
        /\ Rings' = Rings \cup (IF Due(now) THEN {now} ELSE {})
    BY OneLook
  <2>4. now # Never
    BY <2>1 DEF Never
  <2>5. Looks \subseteq Int
    BY <2>1, <2>3
  <2> QED
    BY <2>1, <2>2, <2>3, <2>4, <2>5
<1>2. Due(now) <=> memo = Never /\ now >= started + at
  BY <1>0 DEF Due, StartupDue
<1>3. memo' = IF Due(now) THEN now ELSE memo
  BY DEF LooksAt, PollClock
<1>4. StartupLooks' = StartupLooks \cup (IF now >= started + at THEN {now} ELSE {})
  BY <1>0, <1>1 DEF StartupLooks
<1>5. StartupLooks \in SUBSET Int /\ \A t \in StartupLooks : t < now
  BY <1>1 DEF StartupLooks
<1>6. FirstOf(StartupLooks \cup {now}) = IF StartupLooks = {} THEN {now} ELSE FirstOf(StartupLooks)
  BY <1>1, <1>5, FirstStays
<1>7. memo = Never <=> StartupLooks = {}
  BY DEF StartupMemo
<1>8. FirstOf(StartupLooks') = Rings'
  <2>1. CASE now >= started + at
    BY <1>1, <1>2, <1>4, <1>6, <1>7, <2>1, FirstOfNone
  <2>2. CASE ~(now >= started + at)
    BY <1>1, <1>2, <1>4, <2>2
  <2> QED
    BY <2>1, <2>2
<1>9. memo' = Never <=> StartupLooks' = {}
  BY <1>1, <1>2, <1>3, <1>4, <1>7
<1>10. FirstOf(StartupLooks)' = FirstOf(StartupLooks')
  BY DEF FirstOf
<1> QED
  BY <1>8, <1>9, <1>10 DEF StartupMemo

(* An interval.                                                             *)
LEMMA IntervalLook ==
  ASSUME NEW now, LooksAt(now), alarm.kind = "interval",
         Rings = IntervalRings, IntervalMemo
  PROVE  Rings' = IntervalRings' /\ IntervalMemo'
<1>0. PICK gap : gap = alarm.at * MinuteLength
  OBVIOUS
<1>1. /\ Looks' = Looks \cup {now} /\ now \in Nat /\ Looks \subseteq Nat /\ now # Never
      /\ \A t \in Looks : t < now
      /\ alarm' = alarm
      /\ Rings' = Rings \cup (IF Due(now) THEN {now} ELSE {}) /\ Rings \subseteq Looks
      /\ gap \in Nat /\ gap > 0
  <2>1. now \in Nat /\ Instants \subseteq Nat
    BY OneLook, DayFacts
  <2>2. alarm.at \in Nat /\ alarm.at > 0
    BY DEF LooksAt, ClockTypes, AlarmLike
  <2>3. gap \in Nat /\ gap > 0
    BY <1>0, <2>2, ClockConstants
  <2>4. /\ Looks' = Looks \cup {now} /\ Looks \subseteq Instants
        /\ \A t \in Looks : t < now
        /\ alarm' = alarm
        /\ Rings' = Rings \cup (IF Due(now) THEN {now} ELSE {}) /\ Rings \subseteq Looks
    BY OneLook
  <2>5. now # Never
    BY <2>1 DEF Never
  <2>6. Looks \subseteq Nat
    BY <2>1, <2>4
  <2> QED
    BY <2>1, <2>3, <2>4, <2>5, <2>6
<1>2. Due(now) <=> memo # Never /\ now - memo >= gap
  BY <1>0 DEF Due, IntervalDue
<1>3. memo' = IF Due(now) \/ memo = Never THEN now ELSE memo
  BY DEF LooksAt, PollClock
<1>4. ASSUME NEW u
      PROVE  /\ LooksAfter(u) = {t \in Looks : t >= u + gap}
             /\ LooksAfter(u)' = {t \in Looks' : t >= u + gap}
             /\ LooksAfter(u)' = LooksAfter(u) \cup (IF now >= u + gap THEN {now} ELSE {})
  <2>1. /\ LooksAfter(u) = {t \in Looks : t >= u + gap}
        /\ LooksAfter(u)' = {t \in Looks' : t >= u + gap}
    BY <1>0, <1>1 DEF LooksAfter
  <2> QED
    BY <1>1, <2>1
<1>5. CASE Looks = {}
  <2>1. memo = Never /\ Rings = {} /\ ~Due(now) /\ memo' = now /\ Looks' = {now} /\ Rings' = {}
    BY <1>1, <1>2, <1>3, <1>5 DEF IntervalMemo
  <2>2. Origins' = {now}
    <3>1. Origins' = FirstOf(Looks') \cup Rings'
      BY DEF Origins, FirstOf
    <3>2. FirstOf({now}) = {now}
      BY <1>1 DEF FirstOf
    <3> QED
      BY <2>1, <3>1, <3>2
  <2>3. LooksAfter(now)' = {}
    BY <1>1, <1>4, <2>1
  <2>4. IntervalRings' = UNION {FirstOf(LooksAfter(u)') : u \in Origins'}
    BY DEF IntervalRings, FirstOf
  <2>5. IntervalRings' = {}
    BY <2>2, <2>3, <2>4, FirstOfNone
  <2>6. IntervalMemo'
    <3>1. \A u \in Origins' : u = now
      BY <2>2
    <3>2. now \in Origins' /\ Looks' # {} /\ memo' = now
      BY <2>1, <2>2
    <3> QED
      BY <2>3, <3>1, <3>2 DEF IntervalMemo
  <2> QED
    BY <2>1, <2>5, <2>6
<1>6. CASE Looks # {}
  <2>0. PICK m : m = memo
    OBVIOUS
  <2>1. /\ m \in Origins /\ LooksAfter(m) = {}
        /\ \A u \in Origins : u # m => u < m /\ LooksAfter(u) # {}
    BY <1>6, <2>0 DEF IntervalMemo
  <2>2. Origins \subseteq Looks /\ m \in Nat /\ m < now /\ m # Never
    <3>1. Origins \subseteq Looks
      BY <1>1 DEF Origins, FirstOf
    <3>2. m \in Looks
      BY <2>1, <3>1
    <3>3. m \in Nat /\ m < now
      BY <1>1, <3>2
    <3> QED
      BY <3>1, <3>3 DEF Never
  <2>3. /\ Due(now) <=> now >= m + gap
        /\ memo' = IF Due(now) THEN now ELSE m
    BY <1>1, <1>2, <1>3, <2>0, <2>2
  <2>4. Origins' = Origins \cup (IF Due(now) THEN {now} ELSE {})
    <3>1. Origins' = FirstOf(Looks') \cup Rings'
      BY DEF Origins, FirstOf
    <3>2. Looks \in SUBSET Int /\ now \in Int
      BY <1>1
    <3>3. FirstOf(Looks \cup {now}) = FirstOf(Looks)
      BY <1>1, <1>6, <3>2, FirstStays
    <3> QED
      BY <1>1, <3>1, <3>3 DEF Origins
  <2>5. ASSUME NEW u \in Origins, u # m
        PROVE  /\ LooksAfter(u)' # {} /\ u < now /\ u \in Nat
               /\ FirstOf(LooksAfter(u)') = FirstOf(LooksAfter(u))
    <3>1. LooksAfter(u) \in SUBSET Int /\ (\A t \in LooksAfter(u) : t < now) /\ now \in Int
      <4>1. LooksAfter(u) = {t \in Looks : t >= u + gap}
        BY <1>4
      <4>2. Looks \subseteq Int /\ (\A t \in Looks : t < now) /\ now \in Int
        BY <1>1
      <4>3. LooksAfter(u) \subseteq Looks
        BY ONLY <4>1
      <4> QED
        BY ONLY <4>2, <4>3
    <3>2. LooksAfter(u) # {} /\ u \in Nat /\ u < now
      <4>1. LooksAfter(u) # {} /\ u \in Looks
        BY <2>1, <2>2, <2>5
      <4> QED
        BY <1>1, <4>1
    <3>3. FirstOf(LooksAfter(u) \cup {now}) = FirstOf(LooksAfter(u))
      BY <3>1, <3>2, FirstStays
    <3>4. LooksAfter(u)' = LooksAfter(u) \/ LooksAfter(u)' = LooksAfter(u) \cup {now}
      BY <1>4
    <3> QED
      BY <3>2, <3>3, <3>4
  <2>6. LooksAfter(m)' = IF Due(now) THEN {now} ELSE {}
    BY <1>4, <2>1, <2>3
  <2>7. LooksAfter(now)' = {}
    <3>1. LooksAfter(now)' = {t \in Looks' : t >= now + gap}
      BY <1>4
    <3>2. ASSUME NEW t \in Looks' PROVE ~(t >= now + gap)
      <4>1. t \in Nat /\ t <= now /\ now \in Nat /\ gap \in Nat /\ gap > 0
        BY <1>1
      <4> QED
        BY ONLY <4>1
    <3> QED
      BY <3>1, <3>2
  <2>8. IntervalMemo'
    <3>0. Looks' # {} /\ memo' \in Origins'
      BY <1>1, <2>1, <2>3, <2>4
    <3>1. CASE Due(now)
      <4>1. memo' = now
        BY <2>3, <3>1
      <4>2. ASSUME NEW u \in Origins', u # now PROVE u < now /\ LooksAfter(u)' # {}
        <5>1. u \in Origins
          BY <2>4, <4>2
        <5>2. CASE u = m
          BY <2>2, <2>6, <3>1, <5>2
        <5>3. CASE u # m
          BY <2>5, <5>1, <5>3
        <5> QED
          BY <5>2, <5>3
      <4> QED
        BY <2>7, <3>0, <4>1, <4>2 DEF IntervalMemo
    <3>2. CASE ~Due(now)
      <4>1. memo' = m /\ Origins' = Origins /\ LooksAfter(m)' = {}
        BY <2>3, <2>4, <2>6, <3>2
      <4>2. ASSUME NEW u \in Origins', u # m PROVE u < m /\ LooksAfter(u)' # {}
        BY <2>1, <2>5, <4>1, <4>2
      <4> QED
        BY <3>0, <4>1, <4>2 DEF IntervalMemo
    <3> QED
      BY <3>1, <3>2
  <2>9. IntervalRings' = Rings'
    <3>1. IntervalRings' = UNION {FirstOf(LooksAfter(u)') : u \in Origins'}
      BY DEF IntervalRings, FirstOf
    <3>2. \A x : x \in IntervalRings' <=> \E u \in Origins' : x \in FirstOf(LooksAfter(u)')
      BY <3>1
    <3>3. \A x : x \in Rings <=> \E u \in Origins : x \in FirstOf(LooksAfter(u))
      BY DEF IntervalRings
    <3>4. FirstOf(LooksAfter(m)) = {} /\ FirstOf(LooksAfter(now)') = {}
      BY <2>1, <2>7, FirstOfNone
    <3>5. FirstOf(LooksAfter(m)') = IF Due(now) THEN {now} ELSE {}
      <4>1. FirstOf({now}) = {now}
        BY <1>1 DEF FirstOf
      <4> QED
        BY <2>6, <4>1, FirstOfNone
    <3>6. ASSUME NEW x PROVE x \in IntervalRings' <=> x \in Rings \/ (Due(now) /\ x = now)
      <4>1. ASSUME NEW u \in Origins', x \in FirstOf(LooksAfter(u)')
            PROVE  x \in Rings \/ (Due(now) /\ x = now)
        <5>1. u # now \/ u \in Origins
          BY <3>4, <4>1
        <5>2. u \in Origins
          BY <2>4, <5>1
        <5>3. CASE u = m
          BY <3>5, <4>1, <5>3
        <5>4. CASE u # m
          BY <2>5, <3>3, <4>1, <5>2, <5>4
        <5> QED
          BY <5>3, <5>4
      <4>2. ASSUME x \in Rings PROVE \E u \in Origins' : x \in FirstOf(LooksAfter(u)')
        <5>1. PICK u \in Origins : x \in FirstOf(LooksAfter(u))
          BY <3>3, <4>2
        <5>2. u # m
          BY <3>4, <5>1
        <5>3. u \in Origins' /\ x \in FirstOf(LooksAfter(u)')
          BY <2>4, <2>5, <5>1, <5>2
        <5> QED
          BY <5>3
      <4>3. ASSUME Due(now), x = now PROVE \E u \in Origins' : x \in FirstOf(LooksAfter(u)')
        <5>1. m \in Origins' /\ x \in FirstOf(LooksAfter(m)')
          BY <2>1, <2>4, <3>5, <4>3
        <5> QED
          BY <5>1
      <4> QED
        BY <3>2, <4>1, <4>2, <4>3
    <3>7. Rings' = Rings \cup (IF Due(now) THEN {now} ELSE {})
      BY <1>1
    <3> QED
      BY <3>6, <3>7
  <2> QED
    BY <2>8, <2>9
<1> QED
  BY <1>5, <1>6

(* A daily or weekly alarm with its minute at. The minute of day d, and     *)
(* whether the trigger looked in that very minute.                          *)
IsDue(kind, days, at, d, seen) ==
  /\ d \in days
  /\ IF kind = "cron" \/ seen THEN d * DayLength + at >= Minute(started)
     ELSE (d * DayLength + at) * MinuteLength > started
LookedIn(minute) == \E t \in Looks : Minute(t) = minute

LEMMA DueDays ==
  ASSUME NEW d
  PROVE  d \in RingDays <=> IsDue(alarm.kind, alarm.days, alarm.at, d, LookedIn(d * DayLength + alarm.at))
  BY DEF RingDays, IsDue, LookedIn

LEMMA DueDaysNext ==
  ASSUME NEW d, UNCHANGED <<alarm, started>>
  PROVE  d \in RingDays' <=> IsDue(alarm.kind, alarm.days, alarm.at, d, LookedIn(d * DayLength + alarm.at)')
<1>1. d \in RingDays' <=>
        /\ d \in alarm'.days
        /\ IF alarm'.kind = "cron" \/ \E t \in Looks' : Minute(t) = d * DayLength + alarm'.at
           THEN d * DayLength + alarm'.at >= Minute(started')
           ELSE (d * DayLength + alarm'.at) * MinuteLength > started'
  BY DEF RingDays, Minute
<1>2. LookedIn(d * DayLength + alarm.at)' <=> \E t \in Looks' : Minute(t) = d * DayLength + alarm.at
  BY DEF LookedIn, Minute
<1> QED
  BY <1>1, <1>2 DEF IsDue

(* A day that is due without a look in its minute is due with one.          *)
LEMMA DueAnyway ==
  ASSUME started \in Instants, NEW kind, NEW days \in SUBSET Nat, NEW at \in Nat, at < DayLength,
         NEW d, IsDue(kind, days, at, d, FALSE)
  PROVE  IsDue(kind, days, at, d, TRUE)
<1>1. d \in Nat /\ d \in days
  BY DEF IsDue
<1>2. PICK m \in Nat : m = d * DayLength + at
  BY <1>1, ClockConstants
<1>3. CASE kind = "cron"
  BY <1>3 DEF IsDue
<1>4. CASE kind # "cron"
  <2>1. m * MinuteLength > started /\ m * MinuteLength \in Nat
    BY <1>2, <1>4, ClockConstants DEF IsDue
  <2>2. /\ started \in Nat /\ Minute(started) \in Nat
        /\ \A q \in Nat : Minute(started) >= q <=> started >= q * MinuteLength
    BY DayFacts
  <2>3. ~(Minute(started) >= m)
    BY <2>1, <2>2
  <2>4. m >= Minute(started)
    BY <2>2, <2>3
  <2> QED
    BY <1>1, <1>2, <2>4 DEF IsDue
<1> QED
  BY <1>3, <1>4

(* What a look at now changes.                                              *)
DailyLooks(now) ==
  /\ LooksAt(now) /\ alarm.kind \in {"time_schedule", "cron"}
  /\ Rings = DailyRings /\ DailyMemo

LEMMA DailyFacts ==
  ASSUME NEW now, DailyLooks(now)
  PROVE  /\ Looks' = Looks \cup {now} /\ now \in Instants /\ Looks \subseteq Instants
         /\ \A t \in Looks : t < now
         /\ started \in Instants /\ started <= now /\ UNCHANGED <<alarm, started>>
         /\ alarm.at \in Nat /\ alarm.at < DayLength /\ alarm.days \in SUBSET Nat
         /\ alarm.kind = "time_schedule" => alarm.days = 0 .. LastDay
         /\ Day(now) \in 0 .. LastDay /\ Day(now) \in Nat /\ Minute(now) \in Nat
         /\ Day(now) * DayLength + alarm.at \in Nat
         /\ memo' = IF Due(now) THEN Day(now) ELSE memo
         /\ Rings' = Rings \cup (IF Due(now) THEN {now} ELSE {})
<1>1. LooksAt(now) /\ alarm.kind \in {"time_schedule", "cron"}
  BY DEF DailyLooks
<1>2. /\ Looks' = Looks \cup {now} /\ now \in Instants /\ Looks \subseteq Instants
      /\ \A t \in Looks : t < now
      /\ started \in Instants /\ started <= now /\ UNCHANGED <<alarm, started>>
      /\ Rings' = Rings \cup (IF Due(now) THEN {now} ELSE {})
  BY <1>1, OneLook
<1>3. AlarmLike(alarm)
  BY <1>1 DEF LooksAt, ClockTypes
<1>4. /\ alarm.at \in Nat /\ alarm.at < DayLength /\ alarm.days \in SUBSET Nat
      /\ alarm.kind = "time_schedule" => alarm.days = 0 .. LastDay
  BY <1>1, <1>3 DEF AlarmLike
<1>5. Day(now) \in 0 .. LastDay /\ Minute(now) \in Nat
  BY <1>2, DayFacts
<1>6. Day(now) \in Nat
  BY <1>5
<1>7. Day(now) * DayLength + alarm.at \in Nat
  BY <1>2, <1>4, <1>6, MinuteOfDay
<1>8. memo' = IF Due(now) THEN Day(now) ELSE memo
  BY <1>1 DEF LooksAt, PollClock
<1> QED
  BY <1>2, <1>4, <1>5, <1>6, <1>7, <1>8

(* Only the day of the look hears of it, and only after its minute.         *)
LEMMA HeardNext ==
  ASSUME NEW now, DailyLooks(now), NEW d
  PROVE  HeardOn(d)' = HeardOn(d) \cup (IF Day(now) = d /\ Minute(now) >= d * DayLength + alarm.at THEN {now} ELSE {})
<1>1. Looks' = Looks \cup {now} /\ alarm' = alarm
  BY DailyFacts
<1>2. HeardOn(d)' = {t \in Looks' : Day(t) = d /\ Minute(t) >= d * DayLength + alarm'.at}
  BY DEF HeardOn, Day, Minute
<1> QED
  BY <1>1, <1>2 DEF HeardOn

(* Nothing was heard on a day whose minute is still to come.                *)
LEMMA NotYet ==
  ASSUME NEW now, DailyLooks(now), ~(Minute(now) >= Day(now) * DayLength + alarm.at)
  PROVE  HeardOn(Day(now)) = {}
<1>1. SUFFICES ASSUME NEW t \in HeardOn(Day(now)) PROVE FALSE
  OBVIOUS
<1>2. t \in Looks /\ Minute(t) >= Day(now) * DayLength + alarm.at
  BY DEF HeardOn
<1>3. t \in Instants /\ now \in Instants /\ t <= now
  <2>1. t \in Instants /\ now \in Instants /\ t < now
    BY <1>2, DailyFacts
  <2> QED
    BY <2>1, DayFacts
<1>4. Minute(t) <= Minute(now) /\ Minute(t) \in Nat
  BY <1>3, TimeGoesOn, DayFacts
<1>5. Minute(now) \in Nat /\ Day(now) * DayLength + alarm.at \in Nat
  BY DailyFacts
<1> QED
  BY <1>2, <1>4, <1>5

(* A look makes a day due only in the minute of the start of the trigger,   *)
(* when nothing has been heard on that day.                                 *)
LEMMA DaysDue ==
  ASSUME NEW now, DailyLooks(now)
  PROVE  /\ \A d : d \in RingDays => d \in RingDays'
         /\ \A d : d # Day(now) /\ d \in RingDays' => d \in RingDays
         /\ Day(now) \in RingDays' /\ HeardOn(Day(now)) # {} => Day(now) \in RingDays
<1>0. PICK at, kind, days : at = alarm.at /\ kind = alarm.kind /\ days = alarm.days
  OBVIOUS
<1> DEFINE Seen(d) == \E t \in Looks : Minute(t) = d * DayLength + at
<1>1. /\ Looks' = Looks \cup {now} /\ now \in Instants /\ Looks \subseteq Instants
      /\ \A t \in Looks : t < now
      /\ started \in Instants /\ started <= now /\ UNCHANGED <<alarm, started>>
      /\ at \in Nat /\ at < DayLength /\ days \in SUBSET Nat
      /\ Day(now) \in Nat /\ Minute(now) \in Nat
  BY <1>0, DailyFacts
<1>2. ASSUME NEW d
      PROVE  /\ d \in RingDays <=> IsDue(kind, days, at, d, Seen(d))
             /\ d \in RingDays' <=> IsDue(kind, days, at, d, Seen(d) \/ Minute(now) = d * DayLength + at)
  <2>1. LookedIn(d * DayLength + at)' <=> Seen(d) \/ Minute(now) = d * DayLength + at
    <3>1. LookedIn(d * DayLength + at)' <=> \E t \in Looks' : Minute(t) = d * DayLength + at
      BY DEF LookedIn, Minute
    <3> QED
      BY <1>1, <3>1
  <2>2. LookedIn(d * DayLength + at) <=> Seen(d)
    BY DEF LookedIn
  <2>3. LookedIn(d * DayLength + alarm.at)' <=> LookedIn(d * DayLength + at)'
    BY <1>0, <1>1 DEF LookedIn
  <2>4. d \in RingDays <=> IsDue(kind, days, at, d, LookedIn(d * DayLength + at))
    BY <1>0, DueDays
  <2>5. d \in RingDays' <=> IsDue(kind, days, at, d, LookedIn(d * DayLength + at)')
    BY <1>0, <1>1, <2>3, DueDaysNext DEF IsDue
  <2> QED
    BY <2>1, <2>2, <2>4, <2>5 DEF IsDue
<1>3. ASSUME NEW d, d \in RingDays PROVE d \in RingDays'
  <2>1. IsDue(kind, days, at, d, FALSE) => IsDue(kind, days, at, d, TRUE)
    BY <1>1, DueAnyway
  <2> QED
    BY <1>2, <1>3, <2>1 DEF IsDue
<1>4. ASSUME NEW d, d # Day(now), d \in RingDays' PROVE d \in RingDays
  <2>1. d \in Nat
    BY <1>1, <1>2, <1>4 DEF IsDue
  <2>2. Minute(now) # d * DayLength + at
    BY <1>1, <1>4, <2>1, MinuteOfDay
  <2> QED
    BY <1>2, <1>4, <2>2 DEF IsDue
<1>5. ASSUME Day(now) \in RingDays', HeardOn(Day(now)) # {} PROVE Day(now) \in RingDays
  <2> DEFINE m == Day(now) * DayLength + at
  <2>1. CASE Minute(now) # m
    BY <1>2, <1>5, <2>1 DEF IsDue
  <2>2. CASE Minute(now) = m
    <3>1. PICK t \in HeardOn(Day(now)) : TRUE
      BY <1>5
    <3>2. t \in Looks /\ Minute(t) >= m
      BY <1>0, <3>1 DEF HeardOn
    <3>3. t \in Instants /\ t <= now
      BY <1>1, <3>2, DayFacts
    <3>4. Minute(t) <= Minute(now) /\ Minute(t) \in Nat /\ Minute(now) \in Nat
      BY <1>1, <3>3, TimeGoesOn, DayFacts
    <3>5. Minute(t) = m
      BY <2>2, <3>2, <3>4
    <3>6. Seen(Day(now))
      BY <3>2, <3>5
    <3> QED
      BY <1>2, <1>5, <3>6 DEF IsDue
  <2> QED
    BY <2>1, <2>2
<1> QED
  BY <1>3, <1>4, <1>5

(* The day is remembered once it has rung.                                  *)
LEMMA DayRemembered ==
  ASSUME NEW now, DailyLooks(now)
  PROVE  memo = Day(now) <=> Day(now) \in RingDays' /\ HeardOn(Day(now)) # {}
<1>0. /\ memo # Never => memo \in RingDays /\ HeardOn(memo) # {}
      /\ \A d \in RingDays : HeardOn(d) # {} => memo # Never /\ memo >= d
  BY DEF DailyLooks, DailyMemo
<1>1. Day(now) \in Nat /\ now \in Instants /\ Looks \subseteq Instants /\ \A t \in Looks : t < now
  BY DailyFacts
<1>2. ASSUME memo = Day(now) PROVE Day(now) \in RingDays' /\ HeardOn(Day(now)) # {}
  <2>1. memo # Never
    BY <1>1, <1>2 DEF Never
  <2>2. Day(now) \in RingDays /\ HeardOn(Day(now)) # {}
    BY <1>0, <1>2, <2>1
  <2> QED
    BY <2>2, DaysDue
<1>3. ASSUME Day(now) \in RingDays', HeardOn(Day(now)) # {} PROVE memo = Day(now)
  <2>1. Day(now) \in RingDays
    BY <1>3, DaysDue
  <2>2. memo # Never /\ memo >= Day(now) /\ HeardOn(memo) # {}
    BY <1>0, <1>3, <2>1
  <2>3. PICK t \in Looks : Day(t) = memo
    BY <2>2 DEF HeardOn
  <2>4. t \in Instants /\ t <= now
    BY <1>1, <2>3, DayFacts
  <2>5. memo <= Day(now) /\ memo \in Nat
    BY <1>1, <2>3, <2>4, TimeGoesOn, DayFacts
  <2> QED
    BY <1>1, <2>2, <2>5
<1> QED
  BY <1>2, <1>3

(* A daily or weekly alarm goes off at the first look at or after the       *)
(* minute of a day that is due.                                             *)
LEMMA DueFirst ==
  ASSUME NEW now, DailyLooks(now)
  PROVE  Due(now) <=> /\ Day(now) \in RingDays' /\ HeardOn(Day(now)) = {}
                      /\ Minute(now) >= Day(now) * DayLength + alarm.at
<1>0. PICK at, kind, days, d, m :
        /\ at = alarm.at /\ kind = alarm.kind /\ days = alarm.days
        /\ d = Day(now) /\ m = d * DayLength + at
  OBVIOUS
<1>1. /\ Looks' = Looks \cup {now} /\ now \in Instants /\ Looks \subseteq Instants
      /\ \A t \in Looks : t < now
      /\ started \in Instants /\ started <= now /\ UNCHANGED <<alarm, started>>
      /\ at \in Nat /\ at < DayLength /\ days \in SUBSET Nat
      /\ d \in Nat /\ d \in 0 .. LastDay /\ Minute(now) \in Nat /\ m \in Nat
      /\ kind = "time_schedule" => days = 0 .. LastDay
      /\ kind \in {"time_schedule", "cron"}
  BY <1>0, DailyFacts DEF DailyLooks
<1>2. memo = d <=> d \in RingDays' /\ HeardOn(d) # {}
  BY <1>0, DayRemembered
<1>3. d \in RingDays' <=>
        /\ d \in days
        /\ IF kind = "cron" \/ (\E t \in Looks : Minute(t) = m) \/ Minute(now) = m
           THEN m >= Minute(started) ELSE m * MinuteLength > started
  <2>1. LookedIn(m)' <=> (\E t \in Looks : Minute(t) = m) \/ Minute(now) = m
    <3>1. LookedIn(m)' <=> \E t \in Looks' : Minute(t) = m
      BY DEF LookedIn, Minute
    <3> QED
      BY <1>1, <3>1
  <2>2. LookedIn(d * DayLength + alarm.at)' <=> LookedIn(m)'
    BY <1>0, <1>1 DEF LookedIn
  <2>3. d \in RingDays' <=> IsDue(kind, days, at, d, LookedIn(m)')
    BY <1>0, <1>1, <2>2, DueDaysNext DEF IsDue
  <2> QED
    BY <1>0, <2>1, <2>3 DEF IsDue
<1>4. CASE kind = "cron"
  <2>1. Due(now) <=> m >= Minute(started) /\ memo # d /\ d \in days /\ Minute(now) >= m
    BY <1>0, <1>4 DEF Due, CronDue, Today
  <2> QED
    BY <1>0, <1>2, <1>3, <1>4, <2>1
<1>5. CASE kind = "time_schedule"
  <2>0. /\ LastLook \in Looks \cup {started} /\ (Looks = {} => LastLook = started)
        /\ (Looks # {} => LastLook \in Looks) /\ (\A t \in Looks : t <= LastLook)
        /\ LastLook \in Instants /\ LastLook <= now
        /\ \A t \in Looks : started <= t
    <3>1. LooksAt(now)
      BY DEF DailyLooks
    <3> QED
      BY <1>1, <3>1, OneLook
  <2>1. Due(now) <=> /\ Minute(now) = m \/ (LastLook < m * MinuteLength /\ m <= Minute(now))
                     /\ memo # d
    BY <1>0, <1>5 DEF Due, TimeDue, Today
  <2>2. /\ started \in Nat /\ LastLook \in Nat /\ started <= LastLook
        /\ m * MinuteLength \in Nat
    <3>1. started \in Nat /\ LastLook \in Nat
      BY <1>1, <2>0, DayFacts
    <3>2. m * MinuteLength \in Nat
      BY <1>1, ClockConstants
    <3>3. started <= LastLook
      BY <2>0, <3>1
    <3> QED
      BY <3>1, <3>2, <3>3
  <2>3. m * MinuteLength > started => m >= Minute(started)
    <3>1. /\ Minute(started) \in Nat
          /\ \A q \in Nat : Minute(started) >= q <=> started >= q * MinuteLength
      BY <1>1, DayFacts
    <3> QED
      BY <1>1, <2>2, <3>1
  <2>4. /\ Minute(LastLook) \in Nat /\ (Minute(LastLook) >= m <=> LastLook >= m * MinuteLength)
        /\ Minute(LastLook) <= Minute(now) /\ Minute(started) \in Nat /\ Minute(started) <= Minute(now)
    BY <1>1, <2>0, DayFacts, TimeGoesOn
  <2>5. ASSUME Due(now) PROVE d \in RingDays' /\ HeardOn(d) = {} /\ Minute(now) >= m
    <3>1. Minute(now) >= m /\ memo # d
      BY <1>1, <2>1, <2>5
    <3>2. d \in RingDays'
      <4>1. CASE Minute(now) = m
        BY <1>1, <1>3, <1>5, <2>4, <4>1
      <4>2. CASE Minute(now) # m
        <5>1. LastLook < m * MinuteLength
          BY <2>1, <2>5, <4>2
        <5>2. m * MinuteLength > started
          BY <2>2, <5>1
        <5> QED
          BY <1>1, <1>3, <1>5, <2>3, <5>2
      <4> QED
        BY <4>1, <4>2
    <3> QED
      BY <1>2, <3>1, <3>2
  <2>6. ASSUME d \in RingDays', HeardOn(d) = {}, Minute(now) >= m PROVE Due(now)
    <3>1. memo # d
      BY <1>2, <2>6
    <3>2. ASSUME Minute(now) # m PROVE LastLook < m * MinuteLength
      <4>1. CASE Looks = {}
        <5>1. m * MinuteLength > started
          BY <1>3, <1>5, <2>6, <3>2, <4>1
        <5> QED
          BY <2>0, <2>2, <4>1, <5>1
      <4>2. CASE Looks # {}
        <5>1. SUFFICES ASSUME LastLook >= m * MinuteLength PROVE FALSE
          BY <2>2
        <5>2. LastLook \in Looks /\ Minute(LastLook) >= m
          BY <2>0, <2>4, <4>2, <5>1
        <5>3. Day(LastLook) = d
          <6>1. Day(LastLook) <= d /\ Day(LastLook) \in Nat
            BY <1>0, <1>1, <2>0, TimeGoesOn, DayFacts
          <6>2. Day(LastLook) >= d <=> Minute(LastLook) >= d * DayLength
            BY <1>1, <2>0, DayFacts
          <6>3. d * DayLength \in Nat /\ m >= d * DayLength
            <7>1. d * DayLength \in Nat
              BY <1>1, ClockConstants
            <7> QED
              BY <1>0, <1>1, <7>1
          <6>4. Minute(LastLook) >= d * DayLength
            BY <1>1, <2>4, <5>2, <6>3
          <6> QED
            BY <1>1, <6>1, <6>2, <6>4
        <5>4. LastLook \in HeardOn(d)
          BY <1>0, <5>2, <5>3 DEF HeardOn
        <5> QED
          BY <2>6, <5>4
      <4> QED
        BY <4>1, <4>2
    <3> QED
      BY <1>1, <2>1, <2>6, <3>1, <3>2
  <2> QED
    BY <1>0, <2>5, <2>6
<1> QED
  BY <1>1, <1>4, <1>5

LEMMA DailyLook ==
  ASSUME NEW now, DailyLooks(now)
  PROVE  Rings' = DailyRings' /\ DailyMemo'
<1>0. PICK d, m : d = Day(now) /\ m = d * DayLength + alarm.at
  OBVIOUS
<1>1. /\ Looks' = Looks \cup {now} /\ now \in Instants /\ Looks \subseteq Instants
      /\ \A t \in Looks : t < now
      /\ d \in Nat
      /\ memo' = IF Due(now) THEN d ELSE memo
      /\ Rings' = Rings \cup (IF Due(now) THEN {now} ELSE {})
  BY <1>0, DailyFacts
<1>2. /\ \A e : e \in RingDays => e \in RingDays'
      /\ \A e : e # d /\ e \in RingDays' => e \in RingDays
      /\ d \in RingDays' /\ HeardOn(d) # {} => d \in RingDays
  BY <1>0, DaysDue
<1>3. Due(now) <=> d \in RingDays' /\ HeardOn(d) = {} /\ Minute(now) >= m
  BY <1>0, DueFirst
<1>4. /\ \A e : e # d => HeardOn(e)' = HeardOn(e)
      /\ HeardOn(d)' = HeardOn(d) \cup (IF Minute(now) >= m THEN {now} ELSE {})
  BY <1>0, HeardNext
<1>5. ~(Minute(now) >= m) => HeardOn(d) = {}
  BY <1>0, NotYet
<1>6. /\ memo # Never => memo \in RingDays /\ HeardOn(memo) # {}
      /\ \A e \in RingDays : HeardOn(e) # {} => memo # Never /\ memo >= e
      /\ \A x : x \in Rings <=> \E e \in RingDays : x \in FirstOf(HeardOn(e))
  BY DEF DailyLooks, DailyMemo, DailyRings
<1>7. DailyMemo'
  <2>0. ASSUME NEW e \in RingDays', HeardOn(e)' # {}, ~Due(now)
        PROVE  e \in RingDays /\ HeardOn(e) # {}
    BY <1>2, <1>3, <1>4, <1>5, <2>0
  <2>1. CASE Due(now)
    <3>1. memo' = d /\ memo' # Never /\ d \in RingDays' /\ HeardOn(d)' # {}
      BY <1>1, <1>3, <1>4, <2>1 DEF Never
    <3>2. ASSUME NEW e \in RingDays', HeardOn(e)' # {} PROVE d >= e
      <4>1. PICK t \in HeardOn(e)' : TRUE
        BY <3>2
      <4>2. t \in Looks' /\ Day(t) = e
        BY <4>1 DEF HeardOn, Day, Minute
      <4>3. t \in Instants /\ t <= now
        BY <1>1, <4>2, DayFacts
      <4>4. e <= d /\ e \in Nat
        BY <1>0, <1>1, <4>2, <4>3, TimeGoesOn, DayFacts
      <4> QED
        BY <1>1, <4>4
    <3>3. PICK n : n = memo'
      OBVIOUS
    <3>4. HeardOn(memo)' = HeardOn(d)'
      BY <3>1 DEF HeardOn
    <3> QED
      BY <3>1, <3>2, <3>4 DEF DailyMemo
  <2>2. CASE ~Due(now)
    <3>1. memo' = memo
      BY <1>1, <2>2
    <3>2. PICK n : n = memo
      OBVIOUS
    <3>3. n # Never => n \in RingDays' /\ HeardOn(n)' # {}
      BY <1>2, <1>4, <1>6, <3>2
    <3>4. HeardOn(memo)' = HeardOn(n)'
      BY <3>1, <3>2 DEF HeardOn
    <3>5. \A e \in RingDays' : HeardOn(e)' # {} => memo' # Never /\ memo' >= e
      BY <1>6, <2>0, <2>2, <3>1
    <3> QED
      BY <3>1, <3>2, <3>3, <3>4, <3>5 DEF DailyMemo
  <2> QED
    BY <2>1, <2>2
<1>8. ASSUME NEW x
      PROVE  x \in DailyRings' <=> x \in Rings \/ (Due(now) /\ x = now)
  <2>0. x \in DailyRings' <=> \E e \in RingDays' : x \in FirstOf(HeardOn(e)')
    <3>1. DailyRings' = UNION {FirstOf(HeardOn(e)') : e \in RingDays'}
      BY DEF DailyRings, FirstOf
    <3> QED
      BY <3>1
  <2>1. Instants \subseteq Int /\ now \in Int
    BY <1>1, DayFacts
  <2>2. HeardOn(d) # {} => FirstOf(HeardOn(d)') = FirstOf(HeardOn(d))
    <3>1. HeardOn(d) \in SUBSET Int /\ \A t \in HeardOn(d) : t < now
      BY <1>1, <2>1 DEF HeardOn
    <3>2. HeardOn(d) # {} => FirstOf(HeardOn(d) \cup {now}) = FirstOf(HeardOn(d))
      BY <2>1, <3>1, FirstStays
    <3> QED
      BY <1>4, <3>2
  <2>3. FirstOf({}) = {} /\ FirstOf({now}) = {now}
    BY <2>1, FirstOfNone DEF FirstOf
  <2>4. ASSUME NEW e \in RingDays', x \in FirstOf(HeardOn(e)')
        PROVE  x \in Rings \/ (Due(now) /\ x = now)
    <3>1. CASE e # d
      BY <1>2, <1>4, <1>6, <2>4, <3>1
    <3>2. CASE e = d /\ HeardOn(d) # {}
      BY <1>2, <1>6, <2>2, <2>4, <3>2
    <3>3. CASE e = d /\ HeardOn(d) = {}
      <4>1. CASE Minute(now) >= m
        BY <1>3, <1>4, <2>3, <2>4, <3>3, <4>1
      <4>2. CASE ~(Minute(now) >= m)
        BY <1>4, <2>3, <2>4, <3>3, <4>2
      <4> QED
        BY <4>1, <4>2
    <3> QED
      BY <3>1, <3>2, <3>3
  <2>5. ASSUME x \in Rings PROVE \E e \in RingDays' : x \in FirstOf(HeardOn(e)')
    <3>1. PICK e \in RingDays : x \in FirstOf(HeardOn(e))
      BY <1>6, <2>5
    <3>2. CASE e # d
      BY <1>2, <1>4, <3>1, <3>2
    <3>3. CASE e = d
      <4>1. HeardOn(d) # {}
        BY <2>3, <3>1, <3>3
      <4> QED
        BY <1>2, <2>2, <3>1, <3>3, <4>1
    <3> QED
      BY <3>2, <3>3
  <2>6. ASSUME Due(now), x = now PROVE \E e \in RingDays' : x \in FirstOf(HeardOn(e)')
    BY <1>3, <1>4, <2>3, <2>6
  <2> QED
    BY <2>0, <2>4, <2>5, <2>6
<1>9. Rings' = DailyRings'
  <2>1. \A x : x \in Rings' <=> x \in Rings \/ (Due(now) /\ x = now)
    BY <1>1
  <2> QED
    BY <1>8, <2>1
<1> QED
  BY <1>7, <1>9

-----------------------------------------------------------------------------
(* One look keeps what the clock's triggers remember.                       *)
LEMMA ClockLook ==
  ASSUME ClockInv, NEW now \in Instants, PollClock(now)
  PROVE  ClockInv'
<1>1. LooksAt(now)
  BY DEF LooksAt, ClockInv
<1>2. /\ LooksInOrder' /\ RingsInOrder' /\ ClockTypes' /\ (Rings \subseteq Looks)'
      /\ alarm' = alarm
  BY <1>1, OneLook
<1>3. alarm.kind \in {"time_schedule", "cron", "interval", "startup"}
  BY DEF ClockInv, ClockTypes, AlarmLike
<1>4. CASE alarm.kind \in {"time_schedule", "cron"}
  <2>1. Rings = DailyRings /\ DailyMemo
    BY <1>4 DEF ClockInv, RingsDue, MemoSays
  <2>2. Rings' = DailyRings' /\ DailyMemo'
    BY <1>1, <1>4, <2>1, DailyLook DEF DailyLooks
  <2> QED
    BY <1>2, <1>4, <2>2 DEF ClockInv, RingsDue, MemoSays
<1>5. CASE alarm.kind = "interval"
  <2>1. Rings = IntervalRings /\ IntervalMemo
    BY <1>5 DEF ClockInv, RingsDue, MemoSays
  <2>2. Rings' = IntervalRings' /\ IntervalMemo'
    BY <1>1, <1>5, <2>1, IntervalLook
  <2> QED
    BY <1>2, <1>5, <2>2 DEF ClockInv, RingsDue, MemoSays
<1>6. CASE alarm.kind = "startup"
  <2>1. Rings = FirstOf(StartupLooks) /\ StartupMemo
    BY <1>6 DEF ClockInv, RingsDue, MemoSays
  <2>2. Rings' = FirstOf(StartupLooks)' /\ StartupMemo'
    BY <1>1, <1>6, <2>1, StartupLook
  <2> QED
    BY <1>2, <1>6, <2>2 DEF ClockInv, RingsDue, MemoSays
<1> QED
  BY <1>3, <1>4, <1>5, <1>6

LEMMA ClockInvInit == ClockInit => ClockInv
<1> SUFFICES ASSUME ClockInit PROVE ClockInv
  OBVIOUS
<1>1. /\ polls = <<>> /\ rings = <<>> /\ memo = Never /\ started \in Instants
      /\ alarm \in Daily \cup Weekly \cup Others
  BY DEF ClockInit
<1>2. Looks = {} /\ Rings = {}
  BY <1>1 DEF Looks, Rings
<1>3. MinuteLength \in Nat /\ DayLength \in Nat \ {0} /\ LastDay \in Nat
  BY ClockConstants
<1>4. AlarmLike(alarm)
  <2>1. CASE alarm \in Daily
    <3>1. PICK k \in {"time_schedule", "cron"}, m \in 0 .. DayLength - 1 :
            alarm = [kind |-> k, at |-> m, days |-> 0 .. LastDay]
      BY <2>1 DEF Daily
    <3>2. alarm.kind = k /\ alarm.at = m /\ alarm.days = 0 .. LastDay
      BY <3>1
    <3>3. m \in Nat /\ m < DayLength
      BY <1>3
    <3> QED
      BY <3>2, <3>3 DEF AlarmLike
  <2>2. CASE alarm \in Weekly
    <3>1. PICK m \in 0 .. DayLength - 1 : alarm = [kind |-> "cron", at |-> m, days |-> {LastDay}]
      BY <2>2 DEF Weekly
    <3>2. alarm.kind = "cron" /\ alarm.at = m /\ alarm.days = {LastDay}
      BY <3>1
    <3>3. m \in Nat /\ m < DayLength /\ {LastDay} \subseteq 0 .. LastDay
      BY <1>3
    <3> QED
      BY <3>2, <3>3 DEF AlarmLike
  <2>3. CASE alarm \in Others
    <3>1. alarm.kind \in {"interval", "startup"} /\ alarm.at \in 1 .. DayLength
      BY <2>3 DEF Others
    <3>2. alarm.at \in Nat /\ alarm.at > 0
      BY <1>3, <3>1
    <3> QED
      BY <3>1, <3>2 DEF AlarmLike
  <2> QED
    BY <1>1, <2>1, <2>2, <2>3
<1>5. ClockTypes
  BY <1>1, <1>4, EmptySeq DEF ClockTypes
<1>6. LooksInOrder /\ RingsInOrder
  <2>1. Len(rings) = 0
    BY <1>1, EmptySeq
  <2> QED
    BY <1>2, <2>1 DEF LooksInOrder, RingsInOrder
<1>7. \A d : HeardOn(d) = {} /\ LooksAfter(d) = {}
  BY <1>2 DEF HeardOn, LooksAfter
<1>8. StartupLooks = {} /\ FirstOf({}) = {}
  BY <1>2, FirstOfNone DEF StartupLooks
<1>9. DailyRings = {} /\ IntervalRings = {}
  BY <1>7, <1>8 DEF DailyRings, IntervalRings
<1>10. DailyMemo /\ IntervalMemo /\ StartupMemo
  BY <1>1, <1>2, <1>7, <1>8 DEF DailyMemo, IntervalMemo, StartupMemo
<1>11. Rings = RingsDue
  BY <1>2, <1>4, <1>8, <1>9 DEF RingsDue, AlarmLike
<1> QED
  BY <1>2, <1>5, <1>6, <1>10, <1>11 DEF ClockInv, MemoSays

LEMMA ClockInvStep == ClockInv /\ [ClockNext]_clockVars => ClockInv'
<1> SUFFICES ASSUME ClockInv, [ClockNext]_clockVars PROVE ClockInv'
  OBVIOUS
<1>1. CASE ClockNext
  BY <1>1, ClockLook DEF ClockNext
<1>2. CASE UNCHANGED clockVars
  <2>1. alarm' = alarm /\ started' = started /\ polls' = polls /\ memo' = memo /\ rings' = rings
    BY <1>2 DEF clockVars
  <2>2. Looks' = Looks /\ Rings' = Rings /\ LastLook' = LastLook
    BY <2>1 DEF Looks, Rings, LastLook
  <2>3. RingDays' = RingDays
    BY <2>1, <2>2 DEF RingDays
  <2>4. \A d : HeardOn(d)' = HeardOn(d) /\ LooksAfter(d)' = LooksAfter(d)
    BY <2>1, <2>2 DEF HeardOn, LooksAfter, Day, Minute
  <2>5. StartupLooks' = StartupLooks
    BY <2>1, <2>2 DEF StartupLooks
  <2>6. Origins' = Origins
    BY <2>2 DEF Origins, FirstOf
  <2>7. DailyRings' = DailyRings
    <3>1. DailyRings' = UNION {FirstOf(HeardOn(d)') : d \in RingDays'}
      BY DEF DailyRings, FirstOf
    <3> QED
      BY <2>3, <2>4, <3>1 DEF DailyRings
  <2>8. IntervalRings' = IntervalRings
    <3>1. IntervalRings' = UNION {FirstOf(LooksAfter(u)') : u \in Origins'}
      BY DEF IntervalRings, FirstOf
    <3> QED
      BY <2>4, <2>6, <3>1 DEF IntervalRings
  <2>9. RingsDue' = RingsDue
    <3>1. FirstOf(StartupLooks)' = FirstOf(StartupLooks)
      BY <2>5 DEF FirstOf
    <3> QED
      BY <2>1, <2>7, <2>8, <3>1 DEF RingsDue
  <2>10. MemoSays'
    <3>1. HeardOn(memo)' = HeardOn(memo) /\ LooksAfter(memo)' = LooksAfter(memo)
      BY <2>1, <2>2 DEF HeardOn, LooksAfter, Day, Minute
    <3>2. DailyMemo' <=> DailyMemo
      BY <2>1, <2>3, <2>4, <3>1 DEF DailyMemo
    <3>3. IntervalMemo' <=> IntervalMemo
      BY <2>1, <2>2, <2>4, <2>6, <3>1 DEF IntervalMemo
    <3>4. StartupMemo' <=> StartupMemo
      BY <2>1, <2>5 DEF StartupMemo
    <3> QED
      BY <2>1, <3>2, <3>3, <3>4 DEF ClockInv, MemoSays
  <2>11. ClockTypes' /\ LooksInOrder' /\ RingsInOrder'
    BY <2>1, <2>2 DEF ClockInv, ClockTypes, LooksInOrder, RingsInOrder
  <2> QED
    BY <2>2, <2>9, <2>10, <2>11 DEF ClockInv
<1> QED
  BY <1>1, <1>2

LEMMA InvRings == ClockInv => RingsOnTime
<1> SUFFICES ASSUME ClockInv PROVE RingsOnTime
  OBVIOUS
<1>1. RingsInOrder /\ Rings = RingsDue
  BY DEF ClockInv
<1>2. alarm.kind \in {"time_schedule", "cron", "interval", "startup"}
  BY DEF ClockInv, ClockTypes, AlarmLike
<1>3. CASE alarm.kind \in {"time_schedule", "cron"}
  <2>1. DailyRings = UNION {FirstOf({t \in Looks : Day(t) = d /\ Minute(t) >= d * DayLength + alarm.at}) : d \in RingDays}
    BY DEF DailyRings, HeardOn
  <2> QED
    BY <1>1, <1>3, <2>1 DEF RingsOnTime, RingsInOrder, RingsDue
<1>4. CASE alarm.kind = "startup"
  BY <1>1, <1>4 DEF RingsOnTime, RingsInOrder, RingsDue, StartupLooks
<1>5. CASE alarm.kind = "interval"
  <2>1. IntervalRings = UNION {FirstOf({t \in Looks : t >= u + alarm.at * MinuteLength}) : u \in FirstOf(Looks) \cup Rings}
    BY DEF IntervalRings, Origins, LooksAfter
  <2> QED
    BY <1>1, <1>5, <2>1 DEF RingsOnTime, RingsInOrder, RingsDue
<1> QED
  BY <1>2, <1>3, <1>4, <1>5

(* Every alarm of the triggers that watch the clock rings when it is due,   *)
(* once, though the machine slept through its minute (RingsOnTime of        *)
(* ScheduleTriggers).                                                       *)
THEOREM AlarmsRingOnTime == ClockSpec => []RingsOnTime
<1> QED
  BY ClockInvInit, ClockInvStep, InvRings, PTL DEF ClockSpec

(* What the built-in triggers report follows from what they saw and from    *)
(* the clock (TriggersHonest of MCHost): no sample is told twice, missed or *)
(* made up, no alarm rings early, twice or not at all once looked at.       *)
THEOREM TriggersKept == SensorSpec /\ ClockSpec => []TriggersHonest
<1>1. EventsMatchSamples /\ RingsOnTime => TriggersHonest
  BY DEF TriggersHonest
<1> QED
  BY <1>1, EventsFollowSamples, AlarmsRingOnTime, PTL
=============================================================================
