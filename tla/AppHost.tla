------------------------------- MODULE AppHost -------------------------------
(* The engine's process (NOTMYFAULT.pyw EngineRunner): the main thread claims *)
(* the API port, starts the tray and the engine, serves the API and cleans    *)
(* up; the tray's thread and the API start, stop and shut down; a thread may  *)
(* end the process by force. Of the engine (RuntimeController models it) only *)
(* its life shows here.                                                       *)
EXTENDS Naturals

CONSTANTS Hosts,         \* processes launched by hand, at logon or by the dashboard
          Free,          \* the API port belongs to nobody
          MaxToggles     \* bound: starts and stops asked for on the tray and by the API

ASSUME HostConstants == Free \notin Hosts /\ MaxToggles \in Nat

VARIABLES main,          \* what the main thread of each process is doing
          apiPort,
          engine,        \* "off", "on", "told" (to stop), of each process
          stuck,         \* processes with an action that does not end
          server,        \* "none", "serving", "told", "draining", "over"
          tray,          \* what the tray's thread is doing
          armed,         \* _force_exit_armed
          asked,         \* the user chose to leave, on the tray or by the API
          forced,        \* ended by os._exit
          toggles        \* starts and stops asked for

hostVars == <<main, apiPort, engine, stuck, server, tray, armed, asked, forced, toggles>>

HostInit ==
  /\ main = [h \in Hosts |-> "none"] /\ apiPort = Free
  /\ engine = [h \in Hosts |-> "off"] /\ stuck = {} /\ server = [h \in Hosts |-> "none"]
  /\ tray = [h \in Hosts |-> "none"] /\ armed = {} /\ asked = {} /\ forced = {} /\ toggles = 0

MainGoes(h, to) == main' = [main EXCEPT ![h] = to]
TrayGoes(h, to) == tray' = [tray EXCEPT ![h] = to]
TrayStops(h) == IF tray[h] = "idle" THEN "over" ELSE tray[h]
Living(h) == main[h] \notin {"none", "gone"}

(* RuntimeController.start refuses while a generation lives; request_stop     *)
(* tells the present one.                                                     *)
EngineStarted(h) == engine' = [engine EXCEPT ![h] = IF @ = "off" THEN "on" ELSE @]
EngineTold(h) == engine' = [engine EXCEPT ![h] = IF @ = "on" THEN "told" ELSE @]

----------------------------------------------------------------------------
(* run.                                                                       *)
LaunchHost(h) ==
  /\ main[h] = "none" /\ MainGoes(h, "claiming")
  /\ UNCHANGED <<apiPort, engine, stuck, server, tray, armed, asked, forced, toggles>>

(* A process that finds the port taken opens the dashboard, or an alert if    *)
(* the holder has left meanwhile, and returns.                                *)
ClaimApiPort(h) ==
  /\ main[h] = "claiming"
  /\ IF apiPort = Free THEN MainGoes(h, "preparing") /\ apiPort' = h
     ELSE MainGoes(h, "gone") /\ UNCHANGED apiPort
  /\ UNCHANGED <<engine, stuck, server, tray, armed, asked, forced, toggles>>

(* The services are built and the tray is started; without one it goes on.    *)
StartTray(h, works) ==
  /\ main[h] = "preparing" /\ MainGoes(h, "starting")
  /\ TrayGoes(h, IF works THEN "idle" ELSE "over")
  /\ UNCHANGED <<apiPort, engine, stuck, server, armed, asked, forced, toggles>>

(* The services cannot be built or the engine's thread not be started.        *)
PrepareFails(h) ==
  /\ main[h] \in {"preparing", "starting"} /\ MainGoes(h, "cleaning")
  /\ UNCHANGED <<apiPort, engine, stuck, server, tray, armed, asked, forced, toggles>>

StartEngine(h) ==
  /\ main[h] = "starting" /\ MainGoes(h, "launching") /\ EngineStarted(h)
  /\ UNCHANGED <<apiPort, stuck, server, tray, armed, asked, forced, toggles>>

Serve(h) ==
  /\ main[h] = "launching" /\ MainGoes(h, "serving")
  /\ server' = [server EXCEPT ![h] = "serving"]
  /\ UNCHANGED <<apiPort, engine, stuck, tray, armed, asked, forced, toggles>>

(* The server was told to exit or took a signal itself: it closes the         *)
(* listening socket, then waits for its connections.                          *)
DrainServer(h) ==
  /\ server[h] \in {"serving", "told"}
  /\ main[h] = "serving" /\ server' = [server EXCEPT ![h] = "draining"] /\ apiPort' = Free
  /\ UNCHANGED <<main, engine, stuck, tray, armed, asked, forced, toggles>>

(* Drained (or broken down); the lifespan has dropped sessions and previews.  *)
LeaveServe(h) ==
  /\ main[h] = "serving" /\ MainGoes(h, "cleaning")
  /\ server' = [server EXCEPT ![h] = "over"]
  /\ UNCHANGED <<apiPort, engine, stuck, tray, armed, asked, forced, toggles>>

(* A signal before that only stops the engine.                                *)
SignalEarly(h) ==
  /\ main[h] \in {"preparing", "starting", "launching"} /\ engine[h] = "on" /\ EngineTold(h)
  /\ UNCHANGED <<main, apiPort, stuck, server, tray, armed, asked, forced, toggles>>

----------------------------------------------------------------------------
(* _cleanup, on the main thread.                                              *)
BeginCleanup(h) ==
  /\ main[h] = "cleaning" /\ MainGoes(h, "stopping") /\ EngineTold(h) /\ TrayGoes(h, TrayStops(h))
  /\ UNCHANGED <<apiPort, stuck, server, armed, asked, forced, toggles>>

(* Mutant: nothing is arranged for an engine that does not stop in time.      *)
EngineJoinedTrustingly(h) ==
  /\ main[h] = "stopping" /\ MainGoes(h, "closing") /\ EngineTold(h)
  /\ UNCHANGED <<apiPort, stuck, server, tray, armed, asked, forced, toggles>>

(* stop(timeout=5); request_process_shutdown when that was not enough.        *)
EngineJoined(h) ==
  /\ main[h] = "stopping" /\ MainGoes(h, "closing") /\ EngineTold(h)
  /\ armed' = IF engine[h] = "off" THEN armed ELSE armed \cup {h}
  /\ UNCHANGED <<apiPort, stuck, server, tray, asked, forced, toggles>>

CloseUp(h) ==
  /\ main[h] = "closing" /\ MainGoes(h, "returned")
  /\ apiPort' = IF apiPort = h THEN Free ELSE apiPort
  /\ UNCHANGED <<engine, stuck, server, tray, armed, asked, forced, toggles>>

(* The engine's thread is no daemon: the interpreter waits for it. The tray's *)
(* thread and the timer are.                                                  *)
EndProcess(h) ==
  /\ main[h] = "returned" /\ engine[h] = "off" /\ MainGoes(h, "gone")
  /\ tray' = [tray EXCEPT ![h] = "over"] /\ armed' = armed \ {h}
  /\ UNCHANGED <<apiPort, engine, stuck, server, asked, forced, toggles>>

ForceExit(h) ==
  /\ Living(h) /\ h \in armed /\ MainGoes(h, "gone") /\ forced' = forced \cup {h}
  /\ armed' = armed \ {h} /\ engine' = [engine EXCEPT ![h] = "off"]
  /\ apiPort' = (IF apiPort = h THEN Free ELSE apiPort)
  /\ tray' = [tray EXCEPT ![h] = "over"]
  /\ UNCHANGED <<stuck, server, asked, toggles>>

----------------------------------------------------------------------------
(* The engine, seen from here.                                                *)
EngineEnds(h) ==
  /\ engine[h] \in {"on", "told"} /\ h \notin stuck
  /\ engine' = [engine EXCEPT ![h] = "off"]
  /\ UNCHANGED <<main, apiPort, stuck, server, tray, armed, asked, forced, toggles>>

ActionHangs(h) ==
  /\ engine[h] = "on" /\ h \notin stuck /\ stuck' = stuck \cup {h}
  /\ UNCHANGED <<main, apiPort, engine, server, tray, armed, asked, forced, toggles>>

----------------------------------------------------------------------------
(* The tray's thread and the API.                                             *)
(* request_process_shutdown: before serve() there is no server to tell.       *)
ShutdownRequested(h) ==
  /\ EngineTold(h) /\ armed' = armed \cup {h}
  /\ server' = [server EXCEPT ![h] = IF @ = "serving" THEN "told" ELSE @]

Toggle(h, on) ==
  /\ \/ tray[h] = "idle"
     \/ main[h] = "serving" /\ server[h] = "serving"
  /\ toggles < MaxToggles /\ toggles' = toggles + 1
  /\ IF on THEN EngineStarted(h) ELSE EngineTold(h)
  /\ UNCHANGED <<main, apiPort, stuck, server, tray, armed, asked, forced>>

(* _tray_exit: the dashboard is notified, the engine stopped (five seconds at *)
(* most), the process shut down.                                              *)
TrayExit(h) ==
  /\ Living(h) /\ tray[h] = "idle" /\ TrayGoes(h, "exiting") /\ asked' = asked \cup {h}
  /\ EngineTold(h)
  /\ UNCHANGED <<main, apiPort, stuck, server, armed, forced, toggles>>
TrayShutsDown(h) ==
  /\ Living(h) /\ tray[h] = "exiting" /\ TrayGoes(h, "over") /\ ShutdownRequested(h)
  /\ UNCHANGED <<main, apiPort, stuck, asked, forced, toggles>>

ApiShutdown(h) ==
  /\ main[h] = "serving" /\ server[h] = "serving" /\ asked' = asked \cup {h}
  /\ ShutdownRequested(h) /\ TrayGoes(h, TrayStops(h))
  /\ UNCHANGED <<main, apiPort, stuck, forced, toggles>>

HostNext ==
  \E h \in Hosts :
    \/ LaunchHost(h) \/ ClaimApiPort(h) \/ PrepareFails(h) \/ StartEngine(h) \/ Serve(h)
    \/ \E works \in BOOLEAN : StartTray(h, works)
    \/ DrainServer(h) \/ LeaveServe(h)
    \/ SignalEarly(h) \/ BeginCleanup(h) \/ CloseUp(h) \/ EndProcess(h) \/ ForceExit(h)
    \/ EngineJoined(h)
    \/ EngineEnds(h) \/ ActionHangs(h) \/ (\E on \in BOOLEAN : Toggle(h, on))
    \/ TrayExit(h) \/ TrayShutsDown(h) \/ ApiShutdown(h)

HostSpec == HostInit /\ [][HostNext]_hostVars

----------------------------------------------------------------------------
(* Properties.                                                                *)
CleaningUp(h) == main[h] \in {"cleaning", "stopping", "closing", "returned"}

(* A process that was asked to leave is on its way at every moment, whatever  *)
(* it was doing: its tray is still at it, the timer runs or the main thread   *)
(* cleans up; one that has cleaned up and waits for an engine will be ended   *)
(* by force. A process that ended by itself left no engine at work. And an    *)
(* engine is at work only in the process that holds the API port, or in one   *)
(* that is leaving.                                                           *)
HostsLeave ==
  /\ \A h \in asked : Living(h) => tray[h] = "exiting" \/ h \in armed \/ CleaningUp(h)
  /\ \A h \in Hosts : (main[h] = "returned" /\ engine[h] # "off") => h \in armed
  /\ \A h \in Hosts : (main[h] = "gone" /\ h \notin forced) => engine[h] = "off"
  /\ \A h \in Hosts :
       engine[h] # "off" => apiPort = h \/ server[h] = "draining" \/ CleaningUp(h)
=============================================================================
