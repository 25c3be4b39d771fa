----------------------------- MODULE Dashboards -----------------------------
(* The dashboard is a process of its own (dashboard.pyw). Whoever holds the   *)
(* control port is the dashboard; another launch asks it to come to the front *)
(* and leaves, and the engine's process asks it to quit. A command carries a  *)
(* secret that the holder leaves in a file. Launches, commands, closing and   *)
(* the clean-up of the file are steps of separate processes.                  *)
EXTENDS Naturals

CONSTANTS Boards,        \* launches of dashboard.pyw
          Quitters,      \* engine processes that are exiting (NOTMYFAULT.pyw)
          Nobody,
          MaxClaims      \* attempts to take the port (5 in the code)

ASSUME DashboardConstants == Nobody \notin Boards /\ MaxClaims \in Nat \ {0}

VARIABLES board,         \* what each launch is doing
          controlPort,   \* the launch bound to the control port
          secretFile,    \* the launch whose secret the file holds
          known,         \* the secret each client has read
          claims,        \* failed attempts to take the port
          show, quit,    \* show_requested, quit_requested
          quitter        \* what _notify_dashboard_quit is doing

dashboardVars == <<board, controlPort, secretFile, known, claims, show, quit, quitter>>

DashboardInit ==
  /\ board = [d \in Boards |-> "idle"] /\ controlPort = Nobody /\ secretFile = Nobody
  /\ known = [c \in Boards \cup Quitters |-> Nobody] /\ claims = [d \in Boards |-> 0]
  /\ show = {} /\ quit = {} /\ quitter = [q \in Quitters |-> "idle"]

BoardDoes(d, doing) == board' = [board EXCEPT ![d] = doing]
QuietCommands == UNCHANGED <<show, quit, quitter>>

(* The server answers from serve_forever until shutdown.                      *)
Serving(d) == board[d] \in {"preparing", "open", "leaving"}

(* Mutant: the listening socket allows address reuse.                         *)
BindableByAnybody == \A d \in Boards : board[d] # "publishing"

(* The port belongs to one process: no address reuse, exclusive on Windows.   *)
Bindable == controlPort = Nobody

----------------------------------------------------------------------------
(* _claim_dashboard_instance.                                                 *)
OpenBoard(d) ==
  /\ board[d] = "idle" /\ BoardDoes(d, "claiming")
  /\ UNCHANGED <<controlPort, secretFile, known, claims>> /\ QuietCommands

ClaimPort(d) ==
  /\ board[d] = "claiming"
  /\ IF Bindable THEN BoardDoes(d, "publishing") /\ controlPort' = d
     ELSE BoardDoes(d, "reading") /\ UNCHANGED controlPort
  /\ UNCHANGED <<secretFile, known, claims>> /\ QuietCommands

(* _send_control_command: the secret is read, then the holder is asked.       *)
ReadSecret(d) ==
  /\ board[d] = "reading" /\ BoardDoes(d, "asking")
  /\ known' = [known EXCEPT ![d] = secretFile]
  /\ UNCHANGED <<controlPort, secretFile, claims>> /\ QuietCommands

Heeds(holder, client) ==
  holder # Nobody /\ Serving(holder) /\ known[client] = holder

AskToShow(d) ==
  /\ board[d] = "asking" /\ Heeds(controlPort, d)
  /\ BoardDoes(d, "yielded") /\ show' = show \cup {controlPort}
  /\ UNCHANGED <<controlPort, secretFile, known, claims, quit, quitter>>

(* No secret, no server, another secret or no answer within a second.         *)
AskInVain(d) ==
  /\ board[d] = "asking"
  /\ IF claims[d] + 1 < MaxClaims
     THEN BoardDoes(d, "claiming") /\ claims' = [claims EXCEPT ![d] = @ + 1]
     ELSE BoardDoes(d, "failed") /\ UNCHANGED claims
  /\ UNCHANGED <<controlPort, secretFile, known>> /\ QuietCommands

PublishSecret(d) ==
  /\ board[d] = "publishing" /\ BoardDoes(d, "preparing") /\ secretFile' = d
  /\ UNCHANGED <<controlPort, known, claims>> /\ QuietCommands

(* The file cannot be written safely: the port is given back.                 *)
PublishFails(d) ==
  /\ board[d] = "publishing" /\ BoardDoes(d, "failed") /\ controlPort' = Nobody
  /\ UNCHANGED <<secretFile, known, claims>> /\ QuietCommands

----------------------------------------------------------------------------
(* main: without a build or a free port for its pages it leaves again.        *)
ShowWindow(d, built) ==
  /\ board[d] = "preparing" /\ BoardDoes(d, IF built THEN "open" ELSE "leaving")
  /\ UNCHANGED <<controlPort, secretFile, known, claims>> /\ QuietCommands

ComeToFront(d) ==
  /\ board[d] = "open" /\ d \in show /\ show' = show \ {d}
  /\ UNCHANGED <<board, controlPort, secretFile, known, claims, quit, quitter>>

(* Closed by the user, or destroyed by watch_quit_requests.                   *)
CloseWindow(d) ==
  /\ board[d] = "open" /\ BoardDoes(d, "leaving")
  /\ UNCHANGED <<controlPort, secretFile, known, claims>> /\ QuietCommands

CloseServer(d) ==
  /\ board[d] = "leaving" /\ BoardDoes(d, "comparing") /\ controlPort' = Nobody
  /\ UNCHANGED <<secretFile, known, claims>> /\ QuietCommands

(* _remove_control_secret: what is removed is what the file is by then.       *)
CompareSecret(d) ==
  /\ board[d] = "comparing" /\ BoardDoes(d, IF secretFile = d THEN "removing" ELSE "gone")
  /\ UNCHANGED <<controlPort, secretFile, known, claims>> /\ QuietCommands
RemoveSecret(d) ==
  /\ board[d] = "removing" /\ BoardDoes(d, "gone") /\ secretFile' = Nobody
  /\ UNCHANGED <<controlPort, known, claims>> /\ QuietCommands

----------------------------------------------------------------------------
(* _notify_dashboard_quit of an engine process, which takes any outcome.      *)
ReadToQuit(q) ==
  /\ quitter[q] = "idle" /\ known' = [known EXCEPT ![q] = secretFile]
  /\ quitter' = [quitter EXCEPT ![q] = IF secretFile = Nobody THEN "done" ELSE "sending"]
  /\ UNCHANGED <<board, controlPort, secretFile, claims, show, quit>>

SendQuit(q) ==
  /\ quitter[q] = "sending" /\ quitter' = [quitter EXCEPT ![q] = "done"]
  /\ quit' = IF Heeds(controlPort, q) THEN quit \cup {controlPort} ELSE quit
  /\ UNCHANGED <<board, controlPort, secretFile, known, claims, show>>

DashboardNext ==
  \/ \E d \in Boards :
       \/ OpenBoard(d) \/ ClaimPort(d) \/ ReadSecret(d) \/ AskToShow(d) \/ AskInVain(d)
       \/ PublishSecret(d) \/ PublishFails(d) \/ (\E built \in BOOLEAN : ShowWindow(d, built))
       \/ ComeToFront(d) \/ CloseWindow(d) \/ CloseServer(d) \/ CompareSecret(d)
       \/ RemoveSecret(d)
  \/ \E q \in Quitters : ReadToQuit(q) \/ SendQuit(q)

DashboardSpec == DashboardInit /\ [][DashboardNext]_dashboardVars

----------------------------------------------------------------------------
(* Properties.                                                                *)
(* There is one window at most, and its process holds the port; the file      *)
(* never offers a secret that the serving dashboard would refuse, so that a   *)
(* launch that can read it either takes over or is answered (only an older    *)
(* process that removes the file too late can hide the dashboard); and a      *)
(* request to show or to quit has gone to a process that served.              *)
DashboardsFound ==
  /\ \A d, e \in Boards : (board[d] = "open" /\ board[e] = "open") => d = e
  /\ \A d \in Boards : Serving(d) => controlPort = d /\ secretFile \in {d, Nobody}
  /\ \A d \in Boards :
       (Serving(d) /\ secretFile = Nobody) => \E e \in Boards \ {d} : board[e] = "gone"
  /\ \A d \in show \cup quit : board[d] \notin {"idle", "claiming", "reading", "asking",
                                                 "publishing", "yielded", "failed"}
=============================================================================
