---------------------------- MODULE PluginWorker ----------------------------
(* Actions that run in a process of their own (core/plugin_worker.py drives   *)
(* it, core/plugin_worker_main.py is its program). A call starts the process, *)
(* waits for its ready line, writes the request and waits for the result, each*)
(* with a timeout; shutdown_all, in the thread that shuts the engine down,    *)
(* stops the processes it finds registered, and an update may replace the     *)
(* plug-in's files on disk between any two steps.                             *)
EXTENDS Naturals, Sequences, FiniteSets

CONSTANTS Calls,       \* calls of run_isolated_action
          MaxUpdates   \* bound: replacements of the plug-in's files

VARIABLES callAt,      \* where each call is
          process,     \* what each call's process is doing
          protocol,    \* the lines it wrote that the call has not read
          registered,  \* _live_processes
          ran,         \* the files the process loaded to run the action, 0 if none
          answer,      \* what the call gave its caller
          reports,     \* crash events the call reported
          tree,        \* number of the files on disk
          swept,       \* shutdown_all has looked at _live_processes
          sweep        \* what it still has to stop

workerVars == <<callAt, process, protocol, registered, ran, answer, reports, tree,
                swept, sweep>>

(* The files the engine checked when it loaded the plug-in.                   *)
Given == 1

WorkerInit ==
  /\ callAt = [c \in Calls |-> "new"] /\ process = [c \in Calls |-> "none"]
  /\ protocol = [c \in Calls |-> <<>>] /\ registered = {}
  /\ ran = [c \in Calls |-> 0] /\ answer = [c \in Calls |-> "none"]
  /\ reports = [c \in Calls |-> 0] /\ tree = Given /\ swept = FALSE /\ sweep = {}

Writes(c, line) == protocol' = [protocol EXCEPT ![c] = Append(@, line)]
Becomes(c, doing) == process' = [process EXCEPT ![c] = doing]
Goes(c, stage) == callAt' = [callAt EXCEPT ![c] = stage]
KeepCalls == UNCHANGED <<callAt, registered, answer, reports, swept, sweep>>
KeepWorker == UNCHANGED <<process, protocol, ran, tree>>
Alive(c) == process[c] \notin {"none", "gone"}

----------------------------------------------------------------------------
(* The call.                                                                  *)
StartWorker(c) ==
  /\ callAt[c] = "new" /\ Goes(c, "started") /\ Becomes(c, "booting")
  /\ UNCHANGED <<protocol, registered, ran, answer, reports, tree, swept, sweep>>

Register(c) ==
  /\ callAt[c] = "started" /\ Goes(c, "awaits_ready")
  /\ registered' = registered \cup {c}
  /\ UNCHANGED <<answer, reports, swept, sweep>> /\ KeepWorker

(* The call gives up: the process is stopped unless its output has ended by   *)
(* itself, the crash is reported and an exception raised.                     *)
RaisesAfter(c, doing) ==
  /\ Becomes(c, doing) /\ Goes(c, "raising")
  /\ reports' = [reports EXCEPT ![c] = @ + 1]
  /\ answer' = [answer EXCEPT ![c] = "raised"]
  /\ UNCHANGED <<registered, ran, tree, swept, sweep>>

(* _receive_payload: the next line, the end of the output or the timeout.     *)
Waiting(c) == callAt[c] \in {"awaits_ready", "awaits_result"}
OutputEnds(c) ==
  /\ Waiting(c) /\ protocol[c] = <<>> /\ process[c] \in {"gone", "mute"}
  /\ RaisesAfter(c, process[c]) /\ UNCHANGED protocol
TimesOut(c) ==
  /\ Waiting(c) /\ protocol[c] = <<>> /\ process[c] # "mute"
  /\ RaisesAfter(c, "gone") /\ UNCHANGED protocol

Receive(c) == protocol' = [protocol EXCEPT ![c] = Tail(@)]
TakeReady(c) ==
  /\ callAt[c] = "awaits_ready" /\ protocol[c] # <<>>
  /\ Receive(c) /\ Goes(c, "sends")
  /\ UNCHANGED <<process, registered, ran, answer, reports, tree, swept, sweep>>
TakeAnswer(c) ==
  /\ callAt[c] = "awaits_result" /\ protocol[c] # <<>>
  /\ Receive(c)
  /\ IF Head(protocol[c]) = "noise"
     THEN RaisesAfter(c, "gone")
     ELSE /\ answer' = [answer EXCEPT ![c] = Head(protocol[c])] /\ Goes(c, "completed")
          /\ UNCHANGED <<process, registered, ran, reports, tree, swept, sweep>>

(* _drive writes the request; a process that is gone cannot take it.          *)
SendRequest(c) ==
  /\ callAt[c] = "sends"
  /\ IF process[c] = "gone"
     THEN RaisesAfter(c, "gone") /\ UNCHANGED protocol
     ELSE /\ Goes(c, "awaits_result") /\ KeepWorker
          /\ UNCHANGED <<registered, answer, reports, swept, sweep>>

(* The finally clause: out of the register, then the process is waited for,   *)
(* for a while, or stopped at once.                                           *)
Unregister(c) ==
  /\ callAt[c] \in {"raising", "completed"}
  /\ Goes(c, IF callAt[c] = "raising" THEN "stops" ELSE "awaits_exit")
  /\ registered' = registered \ {c}
  /\ UNCHANGED <<answer, reports, swept, sweep>> /\ KeepWorker

(* Mutant: a call that raised trusts that its process has ended.              *)
EndCallTrustingly(c) ==
  /\ callAt[c] \in {"stops", "awaits_exit"}
  /\ Goes(c, "ended")
  /\ Becomes(c, IF callAt[c] = "stops" THEN process[c] ELSE "gone")
  /\ UNCHANGED <<protocol, registered, ran, answer, reports, tree, swept, sweep>>

EndCall(c) ==
  /\ callAt[c] \in {"stops", "awaits_exit"}
  /\ Goes(c, "ended") /\ Becomes(c, "gone")
  /\ UNCHANGED <<protocol, registered, ran, answer, reports, tree, swept, sweep>>

----------------------------------------------------------------------------
(* The process.                                                               *)
SayReady(c) ==
  /\ process[c] = "booting" /\ Becomes(c, "reading") /\ Writes(c, "ready")
  /\ UNCHANGED <<ran, tree>> /\ KeepCalls

(* Once it has the request it reads the plug-in's files and compares them     *)
(* with the ones the engine checked; what it runs is what it has read.        *)
LoadFiles(c) ==
  /\ process[c] = "reading" /\ callAt[c] = "awaits_result"
  /\ IF tree = Given
     THEN /\ Becomes(c, "acting") /\ ran' = [ran EXCEPT ![c] = tree] /\ UNCHANGED protocol
     ELSE /\ Becomes(c, "exiting") /\ Writes(c, "refused") /\ UNCHANGED ran
  /\ UNCHANGED tree /\ KeepCalls

Answers(c, line) ==
  /\ process[c] = "acting" /\ line \in {"ok", "error"}
  /\ Becomes(c, "exiting") /\ Writes(c, line)
  /\ UNCHANGED <<ran, tree>> /\ KeepCalls

(* A program started by the action writes to the output it has inherited.     *)
Chatters(c) ==
  /\ process[c] = "acting" /\ protocol[c] = <<>> /\ Writes(c, "noise")
  /\ UNCHANGED <<process, ran, tree>> /\ KeepCalls

(* It ends without an answer, or closes its output and goes on.               *)
Vanishes(c, doing) ==
  /\ process[c] \in {"booting", "reading", "acting", "exiting"}
  /\ doing = "gone" \/ process[c] = "acting"
  /\ Becomes(c, doing)
  /\ UNCHANGED <<protocol, ran, tree>> /\ KeepCalls

----------------------------------------------------------------------------
(* The engine's shutdown and the world.                                       *)
CopyRegister ==
  /\ ~swept /\ swept' = TRUE /\ sweep' = registered
  /\ UNCHANGED <<callAt, registered, answer, reports>> /\ KeepWorker
StopNext(c) ==
  /\ c \in sweep /\ sweep' = sweep \ {c} /\ Becomes(c, "gone")
  /\ UNCHANGED <<callAt, protocol, registered, ran, answer, reports, tree, swept>>

ReplaceFiles ==
  /\ tree <= MaxUpdates /\ tree' = tree + 1
  /\ UNCHANGED <<process, protocol, ran>> /\ KeepCalls

WorkerNext ==
  \/ \E c \in Calls :
       \/ StartWorker(c) \/ Register(c) \/ OutputEnds(c) \/ TimesOut(c)
       \/ TakeReady(c) \/ TakeAnswer(c) \/ SendRequest(c) \/ Unregister(c) \/ EndCall(c)
       \/ SayReady(c) \/ LoadFiles(c) \/ Chatters(c)
       \/ \E line \in {"ok", "error"} : Answers(c, line)
       \/ \E doing \in {"gone", "mute"} : Vanishes(c, doing)
       \/ StopNext(c)
  \/ CopyRegister \/ ReplaceFiles

WorkerSpec == WorkerInit /\ [][WorkerNext]_workerVars

----------------------------------------------------------------------------
(* Properties.                                                                *)
Ended(c) == callAt[c] = "ended"

(* Whatever the process did and whoever stopped it: a call that is over has   *)
(* left no process behind, registered or not; it reported a crash, once, if   *)
(* and only if it raised; and what ran, if anything, are the files the engine *)
(* had checked, and they did run when the answer says so.                     *)
CallsSettled ==
  \A c \in Calls :
    /\ Ended(c) => ~Alive(c) /\ c \notin registered
    /\ reports[c] = IF answer[c] = "raised" THEN 1 ELSE 0
    /\ ran[c] \in {0, Given}
    /\ answer[c] \in {"ok", "error"} => ran[c] = Given
=============================================================================
