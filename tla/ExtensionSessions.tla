------------------------- MODULE ExtensionSessions -------------------------
(* Sessions of the plug-in editors (extensions/session.py) and the requests   *)
(* that use them (host/api/services/interactions.py). The API's event loop    *)
(* opens, looks up and closes sessions; the command of a request runs in a    *)
(* thread. A command may acquire something the session has to give back when  *)
(* it closes (a running recording, a keyboard grab) and hands it over with    *)
(* register_cleanup; the session may close at any moment under it.            *)
EXTENDS Naturals, Sequences, SequencesExt, FiniteSets

CONSTANTS Sessions,     \* identities of sessions
          Commands,     \* requests that invoke a command
          Slots,        \* _invoke_slots: commands that may run at once
          MaxReloads    \* bound: times the plug-in is loaded again

ASSUME SessionConstants == Slots \in Nat \ {0} /\ MaxReloads \in Nat

VARIABLES listed,       \* sessions of the manager
          idle,         \* sessions not used for longer than the TTL
          shut,         \* sessions whose close has begun
          openedAt,     \* the plug-in load a session was opened with
          load,         \* the current plug-in load
          doomed,       \* taken out by the loop's current call, not yet closed
          freeing,      \* callbacks the loop's current close still has to run
          cleanups,     \* per session: the commands whose resource it will free
          stage,        \* where each command is
          ofSession,    \* its session, once it has one
          resource      \* what became of what it acquired

sessionVars == <<listed, idle, shut, openedAt, load, doomed, freeing, cleanups, stage,
                 ofSession, resource>>

SessionInit ==
  /\ listed = {} /\ idle = {} /\ shut = {} /\ load = 0
  /\ openedAt = [s \in Sessions |-> 0] /\ doomed = {} /\ freeing = <<>>
  /\ cleanups = [s \in Sessions |-> <<>>] /\ stage = [c \in Commands |-> "new"]
  /\ ofSession = [c \in Commands |-> {}] /\ resource = [c \in Commands |-> "none"]

(* The loop runs one handler at a time, and a close runs all its callbacks    *)
(* before the loop does anything else.                                        *)
LoopFree == doomed = {} /\ freeing = <<>>
Moves(c, to) == stage' = [stage EXCEPT ![c] = to]
Serves(c, s) == s \in ofSession[c]
KeepSessions == UNCHANGED <<listed, idle, shut, openedAt, load, doomed, freeing, cleanups>>

(* drop, drop_all and cleanup_expired: out of the manager, then closed.       *)
Drops(ss) == listed' = listed \ ss /\ doomed' = ss \cap listed
Expired == idle \cap listed

----------------------------------------------------------------------------
(* Handlers on the event loop.                                                *)
FreshSession(s) == \A c \in Commands : ~Serves(c, s)

(* invoke_extension without a session: a new one is created, the expired ones *)
(* are closed; without the command's function the new one is dropped again.   *)
OpenSession(c, s, available) ==
  /\ LoopFree /\ stage[c] = "new" /\ FreshSession(s)
  /\ ofSession' = [ofSession EXCEPT ![c] = {s}]
  /\ openedAt' = [openedAt EXCEPT ![s] = load]
  /\ Moves(c, IF available THEN "posted" ELSE "done")
  /\ listed' = (listed \cup (IF available THEN {s} ELSE {})) \ Expired
  /\ doomed' = Expired \cup (IF available THEN {} ELSE {s})
  /\ UNCHANGED <<idle, shut, load, freeing, cleanups, resource>>

(* With a session: unknown or expired ones are refused; one opened before the *)
(* plug-in was loaded again is dropped.                                       *)
ReuseSession(c, s) ==
  /\ LoopFree /\ stage[c] = "new" /\ ~FreshSession(s)
  /\ LET known == s \in listed \ Expired
         current == known /\ openedAt[s] = load
     IN /\ Moves(c, IF current THEN "posted" ELSE "done")
        /\ ofSession' = [ofSession EXCEPT ![c] = {s}]
        /\ idle' = IF known THEN idle \ {s} ELSE idle
        /\ Drops(IF known /\ ~current THEN Expired \cup {s} ELSE Expired)
  /\ UNCHANGED <<shut, openedAt, load, freeing, cleanups, resource>>

(* The close request of a view, and drop_all when the engine or the program   *)
(* stops; the sweep every 30 seconds.                                         *)
CloseSession(ss) ==
  /\ LoopFree /\ listed # {} /\ ss \in {{s} : s \in listed} \cup {listed, {}}
  /\ Drops(ss \cup IF ss = listed THEN {} ELSE Expired)
  /\ UNCHANGED <<idle, shut, openedAt, load, freeing, cleanups, stage, ofSession, resource>>

(* ExtensionSession.close of the next session the loop's call took out.       *)
CloseNext(s) ==
  /\ s \in doomed /\ freeing = <<>>
  /\ doomed' = doomed \ {s} /\ shut' = shut \cup {s}
  /\ freeing' = IF s \in shut THEN <<>> ELSE Reverse(cleanups[s])
  /\ cleanups' = [cleanups EXCEPT ![s] = IF s \in shut THEN @ ELSE <<>>]
  /\ UNCHANGED <<listed, idle, openedAt, load, stage, ofSession, resource>>

Frees(c) ==
  resource' = [resource EXCEPT ![c] = IF @ = "held" THEN "freed" ELSE @]

FreeNext ==
  /\ freeing # <<>> /\ Frees(Head(freeing)) /\ freeing' = Tail(freeing)
  /\ UNCHANGED <<listed, idle, shut, openedAt, load, doomed, cleanups, stage, ofSession>>

(* The command's thread is through: an exception or a result that closes      *)
(* drops the session.                                                         *)
Respond(c) ==
  /\ LoopFree /\ stage[c] \in {"stays", "closes"} /\ Moves(c, "done")
  /\ Drops(IF stage[c] = "closes" THEN ofSession[c] ELSE {})
  /\ UNCHANGED <<idle, shut, openedAt, load, freeing, cleanups, ofSession, resource>>

----------------------------------------------------------------------------
(* The command's thread.                                                      *)
Within == {"checking", "entering", "inside", "holding", "registered"}
InCommand == {"inside", "holding", "registered"}

(* All slots taken: the request is refused and its session stays.             *)
TakeSlot(c) ==
  /\ stage[c] = "posted"
  /\ Moves(c, IF Cardinality({o \in Commands : stage[o] \in Within}) < Slots
              THEN "checking" ELSE "done")
  /\ UNCHANGED <<ofSession, resource>> /\ KeepSessions

(* invoke: a closed session raises; otherwise the session has been used.      *)
CheckClosed(c) ==
  /\ stage[c] = "checking"
  /\ Moves(c, IF ofSession[c] \subseteq shut THEN "closes" ELSE "entering")
  /\ idle' = IF ofSession[c] \subseteq shut THEN idle ELSE idle \ ofSession[c]
  /\ UNCHANGED <<listed, shut, openedAt, load, doomed, freeing, cleanups, ofSession, resource>>

EnterCommand(c) ==
  /\ stage[c] = "entering"
  /\ LET busy == \E o \in Commands : stage[o] \in InCommand /\ ofSession[o] = ofSession[c]
     IN Moves(c, IF busy THEN "closes" ELSE "inside")
  /\ UNCHANGED <<ofSession, resource>> /\ KeepSessions

(* start_recording, capture_hotkey: first acquired, then handed over.         *)
AcquireResource(c) ==
  /\ stage[c] = "inside" /\ Moves(c, "holding")
  /\ resource' = [resource EXCEPT ![c] = "held"]
  /\ UNCHANGED ofSession /\ KeepSessions

(* Mutant: a session that has closed meanwhile only stores the callback.      *)
RegisterCleanupBlindly(c) ==
  /\ stage[c] = "holding" /\ Moves(c, "registered")
  /\ cleanups' = [s \in Sessions |-> IF Serves(c, s) THEN Append(cleanups[s], c) ELSE cleanups[s]]
  /\ UNCHANGED <<resource, listed, idle, shut, openedAt, load, doomed, freeing, ofSession>>

RegisterCleanup(c) ==
  /\ stage[c] = "holding" /\ Moves(c, "registered")
  /\ IF ofSession[c] \subseteq shut
     THEN Frees(c) /\ UNCHANGED cleanups
     ELSE /\ UNCHANGED resource
          /\ cleanups' = [s \in Sessions |->
                IF Serves(c, s) THEN Append(cleanups[s], c) ELSE cleanups[s]]
  /\ UNCHANGED <<listed, idle, shut, openedAt, load, doomed, freeing, ofSession>>

(* stop_recording and cancel_macro: what an earlier command of the session    *)
(* has started is stopped by this one.                                        *)
StopResource(c, o) ==
  /\ stage[c] = "inside" /\ o # c /\ ofSession[o] = ofSession[c] /\ resource[o] = "held"
  /\ resource' = [resource EXCEPT ![o] = "stopped"] /\ Moves(c, "registered")
  /\ UNCHANGED ofSession /\ KeepSessions

ReturnFrom(c, how) ==
  /\ stage[c] \in {"inside", "registered"} /\ Moves(c, how)
  /\ UNCHANGED <<ofSession, resource>> /\ KeepSessions

----------------------------------------------------------------------------
(* The world: time passes, the plug-in is loaded again.                       *)
GrowIdle(s) ==
  /\ s \in listed \ idle /\ idle' = idle \cup {s}
  /\ UNCHANGED <<listed, shut, openedAt, load, doomed, freeing, cleanups, stage, ofSession, resource>>
LoadAgain ==
  /\ load < MaxReloads /\ load' = load + 1
  /\ UNCHANGED <<listed, idle, shut, openedAt, doomed, freeing, cleanups, stage, ofSession, resource>>

SessionNext ==
  \/ \E c \in Commands, s \in Sessions :
       (\E available \in BOOLEAN : OpenSession(c, s, available)) \/ ReuseSession(c, s)
  \/ \E ss \in SUBSET Sessions : CloseSession(ss)
  \/ \E s \in Sessions : CloseNext(s) \/ GrowIdle(s)
  \/ FreeNext \/ LoadAgain
  \/ \E c \in Commands :
       \/ TakeSlot(c) \/ CheckClosed(c) \/ EnterCommand(c) \/ AcquireResource(c)
       \/ RegisterCleanup(c) \/ Respond(c)
       \/ \E o \in Commands : StopResource(c, o)
       \/ \E how \in {"stays", "closes"} : ReturnFrom(c, how)

SessionSpec == SessionInit /\ [][SessionNext]_sessionVars

----------------------------------------------------------------------------
(* Properties.                                                                *)

(* What a command acquired is given back when its session closes, however the *)
(* closing falls between the command's checks and its registration, and not   *)
(* before: it is still held only while the session is listed, its close is    *)
(* under way, or the command has yet to hand it over; and it was freed by a   *)
(* closed session only, which no request finds any more.                      *)
ResourcesFreed ==
  /\ listed \cap (shut \cup doomed) = {}
  /\ \A c \in Commands :
       /\ resource[c] = "held" => \/ stage[c] = "holding"
                                  \/ ofSession[c] \subseteq listed \cup doomed
                                  \/ \E k \in 1 .. Len(freeing) : freeing[k] = c
       /\ resource[c] = "freed" => ofSession[c] \subseteq shut
=============================================================================
