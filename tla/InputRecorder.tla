--------------------------- MODULE InputRecorder ---------------------------
(* Recording the user's input as a macro (actions/uia_automation, Windows):   *)
(* a hook thread is called for every key and button before the system hands   *)
(* it on, asks a resolver thread whether the focus is in a password field or  *)
(* which control is under the pointer, and waits 50 ms at most. The resolver  *)
(* may be slow, the focus may move, and the recording may be stopped from     *)
(* another thread at any moment.                                              *)
EXTENDS Naturals, Sequences, SequencesExt, FiniteSets

CONSTANTS Keys,          \* keys, StopKey among them
          StopKey,       \* stands for Ctrl and Shift of Ctrl+Shift+F10
          Buttons,       \* mouse buttons, "left" among them
          MaxInputs,     \* bound: inputs the user gives
          EventLimit     \* _MAX_EVENTS

ASSUME RecorderConstants == MaxInputs \in Nat

VARIABLES recorded,      \* _events
          stopped,       \* _stop_event
          skippedKeys,   \* _skipped_keys
          heldDown,      \* _pressed_keys and _pressed_buttons
          inputs,        \* inputs so far
          hook,          \* the input the hook thread waits with, or NoInput
          queued,        \* _resolve_queue: the number of the waiting query, 0, or End
          querying,      \* the query the resolver is working on, 0, or Over
          found,         \* what that query has seen so far, "nothing" before
          outcome,       \* the answer of the hook's own query
          password,      \* the focus is in a password field
          plainSeen      \* it was elsewhere at some moment of the hook's wait

recorderVars == <<recorded, stopped, skippedKeys, heldDown, inputs, hook, queued, querying,
                  found, outcome, password, plainSeen>>

NoInput == [what |-> "nothing"]
Of(what, id, way) == [what |-> what, id |-> id, way |-> way]
EndOfQueue == MaxInputs + 1
ResolverOver == MaxInputs + 2

RecorderInit ==
  /\ recorded = <<>> /\ stopped = FALSE /\ skippedKeys = {} /\ heldDown = {} /\ inputs = 0
  /\ hook = NoInput /\ queued = 0 /\ querying = 0 /\ outcome = "none" /\ found = "nothing"
  /\ password \in BOOLEAN /\ plainSeen = FALSE

KeepResolver == UNCHANGED <<queued, querying, found, password, plainSeen>>

(* _append: nothing after the stop; the limit stops the recording.            *)
Appends(event) ==
  IF stopped \/ Len(recorded) >= EventLimit
  THEN stopped' = TRUE /\ UNCHANGED recorded
  ELSE recorded' = Append(recorded, event) /\ UNCHANGED stopped

(* _resolve_before_dispatch: the query gets the number of the input.          *)
Asks(input) ==
  /\ hook' = input /\ outcome' = IF queued = 0 THEN "none" ELSE "unanswered"
  /\ queued' = IF queued = 0 THEN inputs + 1 ELSE queued
  /\ plainSeen' = ~password /\ UNCHANGED <<querying, found, password>>

Input == hook = NoInput /\ ~stopped /\ inputs < MaxInputs /\ inputs' = inputs + 1

----------------------------------------------------------------------------
(* The hook thread.                                                           *)
KeyInput(k, way) ==
  /\ Input /\ (way = "down") # (k \in heldDown)
  /\ heldDown' = IF way = "down" THEN heldDown \cup {k} ELSE heldDown \ {k}
  /\ IF way = "up" /\ k \in skippedKeys
     THEN skippedKeys' = skippedKeys \ {k} /\ UNCHANGED <<hook, outcome>> /\ KeepResolver
     ELSE Asks(Of("key", k, way)) /\ UNCHANGED skippedKeys
  /\ UNCHANGED <<recorded, stopped>>

(* Mutant: any query that finishes while the hook waits answers it.           *)
AnswersAnyway(query) == hook # NoInput
Answered(query) == hook # NoInput /\ query = inputs

(* _keyboard_event goes on: only a timely "no password" records the key.      *)
KeyOutcome ==
  /\ hook.what = "key"
  /\ IF outcome = "plain" /\ ~stopped
     THEN /\ Appends([what |-> "key", id |-> hook.id, way |-> hook.way, plain |-> plainSeen])
          /\ skippedKeys' = skippedKeys \ {hook.id}
     ELSE /\ skippedKeys' = IF hook.way = "down" THEN skippedKeys \cup {hook.id} ELSE skippedKeys
          /\ UNCHANGED <<recorded, stopped>>
  /\ hook' = NoInput /\ outcome' = "none" /\ UNCHANGED <<heldDown, inputs>> /\ KeepResolver

(* Ctrl+Shift+F10: the modifiers just recorded are taken back.                *)
TrimStopModifiers(events) ==
  LET Kept(n) == \A k \in n + 1 .. Len(events) : events[k].id = StopKey /\ events[k].way = "down"
      Least(n) == Kept(n) /\ \A m \in 0 .. Len(events) : Kept(m) => n <= m
  IN SubSeq(events, 1, CHOOSE n \in 0 .. Len(events) : Least(n))
StopHotkey ==
  /\ Input /\ StopKey \in heldDown
  /\ recorded' = TrimStopModifiers(recorded) /\ stopped' = TRUE
  /\ UNCHANGED <<skippedKeys, heldDown, hook, outcome>> /\ KeepResolver

(* _mouse_event: recorded first; a left press then asks for its control.      *)
ButtonInput(b, way) ==
  /\ Input /\ (way = "down") # (b \in heldDown)
  /\ heldDown' = IF way = "down" THEN heldDown \cup {b} ELSE heldDown \ {b}
  /\ Appends([what |-> "button", id |-> b, way |-> way, control |-> FALSE])
  /\ IF b = "left" /\ way = "down"
     THEN Asks(Of("button", b, way))
     ELSE UNCHANGED <<hook, outcome>> /\ KeepResolver
  /\ UNCHANGED skippedKeys

ButtonOutcome ==
  /\ hook.what = "button"
  /\ recorded' = IF outcome = "control" /\ ~stopped
                 THEN [recorded EXCEPT ![Len(recorded)].control = TRUE] ELSE recorded
  /\ hook' = NoInput /\ outcome' = "none"
  /\ UNCHANGED <<stopped, skippedKeys, heldDown, inputs>> /\ KeepResolver

(* Moves count while a button is down (the ones left out for coming too close *)
(* together are not inputs here), wheel turns always.                         *)
OtherInput(what) ==
  /\ Input /\ (what = "move" => heldDown \cap Buttons # {})
  /\ Appends(Of(what, what, what))
  /\ UNCHANGED <<skippedKeys, heldDown, hook, outcome>> /\ KeepResolver

(* done.wait(0.05) has run out, or the queue was full.                        *)
HookGivesUp ==
  /\ hook # NoInput /\ outcome = "none" /\ outcome' = "unanswered"
  /\ UNCHANGED <<recorded, stopped, skippedKeys, heldDown, inputs, hook>> /\ KeepResolver
HookGoesOn == hook # NoInput /\ outcome # "none" /\ (KeyOutcome \/ ButtonOutcome)

----------------------------------------------------------------------------
(* The resolver thread: queries past their deadline or the stop are dropped.  *)
TakeQuery ==
  /\ queued # 0 /\ querying = 0 /\ queued' = 0
  /\ querying' = IF queued = EndOfQueue THEN ResolverOver
                 ELSE IF stopped \/ hook = NoInput \/ outcome # "none" THEN 0 ELSE queued
  /\ UNCHANGED <<recorded, stopped, skippedKeys, heldDown, inputs, hook, found, outcome, password,
                 plainSeen>>

(* The query looks at the focus at some moment, or fails.                     *)
Query(works) ==
  /\ querying \in 1 .. MaxInputs /\ found = "nothing"
  /\ found' = IF ~works THEN "failure" ELSE IF password THEN "password" ELSE "plain"
  /\ UNCHANGED <<recorded, stopped, skippedKeys, heldDown, inputs, hook, queued, querying, outcome,
                 password, plainSeen>>

(* The answer goes into the object of its own query; a query that fails says  *)
(* "password", or no control.                                                 *)
FinishQuery ==
  /\ querying \in 1 .. MaxInputs /\ found # "nothing" /\ querying' = 0 /\ found' = "nothing"
  /\ outcome' = IF ~Answered(querying) \/ outcome # "none" THEN outcome
                ELSE IF hook.what = "key" THEN IF found = "plain" THEN "plain" ELSE "password"
                ELSE IF found = "failure" THEN "no_control" ELSE "control"
  /\ UNCHANGED <<recorded, stopped, skippedKeys, heldDown, inputs, hook, queued, password, plainSeen>>

(* stop(), from the session or its cleanup: the waiting query gives way to    *)
(* the end mark.                                                              *)
StopRecorder ==
  /\ querying # ResolverOver /\ queued # EndOfQueue
  /\ stopped' = TRUE /\ queued' = EndOfQueue
  /\ UNCHANGED <<recorded, skippedKeys, heldDown, inputs, hook, querying, found, outcome,
                 password, plainSeen>>

FocusMoves ==
  /\ password' = ~password /\ plainSeen' = (plainSeen \/ password)
  /\ UNCHANGED <<recorded, stopped, skippedKeys, heldDown, inputs, hook, queued, querying, found,
                 outcome>>

RecorderNext ==
  \/ \E way \in {"down", "up"} :
       (\E k \in Keys : KeyInput(k, way)) \/ (\E b \in Buttons : ButtonInput(b, way))
  \/ \E what \in {"move", "wheel"} : OtherInput(what)
  \/ StopHotkey \/ HookGivesUp \/ HookGoesOn \/ TakeQuery \/ FinishQuery
  \/ \E works \in BOOLEAN : Query(works)
  \/ StopRecorder \/ FocusMoves

RecorderSpec == RecorderInit /\ [][RecorderNext]_recorderVars

----------------------------------------------------------------------------
(* Properties.                                                                *)

(* A key is in the recording only when the focus was seen outside a password  *)
(* field while that very key was held back: no answer that came late, or was  *)
(* asked for an earlier key, lets one through.                                *)
NoPasswordTyped ==
  \A k \in 1 .. Len(recorded) : recorded[k].what = "key" => recorded[k].plain
=============================================================================
