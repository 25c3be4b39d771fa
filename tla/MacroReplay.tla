---------------------------- MODULE MacroReplay ----------------------------
(* What becomes of a recording: build_macro_steps turns the events into steps *)
(* (a press and its release into one click, or one use of the control that    *)
(* was under the pointer), and execute_macro replays them, keeping track of   *)
(* what it has pressed so that nothing stays down when it ends.               *)
EXTENDS InputRecorder

CONSTANTS MaxReplays     \* bound: replays

VARIABLES playing,       \* the step a replay is at, 0 when none runs, CutShort after a failure
          pressedKeys,   \* keys execute_macro keeps as pressed
          pressedButtons,
          down,          \* what the system has down because of the replay
          jammed,        \* what it could not release
          replays

replayVars == <<playing, pressedKeys, pressedButtons, down, jammed, replays>>

----------------------------------------------------------------------------
(* build_macro_steps. A press waits in "pending" for what comes next.         *)
Press(p) == Of("button", p.id, "down")
Unflushed(p) == ~p.emitted
Flush(b) ==
  [steps   |-> b.steps \o [k \in 1 .. Len(SelectSeq(b.pending, Unflushed)) |->
                              Press(SelectSeq(b.pending, Unflushed)[k])],
   pending |-> [k \in 1 .. Len(b.pending) |-> [b.pending[k] EXCEPT !.emitted = TRUE]]]

Emit(b, step) == [b EXCEPT !.steps = Append(@, step)]
Without(b, id) == LET Other(p) == p.id # id IN [b EXCEPT !.pending = SelectSeq(@, Other)]

ReleaseEvent(b, e) ==
  LET waiting == {k \in 1 .. Len(b.pending) : b.pending[k].id = e.id}
      press == b.pending[CHOOSE k \in waiting : TRUE]
  IN IF waiting = {} THEN Emit(b, Of("button", e.id, "up"))
     ELSE IF press.emitted THEN Emit(Without(b, e.id), Of("button", e.id, "up"))
     ELSE Emit(Without(b, e.id), Of(IF press.control THEN "control" ELSE "click", e.id, "click"))

BuildStep(b, e) ==
  CASE e.what = "key" -> Emit(Flush(b), Of("key", e.id, e.way))
    [] e.what = "move" -> Emit(Flush(b), e)
    [] e.what = "wheel" -> Emit(b, e)
    [] e.way = "down" -> [b EXCEPT !.pending = Append(@, [id |-> e.id, control |-> e.control, emitted |-> FALSE])]
    [] OTHER -> ReleaseEvent(b, e)

(* What is still pending at the end is written down, flushed or not.          *)
Build(events) ==
  LET b == FoldLeft(BuildStep, [steps |-> <<>>, pending |-> <<>>], events)
  IN b.steps \o [k \in 1 .. Len(b.pending) |-> Press(b.pending[k])]

----------------------------------------------------------------------------
(* execute_macro, one step at a time.                                         *)
Macro == Build(recorded)
CutShort == -1
ReplayInit ==
  /\ playing = 0 /\ pressedKeys = {} /\ pressedButtons = {} /\ down = {} /\ jammed = {}
  /\ replays = 0

StartReplay ==
  /\ stopped /\ hook = NoInput /\ playing = 0 /\ replays < MaxReplays /\ Macro # <<>>
  /\ playing' = 1 /\ replays' = replays + 1 /\ jammed' = {} /\ down' = {}
  /\ UNCHANGED <<pressedKeys, pressedButtons>>

Tracks(set, step) ==
  IF step.way = "down" THEN set \cup {step.id}
  ELSE IF step.way = "up" THEN set \ {step.id} ELSE set

(* perform_key_event, perform_coordinate, perform_selector: a click presses   *)
(* and releases at once.                                                      *)
PlayStep ==
  /\ playing \in 1 .. Len(Macro) /\ playing' = playing + 1
  /\ LET step == Macro[playing]
     IN /\ pressedKeys' = IF step.what = "key" THEN Tracks(pressedKeys, step) ELSE pressedKeys
        /\ pressedButtons' = IF step.what = "button" THEN Tracks(pressedButtons, step) ELSE pressedButtons
        /\ down' = IF step.what \in {"key", "button"} THEN Tracks(down, step)
                   ELSE IF step.what = "click" THEN down \ {step.id} ELSE down
  /\ UNCHANGED <<jammed, replays>>

(* Cancellation, a window or control that is not there, an input the system   *)
(* refuses: the rest is not played.                                           *)
PlayFails ==
  /\ playing \in 1 .. Len(Macro) /\ playing' = CutShort
  /\ UNCHANGED <<pressedKeys, pressedButtons, down, jammed, replays>>

(* The finally clause, after the last step or a failure; a release may fail.  *)
ReleaseAll(failing) ==
  /\ playing # 0 /\ playing \notin 1 .. Len(Macro) /\ playing' = 0
  /\ failing \subseteq pressedKeys \cup pressedButtons /\ jammed' = failing
  /\ down' = down \ ((pressedKeys \cup pressedButtons) \ failing)
  /\ pressedKeys' = {} /\ pressedButtons' = {} /\ UNCHANGED replays

MacroInit == RecorderInit /\ ReplayInit
MacroNext ==
  \/ RecorderNext /\ playing = 0 /\ UNCHANGED replayVars
  \/ /\ StartReplay \/ PlayStep \/ PlayFails
        \/ \E failing \in SUBSET (Keys \cup Buttons) : ReleaseAll(failing)
     /\ UNCHANGED recorderVars

MacroSpec == MacroInit /\ [][MacroNext]_<<recorderVars, replayVars>>

----------------------------------------------------------------------------
(* Properties.                                                                *)

(* The inputs a sequence of events or steps stands for, clicks taken apart,   *)
(* as far as one button, the keys and the moves of a drag are concerned.      *)
PlainEvent(e) ==
  CASE e.what \in {"click", "control"} ->
         <<Of("button", e.id, "down"), Of("button", e.id, "up")>>
    [] OTHER -> <<Of(e.what, e.id, e.way)>>
InputsFor(b, events) ==
  LET Relevant(e) == e.what \in {"key", "move"} \/ (e.what = "button" /\ e.id = b)
  IN SelectSeq(FlattenSeq([k \in 1 .. Len(events) |-> PlainEvent(events[k])]), Relevant)

(* The macro replays what was recorded: for each button, the same presses,    *)
(* releases, keys and drag moves in the same order. Only a drag that was      *)
(* still going on when the recording stopped has its press once more at the   *)
(* end.                                                                       *)
MacroFaithful ==
  \A b \in Buttons :
    LET was == InputsFor(b, recorded)
        is == InputsFor(b, Macro)
    IN is = was \/ (is = Append(was, Of("button", b, "down"))
                    /\ \E k \in 1 .. Len(was) - 1 :
                         /\ was[k] = Of("button", b, "down")
                         /\ \A j \in k + 1 .. Len(was) : was[j].what # "button")

(* Whatever step a replay stops at, what it pressed is released, unless the   *)
(* release itself failed.                                                     *)
ReplayLetsGo == playing = 0 => down \subseteq jammed

(* From the keyboard to the replay: nothing secret is kept, nothing plain is  *)
(* changed and nothing stays down.                                            *)
InputHonest == NoPasswordTyped /\ MacroFaithful /\ ReplayLetsGo
=============================================================================
