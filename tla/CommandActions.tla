---------------------------- MODULE CommandActions ----------------------------
(* The built-in actions run_powershell and send_keys. A command's output is *)
(* read by threads of its own (one per stream, alike: one is modelled) while*)
(* the action's thread watches the child, the deadline and the run's        *)
(* cancellation; a descendant may keep the pipe open after the child ended. *)
(* Keys are sent in one call that may accept only the first of them.        *)
EXTENDS Naturals, Sequences, FiniteSets, SequencesExt

CONSTANTS MaxWrites,     \* bound: pieces of output
          OutputLimit    \* _MAX_OUTPUT, in pieces

ASSUME CommandConstants == MaxWrites \in Nat /\ OutputLimit \in Nat

VARIABLES step,          \* where the action's thread is
          child,       \* "none", "running", "good", "bad" (its exit), "killed"
          heir,          \* a descendant keeps the pipe open
          wrote, pipe,   \* pieces the child wrote; those nobody has read
          outputReader,        \* "off", "looking", "saw_nothing", "over"
          kept, cut,     \* pieces kept; the output is marked as truncated
          broken,        \* reading failed
          slipped,       \* history: written between the outputReader's last look and its end
          exited, halt,  \* process_exited, stop_readers
          timeUp, calledOff,
          verdictOf,     \* how the action ended
          keyboard,      \* keys held after a send_keys
          message        \* what send_keys reported

commandVars == <<step, child, heir, wrote, pipe, outputReader, kept, cut, broken, slipped, exited,
                 halt, timeUp, calledOff, verdictOf, keyboard, message>>
outputVars == <<wrote, pipe, outputReader, kept, cut, broken, slipped>>
childVars == <<child, heir>>
typedVars == <<keyboard, message>>
outsideVars == <<timeUp, calledOff>>

CommandInit ==
  /\ step = "asked" /\ child = "none" /\ heir = FALSE /\ wrote = 0 /\ pipe = 0
  /\ outputReader = "off" /\ kept = 0 /\ cut = FALSE /\ broken = FALSE /\ slipped = FALSE
  /\ exited = FALSE /\ halt = FALSE /\ timeUp = FALSE /\ calledOff = FALSE
  /\ verdictOf = "none" /\ keyboard = {} /\ message = "none"

Gone == child \in {"good", "bad", "killed"}

----------------------------------------------------------------------------
(* The child, the deadline and the run's cancellation.                      *)
CommandWrites ==
  /\ child = "running" /\ wrote < MaxWrites /\ wrote' = wrote + 1 /\ pipe' = pipe + 1
  /\ slipped' = (slipped \/ outputReader = "saw_nothing")
  /\ UNCHANGED <<step, childVars, outputReader, kept, cut, broken, exited, halt, outsideVars,
                 verdictOf, typedVars>>
CommandEnds(how, kin) ==
  /\ child = "running" /\ child' = how /\ heir' = kin
  /\ UNCHANGED <<step, outputVars, exited, halt, outsideVars, verdictOf, typedVars>>
CommandOverdue ==
  /\ step \notin {"asked", "over"} /\ ~timeUp /\ timeUp' = TRUE
  /\ UNCHANGED <<step, childVars, outputVars, exited, halt, calledOff, verdictOf, typedVars>>
CommandCalledOff ==
  /\ step # "over" /\ ~calledOff /\ calledOff' = TRUE
  /\ UNCHANGED <<step, childVars, outputVars, exited, halt, timeUp, verdictOf, typedVars>>

----------------------------------------------------------------------------
(* read_output. _read_available never blocks: it has nothing while the pipe *)
(* is empty and somebody holds its other end.                               *)
ReaderGives ==
  /\ outputReader = "looking" /\ outputReader' = "over"
  /\ halt \/ timeUp \/ calledOff \/ (pipe = 0 /\ Gone /\ ~heir)
  /\ cut' = (cut \/ (~halt /\ (timeUp \/ calledOff)))
  /\ UNCHANGED <<step, childVars, wrote, pipe, kept, broken, slipped, exited, halt,
                 outsideVars, verdictOf, typedVars>>

ReaderTakes ==
  /\ outputReader = "looking" /\ ~halt /\ ~timeUp /\ ~calledOff /\ pipe > 0 /\ pipe' = pipe - 1
  /\ kept' = IF kept < OutputLimit THEN kept + 1 ELSE kept
  /\ cut' = (cut \/ kept >= OutputLimit)
  /\ UNCHANGED <<step, childVars, wrote, outputReader, broken, slipped, exited, halt, outsideVars,
                 verdictOf, typedVars>>
ReaderSeesNothing ==
  /\ outputReader = "looking" /\ ~halt /\ ~timeUp /\ ~calledOff
  /\ pipe = 0 /\ ~(Gone /\ ~heir) /\ outputReader' = "saw_nothing" /\ slipped' = FALSE
  /\ UNCHANGED <<step, childVars, wrote, pipe, kept, cut, broken, exited, halt, outsideVars,
                 verdictOf, typedVars>>
ReaderTurns ==
  /\ outputReader = "saw_nothing" /\ outputReader' = (IF exited THEN "over" ELSE "looking")
  /\ slipped' = (exited /\ slipped)
  /\ UNCHANGED <<step, childVars, wrote, pipe, kept, cut, broken, exited, halt,
                 outsideVars, verdictOf, typedVars>>
ReaderBreaks ==
  /\ outputReader = "looking" /\ outputReader' = "over" /\ broken' = TRUE
  /\ UNCHANGED <<step, childVars, wrote, pipe, kept, cut, slipped, exited, halt, outsideVars,
                 verdictOf, typedVars>>

----------------------------------------------------------------------------
(* The action's thread.                                                     *)
Launch(found) ==
  /\ step = "asked" /\ message = "none"
  /\ IF calledOff \/ ~found
     THEN /\ step' = "over" /\ verdictOf' = IF calledOff THEN "cancelled" ELSE "failed"
          /\ UNCHANGED <<child, outputReader>>
     ELSE /\ step' = "polling" /\ child' = "running" /\ outputReader' = "looking"
          /\ UNCHANGED verdictOf
  /\ UNCHANGED <<heir, wrote, pipe, kept, cut, broken, slipped, exited, halt, outsideVars, typedVars>>

(* The child is over, or has to go: then it is killed, and waited for.      *)
PollCommand ==
  /\ step = "polling" /\ step' = "joining"
  /\ IF Gone THEN exited' = TRUE /\ UNCHANGED <<child, verdictOf>>
     ELSE /\ calledOff \/ timeUp
          /\ verdictOf' = IF calledOff THEN "cancelled" ELSE "late"
          /\ child' = "killed" /\ exited' = TRUE
  /\ UNCHANGED <<heir, outputVars, halt, outsideVars, typedVars>>

(* The readers have until the deadline; what they miss then is marked.      *)
JoinReaders ==
  /\ step = "joining" /\ step' = "collecting" /\ (outputReader = "over" \/ timeUp)
  /\ cut' = (cut \/ outputReader # "over") /\ halt' = TRUE
  /\ UNCHANGED <<childVars, wrote, pipe, outputReader, kept, broken, slipped, exited, outsideVars,
                 verdictOf, typedVars>>

Collect ==
  /\ step = "collecting" /\ outputReader = "over" /\ step' = "over"
  /\ verdictOf' = CASE verdictOf # "none" -> verdictOf
                    [] verdictOf = "none" /\ (broken \/ child # "good") -> "failed"
                    [] OTHER -> IF calledOff THEN "cancelled" ELSE "ok"
  /\ UNCHANGED <<childVars, outputVars, exited, halt, outsideVars, typedVars>>

----------------------------------------------------------------------------
(* send_keys: _send_hotkey and _type_unicode build the inputs, _send sends  *)
(* them; after a partial acceptance it releases what is still pressed.      *)
Down(k) == [key |-> k, way |-> "down"]
Up(k) == [key |-> k, way |-> "up"]
Hotkey(modifiers, main) ==
  [i \in DOMAIN modifiers |-> Down(modifiers[i])] \o <<Down(main), Up(main)>>
    \o [i \in DOMAIN modifiers |-> Up(Reverse(modifiers)[i])]
Typed(units) == FlattenSeq([i \in DOMAIN units |-> <<Down(units[i]), Up(units[i])>>])

(* What inputs leave pressed.                                               *)
HeldAfter(inputs) ==
  {inputs[i].key : i \in {n \in DOMAIN inputs :
     inputs[n].way = "down" /\ Up(inputs[n].key) \notin {inputs[m] : m \in n + 1 .. Len(inputs)}}}

(* What _send takes for pressed, in the order of the first press.           *)
Pressed(inputs) ==
  FoldLeft(LAMBDA held, e : IF e.way = "up" THEN SelectSeq(held, LAMBDA k : k # e.key)
                            ELSE IF Contains(held, e.key) THEN held ELSE Append(held, e.key),
           <<>>, inputs)
Releases(inputs) == LET held == Reverse(Pressed(inputs)) IN [i \in DOMAIN held |-> Up(held[i])]

Requested ==
  {Hotkey(m, k) : m \in {<<>>, <<"ctrl">>, <<"ctrl", "shift">>, <<"ctrl", "ctrl">>}, k \in {"a", "ctrl"}}
    \cup {Typed(u) : u \in {<<"x">>, <<"x", "x">>, <<"x", "y">>}}

SendKeys(inputs, sent) ==
  /\ step = "asked" /\ message = "none" /\ sent <= Len(inputs)
  /\ LET done == SubSeq(inputs, 1, sent)
         releases == Releases(done) IN
     IF sent = Len(inputs) THEN message' = "sent" /\ keyboard' = HeldAfter(inputs)
     ELSE \E released \in 0 .. Len(releases) :
            /\ keyboard' = HeldAfter(done \o SubSeq(releases, 1, released))
            /\ message' = IF released = Len(releases) THEN "partly_sent" ELSE "keys_stuck"
  /\ UNCHANGED <<step, childVars, outputVars, exited, halt, outsideVars, verdictOf>>

CommandNext ==
  \/ CommandWrites \/ \E how \in {"good", "bad"}, kin \in BOOLEAN : CommandEnds(how, kin)
  \/ CommandOverdue \/ CommandCalledOff
  \/ ReaderGives \/ ReaderTakes \/ ReaderSeesNothing \/ ReaderTurns \/ ReaderBreaks
  \/ \E found \in BOOLEAN : Launch(found)
  \/ PollCommand \/ JoinReaders \/ Collect
  \/ \E inputs \in Requested : \E sent \in 0 .. Len(inputs) : SendKeys(inputs, sent)
CommandSpec == CommandInit /\ [][CommandNext]_commandVars

----------------------------------------------------------------------------
(* Properties.                                                              *)

(* Output that is not marked as truncated is all the command wrote, except  *)
(* what it wrote between a reader's last look at the pipe and its own end.  *)
OutputAccounted ==
  verdictOf = "ok" /\ ~cut => kept = wrote \/ (slipped /\ kept + pipe = wrote)

(* When the action returns, neither the command nor a reader is left.       *)
CommandGone == step = "over" => child # "running" /\ outputReader \in {"off", "over"}

(* A send that was accepted in part leaves no key pressed, or says that it  *)
(* could not release them.                                                  *)
NoKeyHeld == message \in {"sent", "partly_sent"} => keyboard = {}

(* What run_powershell promises of its child and its output.                 *)
CommandsSettle == OutputAccounted /\ CommandGone
=============================================================================
