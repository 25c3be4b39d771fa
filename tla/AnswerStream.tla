---------------------------- MODULE AnswerStream ----------------------------
(* Reading the answer of an AI service (host/ai_provider.py, host/ai_tools.py,*)
(* host/ai_rule_draft.py): the bytes of a streamed answer come in pieces of   *)
(* any size, are cut into lines, events and parts of one message, and the     *)
(* message is turned into a draft of a rule or a reply in words. Bytes are    *)
(* halves of lines and line ends here.                                        *)
EXTENDS Integers, Sequences, FiniteSets, SequencesExt

CONSTANTS MaxFrames,     \* bound: events of one answer
          SizeLimit      \* _MAX_RESPONSE_BYTES

VARIABLES format,        \* api_format: "chat" or "responses"
          manner,         \* "stream" or "post"
          script,        \* the events the server sends
          coming,        \* bytes on their way
          taken,         \* bytes read so far
          buffer,        \* _buffer: an unfinished line
          dataLines,     \* _data_lines: the lines of an unfinished event
          received,      \* events handed to the accumulator
          shown,         \* words passed on to the client
          progress,         \* "reading", "over", "stopped" or "failed"
          result         \* the answer as the client gets it

answerVars == <<format, manner, script, coming, taken, buffer, dataLines, received, shown,
                progress, result>>

----------------------------------------------------------------------------
(* Events. Arguments of a call come in two pieces; a call's name with one of  *)
(* them. Call 1 proposes a sound rule, call 2 one with an unknown plug-in.    *)
Event(kind, call, named, pieces, words) ==
  [kind |-> kind, call |-> call, named |-> named, pieces |-> pieces, words |-> words]
Words == Event("text", 0, FALSE, <<>>, <<"words">>)
Part(call, named, pieces) ==
  Event("part", call, named, [k \in DOMAIN pieces |-> <<call, pieces[k]>>], <<>>)
Whole(call) == Event("item", call, TRUE, <<<<call, 1>>, <<call, 2>>>>, <<>>)
DoneMark == Event("[DONE]", 0, FALSE, <<>>, <<>>)
Broken == Event("broken", 0, FALSE, <<>>, <<>>)        \* no JSON object
Completed == Event("completed", 0, FALSE, <<>>, <<>>)  \* response.completed

(* Lines: an event is on one data line or on two; comments are lines too.     *)
DataLine(event, k, n) == [kind |-> "data", piece |-> <<event, k, n>>]
CommentLine == [kind |-> "comment", piece |-> <<Broken, 1, 1>>]
SentEvent(event, n) ==
  FlattenSeq([k \in 1 .. n |-> <<<<"half", DataLine(event, k, n)>>,
                                 <<"rest", DataLine(event, k, n)>>, <<"end", CommentLine>>>>])
    \o <<<<"end", CommentLine>>>>
CommentFrame == <<<<"half", CommentLine>>, <<"rest", CommentLine>>, <<"end", CommentLine>>>>

(* What the data lines of an event amount to.                                 *)
Parsed(lines) ==
  LET data == SelectSeq(lines, LAMBDA line : line.kind = "data") IN
  IF data # <<>> /\ \E n \in {Len(data)} : \A k \in 1 .. n :
       data[k].piece = <<data[1].piece[1], k, n>>
  THEN SelectSeq(<<data[1].piece[1]>>, LAMBDA e : e # Broken)
  ELSE <<>>

----------------------------------------------------------------------------
(* _SSEDecoder.feed, one byte after the other: a line that is not finished    *)
(* stays in the buffer, an event ends with an empty line.                     *)
State(b, lines, events) == [buffer |-> b, lines |-> lines, events |-> events]

Fed(state, byte) ==
  CASE byte[1] # "end" -> [state EXCEPT !.buffer = Append(@, byte)]
    [] state.buffer # <<>> /\ state.buffer[1][2].kind = "comment" -> [state EXCEPT !.buffer = <<>>]
    [] state.buffer # <<>> ->
         State(<<>>, IF Len(state.buffer) = 2 THEN Append(state.lines, state.buffer[1][2])
                     ELSE Append(state.lines, DataLine(Broken, 1, 1)), state.events)
    [] OTHER -> State(<<>>, <<>>, state.events \o Parsed(state.lines))

Feed(bytes) == FoldLeft(Fed, State(buffer, dataLines, <<>>), bytes)

(* finish: what is left is taken for a whole line and a whole event.          *)
Rest ==
  Parsed(dataLines \o
    IF buffer = <<>> \/ buffer[1][2].kind = "comment" THEN <<>>
    ELSE IF Len(buffer) = 2 THEN <<buffer[1][2]>> ELSE <<DataLine(Broken, 1, 1)>>)

UpToDone(events) ==
  IF \E k \in DOMAIN events : events[k] = DoneMark
  THEN SubSeq(events, 1, (CHOOSE k \in DOMAIN events :
         events[k] = DoneMark /\ \A j \in 1 .. k - 1 : events[j] # DoneMark) - 1)
  ELSE events

----------------------------------------------------------------------------
(* The accumulators: the message the events build up.                         *)
WordsOf(events) == FlattenSeq([k \in DOMAIN events |-> events[k].words])
Message(words, calls) == [words |-> words, calls |-> calls]

(* _ChatStreamAccumulator: names and arguments are put together per index.    *)
Slot(events, index) ==
  LET parts == SelectSeq(events, LAMBDA e : e.call = index) IN
  [names |-> Len(SelectSeq(parts, LAMBDA e : e.named)),
   arguments |-> FlattenSeq([k \in DOMAIN parts |-> parts[k].pieces])]
ChatBody(events) ==
  Message(WordsOf(events),
          [k \in 1 .. Cardinality({events[j].call : j \in DOMAIN events} \ {0}) |->
            Slot(events, SetToSortSeq({events[j].call : j \in DOMAIN events} \ {0}, <)[k])])

(* The server's own account of the answer, in one piece; a call of the        *)
(* "responses" kind is what its last event says.                              *)
Substance(events) == SelectSeq(events, LAMBDA e : e \notin {DoneMark, Broken, Completed})
Items(events) == SelectSeq(events, LAMBDA e : e.kind = "item")
FullBody ==
  IF format = "chat" THEN ChatBody(Substance(script))
  ELSE Message(WordsOf(script),
               [k \in DOMAIN Items(script) |-> [names |-> 1, arguments |-> Items(script)[k].pieces]])

(* _ResponsesStreamAccumulator: one call; whole arguments replace the pieces, *)
(* and the completed response replaces everything.                            *)
OneCall(call, event) ==
  CASE event.kind = "part" -> [call EXCEPT !.arguments = @ \o event.pieces]
    [] event.kind = "item" -> [names |-> 1, arguments |-> event.pieces]
    [] OTHER -> call
ResponsesBody(events) ==
  LET call == FoldLeft(OneCall, [names |-> 0, arguments |-> <<>>], events) IN
  IF Completed \in ToSet(events) THEN FullBody
  ELSE Message(WordsOf(events),
               IF call.names = 0 /\ call.arguments = <<>> THEN <<>> ELSE <<call>>)

Body(events) == IF format = "chat" THEN ChatBody(events) ELSE ResponsesBody(events)

----------------------------------------------------------------------------
(* _extract_call_or_text, _dispatch_tool_call, parse_rule_draft: one call     *)
(* with a known name and whole arguments, or words; anything else is an error.*)
NoAnswer == [kind |-> "nothing", words |-> <<>>, call |-> 0]
NoSense == [kind |-> "error", words |-> <<>>, call |-> 0]
Reply(words) == [kind |-> "message", words |-> words, call |-> 0]
Draft(call) == [kind |-> "draft", words |-> <<>>, call |-> call]

(* A call the tools allow: its name came once and its arguments are whole.    *)
SoundCalls == {1}
WholeCall(call, c) == call.names = 1 /\ call.arguments = <<<<c, 1>>, <<c, 2>>>>
TheCalls(body) == {c \in {1, 2} : Len(body.calls) = 1 /\ WholeCall(body.calls[1], c)}
Dispatched(c) == IF c \in SoundCalls THEN Draft(c) ELSE NoSense

Answer(body) ==
  CASE body.calls = <<>> -> IF body.words = <<>> THEN NoSense ELSE Reply(body.words)
    [] TheCalls(body) # {} -> Dispatched(CHOOSE c \in TheCalls(body) : TRUE)
    [] OTHER -> NoSense

----------------------------------------------------------------------------
(* stream().                                                                  *)
(* A piece of any size is read; events after the end mark are not looked at.  *)
ReadChunk(n) ==
  /\ progress = "reading" /\ manner = "stream" /\ n \in 1 .. Len(coming)
  /\ taken' = taken \o SubSeq(coming, 1, n)
  /\ coming' = SubSeq(coming, n + 1, Len(coming))
  /\ IF Len(taken) + n > SizeLimit
     THEN /\ progress' = "failed" /\ result' = NoSense
          /\ UNCHANGED <<buffer, dataLines, received, shown>>
     ELSE LET fed == Feed(SubSeq(coming, 1, n))
              events == UpToDone(fed.events)
              finished == DoneMark \in ToSet(fed.events)
          IN /\ buffer' = fed.buffer /\ dataLines' = fed.lines
             /\ received' = received \o events /\ shown' = shown \o WordsOf(events)
             /\ progress' = IF finished THEN "over" ELSE "reading"
             /\ result' = IF finished THEN Answer(Body(received \o events)) ELSE result
  /\ UNCHANGED <<format, manner, script>>

(* The connection ends where it may: after the answer or in the midst of it.  *)
ReadEnd ==
  /\ progress = "reading" /\ manner = "stream"
  /\ LET events == UpToDone(Rest) IN
     /\ received' = received \o events /\ shown' = shown \o WordsOf(events)
     /\ result' = Answer(Body(received \o events))
  /\ buffer' = <<>> /\ dataLines' = <<>> /\ progress' = "over"
  /\ UNCHANGED <<format, manner, script, coming, taken>>

(* A time-out, a reset or a bad chunk.                                        *)
ReadFails ==
  /\ progress = "reading" /\ progress' = "failed" /\ result' = NoSense
  /\ UNCHANGED <<format, manner, script, coming, taken, buffer, dataLines, received, shown>>

(* should_stop, or cancel() seen before the next read.                        *)
StopReading ==
  /\ progress = "reading" /\ manner = "stream" /\ progress' = "stopped"
  /\ UNCHANGED <<format, manner, script, coming, taken, buffer, dataLines, received, shown, result>>

(* __call__: the whole message in one response.                               *)
PostAnswer ==
  /\ progress = "reading" /\ manner = "post"
  /\ progress' = "over"
  /\ result' = IF Len(coming) > SizeLimit THEN NoSense ELSE Answer(FullBody)
  /\ UNCHANGED <<format, manner, script, coming, taken, buffer, dataLines, received, shown>>

AnswerNext ==
  \/ \E n \in 1 .. Len(coming) : ReadChunk(n)
  \/ ReadEnd \/ ReadFails \/ StopReading \/ PostAnswer

----------------------------------------------------------------------------
(* EventLists: some words and parts of calls, with and without an end, events    *)
(* that are not JSON, and comments in between.                                *)
ChatEvents == {Words, Broken, DoneMark, Part(1, TRUE, <<1>>), Part(1, FALSE, <<2>>),
               Part(1, TRUE, <<1, 2>>), Part(2, TRUE, <<1, 2>>)}
ResponsesEvents == {Words, Broken, Part(1, FALSE, <<1>>), Part(1, FALSE, <<2>>), Whole(1), Whole(2)}
EventLists(events, most) == UNION {[1 .. n -> events] : n \in 1 .. most}
Scripts ==
  {<<"chat", s>> : s \in EventLists(ChatEvents, MaxFrames)}
    \cup {<<"responses", Append(s, Completed)>> : s \in EventLists(ResponsesEvents, MaxFrames - 1)}

AnswerInit ==
  /\ \E s \in Scripts, n \in {1, 2} : \E comment \in {<<>>, CommentFrame} :
       /\ n = 2 => comment = <<>>
       /\ format = s[1] /\ script = s[2]
       /\ coming = FlattenSeq([k \in DOMAIN s[2] |-> comment \o SentEvent(s[2][k], n)])
  /\ manner \in {"stream", "post"} /\ taken = <<>> /\ buffer = <<>> /\ dataLines = <<>>
  /\ received = <<>> /\ shown = <<>> /\ progress = "reading" /\ result = NoAnswer

AnswerSpec == AnswerInit /\ [][AnswerNext]_answerVars

----------------------------------------------------------------------------
(* Properties.                                                                *)

(* The events in a run of bytes, read at once: between two empty lines lie    *)
(* the lines of one event.                                                    *)
LineEnds(bytes) == {k \in DOMAIN bytes : bytes[k][1] = "end"}
EmptyLines(bytes) == {k \in LineEnds(bytes) : k = 1 \/ k - 1 \in LineEnds(bytes)}
EventsIn(bytes) ==
  FlattenSeq([k \in DOMAIN bytes |->
    IF k \notin EmptyLines(bytes) THEN <<>>
    ELSE LET before == {j \in EmptyLines(bytes) : j < k}
             start == IF before = {} THEN 0 ELSE CHOOSE j \in before : \A i \in before : i <= j
             rests == SelectSeq(SubSeq(bytes, start + 1, k), LAMBDA byte : byte[1] = "rest")
         IN Parsed([j \in DOMAIN rests |-> rests[j][2]])])

(* The events do not depend on where the pieces were cut: they are those that *)
(* lie in the bytes read before the end mark, in order; at the end of the     *)
(* connection an event may lack its empty line.                               *)
NewLines(n) == [k \in 1 .. n |-> <<"end", CommentLine>>]
ChunksInvisible ==
  manner = "stream" /\ progress # "failed" =>
    received = UpToDone(EventsIn(taken \o NewLines(IF progress = "over" THEN 2 ELSE 0)))

(* What the client has read is what the reply says, unless the completed      *)
(* response has put right what came broken.                                   *)
ShownIsSaid ==
  progress = "over" /\ manner = "stream" /\ result.kind = "message" /\ Completed \notin ToSet(received) =>
    result.words = shown

(* An answer of which all but the closing event was read has the result of    *)
(* the same answer in one piece. (Without response.completed a second call of *)
(* a "responses" answer takes the place of the first.)                        *)
CallsClosed ==
  \/ format = "chat" \/ Completed \in ToSet(received)
  \/ LET calls == SelectSeq(script, LAMBDA e : e.call # 0) IN
     calls = <<>> \/ (Len(Items(script)) = 1 /\ calls[Len(calls)].kind = "item")
AsPosted ==
  progress = "over" /\ manner = "stream" /\ Substance(received) = Substance(script) /\ CallsClosed =>
    result = Answer(FullBody)

(* A draft is one call with all its arguments, sent by the server in events   *)
(* that were read, and the only call when the whole message is known.         *)
DraftWhole ==
  result.kind = "draft" /\ manner = "stream" =>
    LET sent == IF Completed \in ToSet(received) THEN script ELSE received IN
    /\ \A piece \in {1, 2} :
         \E k \in DOMAIN sent : <<result.call, piece>> \in ToSet(sent[k].pieces)
    /\ format = "chat" \/ Completed \in ToSet(received) =>
         \A k \in DOMAIN sent : sent[k].call \in {0, result.call}

AnswerRead == ChunksInvisible /\ ShownIsSaid /\ AsPosted /\ DraftWhole
=============================================================================
