---------------------------- MODULE DraftStream ----------------------------
(* Streaming an AI draft to a client (host/api/services/ai_drafting.py        *)
(* stream) from a provider read in a worker thread (host/ai_provider.py). The *)
(* worker hands its events over to the event loop; the loop's generator waits *)
(* for them a tenth of a second at a time, looks whether the client and the   *)
(* worker are still there, and sends one result or one error and then "done". *)
EXTENDS Naturals, Sequences, FiniteSets

CONSTANTS Clients,       \* requests for a stream
          StreamSlots,   \* _stream_slots
          MaxDeltas      \* bound: pieces of text of one answer

ASSUME StreamConstants == StreamSlots \in Nat \ {0} /\ MaxDeltas \in Nat

VARIABLES reader,        \* what the generator of each client is doing
          left,          \* clients that closed the connection
          sent,          \* what was sent to each client, without the deltas
          items,         \* handed over by the worker, not taken yet
          cancelled,     \* cancel_event
          worker,        \* what the worker of each client is doing
          response,      \* the provider's open connection: "none", "open", "closed"
          deltas,        \* pieces of text the worker has read
          failed,        \* the worker's failure
          freeSlots

streamVars == <<reader, left, sent, items, cancelled, worker, response, deltas, failed, freeSlots>>

StreamInit ==
  /\ reader = [c \in Clients |-> "new"] /\ left = {}
  /\ sent = [c \in Clients |-> <<>>] /\ items = [c \in Clients |-> <<>>]
  /\ cancelled = {} /\ worker = [c \in Clients |-> "none"]
  /\ response = [c \in Clients |-> "none"] /\ deltas = [c \in Clients |-> 0]
  /\ failed = {} /\ freeSlots = StreamSlots

Reads(c, doing) == reader' = [reader EXCEPT ![c] = doing]
SendsTo(c, what) == sent' = [sent EXCEPT ![c] = @ \o what]
Finalized(c) == \E k \in 1 .. Len(sent[c]) : sent[c][k] \in {"result", "error"}
KeepWorkers == UNCHANGED <<worker, response, deltas, failed, freeSlots>>
KeepReaders == UNCHANGED <<reader, left, sent, cancelled>>

----------------------------------------------------------------------------
(* The generator.                                                             *)
StartStream(c) ==
  /\ reader[c] = "new"
  /\ IF freeSlots = 0
     THEN /\ Reads(c, "over") /\ SendsTo(c, <<"error", "done">>) /\ UNCHANGED <<worker, freeSlots>>
     ELSE /\ Reads(c, "waiting") /\ UNCHANGED sent
          /\ worker' = [worker EXCEPT ![c] = "connecting"] /\ freeSlots' = freeSlots - 1
  /\ UNCHANGED <<left, items, cancelled, response, deltas, failed>>

(* is_disconnected, or the connection's end raised at a yield.                *)
NoticeDisconnect(c) ==
  /\ reader[c] = "waiting" /\ c \in left /\ Reads(c, "leaving")
  /\ UNCHANGED <<left, sent, items, cancelled>> /\ KeepWorkers

TakeItem(c) ==
  /\ reader[c] = "waiting" /\ items[c] # <<>>
  /\ items' = [items EXCEPT ![c] = Tail(@)]
  /\ LET item == Head(items[c]) IN
       /\ Reads(c, IF item \in {"failure", "finish"} THEN "leaving" ELSE "waiting")
       /\ SendsTo(c, CASE item = "answer" /\ ~Finalized(c) -> <<"result">>
                     [] item \in {"failure", "bad_answer"} /\ ~Finalized(c) -> <<"error">>
                     [] OTHER -> <<>>)
  /\ UNCHANGED <<left, cancelled>> /\ KeepWorkers

(* Nothing came for a tenth of a second; then the worker is looked at.        *)
TimeOut(c) ==
  /\ reader[c] = "waiting" /\ items[c] = <<>> /\ Reads(c, "checking")
  /\ UNCHANGED <<left, sent, items, cancelled>> /\ KeepWorkers
CheckWorker(c) ==
  /\ reader[c] = "checking"
  /\ Reads(c, IF worker[c] = "exited" THEN "leaving" ELSE "waiting")
  /\ UNCHANGED <<left, sent, items, cancelled>> /\ KeepWorkers

(* The finally clause: cancel_event, the provider's cancel (which closes the  *)
(* response if there is one yet), a bounded wait for the worker, "done".      *)
SetCancelled(c) ==
  /\ reader[c] = "leaving" /\ Reads(c, "cancelling") /\ cancelled' = cancelled \cup {c}
  /\ UNCHANGED <<left, sent, items>> /\ KeepWorkers
CancelProvider(c) ==
  /\ reader[c] = "cancelling" /\ Reads(c, "joining")
  /\ response' = [response EXCEPT ![c] = IF @ = "open" THEN "closed" ELSE @]
  /\ UNCHANGED <<left, sent, items, cancelled, worker, deltas, failed, freeSlots>>
EndStream(c) ==
  /\ reader[c] = "joining" /\ Reads(c, "over")
  /\ SendsTo(c, IF c \in left THEN <<>> ELSE <<"done">>)
  /\ UNCHANGED <<left, items, cancelled>> /\ KeepWorkers

Leave(c) ==
  /\ reader[c] \notin {"new", "over"} /\ c \notin left /\ left' = left \cup {c}
  /\ UNCHANGED <<reader, sent, items, cancelled>> /\ KeepWorkers

----------------------------------------------------------------------------
(* The worker and the provider's stream in it.                                *)
Does(c, doing) == worker' = [worker EXCEPT ![c] = doing]
WorkerFails(c) == failed' = failed \cup {c}

(* enqueue: nothing more once the stream is cancelled.                        *)
Enqueues(c, item) ==
  items' = [items EXCEPT ![c] = IF c \in cancelled THEN @ ELSE Append(@, item)]

Connect(c) ==
  /\ worker[c] = "connecting"
  /\ IF c \in cancelled
     THEN Does(c, "closing") /\ UNCHANGED response
     ELSE Does(c, "reading") /\ response' = [response EXCEPT ![c] = "open"]
  /\ UNCHANGED <<items, deltas, failed, freeSlots>> /\ KeepReaders

(* No provider configured, no connection, a broken or idle stream, an answer  *)
(* that is no tool call of ours: the worker stops with the exception.         *)
FailStream(c) ==
  /\ worker[c] \in {"connecting", "reading", "answering"} /\ Does(c, "closing")
  /\ WorkerFails(c) /\ response' = [response EXCEPT ![c] = "none"]
  /\ UNCHANGED <<items, deltas, freeSlots>> /\ KeepReaders

ReadDelta(c) ==
  /\ worker[c] = "reading" /\ response[c] = "open" /\ deltas[c] < MaxDeltas
  /\ Does(c, IF c \in cancelled THEN "closing" ELSE "reading")
  /\ deltas' = [deltas EXCEPT ![c] = @ + 1] /\ Enqueues(c, "delta")
  /\ UNCHANGED <<response, failed, freeSlots>> /\ KeepReaders

(* [DONE], or the connection ended: either way what came is the answer.       *)
EndOfAnswer(c) ==
  /\ worker[c] = "reading" /\ response[c] = "open"
  /\ Does(c, IF c \in cancelled THEN "closing" ELSE "answering")
  /\ response' = [response EXCEPT ![c] = "none"]
  /\ UNCHANGED <<items, deltas, failed, freeSlots>> /\ KeepReaders

GiveAnswer(c, answer) ==
  /\ worker[c] = "answering" /\ Does(c, "closing") /\ Enqueues(c, answer)
  /\ UNCHANGED <<response, deltas, failed, freeSlots>> /\ KeepReaders

ReleaseSlot(c) ==
  /\ worker[c] = "closing" /\ Does(c, "marking") /\ freeSlots' = freeSlots + 1
  /\ UNCHANGED <<items, response, deltas, failed>> /\ KeepReaders

(* Mutant: the exception is forgotten when the slot has been released.        *)
MarkEndForgetting(c) ==
  /\ worker[c] = "marking" /\ Does(c, "exited") /\ Enqueues(c, "finish")
  /\ UNCHANGED <<response, deltas, failed, freeSlots>> /\ KeepReaders

MarkEnd(c) ==
  /\ worker[c] = "marking" /\ Does(c, "exited")
  /\ Enqueues(c, IF c \in failed THEN "failure" ELSE "finish")
  /\ UNCHANGED <<response, deltas, failed, freeSlots>> /\ KeepReaders

StreamNext ==
  \E c \in Clients :
    \/ StartStream(c) \/ NoticeDisconnect(c) \/ TakeItem(c) \/ TimeOut(c) \/ CheckWorker(c)
    \/ SetCancelled(c) \/ CancelProvider(c) \/ EndStream(c) \/ Leave(c)
    \/ Connect(c) \/ FailStream(c) \/ ReadDelta(c) \/ EndOfAnswer(c)
    \/ \E answer \in {"answer", "bad_answer"} : GiveAnswer(c, answer)
    \/ ReleaseSlot(c) \/ MarkEnd(c)

StreamSpec == StreamInit /\ [][StreamNext]_streamVars

----------------------------------------------------------------------------
(* Properties.                                                                *)
Told(c, what) == {k \in 1 .. Len(sent[c]) : sent[c][k] \in what}

(* A client is told how its stream ended once, before "done" and never after, *)
(* a client that stayed is told unless its answer came between the last look  *)
(* at the queue and the look at the worker (it is then still in the queue),   *)
(* and a slot is taken exactly while a worker may still be reading.           *)
StreamsAnswered ==
  /\ freeSlots = StreamSlots
       - Cardinality({c \in Clients : worker[c] \notin {"none", "marking", "exited"}})
  /\ \A c \in Clients :
       /\ Cardinality(Told(c, {"result", "error"})) <= 1
       /\ Told(c, {"done"}) \subseteq {Len(sent[c])}
       /\ (reader[c] = "over" /\ c \notin left) =>
             /\ Told(c, {"done"}) # {}
             /\ Told(c, {"result", "error"}) # {} \/ items[c] # <<>>
=============================================================================
