----------------------------- MODULE EventBroker -----------------------------
(***************************************************************************)
(* The way of a run event from the engine's threads to the record and to   *)
(* the streams of the dashboard (host/api/events.py and the event stream   *)
(* of host/api/routes_engine.py).  A publisher records the event, copies   *)
(* the list of subscriptions and hands the event to each one's event loop, *)
(* which delivers it into a bounded queue; a stream that does not keep up  *)
(* loses its queue, is told so by an end mark and is unsubscribed.         *)
(***************************************************************************)
EXTENDS RunHistory

CONSTANTS
  Publishers,     \* threads of the engine that publish
  Streams,        \* event streams the dashboard may open
  QueueSize       \* room in a stream's queue

ASSUME BrokerAssumption == QueueSize \in Nat \ {0}

VARIABLES
  publisher,   \* per thread: idle, recorded or sending, the event, the streams left to send to
  subscribed,  \* _subscriptions
  loop,        \* the API's event loop takes callbacks
  callbacks,   \* per stream: deliveries the loop has taken on
  queue,       \* per stream: its queue
  stream,      \* per stream: closed, open, or over
  read,        \* per stream: what it has passed on
  sent         \* history, per stream: every event handed to the loop for it

brokerVars == <<publisher, subscribed, loop, callbacks, queue, stream, read, sent>>
recordsVars == <<historyVars, brokerVars>>

EndMark == 0
Resting == [pc |-> "idle", event |-> 0, left |-> {}]

BrokerInit ==
  /\ HistoryInit
  /\ publisher = [p \in Publishers |-> Resting]
  /\ subscribed = {}
  /\ loop = TRUE
  /\ callbacks = [s \in Streams |-> <<>>]
  /\ queue = [s \in Streams |-> <<>>]
  /\ stream = [s \in Streams |-> "closed"]
  /\ read = [s \in Streams |-> <<>>]
  /\ sent = [s \in Streams |-> <<>>]

\* publish records first, whether or not anybody listens.
PublishRecords(p) ==
  /\ publisher[p].pc = "idle"
  /\ Publish
  /\ publisher' = [publisher EXCEPT ![p] =
                    [pc |-> "recorded", event |-> published', left |-> {}]]
  /\ UNCHANGED <<subscribed, loop, callbacks, queue, stream, read, sent>>

\* The subscriptions are copied under the lock.
CopySubscriptions(p) ==
  /\ publisher[p].pc = "recorded"
  /\ publisher' = [publisher EXCEPT ![p] = IF subscribed = {} THEN Resting
                                             ELSE [@ EXCEPT !.pc = "sending", !.left = subscribed]]
  /\ UNCHANGED <<historyVars, subscribed, loop, callbacks, queue, stream, read, sent>>

\* The event is handed to the loop of one stream; a loop that is closed refuses, and the stream
\* is unsubscribed.
Send(p, s) ==
  /\ s \in publisher[p].left
  /\ publisher' = [publisher EXCEPT ![p] = IF publisher[p].left = {s} THEN Resting
                                             ELSE [@ EXCEPT !.left = publisher[p].left \ {s}]]
  /\ IF loop
       THEN /\ callbacks' = [callbacks EXCEPT ![s] = Append(@, publisher[p].event)]
            /\ sent' = [sent EXCEPT ![s] = Append(@, publisher[p].event)]
            /\ UNCHANGED subscribed
       ELSE /\ subscribed' = subscribed \ {s}
            /\ UNCHANGED <<callbacks, sent>>
  /\ UNCHANGED <<historyVars, loop, queue, stream, read>>

Subscribe(s) ==
  /\ loop /\ stream[s] = "closed"
  /\ stream' = [stream EXCEPT ![s] = "open"]
  /\ subscribed' = subscribed \cup {s}
  /\ UNCHANGED <<historyVars, publisher, loop, callbacks, queue, read, sent>>

\* Mutant: what does not fit is dropped.
PutOrDrop(s, e) == IF Len(queue[s]) < QueueSize THEN Append(queue[s], e) ELSE queue[s]

\* A full queue is emptied and ends with the mark.
Put(s, e) == IF Len(queue[s]) < QueueSize THEN Append(queue[s], e) ELSE <<EndMark>>
Deliver(s) ==
  /\ loop /\ callbacks[s] # <<>>
  /\ callbacks' = [callbacks EXCEPT ![s] = Tail(@)]
  /\ queue' = [queue EXCEPT ![s] = Put(s, Head(callbacks[s]))]
  /\ subscribed' = IF Len(queue[s]) < QueueSize THEN subscribed ELSE subscribed \ {s}
  /\ UNCHANGED <<historyVars, publisher, loop, stream, read, sent>>

\* The stream passes on the next event, and ends at the mark.
Read(s) ==
  /\ loop /\ stream[s] = "open" /\ queue[s] # <<>>
  /\ queue' = [queue EXCEPT ![s] = Tail(@)]
  /\ IF Head(queue[s]) = EndMark
       THEN /\ stream' = [stream EXCEPT ![s] = "over"]
            /\ subscribed' = subscribed \ {s}
            /\ UNCHANGED read
       ELSE /\ read' = [read EXCEPT ![s] = Append(@, Head(queue[s]))]
            /\ UNCHANGED <<stream, subscribed>>
  /\ UNCHANGED <<historyVars, publisher, loop, callbacks, sent>>

Disconnect(s) ==
  /\ loop /\ stream[s] = "open"
  /\ stream' = [stream EXCEPT ![s] = "over"]
  /\ subscribed' = subscribed \ {s}
  /\ UNCHANGED <<historyVars, publisher, loop, callbacks, queue, read, sent>>

\* The API stops; publishers find out when they hand over the next event.
LoopCloses ==
  /\ loop
  /\ loop' = FALSE
  /\ UNCHANGED <<historyVars, publisher, subscribed, callbacks, queue, stream, read, sent>>

\* A restart of the process takes publishers and streams with it.
RecordsRestart ==
  /\ Restart
  /\ publisher' = [p \in Publishers |-> Resting]
  /\ subscribed' = {}
  /\ loop' = TRUE
  /\ callbacks' = [s \in Streams |-> <<>>]
  /\ queue' = [s \in Streams |-> <<>>]
  /\ stream' = [s \in Streams |-> "closed"]
  /\ read' = [s \in Streams |-> <<>>]
  /\ sent' = [s \in Streams |-> <<>>]

RecordStep == WriterStep \/ BatchFails \/ CompactionFails
StreamStep(s) == Deliver(s) \/ Read(s)
RecordsNext ==
  \/ RecordStep /\ UNCHANGED brokerVars
  \/ RecordsRestart \/ LoopCloses
  \/ \E p \in Publishers :
       PublishRecords(p) \/ CopySubscriptions(p) \/ \E s \in Streams : Send(p, s)
  \/ \E s \in Streams : Subscribe(s) \/ StreamStep(s) \/ Disconnect(s)

\* The writer and the event loop's callbacks go on; streams are read by a client that may not.
RecordsSpec ==
  /\ BrokerInit /\ [][RecordsNext]_recordsVars
  /\ WF_recordsVars(WriterStep /\ UNCHANGED brokerVars)
  /\ \A s \in Streams : WF_recordsVars(Deliver(s))

(***************************************************************************)
(* Properties.                                                             *)
(***************************************************************************)

\* What a stream passes on has no gap: it is a beginning of what was sent to it, and as long as
\* no end mark is waiting, nothing sent is lost on the way (events.py: a full queue is emptied
\* and closed, so that the dashboard connects again and asks for the runs).
StreamUnbroken ==
  \A s \in Streams :
    /\ IsPrefix(read[s], sent[s])
    /\ (stream[s] = "open" /\ \A i \in DOMAIN queue[s] : queue[s][i] # EndMark)
         => read[s] \o queue[s] \o callbacks[s] = sent[s]
=============================================================================
