--------------------------- MODULE RulePath_proofs ---------------------------
(***************************************************************************)
(* Proofs about EventBroker and the record in it, for any threads that     *)
(* publish, any streams, any room in their queues, any capacity and any    *)
(* script: a stream passes on what it was sent, in order and without a     *)
(* gap, flush() tells the truth about what is in the file, and a run's end *)
(* once shown stands (the last section).                                   *)
(* Then about EventBus, for any conditions, any triggers and any order in  *)
(* which they come to the lock: rules fire for what their conditions say,  *)
(* for nothing twice, after silences that were kept, and leave nothing.    *)
(***************************************************************************)
EXTENDS EventBus, EventBroker, WellFoundedInduction, SequenceTheorems, FiniteSetTheorems, TLAPS

(***************************************************************************)
(* The inductive invariant.                                                *)
(***************************************************************************)

(* The way of one stream's events: read, waiting in the queue, waiting with *)
(* the loop; all that was sent.  An end mark stands at the head of a queue. *)
Flow(state, r, q, c, t) ==
  /\ \A i \in 1..Len(c) : c[i] # EndMark
  /\ \A i \in 1..Len(q) : q[i] = EndMark => i = 1
  /\ IsPrefix(r, t)
  /\ (state = "open" /\ \A i \in 1..Len(q) : q[i] # EndMark) => (r \o q) \o c = t
  /\ state = "closed" => r = <<>> /\ q = <<>> /\ c = <<>> /\ t = <<>>

(* A publisher that has something in hand has an event, and sends it to     *)
(* streams that were opened.                                                *)
Holds(p) ==
  /\ (publisher[p].pc = "recorded" \/ publisher[p].left # {}) => publisher[p].event # EndMark
  /\ \A s \in publisher[p].left : stream[s] # "closed"

Numbers == [Streams -> Seq(Nat)]
Places ==
  /\ published \in Nat
  /\ publisher \in [Publishers -> [pc : {"idle", "recorded", "sending"}, event : Nat,
                                   left : SUBSET Streams]]
  /\ subscribed \subseteq Streams
  /\ stream \in [Streams -> {"closed", "open", "over"}]
  /\ callbacks \in Numbers /\ queue \in Numbers /\ read \in Numbers /\ sent \in Numbers

FlowInv ==
  /\ Places
  /\ \A p \in Publishers : Holds(p)
  /\ \A s \in subscribed : stream[s] # "closed"
  /\ \A s \in Streams : Flow(stream[s], read[s], queue[s], callbacks[s], sent[s])

(***************************************************************************)
(* Lists of events.                                                        *)
(***************************************************************************)

LEMMA PrefixOfWhole ==
  ASSUME NEW a \in Seq(Nat), NEW b \in Seq(Nat)
  PROVE  IsPrefix(a, a \o b)
<1>1. Len(a) <= Len(a \o b) /\ Len(a) \in Nat /\ SubSeq(a, 1, Len(a)) = a
  BY ConcatProperties, LenProperties, SubSeqFull
<1>2. SubSeq(a \o b, 1, Len(a)) = SubSeq(a, 1, Len(a))
  <2>1. CASE a = <<>>
    BY <2>1, SubSeqEmpty, EmptySeq
  <2>2. CASE a # <<>>
    <3>1. 1 \in 1..Len(a) /\ Len(a) \in 1..Len(a)
      BY <2>2, EmptySeq
    <3> QED
      BY <3>1, SubSeqOfConcat1
  <2> QED
    BY <2>1, <2>2
<1> QED
  BY <1>1, <1>2 DEF IsPrefix

LEMMA PrefixOfThree ==
  ASSUME NEW a \in Seq(Nat), NEW b \in Seq(Nat), NEW c \in Seq(Nat)
  PROVE  IsPrefix(a, (a \o b) \o c)
<1>1. b \o c \in Seq(Nat)
  BY ConcatProperties
<1>2. (a \o b) \o c = a \o (b \o c)
  BY ConcatAssociative
<1> QED
  BY <1>1, <1>2, PrefixOfWhole

LEMMA PrefixOfMore ==
  ASSUME NEW r \in Seq(Nat), NEW t \in Seq(Nat), NEW e \in Nat, IsPrefix(r, t)
  PROVE  IsPrefix(r, Append(t, e))
<1>1. Len(r) \in Nat /\ Len(t) \in Nat /\ Len(r) <= Len(t)
  BY LenProperties DEF IsPrefix
<1>2. Len(Append(t, e)) = Len(t) + 1
  BY AppendProperties
<1>3. SubSeq(Append(t, e), 1, Len(r)) = SubSeq(t, 1, Len(r))
  <2>1. CASE Len(r) = 0
    BY <2>1, SubSeqEmpty
  <2>2. CASE Len(r) # 0
    <3>1. 1 \in 1..Len(t) /\ Len(r) \in 1..Len(t) /\ <<e>> \in Seq(Nat)
      BY <1>1, <2>2
    <3>2. Append(t, e) = t \o <<e>>
      BY AppendIsConcat
    <3> QED
      BY <3>1, <3>2, SubSeqOfConcat1
  <2> QED
    BY <2>1, <2>2
<1> QED
  BY <1>1, <1>2, <1>3 DEF IsPrefix

(* An event that moves from the head of one list to the end of the one      *)
(* before it leaves the whole as it was.                                    *)
LEMMA MovedOn ==
  ASSUME NEW a \in Seq(Nat), NEW b \in Seq(Nat), b # <<>>
  PROVE  Append(a, Head(b)) \o Tail(b) = a \o b
<1>1. Head(b) \in Nat /\ Tail(b) \in Seq(Nat) /\ <<Head(b)>> \in Seq(Nat)
  BY HeadTailProperties
<1>2. <<Head(b)>> \o Tail(b) = b
  <2>1. Len(b) \in Nat /\ Len(Tail(b)) = Len(b) - 1 /\ Head(b) = b[1] /\ Len(<<Head(b)>>) = 1
    BY HeadTailProperties, LenProperties
  <2>2. Len(<<Head(b)>> \o Tail(b)) = Len(b) /\ <<Head(b)>> \o Tail(b) \in Seq(Nat)
    BY <1>1, <2>1, ConcatProperties
  <2>3. ASSUME NEW i \in 1..Len(b) PROVE (<<Head(b)>> \o Tail(b))[i] = b[i]
    <3>1. CASE i = 1
      BY <3>1, <1>1, <2>1, ConcatProperties
    <3>2. CASE i # 1
      <4>1. i - 1 \in 1..Len(Tail(b)) /\ i \in 1..(Len(<<Head(b)>>) + Len(Tail(b))) /\ ~(i <= 1)
        BY <3>2, <2>1
      <4>2. (<<Head(b)>> \o Tail(b))[i] = Tail(b)[i - 1]
        BY <4>1, <1>1, <2>1, ConcatProperties
      <4>3. Tail(b)[i - 1] = b[(i - 1) + 1]
        BY <4>1, HeadTailProperties
      <4> QED
        BY <4>2, <4>3
    <3> QED
      BY <3>1, <3>2
  <2> QED
    BY <2>2, <2>3, SeqEqual
<1>3. Append(a, Head(b)) \o Tail(b) = (a \o <<Head(b)>>) \o Tail(b)
  BY <1>1, AppendIsConcat
<1> QED
  BY <1>1, <1>2, <1>3, ConcatAssociative

LEMMA SentOn ==
  ASSUME NEW a \in Seq(Nat), NEW c \in Seq(Nat), NEW e \in Nat
  PROVE  a \o Append(c, e) = Append(a \o c, e)
<1>1. <<e>> \in Seq(Nat) /\ a \o c \in Seq(Nat)
  BY ConcatProperties
<1> QED
  BY <1>1, AppendIsConcat, ConcatAssociative

(***************************************************************************)
(* What each step does to the way of one stream.                           *)
(***************************************************************************)

LEMMA FlowTaken ==
  ASSUME NEW state, NEW r \in Seq(Nat), NEW q \in Seq(Nat), NEW c \in Seq(Nat),
         NEW t \in Seq(Nat), NEW e \in Nat,
         Flow(state, r, q, c, t), state # "closed", e # EndMark
  PROVE  Flow(state, r, q, Append(c, e), Append(t, e))
<1>1. \A i \in 1..Len(Append(c, e)) : Append(c, e)[i] # EndMark
  <2>1. Len(Append(c, e)) = Len(c) + 1 /\ Len(c) \in Nat /\ Append(c, e)[Len(c) + 1] = e
    BY AppendProperties, LenProperties
  <2>2. \A i \in 1..Len(c) : Append(c, e)[i] = c[i]
    BY AppendProperties
  <2>3. \A i \in 1..(Len(c) + 1) : i \in 1..Len(c) \/ i = Len(c) + 1
    BY <2>1
  <2> QED
    BY <2>1, <2>2, <2>3 DEF Flow
<1>2. IsPrefix(r, Append(t, e))
  BY PrefixOfMore DEF Flow
<1>3. (r \o q) \o Append(c, e) = Append((r \o q) \o c, e)
  BY SentOn, ConcatProperties
<1> QED
  BY <1>1, <1>2, <1>3 DEF Flow

(* What is taken from the head of a list was in it, and the rest too.       *)
LEMMA Taken ==
  ASSUME NEW c \in Seq(Nat), c # <<>>
  PROVE  /\ 1 \in 1..Len(c) /\ Head(c) = c[1] /\ Head(c) \in Nat
         /\ Tail(c) \in Seq(Nat)
         /\ \A i \in 1..Len(Tail(c)) : i + 1 \in 1..Len(c) /\ Tail(c)[i] = c[i + 1]
<1>1. Len(c) \in Nat \ {0} /\ Head(c) \in Nat /\ Tail(c) \in Seq(Nat)
      /\ Len(Tail(c)) = Len(c) - 1
  BY EmptySeq, HeadTailProperties
<1>2. \A i \in 1..Len(Tail(c)) : i + 1 \in 1..Len(c)
  BY <1>1
<1>3. \A i \in 1..Len(Tail(c)) : Tail(c)[i] = c[i + 1]
  BY HeadTailProperties
<1> QED
  BY <1>1, <1>2, <1>3

LEMMA NoMarkLeft ==
  ASSUME NEW c \in Seq(Nat), c # <<>>, \A i \in 1..Len(c) : c[i] # EndMark
  PROVE  Head(c) # EndMark /\ \A i \in 1..Len(Tail(c)) : Tail(c)[i] # EndMark
  BY Taken

LEMMA FlowDelivered ==
  ASSUME NEW state, NEW r \in Seq(Nat), NEW q \in Seq(Nat), NEW c \in Seq(Nat),
         NEW t \in Seq(Nat), Flow(state, r, q, c, t), c # <<>>
  PROVE  Flow(state, r, Append(q, Head(c)), Tail(c), t)
<1> DEFINE e == Head(c)
           u == Append(q, e)
<1>0. e \in Nat /\ Tail(c) \in Seq(Nat) /\ e # EndMark /\ state # "closed"
  BY Taken, NoMarkLeft DEF Flow
<1>1. \A i \in 1..Len(Tail(c)) : Tail(c)[i] # EndMark
  BY NoMarkLeft DEF Flow
<1>2. /\ Len(u) = Len(q) + 1 /\ Len(q) \in Nat /\ u[Len(q) + 1] = e
      /\ \A i \in 1..Len(q) : u[i] = q[i]
  BY <1>0, AppendProperties, LenProperties
<1> HIDE DEF u, e
<1>3. \A i \in 1..Len(u) : i \in 1..Len(q) \/ i = Len(q) + 1
  BY <1>2
<1>4. \A i \in 1..Len(u) : u[i] = EndMark => i = 1
  BY <1>0, <1>2, <1>3 DEF Flow
<1>5. ASSUME \A i \in 1..Len(u) : u[i] # EndMark
      PROVE  (r \o u) \o Tail(c) = (r \o q) \o c /\ \A i \in 1..Len(q) : q[i] # EndMark
  <2>1. \A i \in 1..Len(q) : i \in 1..Len(u)
    BY <1>2
  <2>2. \A i \in 1..Len(q) : q[i] # EndMark
    BY <1>2, <1>5, <2>1
  <2>3. r \o u = Append(r \o q, e) /\ r \o q \in Seq(Nat)
    BY <1>0, SentOn, ConcatProperties DEF u
  <2>4. Append(r \o q, e) \o Tail(c) = (r \o q) \o c
    BY <2>3, MovedOn DEF e
  <2> QED
    BY <2>2, <2>3, <2>4
<1>6. Flow(state, r, u, Tail(c), t)
  BY <1>0, <1>1, <1>4, <1>5 DEF Flow
<1> QED
  BY <1>6 DEF u, e

LEMMA FlowOverrun ==
  ASSUME NEW state, NEW r \in Seq(Nat), NEW q \in Seq(Nat), NEW c \in Seq(Nat),
         NEW t \in Seq(Nat), Flow(state, r, q, c, t), c # <<>>
  PROVE  Flow(state, r, <<EndMark>>, Tail(c), t)
<1>1. \A i \in 1..Len(Tail(c)) : Tail(c)[i] # EndMark
  BY NoMarkLeft DEF Flow
<1>2. Len(<<EndMark>>) = 1 /\ <<EndMark>>[1] = EndMark /\ 1 \in 1..1
  OBVIOUS
<1>3. \A i \in 1..Len(<<EndMark>>) : i = 1
  BY <1>2
<1>4. state # "closed"
  BY DEF Flow
<1> QED
  BY <1>1, <1>2, <1>3, <1>4 DEF Flow

LEMMA FlowRead ==
  ASSUME NEW r \in Seq(Nat), NEW q \in Seq(Nat), NEW c \in Seq(Nat), NEW t \in Seq(Nat),
         Flow("open", r, q, c, t), q # <<>>, Head(q) # EndMark
  PROVE  Flow("open", Append(r, Head(q)), Tail(q), c, t)
<1> DEFINE a == Append(r, Head(q))
<1>1. /\ Head(q) = q[1] /\ Head(q) \in Nat /\ Tail(q) \in Seq(Nat)
      /\ \A i \in 1..Len(Tail(q)) : i + 1 \in 1..Len(q) /\ Tail(q)[i] = q[i + 1]
  BY Taken
<1>2. \A i \in 1..Len(q) : q[i] # EndMark
  BY <1>1 DEF Flow
<1>3. \A i \in 1..Len(Tail(q)) : Tail(q)[i] # EndMark
  BY <1>1, <1>2
<1>4. (r \o q) \o c = t
  BY <1>2 DEF Flow
<1>5. a \o Tail(q) = r \o q /\ a \in Seq(Nat)
  BY <1>1, MovedOn, AppendProperties
<1> HIDE DEF a
<1>6. (a \o Tail(q)) \o c = t
  BY <1>4, <1>5
<1>7. IsPrefix(a, (a \o Tail(q)) \o c)
  BY <1>1, <1>5, PrefixOfThree
<1>8. Flow("open", a, Tail(q), c, t)
  BY <1>3, <1>6, <1>7 DEF Flow
<1> QED
  BY <1>8 DEF a

(* What is left in the queue of a stream that is over is not read.          *)
LEMMA FlowEnds ==
  ASSUME NEW state, NEW r \in Seq(Nat), NEW q \in Seq(Nat), NEW c \in Seq(Nat),
         NEW t \in Seq(Nat), Flow(state, r, q, c, t)
  PROVE  /\ Flow("over", r, q, c, t)
         /\ q # <<>> => Flow("over", r, Tail(q), c, t)
<1>1. Flow("over", r, q, c, t)
  BY DEF Flow
<1>2. ASSUME q # <<>> PROVE Flow("over", r, Tail(q), c, t)
  <2>1. \A i \in 1..Len(Tail(q)) : i + 1 \in 1..Len(q) /\ Tail(q)[i] = q[i + 1] /\ i + 1 # 1
    BY <1>2, Taken
  <2>2. \A i \in 1..Len(Tail(q)) : Tail(q)[i] # EndMark
    BY <2>1 DEF Flow
  <2> QED
    BY <2>2 DEF Flow
<1> QED
  BY <1>1, <1>2

LEMMA FlowNothing == Flow("closed", <<>>, <<>>, <<>>, <<>>)
<1>1. <<>> \in Seq(Nat) /\ Len(<<>>) = 0
  BY EmptySeq
<1>2. <<>> \o <<>> = <<>>
  BY <1>1, ConcatEmptySeq
<1>3. IsPrefix(<<>>, <<>>)
  BY <1>1, <1>2, PrefixOfWhole
<1> QED
  BY <1>1, <1>3 DEF Flow

LEMMA FlowOpens ==
  ASSUME NEW r \in Seq(Nat), NEW q \in Seq(Nat), NEW c \in Seq(Nat), NEW t \in Seq(Nat),
         Flow("closed", r, q, c, t)
  PROVE  Flow("open", r, q, c, t)
<1>1. <<>> \in Seq(Nat)
  OBVIOUS
<1>2. (<<>> \o <<>>) \o <<>> = <<>>
  BY <1>1, ConcatEmptySeq
<1> QED
  BY <1>2 DEF Flow

(***************************************************************************)
(* The steps.                                                              *)
(***************************************************************************)

LEMMA FlowInvInit == BrokerInit => FlowInv
<1> SUFFICES ASSUME BrokerInit PROVE FlowInv
  OBVIOUS
<1>1. Places
  BY DEF BrokerInit, HistoryInit, Places, Numbers, Resting
<1>2. ASSUME NEW p \in Publishers PROVE Holds(p)
  BY DEF BrokerInit, Holds, Resting
<1>3. ASSUME NEW s \in Streams PROVE Flow(stream[s], read[s], queue[s], callbacks[s], sent[s])
  BY FlowNothing DEF BrokerInit
<1> QED
  BY <1>1, <1>2, <1>3 DEF FlowInv, BrokerInit

LEMMA ListsOf ==
  ASSUME Places, NEW s \in Streams
  PROVE  /\ read[s] \in Seq(Nat) /\ queue[s] \in Seq(Nat)
         /\ callbacks[s] \in Seq(Nat) /\ sent[s] \in Seq(Nat)
  BY DEF Places, Numbers

LEMMA RecordingKeeps ==
  ASSUME FlowInv, RecordStep, UNCHANGED brokerVars
  PROVE  FlowInv'
<1>1. published' = published
  BY DEF RecordStep, WriterStep, WriterWaits, WriterExits, WriterTakes, BatchWritten, Compacts,
         BatchFails, CompactionFails
<1>2. UNCHANGED <<publisher, subscribed, loop, callbacks, queue, stream, read, sent>>
  BY DEF brokerVars
<1> QED
  BY <1>1, <1>2 DEF FlowInv, Places, Holds

LEMMA PublishKeeps ==
  ASSUME FlowInv, NEW p \in Publishers, PublishRecords(p)
  PROVE  FlowInv'
<1>1. published' = published + 1 /\ published \in Nat
  BY DEF PublishRecords, Publish, FlowInv, Places
<1>2. published' \in Nat /\ published' # EndMark
  BY <1>1 DEF EndMark
<1>3. publisher' = [publisher EXCEPT ![p] = [pc |-> "recorded", event |-> published', left |-> {}]]
  BY DEF PublishRecords
<1>4. Places'
  BY <1>2, <1>3 DEF PublishRecords, FlowInv, Places, Numbers
<1>5. ASSUME NEW o \in Publishers PROVE Holds(o)'
  BY <1>2, <1>3 DEF PublishRecords, FlowInv, Places, Holds
<1> QED
  BY <1>4, <1>5 DEF PublishRecords, FlowInv

LEMMA CopyKeeps ==
  ASSUME FlowInv, NEW p \in Publishers, CopySubscriptions(p)
  PROVE  FlowInv'
<1>1. PICK now \in [pc : {"idle", "recorded", "sending"}, event : Nat, left : SUBSET Streams] :
        /\ publisher' = [publisher EXCEPT ![p] = now]
        /\ now.pc # "recorded" /\ now.left \subseteq subscribed
        /\ now.left # {} => now.event = publisher[p].event
  <2>1. CASE subscribed = {}
    <3>1. /\ Resting \in [pc : {"idle", "recorded", "sending"}, event : Nat, left : SUBSET Streams]
          /\ Resting.pc = "idle" /\ Resting.left = {}
      BY DEF Resting
    <3>2. publisher' = [publisher EXCEPT ![p] = Resting]
      BY <2>1 DEF CopySubscriptions
    <3> QED
      BY <3>1, <3>2
  <2>2. CASE subscribed # {}
    <3> DEFINE now == [publisher[p] EXCEPT !.pc = "sending", !.left = subscribed]
    <3>1. /\ now \in [pc : {"idle", "recorded", "sending"}, event : Nat, left : SUBSET Streams]
          /\ now.pc = "sending" /\ now.left = subscribed /\ now.event = publisher[p].event
      BY DEF FlowInv, Places
    <3>2. publisher' = [publisher EXCEPT ![p] = now]
      BY <2>2 DEF CopySubscriptions, FlowInv, Places
    <3> HIDE DEF now
    <3> QED
      BY <3>1, <3>2
  <2> QED
    BY <2>1, <2>2
<1>2. Places'
  BY <1>1 DEF CopySubscriptions, FlowInv, Places, Numbers, historyVars
<1>3. publisher[p].event # EndMark /\ \A s \in subscribed : stream[s] # "closed"
  BY DEF CopySubscriptions, FlowInv, Holds
<1>4. ASSUME NEW o \in Publishers PROVE Holds(o)'
  <2>1. stream' = stream /\ Holds(o)
    BY DEF CopySubscriptions, FlowInv
  <2>2. publisher'[o] = IF o = p THEN now ELSE publisher[o]
    BY <1>1 DEF FlowInv, Places
  <2> QED
    BY <1>1, <1>3, <2>1, <2>2 DEF Holds
<1> QED
  BY <1>2, <1>4 DEF CopySubscriptions, FlowInv

LEMMA SendKeeps ==
  ASSUME FlowInv, NEW p \in Publishers, NEW s \in Streams, Send(p, s)
  PROVE  FlowInv'
<1> DEFINE e == publisher[p].event
<1>1. e \in Nat /\ e # EndMark /\ stream[s] # "closed"
  BY DEF Send, FlowInv, Places, Holds
<1>2. PICK now \in [pc : {"idle", "recorded", "sending"}, event : Nat, left : SUBSET Streams] :
        /\ publisher' = [publisher EXCEPT ![p] = now]
        /\ now.pc = "recorded" => publisher[p].pc = "recorded"
        /\ now.left \subseteq publisher[p].left
        /\ (now.pc = "recorded" \/ now.left # {}) => now.event = publisher[p].event
  <2>0. publisher' = [publisher EXCEPT ![p] =
                        IF publisher[p].left = {s} THEN Resting
                          ELSE [publisher[p] EXCEPT !.left = publisher[p].left \ {s}]]
    BY DEF Send
  <2>1. CASE publisher[p].left = {s}
    <3>1. /\ Resting \in [pc : {"idle", "recorded", "sending"}, event : Nat, left : SUBSET Streams]
          /\ Resting.pc = "idle" /\ Resting.left = {}
      BY DEF Resting
    <3>2. publisher' = [publisher EXCEPT ![p] = Resting]
      BY <2>0, <2>1
    <3> QED
      BY <3>1, <3>2
  <2>2. CASE publisher[p].left # {s}
    <3> DEFINE now == [publisher[p] EXCEPT !.left = publisher[p].left \ {s}]
    <3>1. /\ now \in [pc : {"idle", "recorded", "sending"}, event : Nat, left : SUBSET Streams]
          /\ now.pc = publisher[p].pc /\ now.left = publisher[p].left \ {s}
          /\ now.event = publisher[p].event
      BY DEF FlowInv, Places
    <3>2. publisher' = [publisher EXCEPT ![p] = now]
      BY <2>0, <2>2
    <3> HIDE DEF now
    <3> QED
      BY <3>1, <3>2
  <2> QED
    BY <2>1, <2>2
<1>3. ASSUME NEW o \in Publishers PROVE Holds(o)'
  <2>1. stream' = stream /\ Holds(o) /\ Holds(p)
    BY DEF Send, FlowInv
  <2>2. publisher'[o] = IF o = p THEN now ELSE publisher[o]
    BY <1>2 DEF FlowInv, Places
  <2> QED
    BY <1>1, <1>2, <2>1, <2>2 DEF Holds
<1>4. /\ UNCHANGED <<published, queue, stream, read>>
      /\ subscribed' \subseteq subscribed
  BY DEF Send, historyVars
<1>5. CASE loop
  <2>1. /\ callbacks' = [callbacks EXCEPT ![s] = Append(callbacks[s], e)]
        /\ sent' = [sent EXCEPT ![s] = Append(sent[s], e)]
    BY <1>5 DEF Send
  <2>2. Append(callbacks[s], e) \in Seq(Nat) /\ Append(sent[s], e) \in Seq(Nat)
    BY <1>1, ListsOf, AppendProperties DEF FlowInv
  <2>3. Places'
    BY <1>2, <1>4, <2>1, <2>2 DEF FlowInv, Places, Numbers
  <2>4. Flow(stream[s], read[s], queue[s], Append(callbacks[s], e), Append(sent[s], e))
    BY <1>1, ListsOf, FlowTaken DEF FlowInv
  <2>5. ASSUME NEW o \in Streams PROVE Flow(stream[o], read[o], queue[o], callbacks[o], sent[o])'
    <3>1. CASE o = s
      <4>1. callbacks'[s] = Append(callbacks[s], e) /\ sent'[s] = Append(sent[s], e)
        BY <2>1 DEF FlowInv, Places, Numbers
      <4> QED
        BY <3>1, <4>1, <1>4, <2>4
    <3>2. CASE o # s
      <4>1. callbacks'[o] = callbacks[o] /\ sent'[o] = sent[o]
        BY <3>2, <2>1 DEF FlowInv, Places, Numbers
      <4> QED
        BY <4>1, <1>4 DEF FlowInv
    <3> QED
      BY <3>1, <3>2
  <2> QED
    BY <1>3, <1>4, <2>3, <2>5 DEF FlowInv
<1>6. CASE ~loop
  <2>1. UNCHANGED <<callbacks, sent>>
    BY <1>6 DEF Send
  <2>2. Places'
    BY <1>2, <1>4, <2>1 DEF FlowInv, Places, Numbers
  <2> QED
    BY <1>3, <1>4, <2>1, <2>2 DEF FlowInv
<1> QED
  BY <1>5, <1>6

(* A step that changes nothing but one stream, and may take it off the list.*)
Touches(s) ==
  /\ UNCHANGED <<published, publisher>>
  /\ subscribed' \subseteq subscribed \cup {s}
  /\ \E st \in {"closed", "open", "over"} : stream' = [stream EXCEPT ![s] = st]
  /\ \E q \in Seq(Nat) : queue' = [queue EXCEPT ![s] = q]
  /\ \E c \in Seq(Nat) : callbacks' = [callbacks EXCEPT ![s] = c]
  /\ \E r \in Seq(Nat) : read' = [read EXCEPT ![s] = r]
  /\ sent' = sent
  /\ stream'[s] # "closed"
  /\ Flow(stream'[s], read'[s], queue'[s], callbacks'[s], sent[s])

LEMMA TouchKeeps ==
  ASSUME FlowInv, NEW s \in Streams, Touches(s)
  PROVE  FlowInv'
<1>1. Places'
  BY DEF Touches, FlowInv, Places, Numbers
<1>2. ASSUME NEW o \in Streams, o # s
      PROVE  /\ stream'[o] = stream[o] /\ queue'[o] = queue[o]
             /\ callbacks'[o] = callbacks[o] /\ read'[o] = read[o]
  BY <1>2 DEF Touches
<1>3. \A o \in Streams : stream[o] # "closed" => stream'[o] # "closed"
  BY <1>2 DEF Touches
<1>4. ASSUME NEW p \in Publishers PROVE Holds(p)'
  <2>1. Holds(p) /\ publisher' = publisher /\ publisher[p].left \subseteq Streams
    BY DEF Touches, FlowInv, Places
  <2> QED
    BY <2>1, <1>3 DEF Holds
<1>5. \A o \in subscribed' : stream'[o] # "closed"
  <2>1. \A o \in subscribed : stream[o] # "closed" /\ o \in Streams
    BY DEF FlowInv, Places
  <2> QED
    BY <2>1, <1>3 DEF Touches
<1>6. ASSUME NEW o \in Streams PROVE Flow(stream[o], read[o], queue[o], callbacks[o], sent[o])'
  <2>1. CASE o = s
    BY <2>1 DEF Touches
  <2>2. CASE o # s
    BY <2>2, <1>2 DEF Touches, FlowInv
  <2> QED
    BY <2>1, <2>2
<1> QED
  BY <1>1, <1>4, <1>5, <1>6 DEF FlowInv

(* The lists and the state of a stream, as it was and after an update.      *)
LEMMA Untouched ==
  ASSUME Places, NEW s \in Streams
  PROVE  /\ queue = [queue EXCEPT ![s] = queue[s]]
         /\ callbacks = [callbacks EXCEPT ![s] = callbacks[s]]
         /\ read = [read EXCEPT ![s] = read[s]]
         /\ stream = [stream EXCEPT ![s] = stream[s]]
         /\ stream[s] \in {"closed", "open", "over"}
  BY DEF Places, Numbers

LEMMA Updated ==
  ASSUME Places, NEW s \in Streams, NEW x
  PROVE  /\ [queue EXCEPT ![s] = x][s] = x /\ [callbacks EXCEPT ![s] = x][s] = x
         /\ [read EXCEPT ![s] = x][s] = x /\ [stream EXCEPT ![s] = x][s] = x
  BY DEF Places, Numbers

LEMMA SubscribeKeeps ==
  ASSUME FlowInv, NEW s \in Streams, Subscribe(s)
  PROVE  FlowInv'
<1>0. Places
  BY DEF FlowInv
<1>1. Flow("open", read[s], queue[s], callbacks[s], sent[s])
  BY <1>0, ListsOf, FlowOpens DEF FlowInv, Subscribe
<1>2. stream'[s] = "open"
  BY <1>0, Updated DEF Subscribe
<1>3. UNCHANGED <<published, publisher, queue, callbacks, read, sent>>
  BY DEF Subscribe, historyVars
<1>4. Touches(s)
  BY <1>0, <1>1, <1>2, <1>3, ListsOf, Untouched DEF Touches, Subscribe
<1> QED
  BY <1>4, TouchKeeps

LEMMA DeliverKeeps ==
  ASSUME FlowInv, NEW s \in Streams, Deliver(s)
  PROVE  FlowInv'
<1>0. Places /\ Flow(stream[s], read[s], queue[s], callbacks[s], sent[s])
  BY DEF FlowInv
<1>1. /\ read[s] \in Seq(Nat) /\ queue[s] \in Seq(Nat)
      /\ callbacks[s] \in Seq(Nat) /\ sent[s] \in Seq(Nat)
      /\ callbacks[s] # <<>> /\ Head(callbacks[s]) \in Nat /\ Tail(callbacks[s]) \in Seq(Nat)
  BY <1>0, ListsOf, Taken DEF Deliver
<1>2. PICK q \in Seq(Nat) :
        /\ queue' = [queue EXCEPT ![s] = q]
        /\ Flow(stream[s], read[s], q, Tail(callbacks[s]), sent[s])
  <2>1. CASE Len(queue[s]) < QueueSize
    <3>1. queue' = [queue EXCEPT ![s] = Append(queue[s], Head(callbacks[s]))]
      BY <2>1 DEF Deliver, Put
    <3>2. Append(queue[s], Head(callbacks[s])) \in Seq(Nat)
      BY <1>1, AppendProperties
    <3> QED
      BY <1>0, <1>1, <3>1, <3>2, FlowDelivered
  <2>2. CASE ~(Len(queue[s]) < QueueSize)
    <3>1. queue' = [queue EXCEPT ![s] = <<EndMark>>]
      BY <2>2 DEF Deliver, Put
    <3>2. <<EndMark>> \in Seq(Nat)
      BY DEF EndMark
    <3> QED
      BY <1>0, <1>1, <3>1, <3>2, FlowOverrun
  <2> QED
    BY <2>1, <2>2
<1>3. stream[s] # "closed"
  BY <1>0, <1>1 DEF Flow
<1>4. /\ UNCHANGED <<published, publisher, stream, read, sent>>
      /\ subscribed' \subseteq subscribed
      /\ callbacks' = [callbacks EXCEPT ![s] = Tail(callbacks[s])]
  BY DEF Deliver, historyVars
<1>5. queue'[s] = q /\ callbacks'[s] = Tail(callbacks[s])
  BY <1>0, <1>2, <1>4, Updated
<1>6. Touches(s)
  BY <1>0, <1>1, <1>2, <1>3, <1>4, <1>5, Untouched DEF Touches
<1> QED
  BY <1>6, TouchKeeps

LEMMA ReadKeeps ==
  ASSUME FlowInv, NEW s \in Streams, Read(s)
  PROVE  FlowInv'
<1>0. Places /\ Flow("open", read[s], queue[s], callbacks[s], sent[s]) /\ stream[s] = "open"
  BY DEF FlowInv, Read
<1>1. /\ read[s] \in Seq(Nat) /\ queue[s] \in Seq(Nat)
      /\ callbacks[s] \in Seq(Nat) /\ sent[s] \in Seq(Nat)
      /\ queue[s] # <<>> /\ Head(queue[s]) \in Nat /\ Tail(queue[s]) \in Seq(Nat)
  BY <1>0, ListsOf, Taken DEF Read
<1>2. /\ UNCHANGED <<published, publisher, callbacks, sent>>
      /\ queue' = [queue EXCEPT ![s] = Tail(queue[s])]
  BY DEF Read, historyVars
<1>3. queue'[s] = Tail(queue[s])
  BY <1>0, <1>2, Updated
<1>4. CASE Head(queue[s]) = EndMark
  <2>1. /\ stream' = [stream EXCEPT ![s] = "over"] /\ read' = read
        /\ subscribed' \subseteq subscribed
    BY <1>4 DEF Read
  <2>2. Flow("over", read[s], Tail(queue[s]), callbacks[s], sent[s])
    BY <1>0, <1>1, FlowEnds
  <2>3. stream'[s] = "over"
    BY <1>0, <2>1, Updated
  <2>4. Touches(s)
    BY <1>0, <1>1, <1>2, <1>3, <2>1, <2>2, <2>3, Untouched DEF Touches
  <2> QED
    BY <2>4, TouchKeeps
<1>5. CASE Head(queue[s]) # EndMark
  <2>1. /\ read' = [read EXCEPT ![s] = Append(read[s], Head(queue[s]))]
        /\ UNCHANGED <<stream, subscribed>>
    BY <1>5 DEF Read
  <2>2. Flow("open", Append(read[s], Head(queue[s])), Tail(queue[s]), callbacks[s], sent[s])
    BY <1>0, <1>1, <1>5, FlowRead
  <2>3. Append(read[s], Head(queue[s])) \in Seq(Nat)
    BY <1>1, AppendProperties
  <2>4. read'[s] = Append(read[s], Head(queue[s]))
    BY <1>0, <2>1, Updated
  <2>5. Touches(s)
    BY <1>0, <1>1, <1>2, <1>3, <2>1, <2>2, <2>3, <2>4, Untouched DEF Touches
  <2> QED
    BY <2>5, TouchKeeps
<1> QED
  BY <1>4, <1>5

LEMMA DisconnectKeeps ==
  ASSUME FlowInv, NEW s \in Streams, Disconnect(s)
  PROVE  FlowInv'
<1>0. Places
  BY DEF FlowInv
<1>1. Flow("over", read[s], queue[s], callbacks[s], sent[s])
  BY <1>0, ListsOf, FlowEnds DEF FlowInv, Disconnect
<1>2. stream'[s] = "over"
  BY <1>0, Updated DEF Disconnect
<1>3. UNCHANGED <<published, publisher, queue, callbacks, read, sent>>
  BY DEF Disconnect, historyVars
<1>4. Touches(s)
  BY <1>0, <1>1, <1>2, <1>3, ListsOf, Untouched DEF Touches, Disconnect
<1> QED
  BY <1>4, TouchKeeps

LEMMA RestartKeeps == FlowInv /\ RecordsRestart => FlowInv'
<1> SUFFICES ASSUME FlowInv, RecordsRestart PROVE FlowInv'
  OBVIOUS
<1>1. Places'
  BY DEF RecordsRestart, Restart, FlowInv, Places, Numbers, Resting
<1>2. ASSUME NEW p \in Publishers PROVE Holds(p)'
  BY DEF RecordsRestart, Holds, Resting
<1>3. ASSUME NEW s \in Streams PROVE Flow(stream[s], read[s], queue[s], callbacks[s], sent[s])'
  BY FlowNothing DEF RecordsRestart
<1> QED
  BY <1>1, <1>2, <1>3 DEF FlowInv, RecordsRestart

LEMMA FlowInvStep == FlowInv /\ [RecordsNext]_recordsVars => FlowInv'
<1> SUFFICES ASSUME FlowInv, [RecordsNext]_recordsVars PROVE FlowInv'
  OBVIOUS
<1>1. CASE RecordStep /\ UNCHANGED brokerVars
  BY <1>1, RecordingKeeps
<1>2. CASE RecordsRestart
  BY <1>2, RestartKeeps
<1>3. CASE LoopCloses
  BY <1>3 DEF LoopCloses, historyVars, FlowInv, Places, Holds
<1>4. ASSUME NEW p \in Publishers, PublishRecords(p) PROVE FlowInv'
  BY <1>4, PublishKeeps
<1>5. ASSUME NEW p \in Publishers, CopySubscriptions(p) PROVE FlowInv'
  BY <1>5, CopyKeeps
<1>6. ASSUME NEW p \in Publishers, NEW s \in Streams, Send(p, s) PROVE FlowInv'
  BY <1>6, SendKeeps
<1>7. ASSUME NEW s \in Streams, Subscribe(s) PROVE FlowInv'
  BY <1>7, SubscribeKeeps
<1>8. ASSUME NEW s \in Streams, Deliver(s) PROVE FlowInv'
  BY <1>8, DeliverKeeps
<1>9. ASSUME NEW s \in Streams, Read(s) PROVE FlowInv'
  BY <1>9, ReadKeeps
<1>10. ASSUME NEW s \in Streams, Disconnect(s) PROVE FlowInv'
  BY <1>10, DisconnectKeeps
<1>11. CASE UNCHANGED recordsVars
  BY <1>11 DEF recordsVars, brokerVars, historyVars, FlowInv, Places, Holds
<1> QED
  BY <1>1, <1>2, <1>3, <1>4, <1>5, <1>6, <1>7, <1>8, <1>9, <1>10, <1>11
     DEF RecordsNext, StreamStep

(* What a stream passes on is a beginning of what was sent to it, and while *)
(* no end mark is waiting nothing sent to an open stream is lost, however   *)
(* publishers, callbacks, readers, overruns and restarts interleave         *)
(* (host/api/events.py, the event stream of host/api/routes_engine.py).     *)
THEOREM StreamsUnbroken == RecordsSpec => []StreamUnbroken
<1>1. BrokerInit => FlowInv
  BY FlowInvInit
<1>2. FlowInv /\ [RecordsNext]_recordsVars => FlowInv'
  BY FlowInvStep
<1>3. FlowInv => StreamUnbroken
  <2> SUFFICES ASSUME FlowInv, NEW s \in Streams
               PROVE  /\ IsPrefix(read[s], sent[s])
                      /\ (stream[s] = "open" /\ \A i \in DOMAIN queue[s] : queue[s][i] # EndMark)
                           => (read[s] \o queue[s]) \o callbacks[s] = sent[s]
    BY DEF StreamUnbroken
  <2>1. Flow(stream[s], read[s], queue[s], callbacks[s], sent[s])
    BY DEF FlowInv
  <2>2. DOMAIN queue[s] = 1..Len(queue[s])
    BY ListsOf, LenProperties DEF FlowInv
  <2> QED
    BY <2>1, <2>2 DEF Flow
<1> QED
  BY <1>1, <1>2, <1>3, PTL DEF RecordsSpec

(***************************************************************************)
(* The record.  What is in the file, with the writer and in the queue is   *)
(* in the order of publication; an event recorded by this process is in    *)
(* one of the three as long as nothing was lost with an error, on a torn   *)
(* line, or behind a compaction's Capacity newer events; and the writer    *)
(* does not end with something in hand or in the queue.                    *)
(***************************************************************************)
Increasing(s) == \A i, j \in 1..Len(s) : i < j => s[i] < s[j]
Before(s, t) == \A i \in 1..Len(s), j \in 1..Len(t) : s[i] < t[j]
UpTo(s, m) == \A i \in 1..Len(s) : s[i] <= m
Within(e, s) == \E i \in 1..Len(s) : s[i] = e
Newer(e) == Len(file) >= Capacity /\ file[Len(file) - Capacity + 1] > e

RecordTypes ==
  /\ published \in Nat /\ since \in Nat
  /\ memory \in Seq(Nat) /\ pending \in Seq(Nat) /\ batch \in Seq(Nat) /\ file \in Seq(Nat)
  /\ Len(pending) <= Capacity
  /\ torn \in BOOLEAN /\ error \in BOOLEAN
  /\ writer \in {"none", "looking", "waiting", "writing", "compacting"}
InOrder ==
  /\ Increasing(memory) /\ Increasing(file) /\ Increasing(batch) /\ Increasing(pending)
  /\ Before(file, batch) /\ Before(file, pending) /\ Before(batch, pending)
  /\ UpTo(memory, published) /\ UpTo(file, published)
  /\ UpTo(batch, published) /\ UpTo(pending, published)
InHand ==
  /\ writer = "writing" <=> batch # <<>>
  /\ writer = "none" => pending = <<>>
OnItsWay(e) ==
  Within(e, file) \/ Within(e, batch) \/ Within(e, pending) \/ e \in swallowed \/ Newer(e)
NothingLost ==
  ~error => \A e \in since + 1..published : script[e].kind \in Recorded => OnItsWay(e)
RecordInv == RecordTypes /\ InOrder /\ InHand /\ NothingLost

(* A piece of a sequence, a elements from its beginning.                    *)
Piece(q, s, a) ==
  /\ q \in Seq(Nat) /\ a \in Nat /\ a + Len(q) <= Len(s)
  /\ \A k \in 1..Len(q) : q[k] = s[a + k]

LEMMA SubSeqPiece ==
  ASSUME NEW s \in Seq(Nat), NEW a \in Nat, NEW b \in Nat, a <= b, b <= Len(s)
  PROVE  Piece(SubSeq(s, a + 1, b), s, a) /\ Len(SubSeq(s, a + 1, b)) = b - a
  BY DEF Piece

LEMMA TailPiece ==
  ASSUME NEW s \in Seq(Nat), s # <<>>
  PROVE  Piece(Tail(s), s, 1) /\ Len(Tail(s)) = Len(s) - 1
  BY DEF Piece

LEMMA LastPiece ==
  ASSUME NEW s \in Seq(Nat)
  PROVE  \E a \in Nat :
           /\ Piece(LastOf(s), s, a) /\ Len(LastOf(s)) = Len(s) - a /\ Len(LastOf(s)) <= Capacity
           /\ Len(s) <= Capacity => a = 0
           /\ Len(s) > Capacity => a = Len(s) - Capacity
<1>1. Capacity \in Nat /\ Len(s) \in Nat
  BY HistoryAssumption
<1>2. CASE Len(s) > Capacity
  <2>1. LastOf(s) = SubSeq(s, (Len(s) - Capacity) + 1, Len(s)) /\ Len(s) - Capacity \in Nat
    BY <1>1, <1>2 DEF LastOf
  <2>2. Piece(LastOf(s), s, Len(s) - Capacity) /\ Len(LastOf(s)) = Len(s) - (Len(s) - Capacity)
    BY <1>1, <2>1, SubSeqPiece
  <2> QED
    BY <1>1, <1>2, <2>1, <2>2
<1>3. CASE ~(Len(s) > Capacity)
  <2>1. LastOf(s) = SubSeq(s, 0 + 1, Len(s))
    BY <1>3 DEF LastOf
  <2>2. Piece(LastOf(s), s, 0) /\ Len(LastOf(s)) = Len(s) - 0
    BY <1>1, <2>1, SubSeqPiece
  <2> QED
    BY <1>1, <1>3, <2>2
<1> QED
  BY <1>2, <1>3

LEMMA PieceInOrder ==
  ASSUME NEW s \in Seq(Nat), NEW q, NEW a, Piece(q, s, a), NEW m \in Nat
  PROVE  /\ Increasing(s) => Increasing(q)
         /\ UpTo(s, m) => UpTo(q, m)
<1>1. /\ q \in Seq(Nat) /\ a \in Nat /\ Len(q) \in Nat /\ Len(s) \in Nat
      /\ \A k \in 1..Len(q) : a + k \in 1..Len(s) /\ q[k] = s[a + k]
  BY DEF Piece
<1>2. ASSUME Increasing(s), NEW i \in 1..Len(q), NEW j \in 1..Len(q), i < j PROVE q[i] < q[j]
  <2>1. a + i < a + j /\ a + i \in 1..Len(s) /\ a + j \in 1..Len(s)
    BY <1>1, <1>2
  <2> QED
    BY <1>1, <1>2, <2>1 DEF Increasing
<1> QED
  BY <1>1, <1>2 DEF Increasing, UpTo

LEMMA PieceBetween ==
  ASSUME NEW s \in Seq(Nat), NEW q, NEW a, Piece(q, s, a), NEW t
  PROVE  (Before(s, t) => Before(q, t)) /\ (Before(t, s) => Before(t, q))
<1>1. \A k \in 1..Len(q) : a + k \in 1..Len(s) /\ q[k] = s[a + k]
  BY DEF Piece
<1> QED
  BY <1>1 DEF Before

LEMMA Joined ==
  ASSUME NEW s \in Seq(Nat), NEW t \in Seq(Nat)
  PROVE  /\ s \o t \in Seq(Nat) /\ Len(s \o t) = Len(s) + Len(t)
         /\ Len(s) \in Nat /\ Len(t) \in Nat
         /\ \A k \in 1..Len(s) : (s \o t)[k] = s[k]
         /\ \A k \in 1..Len(t) : (s \o t)[Len(s) + k] = t[k]
         /\ \A k \in 1..Len(s \o t) : k \in 1..Len(s) \/ k - Len(s) \in 1..Len(t)
         /\ \A k \in 1..Len(s \o t) : k \in 1..Len(s) \/ (s \o t)[k] = t[k - Len(s)]
<1>1. /\ s \o t \in Seq(Nat) /\ Len(s \o t) = Len(s) + Len(t)
      /\ Len(s) \in Nat /\ Len(t) \in Nat
  OBVIOUS
<1>2. \A k \in 1..Len(s) + Len(t) : (s \o t)[k] = IF k <= Len(s) THEN s[k] ELSE t[k - Len(s)]
  OBVIOUS
<1>3. \A k \in 1..Len(s) : (s \o t)[k] = s[k]
  BY <1>1, <1>2
<1>4. \A k \in 1..Len(t) : (s \o t)[Len(s) + k] = t[k]
  BY <1>1, <1>2
<1>5. \A k \in 1..Len(s \o t) : k \in 1..Len(s) \/ k - Len(s) \in 1..Len(t)
  BY <1>1
<1>6. \A k \in 1..Len(s \o t) : k \in 1..Len(s) \/ (s \o t)[k] = t[k - Len(s)]
  BY <1>1, <1>2
<1> QED
  BY <1>1, <1>3, <1>4, <1>5, <1>6

LEMMA JoinedInOrder ==
  ASSUME NEW s \in Seq(Nat), NEW t \in Seq(Nat), Increasing(s), Increasing(t), Before(s, t)
  PROVE  Increasing(s \o t)
<1> SUFFICES ASSUME NEW i \in 1..Len(s \o t), NEW j \in 1..Len(s \o t), i < j
             PROVE  (s \o t)[i] < (s \o t)[j]
  BY DEF Increasing
<1>1. Len(s) \in Nat /\ Len(t) \in Nat
  OBVIOUS
<1>2. CASE i \in 1..Len(s) /\ j \in 1..Len(s)
  BY <1>2, Joined DEF Increasing
<1>3. CASE i \in 1..Len(s) /\ j \notin 1..Len(s)
  <2>1. j - Len(s) \in 1..Len(t) /\ (s \o t)[j] = t[j - Len(s)] /\ (s \o t)[i] = s[i]
    BY <1>3, Joined
  <2> QED
    BY <1>3, <2>1 DEF Before
<1>4. CASE i \notin 1..Len(s)
  <2>1. j \notin 1..Len(s) /\ i - Len(s) < j - Len(s)
    BY <1>1, <1>4
  <2>2. /\ j - Len(s) \in 1..Len(t) /\ (s \o t)[j] = t[j - Len(s)]
        /\ i - Len(s) \in 1..Len(t) /\ (s \o t)[i] = t[i - Len(s)]
    BY <1>4, <2>1, Joined
  <2> QED
    BY <2>1, <2>2 DEF Increasing
<1> QED
  BY <1>2, <1>3, <1>4

LEMMA JoinedBetween ==
  ASSUME NEW s \in Seq(Nat), NEW t \in Seq(Nat), NEW u, NEW m \in Nat
  PROVE  /\ Before(s, u) /\ Before(t, u) => Before(s \o t, u)
         /\ Before(u, s) /\ Before(u, t) => Before(u, s \o t)
         /\ UpTo(s, m) /\ UpTo(t, m) => UpTo(s \o t, m)
<1>1. ASSUME NEW k \in 1..Len(s \o t)
      PROVE  (k \in 1..Len(s) /\ (s \o t)[k] = s[k])
               \/ (k - Len(s) \in 1..Len(t) /\ (s \o t)[k] = t[k - Len(s)])
  BY Joined
<1>2. Before(s, u) /\ Before(t, u) => Before(s \o t, u)
  BY <1>1 DEF Before
<1>3. Before(u, s) /\ Before(u, t) => Before(u, s \o t)
  BY <1>1 DEF Before
<1>4. UpTo(s, m) /\ UpTo(t, m) => UpTo(s \o t, m)
  BY <1>1 DEF UpTo
<1> QED
  BY <1>2, <1>3, <1>4

LEMMA JoinedWithin ==
  ASSUME NEW s \in Seq(Nat), NEW t \in Seq(Nat), NEW e, Within(e, s) \/ Within(e, t)
  PROVE  Within(e, s \o t)
<1>1. CASE Within(e, s)
  <2>1. PICK i \in 1..Len(s) : s[i] = e
    BY <1>1 DEF Within
  <2>2. i \in 1..Len(s \o t) /\ (s \o t)[i] = e
    BY <2>1, Joined
  <2> QED
    BY <2>2 DEF Within
<1>2. CASE Within(e, t)
  <2>1. PICK i \in 1..Len(t) : t[i] = e
    BY <1>2 DEF Within
  <2>2. Len(s) + i \in 1..Len(s \o t) /\ (s \o t)[Len(s) + i] = e
    BY <2>1, Joined
  <2> QED
    BY <2>2 DEF Within
<1> QED
  BY <1>1, <1>2

(* A sequence and an event that is newer than all of it.                    *)
LEMMA Appended ==
  ASSUME NEW s \in Seq(Nat), Increasing(s), UpTo(s, published), published \in Nat
  PROVE  LET t == Append(s, published + 1)
         IN  /\ t \in Seq(Nat) /\ Len(t) = Len(s) + 1 /\ Increasing(t) /\ UpTo(t, published + 1)
             /\ Within(published + 1, t)
             /\ \A e : Within(e, s) => Within(e, t)
             /\ \A u \in Seq(Nat) : Before(u, s) /\ UpTo(u, published) => Before(u, t)
<1> DEFINE t == Append(s, published + 1)
<1>1. /\ t \in Seq(Nat) /\ Len(t) = Len(s) + 1 /\ Len(s) \in Nat /\ t[Len(s) + 1] = published + 1
      /\ \A k \in 1..Len(s) : t[k] = s[k]
  OBVIOUS
<1> HIDE DEF t
<1>2. \A k \in 1..Len(t) : k \in 1..Len(s) \/ k = Len(s) + 1
  BY <1>1
<1>3. \A k \in 1..Len(s) : s[k] \in Nat /\ s[k] <= published
  BY DEF UpTo
<1>4. Increasing(t)
  <2> SUFFICES ASSUME NEW i \in 1..Len(t), NEW j \in 1..Len(t), i < j PROVE t[i] < t[j]
    BY DEF Increasing
  <2>1. i \in 1..Len(s)
    BY <1>1, <1>2
  <2>2. CASE j \in 1..Len(s)
    BY <1>1, <2>1, <2>2 DEF Increasing
  <2>3. CASE j = Len(s) + 1
    BY <1>1, <1>3, <2>1, <2>3
  <2> QED
    BY <1>2, <2>2, <2>3
<1>5. UpTo(t, published + 1)
  <2> SUFFICES ASSUME NEW i \in 1..Len(t) PROVE t[i] <= published + 1
    BY DEF UpTo
  <2>1. CASE i \in 1..Len(s)
    BY <1>1, <1>3, <2>1
  <2>2. CASE i = Len(s) + 1
    BY <1>1, <2>2
  <2> QED
    BY <1>2, <2>1, <2>2
<1>6. Within(published + 1, t)
  <2>1. Len(s) + 1 \in 1..Len(t)
    BY <1>1
  <2> QED
    BY <1>1, <2>1 DEF Within
<1>7. ASSUME NEW e, Within(e, s) PROVE Within(e, t)
  <2>1. PICK i \in 1..Len(s) : s[i] = e
    BY <1>7 DEF Within
  <2>2. i \in 1..Len(t) /\ t[i] = e
    BY <1>1, <2>1
  <2> QED
    BY <2>2 DEF Within
<1>8. ASSUME NEW u \in Seq(Nat), Before(u, s), UpTo(u, published) PROVE Before(u, t)
  <2> SUFFICES ASSUME NEW i \in 1..Len(u), NEW j \in 1..Len(t) PROVE u[i] < t[j]
    BY DEF Before
  <2>1. CASE j \in 1..Len(s)
    BY <1>1, <1>8, <2>1 DEF Before
  <2>2. CASE j = Len(s) + 1
    <3>1. u[i] <= published /\ u[i] \in Nat
      BY <1>8 DEF UpTo
    <3> QED
      BY <1>1, <2>2, <3>1
  <2> QED
    BY <1>2, <2>1, <2>2
<1> QED
  BY <1>1, <1>4, <1>5, <1>6, <1>7, <1>8 DEF t


(* What a write leaves in the file: a piece of the batch behind what was    *)
(* there.  The order is kept, and so is whatever was on its way.            *)
LEMMA FileGrows ==
  ASSUME RecordInv, NEW q, NEW a, Piece(q, batch, a), file' = file \o q
  PROVE  /\ file' \in Seq(Nat) /\ Increasing(file') /\ Before(file', pending)
         /\ UpTo(file', published)
         /\ \A e : Within(e, file) \/ Within(e, q) => Within(e, file')
         /\ \A e \in Nat : Newer(e) => Newer(e)'
<1>1. /\ file \in Seq(Nat) /\ batch \in Seq(Nat) /\ q \in Seq(Nat) /\ published \in Nat
      /\ pending \in Seq(Nat)
  BY DEF RecordInv, RecordTypes, Piece
<1>2. /\ Increasing(q) /\ Before(file, q) /\ Before(q, pending) /\ UpTo(q, published)
      /\ Increasing(file) /\ Before(file, pending) /\ UpTo(file, published)
  BY <1>1, PieceInOrder, PieceBetween DEF RecordInv, InOrder
<1>3. file' \in Seq(Nat) /\ Increasing(file') /\ Before(file', pending) /\ UpTo(file', published)
  BY <1>1, <1>2, Joined, JoinedInOrder, JoinedBetween
<1>4. ASSUME NEW e \in Nat, Newer(e) PROVE Newer(e)'
  <2>1. Len(file) >= Capacity /\ file[Len(file) - Capacity + 1] > e
    BY <1>4 DEF Newer
  <2>2. Capacity \in Nat \ {0} /\ Len(file) \in Nat /\ Len(q) \in Nat /\ Len(file') = Len(file) + Len(q)
    BY <1>1, Joined, HistoryAssumption
  <2>3. PICK k \in Nat, n \in Nat :
          k = Len(file) - Capacity + 1 /\ n = Len(file') - Capacity + 1
    <3>1. Len(file) - Capacity + 1 \in Nat
      BY <2>1, <2>2
    <3>2. Len(file') - Capacity + 1 \in Nat
      BY <2>1, <2>2
    <3> QED
      BY <3>1, <3>2
  <2>4. k \in 1..Len(file) /\ k \in 1..Len(file') /\ n \in 1..Len(file') /\ (k = n \/ k < n)
        /\ Len(file') >= Capacity
    BY <2>1, <2>2, <2>3
  <2>5. file'[k] = file[k]
    BY <1>1, <2>4, Joined
  <2>6. file'[n] \in Nat /\ file'[k] \in Nat
    BY <1>3, <2>4
  <2>7. k = n \/ file'[k] < file'[n]
    BY <1>3, <2>4 DEF Increasing
  <2>9. file'[k] > e
    BY <2>1, <2>3, <2>5
  <2>8. file'[n] > e
    <3>1. CASE k = n
      BY <2>9, <3>1
    <3>2. CASE file'[k] < file'[n]
      <4>1. \A x, y \in Nat : x < y /\ x > e => y > e
        OBVIOUS
      <4> QED
        BY <2>6, <2>9, <3>2, <4>1
    <3> QED
      BY <2>7, <3>1, <3>2
  <2> QED
    BY <2>3, <2>4, <2>8 DEF Newer
<1> QED
  BY <1>1, <1>3, <1>4, JoinedWithin

LEMMA Written ==
  ASSUME RecordInv, batch # <<>>, NEW n \in 0..Len(batch), NEW piece \in BOOLEAN, WrittenUpTo(n, piece)
  PROVE  \E q, a : Piece(q, batch, a) /\ file' = file \o q /\ torn' \in BOOLEAN
<1>1. batch \in Seq(Nat) /\ file \in Seq(Nat) /\ torn \in BOOLEAN /\ Len(batch) \in Nat \ {0} /\ n \in Nat
      /\ n <= Len(batch)
  BY DEF RecordInv, RecordTypes
<1>2. CASE n = 0
  <2>1. file' = file /\ torn' \in BOOLEAN
    BY <1>1, <1>2 DEF WrittenUpTo
  <2>2. Piece(<<>>, batch, 0) /\ file = file \o <<>>
    BY <1>1 DEF Piece
  <2> QED
    BY <2>1, <2>2
<1>3. CASE n # 0 /\ torn
  <2>1. file' = file \o SubSeq(batch, 1 + 1, n) /\ torn' \in BOOLEAN
    BY <1>3 DEF WrittenUpTo
  <2>2. Piece(SubSeq(batch, 1 + 1, n), batch, 1)
    BY <1>1, <1>3, SubSeqPiece
  <2> QED
    BY <2>1, <2>2
<1>4. CASE n # 0 /\ ~torn
  <2>1. file' = file \o SubSeq(batch, 0 + 1, n) /\ torn' \in BOOLEAN
    BY <1>4 DEF WrittenUpTo
  <2>2. Piece(SubSeq(batch, 0 + 1, n), batch, 0)
    BY <1>1, <1>4, SubSeqPiece
  <2> QED
    BY <2>1, <2>2
<1> QED
  BY <1>1, <1>2, <1>3, <1>4

LEMMA NothingInOrder ==
  Increasing(<<>>) /\ (\A s, m : Before(<<>>, s) /\ Before(s, <<>>) /\ UpTo(<<>>, m)) /\ <<>> \in Seq(Nat)
  BY DEF Increasing, Before, UpTo

LEMMA RecordInvInit == HistoryInit => RecordInv
<1> SUFFICES ASSUME HistoryInit PROVE RecordInv
  OBVIOUS
<1>1. RecordTypes
  <2>1. /\ published = 0 /\ since = 0 /\ memory = <<>> /\ pending = <<>> /\ batch = <<>> /\ file = <<>>
        /\ torn \in BOOLEAN /\ error \in BOOLEAN /\ writer = "none"
    BY DEF HistoryInit
  <2>2. Len(<<>>) <= Capacity
    BY HistoryAssumption
  <2> QED
    BY <2>1, <2>2, NothingInOrder DEF RecordTypes
<1>2. InOrder
  BY NothingInOrder DEF HistoryInit, InOrder
<1>3. InHand /\ NothingLost
  BY DEF HistoryInit, InHand, NothingLost
<1> QED
  BY <1>1, <1>2, <1>3 DEF RecordInv

LEMMA LastKeepsOrder ==
  ASSUME NEW s \in Seq(Nat), NEW m \in Nat, Increasing(s), UpTo(s, m)
  PROVE  /\ LastOf(s) \in Seq(Nat) /\ Increasing(LastOf(s)) /\ UpTo(LastOf(s), m)
         /\ \A t : Before(s, t) => Before(LastOf(s), t)
<1>1. PICK a \in Nat : Piece(LastOf(s), s, a)
  BY LastPiece
<1> QED
  BY <1>1, PieceInOrder, PieceBetween DEF Piece

LEMMA PublishRecord ==
  ASSUME RecordInv, Publish
  PROVE  RecordInv'
<1>1. /\ RecordTypes /\ InOrder /\ InHand /\ NothingLost /\ published' = published + 1
      /\ UNCHANGED <<script, batch, fileVars, since>>
  BY DEF Publish, RecordInv
<1>2. /\ published \in Nat /\ since \in Nat /\ memory \in Seq(Nat) /\ pending \in Seq(Nat)
      /\ batch \in Seq(Nat) /\ file \in Seq(Nat)
  BY <1>1 DEF RecordTypes
<1>3. \A s \in Seq(Nat) : UpTo(s, published) => UpTo(s, published + 1)
  <2> SUFFICES ASSUME NEW s \in Seq(Nat), UpTo(s, published), NEW i \in 1..Len(s)
               PROVE  s[i] <= published + 1
    BY DEF UpTo
  <2>1. s[i] <= published /\ s[i] \in Nat
    BY DEF UpTo
  <2> QED
    BY <1>2, <2>1
<1>4. \A e : Newer(e)' <=> Newer(e)
  BY <1>1 DEF Newer, fileVars
<1>5. \A e \in since' + 1..published' : e \in since + 1..published \/ e = published + 1
  BY <1>1, <1>2
<1>6. CASE script[published + 1].kind \notin Recorded
  <2>1. UNCHANGED <<memory, pending, error, writer>>
    BY <1>6 DEF Publish
  <2>2. RecordTypes' /\ InHand'
    BY <1>1, <2>1 DEF RecordTypes, InHand, fileVars
  <2>3. InOrder'
    BY <1>1, <1>2, <1>3, <2>1 DEF InOrder, fileVars
  <2>4. NothingLost'
    <3> SUFFICES ASSUME ~error, NEW e \in since' + 1..published', script[e].kind \in Recorded
                 PROVE  OnItsWay(e)'
      BY <1>1, <2>1 DEF NothingLost
    <3>1. OnItsWay(e)
      BY <1>1, <1>5, <1>6 DEF NothingLost
    <3> QED
      BY <1>1, <1>4, <2>1, <3>1 DEF OnItsWay, fileVars
  <2> QED
    BY <2>2, <2>3, <2>4 DEF RecordInv
<1>7. CASE script[published + 1].kind \in Recorded
  <2> DEFINE m == Append(memory, published + 1)
             w == Append(pending, published + 1)
  <2>1. /\ memory' = LastOf(m) /\ pending' = LastOf(w) /\ error' = (error \/ Len(pending) = Capacity)
        /\ writer' = IF writer = "none" THEN "looking" ELSE writer
    BY <1>7 DEF Publish, Enqueue
  <2>2. /\ m \in Seq(Nat) /\ Increasing(m) /\ UpTo(m, published + 1)
    BY <1>1, <1>2, Appended DEF InOrder
  <2>3. /\ w \in Seq(Nat) /\ Increasing(w) /\ UpTo(w, published + 1) /\ Len(w) = Len(pending) + 1
        /\ Before(file, w) /\ Before(batch, w)
        /\ Within(published + 1, w) /\ \A e : Within(e, pending) => Within(e, w)
    BY <1>1, <1>2, Appended DEF InOrder
  <2> HIDE DEF m, w
  <2>4. memory' \in Seq(Nat) /\ Increasing(memory') /\ UpTo(memory', published + 1)
    BY <1>2, <2>1, <2>2, LastKeepsOrder
  <2>5. PICK a \in Nat : /\ Piece(pending', w, a) /\ Len(pending') <= Capacity
                         /\ Len(w) <= Capacity => a = 0 /\ Len(pending') = Len(w)
    BY <2>1, <2>3, LastPiece
  <2>6. /\ pending' \in Seq(Nat) /\ Increasing(pending') /\ UpTo(pending', published + 1)
        /\ Before(file, pending') /\ Before(batch, pending')
    <3>1. published + 1 \in Nat
      BY <1>2
    <3> QED
      BY <2>3, <2>5, <3>1, PieceInOrder, PieceBetween DEF Piece
  <2>7. RecordTypes'
    <3>1. error' \in BOOLEAN /\ writer' \in {"looking", "waiting", "writing", "compacting"}
      BY <1>1, <2>1 DEF RecordTypes
    <3> QED
      BY <1>1, <1>2, <2>4, <2>5, <2>6, <3>1 DEF RecordTypes, fileVars
  <2>8. InOrder'
    BY <1>1, <1>2, <1>3, <2>4, <2>6 DEF InOrder, fileVars
  <2>9. InHand'
    BY <1>1, <2>1 DEF InHand, RecordTypes
  <2>10. NothingLost'
    <3> SUFFICES ASSUME ~error', NEW e \in since' + 1..published', script[e].kind \in Recorded
                 PROVE  OnItsWay(e)'
      BY <1>1 DEF NothingLost
    <3>0. ~error /\ Len(pending) # Capacity
      BY <2>1, Zenon
    <3>1. ~error /\ Len(w) <= Capacity
      <4>1. Len(pending) <= Capacity /\ Len(pending) \in Nat /\ Capacity \in Nat
        BY <1>1, <1>2, HistoryAssumption DEF RecordTypes
      <4> QED
        BY <2>3, <3>0, <4>1
    <3>2. ASSUME NEW x, Within(x, w) PROVE Within(x, pending')
      <4>1. PICK i \in 1..Len(w) : w[i] = x
        BY <3>2 DEF Within
      <4>2. i \in 1..Len(pending') /\ pending'[i] = x
        BY <2>5, <3>1, <4>1 DEF Piece
      <4> QED
        BY <4>2 DEF Within
    <3>3. CASE e = published + 1
      <4>1. Within(e, pending')
        BY <2>3, <3>2, <3>3
      <4> QED
        BY <4>1 DEF OnItsWay
    <3>4. CASE e \in since + 1..published
      <4>1. OnItsWay(e)
        BY <1>1, <3>1, <3>4 DEF NothingLost
      <4>2. Within(e, pending) => Within(e, pending')
        BY <2>3, <3>2
      <4> QED
        BY <1>1, <1>4, <4>1, <4>2 DEF OnItsWay, fileVars
    <3> QED
      BY <1>5, <3>3, <3>4
  <2> QED
    BY <2>7, <2>8, <2>9, <2>10 DEF RecordInv
<1> QED
  BY <1>6, <1>7

LEMMA WriterStepRecord ==
  ASSUME RecordInv, WriterWaits \/ WriterExits \/ CompactionFails
  PROVE  RecordInv'
<1>1. /\ UNCHANGED <<script, published, memory, pending, batch, fileVars, since>>
      /\ writer' \in {"none", "looking", "waiting"} /\ batch = <<>>
      /\ writer' = "none" => pending = <<>>
      /\ error' \in BOOLEAN /\ (error => error')
  BY DEF RecordInv, RecordTypes, InHand, WriterWaits, WriterExits, CompactionFails
<1>2. RecordTypes' /\ InOrder'
  BY <1>1 DEF RecordInv, RecordTypes, InOrder, fileVars
<1>3. InHand'
  BY <1>1 DEF InHand
<1>4. NothingLost'
  BY <1>1 DEF RecordInv, NothingLost, OnItsWay, Newer, fileVars
<1> QED
  BY <1>2, <1>3, <1>4 DEF RecordInv

LEMMA TakeRecord ==
  ASSUME RecordInv, WriterTakes
  PROVE  RecordInv'
<1>1. /\ RecordTypes /\ InOrder /\ InHand /\ NothingLost
      /\ pending # <<>> /\ batch = <<>> /\ writer' = "writing"
      /\ UNCHANGED <<script, published, memory, fileVars, error, since>>
  BY DEF RecordInv, InHand, WriterTakes
<1>2. pending \in Seq(Nat) /\ Len(pending) \in Nat \ {0} /\ BatchSize \in Nat \ {0} /\ published \in Nat
  BY <1>1, HistoryAssumption DEF RecordTypes
<1>3. PICK n \in 1..Len(pending) :
        batch' = SubSeq(pending, 1, n) /\ pending' = SubSeq(pending, n + 1, Len(pending))
  <2>1. PICK n \in 1..Len(pending) : n = IF Len(pending) < BatchSize THEN Len(pending) ELSE BatchSize
    BY <1>2
  <2>2. batch' = SubSeq(pending, 1, n) /\ pending' = SubSeq(pending, n + 1, Len(pending))
    BY <2>1 DEF WriterTakes
  <2> QED
    BY <2>2
<1>4. Piece(batch', pending, 0) /\ Len(batch') = n
  <2>1. Piece(SubSeq(pending, 0 + 1, n), pending, 0) /\ Len(SubSeq(pending, 0 + 1, n)) = n - 0
    BY <1>2, <1>3, SubSeqPiece
  <2> QED
    BY <1>3, <2>1
<1>5. Piece(pending', pending, n) /\ Len(pending') = Len(pending) - n
  BY <1>2, <1>3, SubSeqPiece
<1>6. /\ Increasing(batch') /\ UpTo(batch', published) /\ Before(file, batch')
      /\ Increasing(pending') /\ UpTo(pending', published) /\ Before(file, pending')
  BY <1>1, <1>2, <1>4, <1>5, PieceInOrder, PieceBetween DEF InOrder
<1>7. Before(batch', pending')
  <2> SUFFICES ASSUME NEW i \in 1..Len(batch'), NEW j \in 1..Len(pending')
               PROVE  batch'[i] < pending'[j]
    BY DEF Before
  <2>1. /\ batch'[i] = pending[0 + i] /\ pending'[j] = pending[n + j]
        /\ i \in 1..Len(pending) /\ n + j \in 1..Len(pending) /\ i < n + j
    BY <1>2, <1>3, <1>4, <1>5 DEF Piece
  <2> QED
    BY <1>1, <2>1 DEF InOrder, Increasing
<1>8. ASSUME NEW e, Within(e, pending) PROVE Within(e, batch') \/ Within(e, pending')
  <2>1. PICK i \in 1..Len(pending) : pending[i] = e
    BY <1>8 DEF Within
  <2>2. CASE i <= n
    <3>1. i \in 1..Len(batch') /\ batch'[i] = pending[0 + i]
      BY <1>2, <1>3, <1>4, <2>2 DEF Piece
    <3> QED
      BY <2>1, <3>1 DEF Within
  <2>3. CASE ~(i <= n)
    <3>0. i - n \in 1..Len(pending') /\ n + (i - n) = i
      BY <1>2, <1>3, <1>5, <2>1, <2>3
    <3>1. pending'[i - n] = pending[n + (i - n)]
      BY <1>5, <3>0 DEF Piece
    <3> QED
      BY <2>1, <3>0, <3>1 DEF Within
  <2> QED
    BY <2>2, <2>3
<1>9. RecordTypes'
  <2>1. /\ batch' \in Seq(Nat) /\ pending' \in Seq(Nat) /\ Len(pending') <= Len(pending)
    BY <1>2, <1>3, <1>4, <1>5 DEF Piece
  <2>2. Len(pending') <= Capacity
    BY <1>1, <2>1, HistoryAssumption DEF RecordTypes
  <2> QED
    BY <1>1, <2>1, <2>2 DEF RecordTypes, fileVars
<1>10. InOrder'
  BY <1>1, <1>6, <1>7 DEF InOrder, fileVars
<1>11. InHand'
  BY <1>1, <1>3, <1>4 DEF InHand
<1>12. NothingLost'
  <2> SUFFICES ASSUME ~error, NEW e \in since + 1..published, script[e].kind \in Recorded
               PROVE  OnItsWay(e)'
    BY <1>1 DEF NothingLost
  <2>1. OnItsWay(e) /\ ~Within(e, batch)
    BY <1>1 DEF NothingLost, Within
  <2> QED
    BY <1>1, <1>8, <2>1 DEF OnItsWay, Newer, fileVars
<1> QED
  BY <1>9, <1>10, <1>11, <1>12 DEF RecordInv

LEMMA WriteRecord ==
  ASSUME RecordInv, BatchWritten
  PROVE  RecordInv'
<1>1. /\ RecordTypes /\ InOrder /\ InHand /\ NothingLost
      /\ batch # <<>> /\ batch' = <<>> /\ torn' = FALSE
      /\ writer' \in {"compacting", "looking"}
      /\ UNCHANGED <<script, published, memory, pending, error, since>>
  BY DEF RecordInv, InHand, BatchWritten
<1>2. batch \in Seq(Nat) /\ file \in Seq(Nat) /\ torn \in BOOLEAN /\ since \in Nat /\ published \in Nat
  BY <1>1 DEF RecordTypes
<1>3. \E q, a : /\ Piece(q, batch, a) /\ file' = file \o q
                /\ \A e : Within(e, batch) => Within(e, q) \/ e \in swallowed'
                /\ swallowed \subseteq swallowed'
  <2>1. CASE torn
    <3>1. file' = file \o Tail(batch) /\ swallowed' = swallowed \cup {Head(batch)}
      BY <2>1 DEF BatchWritten, Appends
    <3>2. Piece(Tail(batch), batch, 1) /\ Len(Tail(batch)) = Len(batch) - 1 /\ Head(batch) = batch[1]
      BY <1>1, <1>2, TailPiece
    <3>3. ASSUME NEW e, Within(e, batch) PROVE Within(e, Tail(batch)) \/ e \in swallowed'
      <4>1. PICK i \in 1..Len(batch) : batch[i] = e
        BY <3>3 DEF Within
      <4>2. CASE i = 1
        BY <3>1, <3>2, <4>1, <4>2
      <4>3. CASE i # 1
        <5>1. i - 1 \in 1..Len(Tail(batch)) /\ 1 + (i - 1) = i
          BY <1>2, <3>2, <4>1, <4>3
        <5>2. Tail(batch)[i - 1] = batch[1 + (i - 1)]
          BY <3>2, <5>1 DEF Piece
        <5> QED
          BY <4>1, <5>1, <5>2 DEF Within
      <4> QED
        BY <4>2, <4>3
    <3> QED
      BY <3>1, <3>2, <3>3
  <2>2. CASE ~torn
    <3>1. file' = file \o batch /\ swallowed' = swallowed
      BY <2>2 DEF BatchWritten, Appends
    <3>2. Piece(batch, batch, 0)
      BY <1>2 DEF Piece
    <3> QED
      BY <3>1, <3>2
  <2> QED
    BY <2>1, <2>2
<1>4. PICK q, a : /\ Piece(q, batch, a) /\ file' = file \o q
                  /\ \A e : Within(e, batch) => Within(e, q) \/ e \in swallowed'
                  /\ swallowed \subseteq swallowed'
  BY <1>3
<1>5. /\ file' \in Seq(Nat) /\ Increasing(file') /\ Before(file', pending) /\ UpTo(file', published)
      /\ \A e : Within(e, file) \/ Within(e, q) => Within(e, file')
      /\ \A e \in Nat : Newer(e) => Newer(e)'
  BY <1>4, FileGrows
<1>6. RecordTypes'
  BY <1>1, <1>5, NothingInOrder DEF RecordTypes
<1>7. InOrder'
  BY <1>1, <1>5, NothingInOrder DEF InOrder
<1>8. InHand'
  BY <1>1 DEF InHand
<1>9. NothingLost'
  <2> SUFFICES ASSUME ~error, NEW e \in since + 1..published, script[e].kind \in Recorded
               PROVE  OnItsWay(e)'
    BY <1>1 DEF NothingLost
  <2>1. OnItsWay(e) /\ e \in Nat
    BY <1>1, <1>2 DEF NothingLost
  <2> QED
    BY <1>1, <1>4, <1>5, <2>1 DEF OnItsWay
<1> QED
  BY <1>6, <1>7, <1>8, <1>9 DEF RecordInv

LEMMA FailRecord ==
  ASSUME RecordInv, BatchFails
  PROVE  RecordInv'
<1>1. /\ RecordTypes /\ InOrder /\ batch # <<>> /\ batch' = <<>> /\ error' = TRUE /\ writer' = "looking"
      /\ UNCHANGED <<script, published, memory, pending, since>>
  BY DEF RecordInv, InHand, BatchFails
<1>2. PICK n \in 0..Len(batch), piece \in BOOLEAN : WrittenUpTo(n, piece)
  BY DEF BatchFails
<1>3. PICK q, a : Piece(q, batch, a) /\ file' = file \o q /\ torn' \in BOOLEAN
  BY <1>1, <1>2, Written
<1>4. file' \in Seq(Nat) /\ Increasing(file') /\ Before(file', pending) /\ UpTo(file', published)
  BY <1>3, FileGrows
<1>5. RecordTypes'
  BY <1>1, <1>3, <1>4, NothingInOrder DEF RecordTypes
<1>6. InOrder'
  BY <1>1, <1>4, NothingInOrder DEF InOrder
<1> QED
  BY <1>1, <1>5, <1>6 DEF RecordInv, InHand, NothingLost

LEMMA CompactRecord ==
  ASSUME RecordInv, Compacts
  PROVE  RecordInv'
<1>1. /\ RecordTypes /\ InOrder /\ InHand /\ NothingLost /\ batch = <<>>
      /\ file' = LastOf(file) /\ torn' = FALSE /\ writer' = "looking"
      /\ UNCHANGED <<script, published, memory, pending, batch, error, since, swallowed>>
  BY DEF RecordInv, InHand, Compacts
<1>2. /\ file \in Seq(Nat) /\ Len(file) \in Nat /\ published \in Nat /\ since \in Nat
      /\ Capacity \in Nat \ {0}
  BY <1>1, HistoryAssumption DEF RecordTypes
<1>3. /\ file' \in Seq(Nat) /\ Increasing(file') /\ UpTo(file', published)
      /\ Before(file', batch) /\ Before(file', pending)
  BY <1>1, <1>2, LastKeepsOrder DEF InOrder
<1>4. PICK a \in Nat :
        /\ Piece(file', file, a) /\ Len(file') = Len(file) - a /\ Len(file') <= Capacity
        /\ Len(file) <= Capacity => a = 0
        /\ Len(file) > Capacity => a = Len(file) - Capacity
  BY <1>1, <1>2, LastPiece
<1>5. \A k \in 1..Len(file') : file'[k] = file[a + k]
  BY <1>4 DEF Piece
<1>6. ASSUME NEW e, Newer(e) PROVE Newer(e)'
  <2>1. Len(file) >= Capacity /\ file[Len(file) - Capacity + 1] > e
    BY <1>6 DEF Newer
  <2>2. Len(file') = Capacity /\ a = Len(file) - Capacity
    BY <1>2, <1>4, <2>1
  <2>3. 1 \in 1..Len(file') /\ a + 1 = Len(file) - Capacity + 1 /\ Len(file') - Capacity + 1 = 1
    BY <1>2, <2>2
  <2>4. file'[Len(file') - Capacity + 1] = file[Len(file) - Capacity + 1]
    BY <1>5, <2>3
  <2>5. Len(file') >= Capacity
    BY <1>2, <2>2
  <2> QED
    BY <2>1, <2>4, <2>5 DEF Newer
<1>7. ASSUME NEW e, Within(e, file) PROVE Within(e, file') \/ Newer(e)'
  <2>1. PICK i \in 1..Len(file) : file[i] = e
    BY <1>7 DEF Within
  <2>2. CASE i > a
    <3>1. i - a \in 1..Len(file') /\ file'[i - a] = file[a + (i - a)] /\ a + (i - a) = i
      BY <1>2, <1>4, <1>5, <2>1, <2>2
    <3> QED
      BY <2>1, <3>1 DEF Within
  <2>3. CASE ~(i > a)
    <3>1. a # 0 /\ i < a + 1
      BY <1>4, <2>1, <2>3
    <3>2. Len(file) > Capacity /\ a = Len(file) - Capacity /\ Len(file') = Capacity
      BY <1>2, <1>4, <3>1
    <3>3. /\ a + 1 \in 1..Len(file) /\ 1 \in 1..Len(file') /\ Len(file') - Capacity + 1 = 1
          /\ Len(file') >= Capacity
      BY <1>2, <3>2
    <3>4. file[i] < file[a + 1] /\ file'[1] = file[a + 1]
      BY <1>1, <1>5, <2>1, <3>1, <3>3 DEF InOrder, Increasing
    <3>5. file'[1] > e
      BY <2>1, <3>4
    <3> QED
      BY <3>3, <3>5 DEF Newer
  <2> QED
    BY <2>2, <2>3
<1>8. RecordTypes'
  BY <1>1, <1>3 DEF RecordTypes
<1>9. InOrder'
  BY <1>1, <1>3 DEF InOrder
<1>10. InHand'
  BY <1>1 DEF InHand
<1>11. NothingLost'
  <2> SUFFICES ASSUME ~error, NEW e \in since + 1..published, script[e].kind \in Recorded
               PROVE  OnItsWay(e)'
    BY <1>1 DEF NothingLost
  <2>1. OnItsWay(e)
    BY <1>1 DEF NothingLost
  <2> QED
    BY <1>1, <1>6, <1>7, <2>1 DEF OnItsWay
<1> QED
  BY <1>8, <1>9, <1>10, <1>11 DEF RecordInv

LEMMA RestartRecord ==
  ASSUME RecordInv, Restart
  PROVE  RecordInv'
<1>1. /\ RecordTypes /\ InOrder /\ InHand
      /\ memory' = LastOf(file') /\ pending' = <<>> /\ batch' = <<>>
      /\ writer' = "none" /\ error' = FALSE /\ since' = published
      /\ UNCHANGED <<script, published>>
  BY DEF RecordInv, Restart
<1>2. published \in Nat
  BY <1>1 DEF RecordTypes
<1>3. file' \in Seq(Nat) /\ Increasing(file') /\ UpTo(file', published) /\ torn' \in BOOLEAN
  <2>1. CASE writer = "writing"
    <3>1. PICK n \in 0..Len(batch), piece \in BOOLEAN : WrittenUpTo(n, piece)
      BY <2>1 DEF Restart
    <3>2. PICK q, a : Piece(q, batch, a) /\ file' = file \o q /\ torn' \in BOOLEAN
      BY <1>1, <2>1, <3>1, Written DEF InHand
    <3> QED
      BY <3>2, FileGrows
  <2>2. CASE writer # "writing"
    BY <1>1, <2>2 DEF Restart, RecordTypes, InOrder
  <2> QED
    BY <2>1, <2>2
<1>4. memory' \in Seq(Nat) /\ Increasing(memory') /\ UpTo(memory', published)
  BY <1>1, <1>2, <1>3, LastKeepsOrder
<1>5. RecordTypes'
  <2>1. Len(<<>>) <= Capacity
    BY HistoryAssumption
  <2> QED
    BY <1>1, <1>2, <1>3, <1>4, <2>1, NothingInOrder DEF RecordTypes
<1>6. InOrder'
  BY <1>1, <1>3, <1>4, NothingInOrder DEF InOrder
<1>7. NothingLost'
  BY <1>1, <1>2 DEF NothingLost
<1> QED
  BY <1>1, <1>5, <1>6, <1>7 DEF RecordInv, InHand

LEMMA RecordInvStep == RecordInv /\ [HistoryNext]_historyVars => RecordInv'
<1> SUFFICES ASSUME RecordInv, [HistoryNext]_historyVars PROVE RecordInv'
  OBVIOUS
<1>1. CASE WriterWaits \/ WriterExits \/ CompactionFails
  BY <1>1, WriterStepRecord
<1>2. CASE UNCHANGED historyVars
  BY <1>2 DEF historyVars, RecordInv, RecordTypes, InOrder, InHand, NothingLost, OnItsWay, Newer
<1> QED
  BY <1>1, <1>2, PublishRecord, TakeRecord, WriteRecord, FailRecord, CompactRecord, RestartRecord
     DEF HistoryNext, WriterStep, Disturbance

LEMMA RecordIsHonest == RecordInv => FlushHonest
<1> SUFFICES ASSUME RecordInv PROVE FlushHonest
  OBVIOUS
<1>1. /\ file \in Seq(Nat) /\ batch \in Seq(Nat) /\ pending \in Seq(Nat) /\ memory \in Seq(Nat)
      /\ published \in Nat /\ since \in Nat /\ Capacity \in Nat \ {0}
  BY HistoryAssumption DEF RecordInv, RecordTypes
<1>2. OrderKept
  <2>1. file \o batch \in Seq(Nat) /\ Increasing(file \o batch) /\ Before(file \o batch, pending)
    BY <1>1, Joined, JoinedInOrder, JoinedBetween DEF RecordInv, InOrder
  <2>2. Increasing((file \o batch) \o pending)
    BY <1>1, <2>1, JoinedInOrder DEF RecordInv, InOrder
  <2>3. (file \o batch) \o pending \in Seq(Nat)
    BY <1>1, <2>1, Joined
  <2>4. /\ DOMAIN ((file \o batch) \o pending) = 1..Len((file \o batch) \o pending)
        /\ DOMAIN memory = 1..Len(memory)
    BY <1>1, <2>3
  <2> QED
    BY <2>2, <2>4 DEF OrderKept, RecordInv, InOrder, Increasing
<1>3. ASSUME writer = "none", ~error, NEW e \in since + 1..published, script[e].kind \in Recorded
      PROVE  \/ \E i \in DOMAIN file : file[i] = e
             \/ e \in swallowed
             \/ Cardinality({i \in DOMAIN file : file[i] > e}) >= Capacity
  <2>1. DOMAIN file = 1..Len(file) /\ Len(file) \in Nat
    BY <1>1
  <2>2. Within(e, file) \/ e \in swallowed \/ Newer(e)
    BY <1>3 DEF RecordInv, InHand, NothingLost, OnItsWay, Within
  <2>3. CASE Newer(e)
    <3> DEFINE T == {i \in 1..Len(file) : file[i] > e}
    <3>1. Len(file) >= Capacity /\ file[Len(file) - Capacity + 1] > e
      BY <2>3 DEF Newer
    <3>2. PICK k \in 1..Len(file) : k = Len(file) - Capacity + 1 /\ file[k] > e
      <4>1. Len(file) - Capacity + 1 \in 1..Len(file)
        BY <1>1, <2>1, <3>1
      <4> QED
        BY <3>1, <4>1
    <3>3. k..Len(file) \subseteq T
      <4> SUFFICES ASSUME NEW i \in k..Len(file) PROVE i \in 1..Len(file) /\ file[i] > e
        OBVIOUS
      <4>1. i \in 1..Len(file) /\ (i = k \/ k < i)
        BY <2>1, <3>2
      <4>2. i = k \/ file[k] < file[i]
        BY <3>2, <4>1 DEF RecordInv, InOrder, Increasing
      <4>3. file[i] \in Nat /\ file[k] \in Nat
        <5>1. \A j \in 1..Len(file) : file[j] \in Nat
          BY <1>1
        <5> QED
          BY <3>2, <4>1, <5>1
      <4>4. e \in Int
        BY <1>1
      <4>5. \A x, y \in Nat : x < y /\ x > e => y > e
        BY <4>4
      <4> QED
        BY <3>2, <4>1, <4>2, <4>3, <4>5
    <3>4. /\ IsFiniteSet(1..Len(file)) /\ Cardinality(k..Len(file)) = Len(file) - k + 1
      BY <2>1, <3>2, FS_Interval
    <3>5. IsFiniteSet(T) /\ T \subseteq 1..Len(file)
      BY <3>4, FS_Subset
    <3>6. Cardinality(k..Len(file)) <= Cardinality(T) /\ Cardinality(T) \in Nat
      BY <3>3, <3>5, FS_Subset, FS_CardinalityType
    <3>7. Cardinality(k..Len(file)) = Capacity
      BY <1>1, <2>1, <3>2, <3>4
    <3>8. Cardinality(T) >= Capacity
      BY <1>1, <3>6, <3>7
    <3> QED
      BY <2>1, <3>8
  <2> QED
    BY <2>1, <2>2, <2>3 DEF Within
<1> QED
  BY <1>2, <1>3 DEF FlushHonest

(* For any order of recording, writing, compacting, failing and restarting, *)
(* any capacity and any script: when flush() says that all is written, it   *)
(* is, and nothing overtakes.                                               *)
THEOREM FlushIsHonest == HistorySpec => []FlushHonest
<1> QED
  BY RecordInvInit, RecordInvStep, RecordIsHonest, PTL DEF HistorySpec

(* With the threads that publish and the streams that are served, the       *)
(* record goes on as it does alone.                                         *)
LEMMA RecordsRunHistory == RecordsSpec => HistoryInit /\ [][HistoryNext]_historyVars
<1>1. BrokerInit => HistoryInit
  BY DEF BrokerInit
<1>2. [RecordsNext]_recordsVars => [HistoryNext]_historyVars
  BY DEF RecordsNext, recordsVars, RecordStep, RecordsRestart, LoopCloses, PublishRecords,
         CopySubscriptions, Send, Subscribe, StreamStep, Deliver, Read, Disconnect, HistoryNext,
         WriterStep, Disturbance
<1> QED
  BY <1>1, <1>2, PTL DEF RecordsSpec

(* So flush() is honest there too.                                          *)
THEOREM RecordsFlushHonest == RecordsSpec => []FlushHonest
<1> QED
  BY RecordsRunHistory, RecordInvInit, RecordInvStep, RecordIsHonest, PTL

(***************************************************************************)
(* Conditions.  What holds of every node of a tree is shown by looking at   *)
(* the last node, or the lowest height, for which it fails.                 *)
(***************************************************************************)

(* Every set of numbers that is not empty has a least one.                  *)
LEMMA LeastNumber ==
  ASSUME NEW T \in SUBSET Nat, T # {}
  PROVE  \E x \in T : \A y \in T : x <= y
<1> DEFINE less == {ss \in Nat \X Nat : ss[1] < ss[2]}
<1>1. IsWellFoundedOn(less, Nat)
  BY NatLessThanWellFounded, Zenon DEF OpToRel
<1> HIDE DEF less
<1>2. T \subseteq Nat
  OBVIOUS
<1>3. \E x \in T : \A y \in T : ~(<<y, x>> \in less)
  BY <1>1, <1>2, WFMin, Zenon
<1>4. PICK x \in T : \A y \in T : ~(<<y, x>> \in less)
  BY <1>3
<1>5. ASSUME NEW y \in T PROVE x <= y
  <2>1. x \in Nat /\ y \in Nat
    BY <1>2
  <2>2. <<y, x>> \in Nat \X Nat /\ <<y, x>>[1] = y /\ <<y, x>>[2] = x
    BY <2>1
  <2>3. ~(y < x)
    BY <1>4, <2>2 DEF less
  <2> QED
    BY <2>1, <2>3
<1> QED
  BY <1>5

(* A function over the nodes of a tree, whose value at a node is given by   *)
(* those at its children, exists.                                           *)
Recursion(top, N, V, B) ==
  /\ top \in Nat /\ N \in SUBSET (1 .. top) /\ V # {}
  /\ B \in [[N -> V] -> [N -> V]]
  /\ \A f, g \in [N -> V], n \in N :
       (\A m \in N : m > n => f[m] = g[m]) => B[f][n] = B[g][n]

LEMMA TreeFunction ==
  \A top, N, V, B : Recursion(top, N, V, B) => \E f \in [N -> V] : \A n \in N : f[n] = B[f][n]
<1> SUFFICES ASSUME NEW top, NEW N, NEW V, NEW B, Recursion(top, N, V, B)
             PROVE  \E f \in [N -> V] : \A n \in N : f[n] = B[f][n]
  OBVIOUS
<1> USE DEF Recursion
<1> DEFINE Upto(d) == \E f \in [N -> V] : \A n \in N : n + d > top => f[n] = B[f][n]
<1> DEFINE T == {d \in Nat : ~Upto(d)}
<1>1. Upto(0)
  <2>1. PICK v \in V : TRUE
    OBVIOUS
  <2>2. [n \in N |-> v] \in [N -> V]
    OBVIOUS
  <2>3. \A n \in N : ~(n + 0 > top)
    OBVIOUS
  <2> QED
    BY <2>2, <2>3
<1>2. ASSUME NEW d \in Nat, Upto(d) PROVE Upto(d + 1)
  <2>1. PICK f \in [N -> V] : \A n \in N : n + d > top => f[n] = B[f][n]
    BY <1>2
  <2> DEFINE g == [n \in N |-> IF n + (d + 1) > top THEN B[f][n] ELSE f[n]]
  <2>2. g \in [N -> V]
    OBVIOUS
  <2>3. ASSUME NEW n \in N, n + d > top PROVE g[n] = f[n]
    BY <2>1, <2>3
  <2>4. ASSUME NEW n \in N, n + (d + 1) > top PROVE g[n] = B[g][n]
    <3>1. \A m \in N : m > n => g[m] = f[m]
      BY <2>3, <2>4
    <3>2. B[g][n] = B[f][n]
      BY <2>2, <3>1
    <3> QED
      BY <2>4, <3>2
  <2> QED
    BY <2>2, <2>4
<1>3. T = {}
  <2> SUFFICES ASSUME T # {} PROVE FALSE
    OBVIOUS
  <2>0. T \in SUBSET Nat
    OBVIOUS
  <2> HIDE DEF Upto
  <2>1. PICK d \in T : \A e \in T : d <= e
    BY <2>0, LeastNumber
  <2>2. d # 0
    BY <1>1
  <2>3. d - 1 \in Nat /\ (d - 1) + 1 = d
    BY <2>2
  <2>4. Upto(d - 1)
    BY <2>1, <2>3
  <2> QED
    BY <1>2, <2>3, <2>4
<1>4. Upto(top + 0)
  BY <1>3
<1> QED
  BY <1>4

(* What the tree says of one node.                                          *)
LEMMA TreeFacts ==
  ASSUME NEW c, IsCondition(c)
  PROVE  /\ Len(c.op) \in Nat /\ Nodes(c) = 1 .. Len(c.op) /\ c.root = 1 /\ c.root \in Nodes(c)
         /\ \A n \in Nodes(c) :
              /\ c.op[n] \in {"leaf", "not", "all", "any"} /\ c.within[n] \in Nat
              /\ c.op[n] = "not" => 1 \in DOMAIN c.kids[n] /\ c.op[Watched(c, n)] = "leaf"
              /\ \A i \in DOMAIN c.kids[n] :
                   /\ i \in Nat /\ c.kids[n][i] \in Nodes(c) /\ c.kids[n][i] > n
                   /\ c.op[n] = "not" => c.op[c.kids[n][i]] = "leaf"
                   /\ c.op[n] # "leaf"
              /\ c.op[n] # "leaf" => DOMAIN c.kids[n] # {}
<1>1. Len(c.op) \in Nat /\ DOMAIN c.op = 1 .. Len(c.op)
  BY LenProperties DEF IsCondition
<1>2. \A n \in Nodes(c) : c.op[n] \in {"leaf", "not", "all", "any"}
  BY <1>1, ElementOfSeq DEF IsCondition, Nodes
<1>3. ASSUME NEW n \in Nodes(c)
      PROVE  /\ c.kids[n] \in Seq(Nodes(c)) /\ DOMAIN c.kids[n] = 1 .. Len(c.kids[n])
             /\ Len(c.kids[n]) \in Nat
             /\ \A i \in DOMAIN c.kids[n] : c.kids[n][i] \in Nodes(c) /\ c.kids[n][i] > n
  <2>1. c.kids[n] \in Seq(Nodes(c))
    BY DEF IsCondition, IsTree
  <2> QED
    BY <2>1, LenProperties, ElementOfSeq DEF IsCondition, IsTree
<1>4. ASSUME NEW n \in Nodes(c)
      PROVE  /\ c.op[n] = "not" => Len(c.kids[n]) = 1 /\ c.op[c.kids[n][1]] = "leaf"
             /\ c.op[n] = "leaf" <=> c.kids[n] = <<>>
             /\ c.within[n] \in Nat
  BY DEF IsCondition
<1>5. ASSUME NEW n \in Nodes(c), c.op[n] = "not"
      PROVE  /\ 1 \in DOMAIN c.kids[n] /\ c.op[Watched(c, n)] = "leaf"
             /\ \A i \in DOMAIN c.kids[n] : c.op[c.kids[n][i]] = "leaf"
  BY <1>3, <1>4, <1>5 DEF Watched
<1>6. ASSUME NEW n \in Nodes(c), c.op[n] # "leaf"
      PROVE  DOMAIN c.kids[n] # {}
  <2>1. c.kids[n] # <<>>
    BY <1>4, <1>6
  <2>2. Len(c.kids[n]) # 0
    BY <1>3, <2>1, EmptySeq
  <2> QED
    BY <1>3, <2>2
<1>7. ASSUME NEW n \in Nodes(c), NEW i \in DOMAIN c.kids[n]
      PROVE  c.op[n] # "leaf"
  BY <1>3, <1>4
<1>8. c.root = 1 /\ c.root \in Nodes(c)
  BY DEF IsCondition, IsTree
<1> QED
  BY <1>1, <1>2, <1>3, <1>4, <1>5, <1>6, <1>7, <1>8 DEF Nodes

(* Among nodes there is always a last one.                                  *)
LEMMA LastNode ==
  ASSUME NEW top \in Nat, NEW T \in SUBSET (1 .. top), T # {}
  PROVE  \E x \in T : \A y \in T : y <= x
<1> DEFINE D == {d \in Nat : top - d \in T}
<1>1. PICK t \in T : TRUE
  OBVIOUS
<1>2. top - t \in Nat /\ top - (top - t) = t
  OBVIOUS
<1>3. D # {} /\ D \in SUBSET Nat
  BY <1>1, <1>2
<1> HIDE DEF D
<1>4. PICK d \in D : \A e \in D : d <= e
  BY <1>3, LeastNumber
<1>5. d \in Nat /\ top - d \in T
  BY <1>4 DEF D
<1>6. ASSUME NEW y \in T PROVE y <= top - d
  <2>1. top - y \in Nat /\ top - (top - y) = y
    OBVIOUS
  <2>2. top - y \in D
    BY <2>1 DEF D
  <2> QED
    BY <1>4, <1>5, <2>2
<1> QED
  BY <1>5, <1>6

(* The latest of some times.                                                *)
Timed(seen, bound) == \A k \in DOMAIN seen : seen[k].at \in 0 .. bound

LEMMA Greatest ==
  ASSUME NEW bound \in Nat, NEW S \in SUBSET (0 .. bound), S # {}
  PROVE  Max(S) \in S /\ \A y \in S : y <= Max(S)
<1> DEFINE T == {x + 1 : x \in S}
<1>0. ASSUME NEW x \in S PROVE x + 1 \in 1 .. bound + 1
  OBVIOUS
<1>1. T \in SUBSET (1 .. bound + 1) /\ T # {} /\ bound + 1 \in Nat
  <2>1. \A y \in T : y \in 1 .. bound + 1
    BY <1>0
  <2>2. PICK x \in S : TRUE
    OBVIOUS
  <2>3. x + 1 \in T
    OBVIOUS
  <2>4. bound + 1 \in Nat
    OBVIOUS
  <2> HIDE DEF T
  <2> QED
    BY <2>1, <2>3, <2>4
<1>2. PICK x \in T : \A y \in T : y <= x
  BY <1>1, LastNode
<1>3. PICK s \in S : x = s + 1
  BY <1>2
<1>4. \A y \in S : y + 1 \in T
  OBVIOUS
<1>5. \A y \in S : s >= y
  BY <1>2, <1>3, <1>4
<1> QED
  BY <1>5 DEF Max

LEMMA LatestBranch ==
  ASSUME NEW bound \in Nat, NEW met \in SUBSET Nat, met # {}, NEW last \in [met -> 0 .. bound]
  PROVE  \E i \in met : \A j \in met : last[j] < last[i] \/ (last[j] = last[i] /\ i <= j)
<1> DEFINE S == {last[i] : i \in met}
<1>1. S \in SUBSET (0 .. bound) /\ S # {}
  OBVIOUS
<1>2. Max(S) \in S /\ \A y \in S : y <= Max(S)
  BY <1>1, Greatest
<1> DEFINE T == {i \in met : last[i] = Max(S)}
<1>3. T \in SUBSET Nat /\ T # {}
  BY <1>2
<1>4. PICK i \in T : \A j \in T : i <= j
  BY <1>3, LeastNumber
<1>5. ASSUME NEW j \in met PROVE last[j] < last[i] \/ (last[j] = last[i] /\ i <= j)
  <2>1. last[j] <= Max(S) /\ last[j] \in Nat /\ last[i] = Max(S) /\ last[i] \in Nat
    BY <1>2, <1>4
  <2>2. CASE last[j] = Max(S)
    BY <1>4, <2>1, <2>2
  <2> QED
    BY <2>1, <2>2
<1> QED
  BY <1>4, <1>5

(* Evaluating one node, given what its children yield.                      *)
LEMMA EventsAtAny ==
  ASSUME NEW c, IsCondition(c), NEW bound \in Nat, NEW seen, Timed(seen, bound),
         NEW f \in [Nodes(c) -> SUBSET DOMAIN seen], NEW n \in Nodes(c), c.op[n] = "any"
  PROVE  LET result == EventsAt(c, seen, n, AtKids(c, f, n)) IN
         \/ result = {} /\ \A i \in DOMAIN c.kids[n] : f[c.kids[n][i]] = {}
         \/ \E i \in DOMAIN c.kids[n] : f[c.kids[n][i]] # {} /\ result = f[c.kids[n][i]]
<1> DEFINE part == AtKids(c, f, n)
           met == {i \in DOMAIN part : part[i] # {}}
           last(i) == Max({seen[k].at : k \in part[i]})
           latest == CHOOSE i \in met : \A j \in met :
                       last(j) < last(i) \/ (last(j) = last(i) /\ i <= j)
<1>1. DOMAIN part = DOMAIN c.kids[n] /\ \A i \in DOMAIN c.kids[n] : part[i] = f[c.kids[n][i]]
  BY DEF AtKids
<1>2. EventsAt(c, seen, n, part) = IF met = {} THEN {} ELSE part[latest]
  BY DEF EventsAt
<1>3. CASE met = {}
  BY <1>1, <1>2, <1>3
<1>4. CASE met # {}
  <2>1. met \in SUBSET Nat
    BY <1>1, TreeFacts
  <2>2. ASSUME NEW i \in met PROVE last(i) \in 0 .. bound
    <3>1. part[i] # {} /\ part[i] \in SUBSET DOMAIN seen
      BY <1>1, TreeFacts
    <3> DEFINE S == {seen[k].at : k \in part[i]}
    <3>2. S \in SUBSET (0 .. bound) /\ S # {}
      BY <3>1 DEF Timed
    <3> HIDE DEF S
    <3>3. Max(S) \in S
      BY <3>2, Greatest
    <3>4. Max(S) \in 0 .. bound
      BY <3>2, <3>3
    <3> QED
      BY <3>4 DEF S
  <2> DEFINE lf == [i \in met |-> last(i)]
  <2>3. lf \in [met -> 0 .. bound]
    BY <2>2
  <2> HIDE DEF last, met
  <2>4. \A i \in met : lf[i] = last(i)
    OBVIOUS
  <2> HIDE DEF lf
  <2>5. \E i \in met : \A j \in met : lf[j] < lf[i] \/ (lf[j] = lf[i] /\ i <= j)
    BY <1>4, <2>1, <2>3, LatestBranch
  <2>6. \E i \in met : \A j \in met : last(j) < last(i) \/ (last(j) = last(i) /\ i <= j)
    BY <2>4, <2>5
  <2>7. latest \in met
    BY <2>6
  <2> HIDE DEF latest
  <2>8. EventsAt(c, seen, n, part) = part[latest]
    BY <1>2, <1>4
  <2> QED
    BY <1>1, <2>7, <2>8 DEF met
<1> QED
  BY <1>3, <1>4

LEMMA EventsAtAll ==
  ASSUME NEW c, NEW seen, NEW f, NEW n, c.op[n] = "all"
  PROVE  LET both == UNION {f[c.kids[n][i]] : i \in DOMAIN c.kids[n]} IN
         EventsAt(c, seen, n, AtKids(c, f, n)) =
           IF (\A i \in DOMAIN c.kids[n] : f[c.kids[n][i]] # {}) /\ Fits(c.within[n], seen, both)
             THEN both ELSE {}
<1> DEFINE part == AtKids(c, f, n)
           met == {i \in DOMAIN part : part[i] # {}}
           both == UNION {f[c.kids[n][i]] : i \in DOMAIN c.kids[n]}
           whole == UNION {part[i] : i \in DOMAIN part}
<1>1. DOMAIN part = DOMAIN c.kids[n] /\ \A i \in DOMAIN c.kids[n] : part[i] = f[c.kids[n][i]]
  BY DEF AtKids
<1>2. whole = both
  BY <1>1
<1>3. met = DOMAIN part <=> \A i \in DOMAIN c.kids[n] : f[c.kids[n][i]] # {}
  BY <1>1
<1>4. EventsAt(c, seen, n, part) =
        IF met = DOMAIN part /\ Fits(c.within[n], seen, whole) THEN whole ELSE {}
  BY DEF EventsAt
<1> HIDE DEF met, whole, both, part
<1>5. EventsAt(c, seen, n, part) =
        IF (\A i \in DOMAIN c.kids[n] : f[c.kids[n][i]] # {}) /\ Fits(c.within[n], seen, both)
          THEN both ELSE {}
  BY <1>2, <1>3, <1>4, Zenon
<1> QED
  BY <1>5 DEF both, part

LEMMA EventsAtLeaf ==
  ASSUME NEW c, NEW seen, NEW f, NEW n
  PROVE  /\ c.op[n] = "leaf" =>
              EventsAt(c, seen, n, AtKids(c, f, n)) = {Hit(c.key[n])} \cap DOMAIN seen
         /\ c.op[n] = "not" =>
              EventsAt(c, seen, n, AtKids(c, f, n)) = {Missing(c.key[Watched(c, n)])} \cap DOMAIN seen
  BY DEF EventsAt

(* The recursion over the tree defines what it says.                        *)
LEMMA EvaluationLaw ==
  ASSUME NEW c, IsCondition(c), NEW bound \in Nat, NEW seen, Timed(seen, bound)
  PROVE  /\ Evaluation(c, seen) \in [Nodes(c) -> SUBSET DOMAIN seen]
         /\ \A n \in Nodes(c) : Evaluation(c, seen)[n] =
                                  EventsAt(c, seen, n, AtKids(c, Evaluation(c, seen), n))
<1> DEFINE Ns == Nodes(c)
           Sets == SUBSET DOMAIN seen
           Next(f, n) == EventsAt(c, seen, n, AtKids(c, f, n))
           Step == [f \in [Ns -> Sets] |-> [n \in Ns |-> Next(f, n)]]
<1>1. Len(c.op) \in Nat /\ Ns \in SUBSET (1 .. Len(c.op)) /\ Sets # {}
  BY TreeFacts
<1>2. ASSUME NEW f \in [Ns -> Sets], NEW n \in Ns PROVE Next(f, n) \in Sets
  <2>1. \A i \in DOMAIN c.kids[n] : f[c.kids[n][i]] \in Sets
    BY TreeFacts
  <2>2. CASE c.op[n] = "any"
    <3>1. \/ Next(f, n) = {}
          \/ \E i \in DOMAIN c.kids[n] : Next(f, n) = f[c.kids[n][i]]
      BY <2>2, EventsAtAny
    <3> HIDE DEF Next, Sets
    <3>2. {} \in Sets
      BY DEF Sets
    <3> QED
      BY <2>1, <3>1, <3>2
  <2>3. CASE c.op[n] = "all"
    <3> DEFINE both == UNION {f[c.kids[n][i]] : i \in DOMAIN c.kids[n]}
    <3>1. Next(f, n) = both \/ Next(f, n) = {}
      BY <2>3, EventsAtAll
    <3>2. both \in Sets /\ {} \in Sets
      BY <2>1
    <3> HIDE DEF Next, Sets, both
    <3> QED
      BY <3>1, <3>2
  <2>4. CASE c.op[n] \in {"leaf", "not"}
    BY <2>4, EventsAtLeaf
  <2> QED
    BY <2>2, <2>3, <2>4, TreeFacts
<1>3. ASSUME NEW f, NEW g, NEW n \in Ns,
             \A m \in Ns : m > n => f[m] = g[m]
      PROVE  Next(f, n) = Next(g, n)
  <2>1. AtKids(c, f, n) = AtKids(c, g, n)
    BY <1>3, TreeFacts DEF AtKids
  <2> QED
    BY <2>1
<1>4. \E f \in [Ns -> Sets] : f = [n \in Ns |-> Next(f, n)]
  <2> HIDE DEF Ns, Sets, Next
  <2>1. Step \in [[Ns -> Sets] -> [Ns -> Sets]]
    BY <1>2
  <2>2. \A f \in [Ns -> Sets], n \in Ns : Step[f][n] = Next(f, n)
    OBVIOUS
  <2> HIDE DEF Step
  <2>3. \A f, g \in [Ns -> Sets], n \in Ns : (\A m \in Ns : m > n => f[m] = g[m]) => Step[f][n] = Step[g][n]
    <3> SUFFICES ASSUME NEW f \in [Ns -> Sets], NEW g \in [Ns -> Sets], NEW n \in Ns,
                        \A m \in Ns : m > n => f[m] = g[m]
                 PROVE  Step[f][n] = Step[g][n]
      OBVIOUS
    <3>1. Next(f, n) = Next(g, n)
      BY <1>3, Zenon
    <3> QED
      BY <2>2, <3>1
  <2> DEFINE size == Len(c.op)
  <2>4. size \in Nat /\ Ns \in SUBSET (1 .. size) /\ Sets # {}
    BY <1>1
  <2> HIDE DEF size
  <2>5. \E f \in [Ns -> Sets] : \A n \in Ns : f[n] = Step[f][n]
    <3>1. Recursion(size, Ns, Sets, Step)
      BY <2>1, <2>3, <2>4 DEF Recursion
    <3> QED
      BY <3>1, TreeFunction
  <2>6. PICK f \in [Ns -> Sets] : \A n \in Ns : f[n] = Step[f][n]
    BY <2>5
  <2>7. f = [n \in Ns |-> Next(f, n)]
    BY <2>2, <2>6
  <2> QED
    BY <2>7
<1>5. Evaluation(c, seen) = [n \in Ns |-> Next(Evaluation(c, seen), n)]
  BY <1>4 DEF Evaluation
<1>6. PICK f \in [Ns -> Sets] : f = [n \in Ns |-> Next(f, n)]
  BY <1>4
<1> DEFINE E == Evaluation(c, seen)
           T == {n \in Ns : E[n] # f[n]}
<1>7. T = {}
  <2> SUFFICES ASSUME T # {} PROVE FALSE
    OBVIOUS
  <2>1. T \in SUBSET (1 .. Len(c.op))
    BY <1>1
  <2>2. PICK n \in T : \A m \in T : m <= n
    BY <1>1, <2>1, LastNode
  <2> HIDE DEF E
  <2>3. n \in Ns /\ E[n] # f[n] /\ n \in Nat
    BY <1>1
  <2>4. ASSUME NEW m \in Ns, m > n PROVE E[m] = f[m]
    BY <1>1, <2>2, <2>3, <2>4
  <2>5. Next(E, n) = Next(f, n)
    BY <1>3, <2>3, <2>4
  <2>6. E[n] = Next(E, n)
    BY <1>5, <2>3 DEF E
  <2>7. f[n] = Next(f, n)
    BY <1>6, <2>3
  <2> QED
    BY <2>3, <2>5, <2>6, <2>7
<1>8. E = f
  <2>1. E = [n \in Ns |-> E[n]]
    BY <1>5
  <2> HIDE DEF E
  <2> QED
    BY <1>7, <2>1
<1> QED
  BY <1>5, <1>8

AllKeys(c) == {Hit(c.key[n]) : n \in Nodes(c)} \cup {Missing(c.key[n]) : n \in Nodes(c)}

(* So it is for the keys below a node ...                                   *)
LEMMA KeysLaw ==
  ASSUME NEW c, IsCondition(c)
  PROVE  /\ KeysBelow(c) \in [Nodes(c) -> SUBSET AllKeys(c)]
         /\ \A n \in Nodes(c) : KeysBelow(c)[n] = KeysOf(c, n, AtKids(c, KeysBelow(c), n))
<1> DEFINE Ns == Nodes(c)
           Sets == SUBSET AllKeys(c)
           Next(f, n) == KeysOf(c, n, AtKids(c, f, n))
           Step == [f \in [Ns -> Sets] |-> [n \in Ns |-> Next(f, n)]]
<1>1. Len(c.op) \in Nat /\ Ns \in SUBSET (1 .. Len(c.op)) /\ Sets # {}
  BY TreeFacts
<1>2. ASSUME NEW f \in [Ns -> Sets], NEW n \in Ns PROVE Next(f, n) \in Sets
  <2>1. \A i \in DOMAIN c.kids[n] : f[c.kids[n][i]] \in Sets
    BY TreeFacts
  <2> DEFINE part == AtKids(c, f, n)
  <2>2. DOMAIN part = DOMAIN c.kids[n] /\ \A i \in DOMAIN part : part[i] \in Sets
    BY <2>1 DEF AtKids
  <2>3. Hit(c.key[n]) \in AllKeys(c) /\ (c.op[n] = "not" => Missing(c.key[Watched(c, n)]) \in AllKeys(c))
    BY TreeFacts DEF AllKeys, Watched
  <2> HIDE DEF part
  <2>4. KeysOf(c, n, part) \in Sets
    BY <2>2, <2>3 DEF KeysOf
  <2> QED
    BY <2>4 DEF part
<1>3. ASSUME NEW f, NEW g, NEW n \in Ns,
             \A m \in Ns : m > n => f[m] = g[m]
      PROVE  Next(f, n) = Next(g, n)
  <2>1. AtKids(c, f, n) = AtKids(c, g, n)
    BY <1>3, TreeFacts DEF AtKids
  <2> QED
    BY <2>1
<1>4. \E f \in [Ns -> Sets] : f = [n \in Ns |-> Next(f, n)]
  <2> HIDE DEF Ns, Sets, Next
  <2>1. Step \in [[Ns -> Sets] -> [Ns -> Sets]]
    BY <1>2
  <2>2. \A f \in [Ns -> Sets], n \in Ns : Step[f][n] = Next(f, n)
    OBVIOUS
  <2> HIDE DEF Step
  <2>3. \A f, g \in [Ns -> Sets], n \in Ns :
          (\A m \in Ns : m > n => f[m] = g[m]) => Step[f][n] = Step[g][n]
    <3> SUFFICES ASSUME NEW f \in [Ns -> Sets], NEW g \in [Ns -> Sets], NEW n \in Ns,
                        \A m \in Ns : m > n => f[m] = g[m]
                 PROVE  Step[f][n] = Step[g][n]
      OBVIOUS
    <3>1. Next(f, n) = Next(g, n)
      BY <1>3, Zenon
    <3> QED
      BY <2>2, <3>1
  <2> DEFINE size == Len(c.op)
  <2>4. size \in Nat /\ Ns \in SUBSET (1 .. size) /\ Sets # {}
    BY <1>1
  <2> HIDE DEF size
  <2>5. \E f \in [Ns -> Sets] : \A n \in Ns : f[n] = Step[f][n]
    <3>1. Recursion(size, Ns, Sets, Step)
      BY <2>1, <2>3, <2>4 DEF Recursion
    <3> QED
      BY <3>1, TreeFunction
  <2>6. PICK f \in [Ns -> Sets] : \A n \in Ns : f[n] = Step[f][n]
    BY <2>5
  <2>7. f = [n \in Ns |-> Next(f, n)]
    BY <2>2, <2>6
  <2> QED
    BY <2>7
<1>5. KeysBelow(c) = [n \in Ns |-> Next(KeysBelow(c), n)]
  BY <1>4 DEF KeysBelow
<1>6. PICK f \in [Ns -> Sets] : f = [n \in Ns |-> Next(f, n)]
  BY <1>4
<1> DEFINE E == KeysBelow(c)
           T == {n \in Ns : E[n] # f[n]}
<1>7. T = {}
  <2> SUFFICES ASSUME T # {} PROVE FALSE
    OBVIOUS
  <2>1. T \in SUBSET (1 .. Len(c.op))
    BY <1>1
  <2>2. PICK n \in T : \A m \in T : m <= n
    BY <1>1, <2>1, LastNode
  <2> HIDE DEF E
  <2>3. n \in Ns /\ E[n] # f[n] /\ n \in Nat
    BY <1>1
  <2>4. ASSUME NEW m \in Ns, m > n PROVE E[m] = f[m]
    BY <1>1, <2>2, <2>3, <2>4
  <2>5. Next(E, n) = Next(f, n)
    BY <1>3, <2>3, <2>4
  <2>6. E[n] = Next(E, n)
    BY <1>5, <2>3 DEF E
  <2>7. f[n] = Next(f, n)
    BY <1>6, <2>3
  <2> QED
    BY <2>3, <2>5, <2>6, <2>7
<1>8. E = f
  <2>1. E = [n \in Ns |-> E[n]]
    BY <1>5
  <2> HIDE DEF E
  <2> QED
    BY <1>7, <2>1
<1> QED
  BY <1>5, <1>8

(* ... and for its combinations.                                             *)
LEMMA CombinationsLaw ==
  ASSUME NEW c, IsCondition(c)
  PROVE  /\ Combinations(c) \in [Nodes(c) -> SUBSET SUBSET AllKeys(c)]
         /\ \A n \in Nodes(c) : Combinations(c)[n] = CombinationsOf(c, n, AtKids(c, Combinations(c), n))
<1> DEFINE Ns == Nodes(c)
           Sets == SUBSET SUBSET AllKeys(c)
           Next(f, n) == CombinationsOf(c, n, AtKids(c, f, n))
           Step == [f \in [Ns -> Sets] |-> [n \in Ns |-> Next(f, n)]]
<1>1. Len(c.op) \in Nat /\ Ns \in SUBSET (1 .. Len(c.op)) /\ Sets # {}
  BY TreeFacts
<1>2. ASSUME NEW f \in [Ns -> Sets], NEW n \in Ns PROVE Next(f, n) \in Sets
  <2>1. \A i \in DOMAIN c.kids[n] : f[c.kids[n][i]] \in Sets
    BY TreeFacts
  <2> DEFINE part == AtKids(c, f, n)
  <2>2. DOMAIN part = DOMAIN c.kids[n] /\ \A i \in DOMAIN part : part[i] \in Sets
    BY <2>1 DEF AtKids
  <2>3. Hit(c.key[n]) \in AllKeys(c) /\ (c.op[n] = "not" => Missing(c.key[Watched(c, n)]) \in AllKeys(c))
    BY TreeFacts DEF AllKeys, Watched
  <2> DEFINE unions == UNION {part[i] : i \in DOMAIN part}
             picks == {p \in [DOMAIN part -> unions] : \A i \in DOMAIN part : p[i] \in part[i]}
  <2>4. unions \in Sets
    BY <2>2
  <2>5. ASSUME NEW pick \in picks PROVE UNION {pick[i] : i \in DOMAIN part} \in SUBSET AllKeys(c)
    <3>1. \A i \in DOMAIN part : pick[i] \in SUBSET AllKeys(c)
      BY <2>2
    <3> QED
      BY <3>1
  <2>6. CASE c.op[n] \in {"leaf", "not"}
    BY <2>3, <2>6 DEF CombinationsOf
  <2>7. CASE c.op[n] = "any"
    BY <2>4, <2>7 DEF CombinationsOf
  <2>8. CASE c.op[n] = "all"
    <3>1. Next(f, n) = {UNION {pick[i] : i \in DOMAIN part} : pick \in picks}
      BY <2>8 DEF CombinationsOf
    <3> HIDE DEF Next, picks, part
    <3> QED
      BY <2>5, <3>1
  <2> QED
    BY <2>6, <2>7, <2>8, TreeFacts
<1>3. ASSUME NEW f, NEW g, NEW n \in Ns,
             \A m \in Ns : m > n => f[m] = g[m]
      PROVE  Next(f, n) = Next(g, n)
  <2>1. AtKids(c, f, n) = AtKids(c, g, n)
    BY <1>3, TreeFacts DEF AtKids
  <2> QED
    BY <2>1
<1>4. \E f \in [Ns -> Sets] : f = [n \in Ns |-> Next(f, n)]
  <2> HIDE DEF Ns, Sets, Next
  <2>1. Step \in [[Ns -> Sets] -> [Ns -> Sets]]
    BY <1>2
  <2>2. \A f \in [Ns -> Sets], n \in Ns : Step[f][n] = Next(f, n)
    OBVIOUS
  <2> HIDE DEF Step
  <2>3. \A f, g \in [Ns -> Sets], n \in Ns :
          (\A m \in Ns : m > n => f[m] = g[m]) => Step[f][n] = Step[g][n]
    <3> SUFFICES ASSUME NEW f \in [Ns -> Sets], NEW g \in [Ns -> Sets], NEW n \in Ns,
                        \A m \in Ns : m > n => f[m] = g[m]
                 PROVE  Step[f][n] = Step[g][n]
      OBVIOUS
    <3>1. Next(f, n) = Next(g, n)
      BY <1>3, Zenon
    <3> QED
      BY <2>2, <3>1
  <2> DEFINE size == Len(c.op)
  <2>4. size \in Nat /\ Ns \in SUBSET (1 .. size) /\ Sets # {}
    BY <1>1
  <2> HIDE DEF size
  <2>5. \E f \in [Ns -> Sets] : \A n \in Ns : f[n] = Step[f][n]
    <3>1. Recursion(size, Ns, Sets, Step)
      BY <2>1, <2>3, <2>4 DEF Recursion
    <3> QED
      BY <3>1, TreeFunction
  <2>6. PICK f \in [Ns -> Sets] : \A n \in Ns : f[n] = Step[f][n]
    BY <2>5
  <2>7. f = [n \in Ns |-> Next(f, n)]
    BY <2>2, <2>6
  <2> QED
    BY <2>7
<1>5. Combinations(c) = [n \in Ns |-> Next(Combinations(c), n)]
  BY <1>4 DEF Combinations
<1>6. PICK f \in [Ns -> Sets] : f = [n \in Ns |-> Next(f, n)]
  BY <1>4
<1> DEFINE E == Combinations(c)
           T == {n \in Ns : E[n] # f[n]}
<1>7. T = {}
  <2> SUFFICES ASSUME T # {} PROVE FALSE
    OBVIOUS
  <2>1. T \in SUBSET (1 .. Len(c.op))
    BY <1>1
  <2>2. PICK n \in T : \A m \in T : m <= n
    BY <1>1, <2>1, LastNode
  <2> HIDE DEF E
  <2>3. n \in Ns /\ E[n] # f[n] /\ n \in Nat
    BY <1>1
  <2>4. ASSUME NEW m \in Ns, m > n PROVE E[m] = f[m]
    BY <1>1, <2>2, <2>3, <2>4
  <2>5. Next(E, n) = Next(f, n)
    BY <1>3, <2>3, <2>4
  <2>6. E[n] = Next(E, n)
    BY <1>5, <2>3 DEF E
  <2>7. f[n] = Next(f, n)
    BY <1>6, <2>3
  <2> QED
    BY <2>3, <2>5, <2>6, <2>7
<1>8. E = f
  <2>1. E = [n \in Ns |-> E[n]]
    BY <1>5
  <2> HIDE DEF E
  <2> QED
    BY <1>7, <2>1
<1> QED
  BY <1>5, <1>8

(* The key a node contributes itself, and what else is below it.            *)
Contributes(c, n, x) ==
  \/ c.op[n] = "leaf" /\ x = Hit(c.key[n])
  \/ c.op[n] = "not" /\ x = Missing(c.key[Watched(c, n)])

LEMMA KeysBelowNode ==
  ASSUME NEW c, IsCondition(c), NEW n \in Nodes(c), NEW x
  PROVE  x \in KeysBelow(c)[n] <=>
           \/ Contributes(c, n, x)
           \/ c.op[n] \in {"all", "any"} /\ \E i \in DOMAIN c.kids[n] : x \in KeysBelow(c)[c.kids[n][i]]
<1> DEFINE below == KeysBelow(c)
           part == AtKids(c, below, n)
<1>1. below[n] = KeysOf(c, n, part)
  BY KeysLaw
<1>2. DOMAIN part = DOMAIN c.kids[n] /\ \A i \in DOMAIN c.kids[n] : part[i] = below[c.kids[n][i]]
  BY DEF AtKids
<1> HIDE DEF below, part
<1>3. c.op[n] \in {"leaf", "not", "all", "any"}
  BY TreeFacts
<1>4. CASE c.op[n] \in {"leaf", "not"}
  BY <1>1, <1>4 DEF KeysOf, Contributes, below
<1>5. CASE c.op[n] \in {"all", "any"}
  <2>1. below[n] = UNION {part[i] : i \in DOMAIN part}
    BY <1>1, <1>5 DEF KeysOf
  <2>2. ~Contributes(c, n, x)
    BY <1>5 DEF Contributes
  <2> QED
    BY <1>2, <1>5, <2>1, <2>2 DEF below
<1> QED
  BY <1>3, <1>4, <1>5

(* No two nodes contribute the same key.                                    *)
LEMMA ContributedOnce ==
  ASSUME NEW c, IsCondition(c), NEW m \in Nodes(c), NEW n \in Nodes(c), NEW x,
         Contributes(c, m, x), Contributes(c, n, x)
  PROVE  m = n
<1>1. \A a, b \in Nodes(c) : c.op[a] = "leaf" /\ c.op[b] = "leaf" /\ c.key[a] = c.key[b] => a = b
  BY DEF IsCondition
<1>2. CASE c.op[m] = "leaf"
  <2>1. c.op[n] = "leaf" /\ c.key[m] = c.key[n]
    BY <1>2 DEF Contributes, Hit, Missing
  <2> QED
    BY <1>1, <1>2, <2>1
<1>3. CASE c.op[m] = "not"
  <2>1. c.op[n] = "not" /\ c.key[Watched(c, m)] = c.key[Watched(c, n)]
    BY <1>3 DEF Contributes, Hit, Missing
  <2>2. /\ Watched(c, m) \in Nodes(c) /\ Watched(c, n) \in Nodes(c)
        /\ c.op[Watched(c, m)] = "leaf" /\ c.op[Watched(c, n)] = "leaf"
        /\ 1 \in DOMAIN c.kids[m] /\ 1 \in DOMAIN c.kids[n]
    BY <1>3, <2>1, TreeFacts DEF Watched
  <2>3. c.kids[m][1] = c.kids[n][1]
    BY <1>1, <2>1, <2>2 DEF Watched
  <2> QED
    BY <2>2, <2>3 DEF IsCondition, IsTree
<1> QED
  BY <1>2, <1>3 DEF Contributes

(* A key below a node is contributed by it or by a node after it.           *)
LEMMA ContributedBelow ==
  ASSUME NEW c, IsCondition(c), NEW n \in Nodes(c), NEW x \in KeysBelow(c)[n]
  PROVE  \E o \in Nodes(c) : o >= n /\ Contributes(c, o, x)
<1> DEFINE Found(m) == \E o \in Nodes(c) : o >= m /\ Contributes(c, o, x)
           T == {m \in Nodes(c) : x \in KeysBelow(c)[m] /\ ~Found(m)}
<1>1. T = {}
  <2> SUFFICES ASSUME T # {} PROVE FALSE
    OBVIOUS
  <2>1. T \in SUBSET (1 .. Len(c.op)) /\ Len(c.op) \in Nat
    BY TreeFacts
  <2>2. PICK m \in T : \A k \in T : k <= m
    BY <2>1, LastNode
  <2>3. m \in Nodes(c) /\ m \in Nat /\ x \in KeysBelow(c)[m] /\ ~Found(m)
    BY <2>1
  <2>4. ~Contributes(c, m, x)
    BY <2>3
  <2>5. PICK i \in DOMAIN c.kids[m] : x \in KeysBelow(c)[c.kids[m][i]]
    BY <2>3, <2>4, KeysBelowNode
  <2>6. c.kids[m][i] \in Nodes(c) /\ c.kids[m][i] > m /\ c.kids[m][i] \in Nat
    BY <2>3, TreeFacts
  <2> DEFINE kid == c.kids[m][i]
  <2>7. Found(kid)
    <3>1. kid \in Nodes(c) /\ kid > m /\ kid \in Nat /\ x \in KeysBelow(c)[kid]
      BY <2>5, <2>6
    <3> HIDE DEF kid, Found
    <3>2. kid \notin T
      BY <2>2, <2>3, <3>1
    <3> QED
      BY <3>1, <3>2
  <2>8. PICK o \in Nodes(c) : o >= c.kids[m][i] /\ Contributes(c, o, x)
    BY <2>7 DEF Found
  <2>9. o \in Nat /\ o >= m
    BY <2>3, <2>6, <2>8, TreeFacts
  <2> QED
    BY <2>3, <2>8, <2>9 DEF Found
<1> QED
  BY <1>1

(* The nodes that have a key below them follow one another from parent to   *)
(* child: between a node and its parent there is no other one.              *)
LEMMA OneWayDown ==
  ASSUME NEW c, IsCondition(c), NEW x,
         NEW a \in Nodes(c), NEW p \in Nodes(c), NEW i \in DOMAIN c.kids[p],
         x \in KeysBelow(c)[a], x \in KeysBelow(c)[c.kids[p][i]], a < c.kids[p][i]
  PROVE  a <= p
<1> DEFINE Has(m) == x \in KeysBelow(c)[m]
           Skipped(m) == \E q \in Nodes(c) : \E j \in DOMAIN c.kids[q] :
                            Has(c.kids[q][j]) /\ q < m /\ m < c.kids[q][j]
           T == {m \in Nodes(c) : Has(m) /\ Skipped(m)}
<1>0. Len(c.op) \in Nat /\ Nodes(c) = 1 .. Len(c.op)
  BY TreeFacts
<1>1. T = {}
  <2> SUFFICES ASSUME T # {} PROVE FALSE
    OBVIOUS
  <2>1. T \in SUBSET (1 .. Len(c.op))
    BY <1>0
  <2>2. PICK m \in T : \A k \in T : k <= m
    BY <1>0, <2>1, LastNode
  <2>3. m \in Nodes(c) /\ m \in Nat /\ Has(m) /\ Skipped(m)
    BY <1>0, <2>1
  <2>4a. PICK q \in Nodes(c) : \E j \in DOMAIN c.kids[q] :
                                 Has(c.kids[q][j]) /\ q < m /\ m < c.kids[q][j]
    BY <2>3
  <2>4. PICK j \in DOMAIN c.kids[q] : Has(c.kids[q][j]) /\ q < m /\ m < c.kids[q][j]
    BY <2>4a
  <2> DEFINE b == c.kids[q][j]
  <2>5. b \in Nodes(c) /\ b \in Nat /\ q \in Nat /\ Has(b)
    <3>1. b \in Nodes(c)
      BY TreeFacts
    <3>2. b \in Nat /\ q \in Nat
      BY <1>0, <3>1
    <3> QED
      BY <2>4, <3>1, <3>2
  <2>6. ~Contributes(c, m, x)
    <3> SUFFICES ASSUME Contributes(c, m, x) PROVE FALSE
      OBVIOUS
    <3>1. PICK o \in Nodes(c) : o >= b /\ Contributes(c, o, x)
      BY <2>5, ContributedBelow
    <3>2. o = m
      BY <2>3, <3>1, ContributedOnce
    <3> QED
      BY <2>3, <2>4, <2>5, <3>1, <3>2
  <2>7. PICK k \in DOMAIN c.kids[m] : Has(c.kids[m][k])
    BY <2>3, <2>6, KeysBelowNode
  <2> DEFINE d == c.kids[m][k]
  <2>8. d \in Nodes(c) /\ d \in Nat /\ m < d /\ Has(d)
    <3>1. m \in Nodes(c)
      BY <2>3
    <3>2. d \in Nodes(c) /\ d > m
      BY <3>1, TreeFacts
    <3>3. d \in Nat
      BY <1>0, <3>2
    <3> QED
      BY <2>3, <2>7, <3>2, <3>3
  <2> HIDE DEF b, d, Has
  <2>9. CASE d = b
    <3>1. m = q
      BY <2>3, <2>9 DEF IsCondition, IsTree, b, d
    <3> QED
      BY <2>3, <2>4, <3>1
  <2>10. CASE d < b
    <3>1. Skipped(d)
      BY <2>3, <2>4, <2>5, <2>8, <2>10 DEF b
    <3>2. d \in T
      BY <2>8, <3>1
    <3> QED
      BY <2>2, <2>3, <2>8, <3>2
  <2>11. CASE b < d
    <3>1. Skipped(b)
      BY <2>3, <2>4, <2>5, <2>7, <2>8, <2>11 DEF b, d
    <3>2. b \in T
      BY <2>5, <3>1
    <3>3. b > m
      BY <2>4 DEF b
    <3> QED
      BY <2>2, <2>3, <2>5, <3>2, <3>3
  <2> QED
    BY <2>5, <2>8, <2>9, <2>10, <2>11
<1>2. a \in Nat /\ p \in Nat
  BY <1>0
<1> QED
  BY <1>1, <1>2

LEMMA BranchesApart ==
  ASSUME NEW c, IsCondition(c), NEW n \in Nodes(c),
         NEW i \in DOMAIN c.kids[n], NEW j \in DOMAIN c.kids[n], i # j
  PROVE  KeysBelow(c)[c.kids[n][i]] \cap KeysBelow(c)[c.kids[n][j]] = {}
<1> DEFINE a == c.kids[n][i]
           b == c.kids[n][j]
<1> SUFFICES ASSUME NEW x, x \in KeysBelow(c)[a], x \in KeysBelow(c)[b] PROVE FALSE
  OBVIOUS
<1>1. a # b
  <2>1. \A m, o \in Nodes(c) : \A k \in DOMAIN c.kids[m], l \in DOMAIN c.kids[o] :
          c.kids[m][k] = c.kids[o][l] => m = o /\ k = l
    BY DEF IsCondition, IsTree
  <2>2. c.kids[n][i] = c.kids[n][j] => n = n /\ i = j
    BY <2>1
  <2> QED
    BY <2>2
<1>2. a \in Nodes(c) /\ b \in Nodes(c) /\ a > n /\ b > n /\ n \in Nat /\ a \in Nat /\ b \in Nat
  <2>1. Len(c.op) \in Nat /\ Nodes(c) = 1 .. Len(c.op)
    BY TreeFacts
  <2>2. c.kids[n][i] \in Nodes(c) /\ c.kids[n][i] > n
    BY TreeFacts
  <2>3. c.kids[n][j] \in Nodes(c) /\ c.kids[n][j] > n
    BY TreeFacts
  <2> QED
    BY <2>1, <2>2, <2>3
<1>3. CASE a < b
  BY <1>2, <1>3, OneWayDown
<1>4. CASE b < a
  BY <1>2, <1>4, OneWayDown
<1> QED
  BY <1>1, <1>2, <1>3, <1>4

(* What a node yields, given what its children yield.                       *)
Yields(c, seen, eval, n) ==
  /\ c.op[n] \in {"leaf", "not"} =>
       \A x \in eval[n] : x \in DOMAIN seen /\ Contributes(c, n, x) /\ eval[n] = {x}
  /\ \A x \in DOMAIN seen : Contributes(c, n, x) => x \in eval[n]
  /\ c.op[n] = "any" /\ eval[n] # {} =>
       \E i \in DOMAIN c.kids[n] : eval[c.kids[n][i]] # {} /\ eval[n] = eval[c.kids[n][i]]
  /\ c.op[n] = "any" /\ eval[n] = {} => \A i \in DOMAIN c.kids[n] : eval[c.kids[n][i]] = {}
  /\ c.op[n] = "all" /\ eval[n] # {} =>
       /\ \A i \in DOMAIN c.kids[n] : eval[c.kids[n][i]] # {}
       /\ eval[n] = UNION {eval[c.kids[n][i]] : i \in DOMAIN c.kids[n]}
       /\ Fits(c.within[n], seen, eval[n])
  /\ c.op[n] = "all" /\ eval[n] = {} =>
       \/ \E i \in DOMAIN c.kids[n] : eval[c.kids[n][i]] = {}
       \/ ~Fits(c.within[n], seen, UNION {eval[c.kids[n][i]] : i \in DOMAIN c.kids[n]})

LEMMA EvaluatedNode ==
  ASSUME NEW c, IsCondition(c), NEW bound \in Nat, NEW seen, Timed(seen, bound), NEW n \in Nodes(c)
  PROVE  Yields(c, seen, Evaluation(c, seen), n)
<1> DEFINE eval == Evaluation(c, seen)
           both == UNION {eval[c.kids[n][i]] : i \in DOMAIN c.kids[n]}
           result == EventsAt(c, seen, n, AtKids(c, eval, n))
<1>1. eval[n] = result /\ eval \in [Nodes(c) -> SUBSET DOMAIN seen]
  BY EvaluationLaw
<1>2. c.op[n] \in {"leaf", "not", "all", "any"}
  BY TreeFacts
<1> HIDE DEF eval
<1>3. c.op[n] = "any" =>
        \/ result = {} /\ \A i \in DOMAIN c.kids[n] : eval[c.kids[n][i]] = {}
        \/ \E i \in DOMAIN c.kids[n] : eval[c.kids[n][i]] # {} /\ result = eval[c.kids[n][i]]
  BY <1>1, EventsAtAny
<1>4. c.op[n] = "all" =>
        result = IF (\A i \in DOMAIN c.kids[n] : eval[c.kids[n][i]] # {}) /\ Fits(c.within[n], seen, both)
                   THEN both ELSE {}
  BY EventsAtAll
<1>5. /\ c.op[n] = "leaf" => result = {Hit(c.key[n])} \cap DOMAIN seen
      /\ c.op[n] = "not" => result = {Missing(c.key[Watched(c, n)])} \cap DOMAIN seen
  BY EventsAtLeaf
<1>6. DOMAIN c.kids[n] # {} \/ c.op[n] = "leaf"
  BY TreeFacts
<1> HIDE DEF result, both
<1>7. c.op[n] \in {"leaf", "not"} =>
        \A x \in eval[n] : x \in DOMAIN seen /\ Contributes(c, n, x) /\ eval[n] = {x}
  BY <1>1, <1>5 DEF Contributes
<1>8. \A x \in DOMAIN seen : Contributes(c, n, x) => x \in eval[n]
  BY <1>1, <1>5 DEF Contributes
<1>9. c.op[n] = "any" /\ eval[n] # {} =>
        \E i \in DOMAIN c.kids[n] : eval[c.kids[n][i]] # {} /\ eval[n] = eval[c.kids[n][i]]
  BY <1>1, <1>3
<1>10. c.op[n] = "any" /\ eval[n] = {} => \A i \in DOMAIN c.kids[n] : eval[c.kids[n][i]] = {}
  BY <1>1, <1>3
<1>11. c.op[n] = "all" /\ eval[n] # {} =>
         /\ \A i \in DOMAIN c.kids[n] : eval[c.kids[n][i]] # {}
         /\ eval[n] = both /\ Fits(c.within[n], seen, eval[n])
  BY <1>1, <1>4
<1>12. (\A i \in DOMAIN c.kids[n] : eval[c.kids[n][i]] # {}) /\ c.op[n] = "all" => both # {}
  <2> SUFFICES ASSUME c.op[n] = "all", \A i \in DOMAIN c.kids[n] : eval[c.kids[n][i]] # {}
               PROVE  both # {}
    OBVIOUS
  <2>1. PICK i \in DOMAIN c.kids[n] : TRUE
    BY <1>6
  <2>2. PICK x \in eval[c.kids[n][i]] : TRUE
    OBVIOUS
  <2> QED
    BY <2>2 DEF both
<1>13. c.op[n] = "all" /\ eval[n] = {} =>
         \/ \E i \in DOMAIN c.kids[n] : eval[c.kids[n][i]] = {}
         \/ ~Fits(c.within[n], seen, both)
  BY <1>1, <1>4, <1>12
<1> QED
  BY <1>7, <1>8, <1>9, <1>10, <1>11, <1>13, Zenon DEF both, eval, Yields

(* The combinations of a node, given those of its children.                 *)
LEMMA CombinationsAt ==
  ASSUME NEW c, IsCondition(c), NEW n \in Nodes(c), NEW keys
  PROVE  LET comb == Combinations(c)
             kids == DOMAIN c.kids[n]
         IN  /\ c.op[n] \in {"leaf", "not"} =>
                  (keys \in comb[n] <=> \E x : Contributes(c, n, x) /\ keys = {x})
             /\ c.op[n] = "any" =>
                  (keys \in comb[n] <=> \E i \in kids : keys \in comb[c.kids[n][i]])
             /\ c.op[n] = "all" =>
                  (keys \in comb[n] <=>
                     \E pick : /\ pick = [i \in kids |-> pick[i]]
                               /\ \A i \in kids : pick[i] \in comb[c.kids[n][i]]
                               /\ keys = UNION {pick[i] : i \in kids})
<1> DEFINE comb == Combinations(c)
           kids == DOMAIN c.kids[n]
           part == AtKids(c, comb, n)
<1>1. comb[n] = CombinationsOf(c, n, part)
  BY CombinationsLaw
<1>2. DOMAIN part = kids /\ \A i \in kids : part[i] = comb[c.kids[n][i]]
  BY DEF AtKids
<1> HIDE DEF comb, part
<1>3. c.op[n] \in {"leaf", "not"} => (keys \in comb[n] <=> \E x : Contributes(c, n, x) /\ keys = {x})
  BY <1>1 DEF CombinationsOf, Contributes
<1>4. c.op[n] = "any" => (keys \in comb[n] <=> \E i \in kids : keys \in comb[c.kids[n][i]])
  <2> HAVE c.op[n] = "any"
  <2>1. comb[n] = UNION {part[i] : i \in DOMAIN part}
    BY <1>1 DEF CombinationsOf
  <2> QED
    BY <1>2, <2>1
<1>5. c.op[n] = "all" =>
        (keys \in comb[n] <=>
           \E pick : /\ pick = [i \in kids |-> pick[i]]
                     /\ \A i \in kids : pick[i] \in comb[c.kids[n][i]]
                     /\ keys = UNION {pick[i] : i \in kids})
  <2> HAVE c.op[n] = "all"
  <2> DEFINE unions == UNION {part[i] : i \in DOMAIN part}
             picks == {p \in [DOMAIN part -> unions] : \A i \in DOMAIN part : p[i] \in part[i]}
  <2>1. comb[n] = {UNION {pick[i] : i \in DOMAIN part} : pick \in picks}
    BY <1>1 DEF CombinationsOf
  <2>2. ASSUME NEW pick \in picks
        PROVE  pick = [i \in kids |-> pick[i]] /\ \A i \in kids : pick[i] \in comb[c.kids[n][i]]
    BY <1>2
  <2>3. ASSUME NEW pick, pick = [i \in kids |-> pick[i]],
               \A i \in kids : pick[i] \in comb[c.kids[n][i]]
        PROVE  pick \in picks
    <3>1. \A i \in kids : pick[i] \in part[i] /\ pick[i] \in unions
      BY <1>2, <2>3
    <3>2. pick \in [DOMAIN part -> unions]
      BY <1>2, <2>3, <3>1
    <3> QED
      BY <1>2, <3>1, <3>2
  <2> HIDE DEF picks, unions, kids
  <2> QED
    BY <1>2, <2>1, <2>2, <2>3
<1> QED
  BY <1>3, <1>4, <1>5, Zenon DEF comb

(* What a node yields is one of its combinations, of keys below it.         *)
LEMMA EvaluatedCombination ==
  ASSUME NEW c, IsCondition(c), NEW bound \in Nat, NEW seen, Timed(seen, bound)
  PROVE  \A n \in Nodes(c) :
           /\ Evaluation(c, seen)[n] \subseteq KeysBelow(c)[n]
           /\ Evaluation(c, seen)[n] # {} => Evaluation(c, seen)[n] \in Combinations(c)[n]
<1> DEFINE eval == Evaluation(c, seen)
           comb == Combinations(c)
           below == KeysBelow(c)
           Good(n) == eval[n] \subseteq below[n] /\ (eval[n] # {} => eval[n] \in comb[n])
           T == {n \in Nodes(c) : ~Good(n)}
<1>1. ASSUME NEW n \in Nodes(c), \A i \in DOMAIN c.kids[n] : Good(c.kids[n][i])
      PROVE  Good(n)
  <2> DEFINE both == UNION {eval[c.kids[n][i]] : i \in DOMAIN c.kids[n]}
             kids == DOMAIN c.kids[n]
  <2>1. /\ c.op[n] \in {"leaf", "not"} =>
             \A x \in eval[n] : x \in DOMAIN seen /\ Contributes(c, n, x) /\ eval[n] = {x}
        /\ c.op[n] = "any" /\ eval[n] # {} =>
             \E i \in kids : eval[c.kids[n][i]] # {} /\ eval[n] = eval[c.kids[n][i]]
        /\ c.op[n] = "all" /\ eval[n] # {} =>
             (\A i \in kids : eval[c.kids[n][i]] # {}) /\ eval[n] = both
    <3>1. Yields(c, seen, eval, n)
      BY EvaluatedNode
    <3> HIDE DEF eval
    <3> QED
      BY <3>1 DEF Yields
  <2>2. \A x : x \in below[n] <=>
           \/ Contributes(c, n, x)
           \/ c.op[n] \in {"all", "any"} /\ \E i \in kids : x \in below[c.kids[n][i]]
    BY KeysBelowNode
  <2>3. \A keys :
          /\ c.op[n] \in {"leaf", "not"} =>
               (keys \in comb[n] <=> \E x : Contributes(c, n, x) /\ keys = {x})
          /\ c.op[n] = "any" => (keys \in comb[n] <=> \E i \in kids : keys \in comb[c.kids[n][i]])
          /\ c.op[n] = "all" =>
               (keys \in comb[n] <=>
                  \E pick : /\ pick = [i \in kids |-> pick[i]]
                            /\ \A i \in kids : pick[i] \in comb[c.kids[n][i]]
                            /\ keys = UNION {pick[i] : i \in kids})
    BY CombinationsAt
  <2>4. c.op[n] \in {"leaf", "not", "all", "any"}
    BY TreeFacts
  <2> HIDE DEF eval, comb, below
  <2>5. CASE eval[n] = {}
    BY <2>5
  <2>6. CASE eval[n] # {} /\ c.op[n] \in {"leaf", "not"}
    <3>1. PICK x \in eval[n] : TRUE
      BY <2>6
    <3>2. Contributes(c, n, x) /\ eval[n] = {x}
      BY <2>1, <2>6, <3>1
    <3> QED
      BY <2>2, <2>3, <2>6, <3>2
  <2>7. CASE eval[n] # {} /\ c.op[n] = "any"
    <3>1. PICK i \in kids : eval[c.kids[n][i]] # {} /\ eval[n] = eval[c.kids[n][i]]
      BY <2>1, <2>7
    <3>2. Good(c.kids[n][i])
      BY <1>1
    <3> QED
      BY <2>2, <2>3, <2>7, <3>1, <3>2
  <2>8. CASE eval[n] # {} /\ c.op[n] = "all"
    <3> DEFINE pick == [i \in kids |-> eval[c.kids[n][i]]]
    <3>1. \A i \in kids : pick[i] = eval[c.kids[n][i]]
      OBVIOUS
    <3>2. \A i \in kids : pick[i] \in comb[c.kids[n][i]]
      BY <1>1, <2>1, <2>8
    <3>3. eval[n] = UNION {pick[i] : i \in kids}
      BY <2>1, <2>8
    <3>4. pick = [i \in kids |-> pick[i]]
      OBVIOUS
    <3> HIDE DEF pick
    <3>5. eval[n] \in comb[n]
      BY <2>3, <2>8, <3>2, <3>3, <3>4
    <3>6. ASSUME NEW x \in eval[n] PROVE x \in below[n]
      <4>1. PICK i \in kids : x \in eval[c.kids[n][i]]
        BY <3>1, <3>3, <3>6
      <4>2. x \in below[c.kids[n][i]]
        BY <1>1, <4>1
      <4> QED
        BY <2>2, <2>8, <4>2
    <3> QED
      BY <3>5, <3>6
  <2> QED
    BY <2>4, <2>5, <2>6, <2>7, <2>8
<1> HIDE DEF eval, comb, below, Good
<1>2. T = {}
  <2> SUFFICES ASSUME T # {} PROVE FALSE
    OBVIOUS
  <2>1. T \in SUBSET (1 .. Len(c.op)) /\ Len(c.op) \in Nat
    BY TreeFacts
  <2>2. PICK n \in T : \A m \in T : m <= n
    BY <2>1, LastNode
  <2>3. n \in Nodes(c) /\ n \in Nat /\ ~Good(n)
    BY <2>1
  <2>4. ASSUME NEW i \in DOMAIN c.kids[n] PROVE Good(c.kids[n][i])
    <3>1. c.kids[n][i] \in Nodes(c) /\ c.kids[n][i] > n /\ c.kids[n][i] \in Nat
      BY <2>3, TreeFacts
    <3> QED
      BY <2>2, <2>3, <3>1
  <2> QED
    BY <1>1, <2>3, <2>4
<1>3. \A n \in Nodes(c) : Good(n)
  BY <1>2
<1> QED
  BY <1>3 DEF Good, eval, comb, below

(* Of what the whole condition yields, a node has nothing or what it yields.*)
LEMMA EvaluatedPart ==
  ASSUME NEW c, IsCondition(c), NEW bound \in Nat, NEW seen, Timed(seen, bound),
         NEW n \in Nodes(c), c.op[n] \in {"all", "any"}
  PROVE  Evaluate(c, seen) \cap KeysBelow(c)[n] \in {{}, Evaluation(c, seen)[n]}
<1> DEFINE eval == Evaluation(c, seen)
           below == KeysBelow(c)
           whole == Evaluate(c, seen)
           Part(m) == whole \cap below[m] = {} \/ whole \cap below[m] = eval[m]
           T == {m \in Nodes(c) : c.op[m] \in {"all", "any"} /\ ~Part(m)}
<1>0. whole = eval[c.root] /\ c.root \in Nodes(c) /\ \A m \in Nodes(c) : eval[m] \subseteq below[m]
  BY TreeFacts, EvaluatedCombination DEF Evaluate
<1>1. ASSUME NEW m \in Nodes(c), m # c.root, c.op[m] \in {"all", "any"},
             \A p \in Nodes(c) : p < m /\ c.op[p] \in {"all", "any"} => Part(p)
      PROVE  Part(m)
  <2>1. PICK p \in Nodes(c) : \E i \in DOMAIN c.kids[p] : c.kids[p][i] = m
    BY <1>1 DEF IsCondition, IsTree
  <2>2. PICK i \in DOMAIN c.kids[p] : c.kids[p][i] = m
    BY <2>1
  <2>3. c.op[p] \in {"all", "any"} /\ p < m /\ p \in Nat /\ m \in Nat
    <3>1. c.op[p] # "leaf" /\ m > p /\ (c.op[p] = "not" => c.op[m] = "leaf")
      BY <2>2, TreeFacts
    <3>2. c.op[p] \in {"leaf", "not", "all", "any"} /\ p \in Nat /\ m \in Nat
      BY TreeFacts
    <3> QED
      BY <1>1, <3>1, <3>2
  <2>4. Part(p)
    BY <1>1, <2>3
  <2>5. below[m] \subseteq below[p]
    BY <2>2, <2>3, KeysBelowNode
  <2>6. \A j \in DOMAIN c.kids[p] : j # i => below[c.kids[p][j]] \cap below[m] = {}
    BY <2>2, BranchesApart
  <2>7. \A j \in DOMAIN c.kids[p] : eval[c.kids[p][j]] \subseteq below[c.kids[p][j]]
    BY <1>0, TreeFacts
  <2>8. /\ c.op[p] = "any" /\ eval[p] # {} =>
             \E j \in DOMAIN c.kids[p] : eval[p] = eval[c.kids[p][j]]
        /\ c.op[p] = "all" /\ eval[p] # {} =>
             eval[p] = UNION {eval[c.kids[p][j]] : j \in DOMAIN c.kids[p]}
    <3>1. Yields(c, seen, eval, p)
      BY EvaluatedNode
    <3> HIDE DEF eval
    <3> QED
      BY <3>1 DEF Yields
  <2> HIDE DEF eval, below, whole
  <2>9. CASE whole \cap below[p] = {}
    BY <2>5, <2>9
  <2>10. CASE whole \cap below[p] = eval[p] /\ eval[p] # {}
    <3>1. whole \cap below[m] = eval[p] \cap below[m]
      BY <2>5, <2>10
    <3>2. CASE c.op[p] = "any"
      <4>1. PICK j \in DOMAIN c.kids[p] : eval[p] = eval[c.kids[p][j]]
        BY <2>8, <2>10, <3>2
      <4>2. CASE j = i
        BY <2>2, <2>7, <3>1, <4>1, <4>2
      <4>3. CASE j # i
        BY <2>6, <2>7, <3>1, <4>1, <4>3
      <4> QED
        BY <4>2, <4>3
    <3>3. CASE c.op[p] = "all"
      <4>1. eval[p] = UNION {eval[c.kids[p][j]] : j \in DOMAIN c.kids[p]}
        BY <2>8, <2>10, <3>3
      <4>2. ASSUME NEW x \in eval[p] \cap below[m] PROVE x \in eval[m]
        <5>1. PICK j \in DOMAIN c.kids[p] : x \in eval[c.kids[p][j]]
          BY <4>1, <4>2
        <5>2. j = i
          BY <2>6, <2>7, <4>2, <5>1
        <5> QED
          BY <2>2, <5>1, <5>2
      <4>3. ASSUME NEW x \in eval[m] PROVE x \in eval[p] \cap below[m]
        BY <2>2, <2>7, <4>1, <4>3
      <4> QED
        BY <3>1, <4>2, <4>3
    <3> QED
      BY <2>3, <3>2, <3>3
  <2> QED
    BY <2>4, <2>9, <2>10
<1>2. Part(c.root)
  BY <1>0
<1> HIDE DEF Part
<1>3. T = {}
  <2> SUFFICES ASSUME T # {} PROVE FALSE
    OBVIOUS
  <2>1. T \in SUBSET Nat
    BY TreeFacts
  <2>2. PICK m \in T : \A p \in T : m <= p
    BY <2>1, LeastNumber
  <2>3. m \in Nodes(c) /\ m \in Nat /\ ~Part(m) /\ c.op[m] \in {"all", "any"} /\ m # c.root
    BY <1>2, <2>1
  <2>4. ASSUME NEW p \in Nodes(c), p < m, c.op[p] \in {"all", "any"} PROVE Part(p)
    <3>1. p \in Nat
      BY TreeFacts
    <3> QED
      BY <2>2, <2>3, <2>4, <3>1
  <2> QED
    BY <1>1, <2>3, <2>4
<1> QED
  BY <1>3 DEF Part

(* What the evaluation of a condition yields satisfies it.                  *)
TimesOf(seen, keys) == [k \in keys |-> seen[k].at]

LEMMA EvaluatedSatisfies ==
  ASSUME NEW c, IsCondition(c), NEW bound \in Nat, NEW seen, Timed(seen, bound)
  PROVE  /\ Evaluate(c, seen) \subseteq DOMAIN seen
         /\ Evaluate(c, seen) # {} => Satisfies(c, TimesOf(seen, Evaluate(c, seen)))
<1> DEFINE eval == Evaluation(c, seen)
           whole == Evaluate(c, seen)
           at == TimesOf(seen, whole)
<1>1. whole = eval[c.root] /\ c.root \in Nodes(c)
  BY TreeFacts DEF Evaluate
<1>2. whole \subseteq DOMAIN seen
  BY <1>1, EvaluationLaw
<1>3. whole # {} => whole \in Combinations(c)[c.root]
  BY <1>1, EvaluatedCombination
<1>4. ASSUME NEW n \in Nodes(c), c.op[n] = "all", c.within[n] > 0,
             NEW j \in KeysBelow(c)[n] \cap whole, NEW k \in KeysBelow(c)[n] \cap whole
      PROVE  seen[j].at - seen[k].at <= c.within[n]
  <2>1. whole \cap KeysBelow(c)[n] = eval[n]
    BY <1>4, EvaluatedPart
  <2>2. Yields(c, seen, eval, n)
    BY EvaluatedNode
  <2> HIDE DEF eval
  <2>3. eval[n] # {} /\ j \in eval[n] /\ k \in eval[n]
    BY <2>1
  <2>4. Fits(c.within[n], seen, eval[n])
    BY <1>4, <2>2, <2>3 DEF Yields
  <2>5. c.within[n] # 0
    BY <1>4, TreeFacts
  <2> QED
    BY <2>3, <2>4, <2>5 DEF Fits
<1> HIDE DEF whole, eval
<1>5. DOMAIN at = whole /\ \A k \in whole : at[k] = seen[k].at
  BY DEF TimesOf
<1> HIDE DEF at
<1>6. whole # {} => Satisfies(c, at)
  BY <1>3, <1>4, <1>5 DEF Satisfies
<1> QED
  BY <1>2, <1>6 DEF whole, at

(* Without an "any" below it a node has one combination, of all its keys.   *)
LEMMA OneCombination ==
  ASSUME NEW c, IsCondition(c)
  PROVE  \A n \in Nodes(c) :
           (\A m \in Nodes(c) : c.op[m] = "any" => ~(m >= n /\ KeysBelow(c)[m] \subseteq KeysBelow(c)[n]))
             => \A keys \in Combinations(c)[n] : keys = KeysBelow(c)[n]
<1> DEFINE comb == Combinations(c)
           below == KeysBelow(c)
           Plain(n) == \A m \in Nodes(c) : c.op[m] = "any" => ~(m >= n /\ below[m] \subseteq below[n])
           Good(n) == Plain(n) => \A keys \in comb[n] : keys = below[n]
           T == {n \in Nodes(c) : ~Good(n)}
<1>1. ASSUME NEW n \in Nodes(c), \A i \in DOMAIN c.kids[n] : Good(c.kids[n][i]) PROVE Good(n)
  <2> SUFFICES ASSUME Plain(n), NEW keys \in comb[n] PROVE keys = below[n]
    OBVIOUS
  <2>1. \A x : x \in below[n] <=>
           \/ Contributes(c, n, x)
           \/ c.op[n] \in {"all", "any"} /\ \E i \in DOMAIN c.kids[n] : x \in below[c.kids[n][i]]
    BY KeysBelowNode
  <2>2. c.op[n] \in {"leaf", "not", "all"}
    <3>1. n \in Nat /\ n >= n /\ c.op[n] \in {"leaf", "not", "all", "any"}
      BY TreeFacts
    <3>2. c.op[n] # "any"
      BY <3>1
    <3> QED
      BY <3>1, <3>2
  <2>3. CASE c.op[n] \in {"leaf", "not"}
    <3>1. PICK x : Contributes(c, n, x) /\ keys = {x}
      BY <2>3, CombinationsAt
    <3>2. \A y : Contributes(c, n, y) => y = x
      BY <3>1 DEF Contributes
    <3> HIDE DEF below
    <3> QED
      BY <2>1, <2>3, <3>1, <3>2
  <2>4. CASE c.op[n] = "all"
    <3> DEFINE kids == DOMAIN c.kids[n]
    <3>1. \E pick : /\ pick = [i \in kids |-> pick[i]]
                    /\ \A i \in kids : pick[i] \in comb[c.kids[n][i]]
                    /\ keys = UNION {pick[i] : i \in kids}
      BY <2>4, CombinationsAt
    <3>2. PICK pick : /\ \A i \in kids : pick[i] \in comb[c.kids[n][i]]
                      /\ keys = UNION {pick[i] : i \in kids}
      BY <3>1
    <3>3. ASSUME NEW i \in kids PROVE Plain(c.kids[n][i])
      <4>1. c.kids[n][i] \in Nodes(c) /\ c.kids[n][i] > n /\ c.kids[n][i] \in Nat /\ n \in Nat
        BY TreeFacts
      <4>2. below[c.kids[n][i]] \subseteq below[n]
        BY <2>1, <2>4
      <4> HIDE DEF below
      <4>3. ASSUME NEW m \in Nodes(c), c.op[m] = "any", m >= c.kids[n][i],
                   below[m] \subseteq below[c.kids[n][i]]
            PROVE  FALSE
        <5>1. m \in Nat /\ m >= n
          BY <4>1, <4>3, TreeFacts
        <5>2. below[m] \subseteq below[n]
          BY <4>2, <4>3
        <5> QED
          BY <4>3, <5>1, <5>2
      <4> QED
        BY <4>3
    <3> HIDE DEF Plain, below, comb
    <3>4. \A i \in kids : pick[i] = below[c.kids[n][i]]
      BY <1>1, <3>2, <3>3
    <3>5. \A x : ~Contributes(c, n, x)
      BY <2>4 DEF Contributes
    <3> QED
      BY <2>1, <2>4, <3>2, <3>4, <3>5
  <2> QED
    BY <2>2, <2>3, <2>4
<1> HIDE DEF Good
<1>2. T = {}
  <2> SUFFICES ASSUME T # {} PROVE FALSE
    OBVIOUS
  <2>1. T \in SUBSET (1 .. Len(c.op)) /\ Len(c.op) \in Nat
    BY TreeFacts
  <2>2. PICK n \in T : \A m \in T : m <= n
    BY <2>1, LastNode
  <2>3. n \in Nodes(c) /\ n \in Nat /\ ~Good(n)
    BY <2>1
  <2>4. ASSUME NEW i \in DOMAIN c.kids[n] PROVE Good(c.kids[n][i])
    <3>1. c.kids[n][i] \in Nodes(c) /\ c.kids[n][i] > n /\ c.kids[n][i] \in Nat
      BY <2>3, TreeFacts
    <3> QED
      BY <2>2, <2>3, <3>1
  <2> QED
    BY <1>1, <2>3, <2>4
<1>3. \A n \in Nodes(c) : Good(n)
  BY <1>2
<1> QED
  BY <1>3 DEF Good

(* If some of the events seen satisfy a condition, its evaluation yields    *)
(* something.                                                               *)
LEMMA SatisfiedEvaluates ==
  ASSUME NEW c, IsCondition(c), NEW bound \in Nat, NEW seen, Timed(seen, bound),
         ~ChoiceInWindow(c), NEW all \in SUBSET DOMAIN seen, Satisfies(c, TimesOf(seen, all))
  PROVE  Evaluate(c, seen) # {}
<1> DEFINE eval == Evaluation(c, seen)
           comb == Combinations(c)
           below == KeysBelow(c)
           Good(n) == \A keys \in SUBSET all : keys \in comb[n] => eval[n] # {}
           T == {n \in Nodes(c) : ~Good(n)}
<1>0. /\ all \in comb[c.root]
      /\ \A n \in Nodes(c) : c.op[n] = "all" /\ c.within[n] > 0 =>
           \A j, k \in below[n] \cap all : seen[j].at - seen[k].at <= c.within[n]
  <2>1. DOMAIN TimesOf(seen, all) = all /\ \A k \in all : TimesOf(seen, all)[k] = seen[k].at
    BY DEF TimesOf
  <2> HIDE DEF comb, below
  <2> QED
    BY <2>1 DEF Satisfies, comb, below
<1>1. ASSUME NEW n \in Nodes(c), \A i \in DOMAIN c.kids[n] : Good(c.kids[n][i]) PROVE Good(n)
  <2> SUFFICES ASSUME NEW keys \in SUBSET all, keys \in comb[n] PROVE eval[n] # {}
    OBVIOUS
  <2> DEFINE kids == DOMAIN c.kids[n]
  <2>1. Yields(c, seen, eval, n)
    BY EvaluatedNode
  <2>2. c.op[n] \in {"leaf", "not", "all", "any"} /\ c.within[n] \in Nat /\ n \in Nat
    BY TreeFacts
  <2>3. \A m \in Nodes(c) : eval[m] \subseteq below[m]
    BY EvaluatedCombination
  <2> HIDE DEF eval
  <2>4. CASE c.op[n] \in {"leaf", "not"}
    <3>1. PICK x : Contributes(c, n, x) /\ keys = {x}
      BY <2>4, CombinationsAt
    <3>2. x \in DOMAIN seen
      BY <3>1
    <3> QED
      BY <2>1, <3>1, <3>2 DEF Yields
  <2>5. CASE c.op[n] = "any"
    <3>1. PICK i \in kids : keys \in comb[c.kids[n][i]]
      BY <2>5, CombinationsAt
    <3>2. eval[c.kids[n][i]] # {}
      BY <1>1, <3>1
    <3> QED
      BY <2>1, <2>5, <3>2 DEF Yields
  <2>6. CASE c.op[n] = "all"
    <3> DEFINE both == UNION {eval[c.kids[n][i]] : i \in kids}
    <3>1. \E pick : /\ pick = [i \in kids |-> pick[i]]
                    /\ \A i \in kids : pick[i] \in comb[c.kids[n][i]]
                    /\ keys = UNION {pick[i] : i \in kids}
      BY <2>6, CombinationsAt
    <3>2. PICK pick : /\ \A i \in kids : pick[i] \in comb[c.kids[n][i]]
                      /\ keys = UNION {pick[i] : i \in kids}
      BY <3>1
    <3>3. ASSUME NEW i \in kids PROVE eval[c.kids[n][i]] # {}
      <4>1. pick[i] \in SUBSET all /\ pick[i] \in comb[c.kids[n][i]]
        BY <3>2
      <4> QED
        BY <1>1, <4>1
    <3>4. Fits(c.within[n], seen, both)
      <4>1. CASE c.within[n] = 0
        BY <4>1 DEF Fits
      <4>2. CASE c.within[n] > 0
        <5>1. ASSUME NEW m \in Nodes(c), c.op[m] = "any", m >= n, below[m] \subseteq below[n]
              PROVE  FALSE
          <6>1. m # n /\ m \in Nat
            BY <2>6, <5>1, TreeFacts
          <6>2. m > n
            BY <2>2, <5>1, <6>1
          <6> QED
            BY <2>6, <4>2, <5>1, <6>2 DEF ChoiceInWindow
        <5>2. keys = below[n]
          BY <5>1, OneCombination
        <5>3. both \subseteq below[n]
          <6>1. ASSUME NEW i \in kids PROVE eval[c.kids[n][i]] \subseteq below[n]
            <7>1. c.kids[n][i] \in Nodes(c)
              BY TreeFacts
            <7>2. below[c.kids[n][i]] \subseteq below[n]
              BY <2>6, KeysBelowNode
            <7> QED
              BY <2>3, <7>1, <7>2
          <6> QED
            BY <6>1
        <5>4. both \subseteq below[n] \cap all
          BY <5>2, <5>3
        <5> HIDE DEF both, below
        <5> QED
          BY <1>0, <2>6, <4>2, <5>4 DEF Fits
      <4> QED
        BY <2>2, <4>1, <4>2
    <3> HIDE DEF both
    <3> QED
      BY <2>1, <2>6, <3>3, <3>4 DEF Yields, both
  <2> QED
    BY <2>2, <2>4, <2>5, <2>6
<1> HIDE DEF Good
<1>2. T = {}
  <2> SUFFICES ASSUME T # {} PROVE FALSE
    OBVIOUS
  <2>1. T \in SUBSET (1 .. Len(c.op)) /\ Len(c.op) \in Nat
    BY TreeFacts
  <2>2. PICK n \in T : \A m \in T : m <= n
    BY <2>1, LastNode
  <2>3. n \in Nodes(c) /\ n \in Nat /\ ~Good(n)
    BY <2>1
  <2>4. ASSUME NEW i \in DOMAIN c.kids[n] PROVE Good(c.kids[n][i])
    <3>1. c.kids[n][i] \in Nodes(c) /\ c.kids[n][i] > n /\ c.kids[n][i] \in Nat
      BY <2>3, TreeFacts
    <3> QED
      BY <2>2, <2>3, <3>1
  <2> QED
    BY <1>1, <2>3, <2>4
<1>3. Good(c.root)
  BY <1>2, TreeFacts
<1> QED
  BY <1>0, <1>3 DEF Good, Evaluate

(***************************************************************************)
(* What one hold of the lock does to the state of one rule.                 *)
(***************************************************************************)

MissingKey(c, n) == Missing(c.key[Watched(c, n)])
HitKeys(c, s) == {c.key[n] : n \in MatchingLeaves(c, s)}
Positives(c, s) == {c.key[n] : n \in MatchingLeaves(c, s) \cap PositiveLeaves(c)}

(* The keys are taken out of what is there, and nothing else is.            *)
Takes(noted, keys, result) ==
  /\ keys \subseteq DOMAIN noted
  /\ DOMAIN result.state.seen = DOMAIN noted \ keys
  /\ \A k \in DOMAIN noted \ keys : result.state.seen[k] = noted[k]
  /\ result.taken = {[key |-> k, at |-> noted[k].at, of |-> noted[k].of] : k \in keys}

LEMMA OwnAbsence ==
  ASSUME NEW c, IsCondition(c)
  PROVE  /\ \A n \in AbsenceNodes(c) :
              n \in Nodes(c) /\ c.within[n] \in Nat /\ c.key[Watched(c, n)] \in LeafKeys(c)
         /\ \A m, n \in AbsenceNodes(c) :
              c.key[Watched(c, m)] = c.key[Watched(c, n)] \/ MissingKey(c, m) = MissingKey(c, n)
                => m = n
<1>1. ASSUME NEW n \in AbsenceNodes(c)
      PROVE  /\ n \in Nodes(c) /\ c.op[n] = "not" /\ c.within[n] \in Nat
             /\ 1 \in DOMAIN c.kids[n] /\ Watched(c, n) \in Nodes(c)
             /\ c.op[Watched(c, n)] = "leaf"
  <2>1. n \in Nodes(c) /\ c.op[n] = "not"
    BY DEF AbsenceNodes
  <2>2. 1 \in DOMAIN c.kids[n] /\ c.op[Watched(c, n)] = "leaf" /\ c.within[n] \in Nat
    BY <2>1, TreeFacts
  <2>3. c.kids[n][1] \in Nodes(c)
    BY <2>1, <2>2, TreeFacts
  <2> QED
    BY <2>1, <2>2, <2>3 DEF Watched
<1>2. ASSUME NEW m \in AbsenceNodes(c), NEW n \in AbsenceNodes(c),
             c.key[Watched(c, m)] = c.key[Watched(c, n)]
      PROVE  m = n
  <2>1. Watched(c, m) = Watched(c, n)
    BY <1>1, <1>2 DEF IsCondition
  <2>2. IsTree(c)
    BY DEF IsCondition
  <2>3. \A i \in DOMAIN c.kids[m], j \in DOMAIN c.kids[n] : c.kids[m][i] = c.kids[n][j] => m = n
    BY <1>1, <2>2 DEF IsTree
  <2> QED
    BY <1>1, <2>1, <2>3 DEF Watched
<1>3. \A m, n \in AbsenceNodes(c) :
        MissingKey(c, m) = MissingKey(c, n) => c.key[Watched(c, m)] = c.key[Watched(c, n)]
  BY DEF MissingKey, Missing
<1> QED
  BY <1>1, <1>2, <1>3 DEF LeafKeys

LEMMA TakeFacts ==
  ASSUME NEW c, IsCondition(c), NEW bound \in Nat, NEW noted, Timed(noted, bound), NEW due
  PROVE  /\ Takes(noted, Evaluate(c, noted), TakeMatch(c, noted, due))
         /\ TakeMatch(c, noted, due).state =
              [seen |-> TakeMatch(c, noted, due).state.seen, due |-> due]
<1> DEFINE keys == Evaluate(c, noted)
<1>1. keys \subseteq DOMAIN noted
  BY EvaluatedSatisfies
<1> HIDE DEF keys
<1>2. TakeMatch(c, noted, due) =
        [state |-> [seen |-> Without(noted, keys), due |-> due],
         taken |-> {[key |-> k, at |-> noted[k].at, of |-> noted[k].of] : k \in keys}]
  BY DEF TakeMatch, keys
<1>3. /\ DOMAIN Without(noted, keys) = DOMAIN noted \ keys
      /\ \A k \in DOMAIN noted \ keys : Without(noted, keys)[k] = noted[k]
  BY <1>1 DEF Without, Restrict
<1>4. Takes(noted, keys, TakeMatch(c, noted, due))
  BY <1>1, <1>2, <1>3 DEF Takes
<1> QED
  BY <1>2, <1>4 DEF keys

(* Nothing is taken.                                                        *)
LEMMA TakesNothing ==
  ASSUME NEW noted, NEW due
  PROVE  Takes(noted, {}, [state |-> [seen |-> noted, due |-> due], taken |-> {}])
BY DEF Takes

(* match_and_take: what it notes, and what becomes of the deadlines.        *)
Noting(c, s) == {Hit(p) : p \in Positives(c, s)}
Rearms(c, s) == Rearmed(c, HitKeys(c, s))
Notes(c, seen, s, at, of, noted) ==
  \A k \in DOMAIN noted :
    IF k \in Noting(c, s)
      THEN noted[k] = [at |-> at, of |-> of]
      ELSE /\ k \in DOMAIN seen /\ noted[k] = seen[k]
           /\ \A n \in Rearms(c, s) : k # MissingKey(c, n)
WaitsAgain(c, s, at, due, next) ==
  /\ DOMAIN next = {MissingKey(c, n) : n \in Rearms(c, s)} \cup DOMAIN due
  /\ \A n \in Rearms(c, s) : next[MissingKey(c, n)] = [at |-> at + c.within[n], emitted |-> FALSE]
  /\ \A k \in DOMAIN due : (\A n \in Rearms(c, s) : k # MissingKey(c, n)) => next[k] = due[k]

MatchedSo(c, state, s, at, of, bound, result) == \E noted, keys :
  /\ Takes(noted, keys, result) /\ Timed(noted, bound)
  /\ Notes(c, state.seen, s, at, of, noted)
  /\ WaitsAgain(c, s, at, state.due, result.state.due)
  /\ IF Noting(c, s) = {} THEN keys = {} ELSE keys = Evaluate(c, noted)

LEMMA MatchedParts ==
  ASSUME NEW c, IsCondition(c), NEW bound \in Nat, NEW state, Timed(state.seen, bound),
         NEW s, NEW at \in 0 .. bound, NEW of
  PROVE  MatchedSo(c, state, s, at, of, bound, Matched(c, state, s, at, of))
<1> DEFINE result == Matched(c, state, s, at, of)
           rearmed == Rearms(c, s)
           positive == Positives(c, s)
           deadline(k) ==
             [at |-> at + c.within[CHOOSE n \in rearmed : MissingKey(c, n) = k], emitted |-> FALSE]
           fresh == [k \in {MissingKey(c, n) : n \in rearmed} |-> deadline(k)]
           due == Over(fresh, state.due)
           kept == Without(state.seen, DOMAIN fresh)
           hits == [k \in {Hit(p) : p \in positive} |-> [at |-> at, of |-> of]]
           noted == Over(hits, kept)
<1>1. result = IF positive = {}
                 THEN [state |-> [seen |-> kept, due |-> due], taken |-> {}]
                 ELSE TakeMatch(c, noted, due)
  BY Zenon DEF Matched, Rearms, HitKeys, Positives, MissingKey
<1>2. rearmed \subseteq AbsenceNodes(c)
  BY DEF Rearms, Rearmed
<1>3. /\ DOMAIN kept = DOMAIN state.seen \ {MissingKey(c, n) : n \in rearmed}
      /\ \A k \in DOMAIN kept : kept[k] = state.seen[k]
  BY DEF Without, Restrict
<1>4. /\ DOMAIN noted = Noting(c, s) \cup DOMAIN kept
      /\ \A k \in DOMAIN noted :
           noted[k] = IF k \in Noting(c, s) THEN [at |-> at, of |-> of] ELSE kept[k]
  <2> HIDE DEF kept
  <2> QED
    BY DEF Over, Noting
<1>5. WaitsAgain(c, s, at, state.due, due)
  <2>1. /\ DOMAIN due = {MissingKey(c, n) : n \in rearmed} \cup DOMAIN state.due
        /\ \A k \in DOMAIN due :
             due[k] = IF k \in {MissingKey(c, n) : n \in rearmed} THEN deadline(k) ELSE state.due[k]
    <3> HIDE DEF deadline
    <3> QED
      BY DEF Over
  <2>2. ASSUME NEW n \in rearmed
        PROVE  deadline(MissingKey(c, n)) = [at |-> at + c.within[n], emitted |-> FALSE]
    <3>1. (CHOOSE m \in rearmed : MissingKey(c, m) = MissingKey(c, n)) = n
      <4>1. \A m \in rearmed : MissingKey(c, m) = MissingKey(c, n) => m = n
        BY <1>2, OwnAbsence
      <4> QED
        BY <4>1
    <3> QED
      BY <3>1
  <2> HIDE DEF due, deadline
  <2> QED
    BY <2>1, <2>2 DEF WaitsAgain
<1> HIDE DEF due, kept, noted, rearmed, result
<1>6. Timed(kept, bound) /\ Timed(noted, bound)
  BY <1>3, <1>4 DEF Timed
<1>7. CASE positive = {}
  <2>1. result = [state |-> [seen |-> kept, due |-> due], taken |-> {}]
    BY <1>1, <1>7
  <2>2. Noting(c, s) = {}
    BY <1>7 DEF Noting
  <2>3. Takes(kept, {}, result) /\ result.state = [seen |-> kept, due |-> due]
    BY <2>1, TakesNothing
  <2>4. Notes(c, state.seen, s, at, of, kept)
    BY <1>3, <2>2 DEF Notes, rearmed
  <2> QED
    BY <1>5, <1>6, <2>2, <2>3, <2>4 DEF result, MatchedSo
<1>8. CASE positive # {}
  <2>1. result = TakeMatch(c, noted, due)
    BY <1>1, <1>8
  <2>2. Noting(c, s) # {}
    BY <1>8 DEF Noting
  <2>3. /\ Takes(noted, Evaluate(c, noted), result)
        /\ result.state = [seen |-> result.state.seen, due |-> due]
    BY <1>6, <2>1, TakeFacts
  <2>4. Notes(c, state.seen, s, at, of, noted)
    BY <1>3, <1>4 DEF Notes, rearmed
  <2>5. result.state.due = due
    BY <2>3
  <2> QED
    BY <1>5, <1>6, <2>2, <2>3, <2>4, <2>5 DEF result, MatchedSo
<1> QED
  BY <1>7, <1>8

(* poll_absences: the waits that are over, with their deadlines.            *)
Waits(c) == {MissingKey(c, n) : n \in AbsenceNodes(c)}
Deadline(c, n, at, due) ==
  IF MissingKey(c, n) \in DOMAIN due THEN due[MissingKey(c, n)]
  ELSE [at |-> at + c.within[n], emitted |-> FALSE]
WaitOver(c, n, at, due) ==
  ~Deadline(c, n, at, due).emitted /\ at >= Deadline(c, n, at, due).at
WaitsOver(c, at, due) ==
  {MissingKey(c, n) : n \in {n \in AbsenceNodes(c) : WaitOver(c, n, at, due)}}
NotesOver(c, seen, at, due, noted) ==
  \A k \in DOMAIN noted :
    IF k \in WaitsOver(c, at, due)
      THEN noted[k] = [at |-> at, of |-> 0]
      ELSE k \in DOMAIN seen /\ noted[k] = seen[k]
WaitsOn(c, at, due, next) ==
  /\ DOMAIN next = Waits(c) \cup DOMAIN due
  /\ \A n \in AbsenceNodes(c) :
       next[MissingKey(c, n)] =
         IF WaitOver(c, n, at, due)
           THEN [at |-> Deadline(c, n, at, due).at, emitted |-> TRUE]
           ELSE Deadline(c, n, at, due)

PolledSo(c, state, at, bound, result) == \E noted, keys :
  /\ Takes(noted, keys, result) /\ Timed(noted, bound)
  /\ NotesOver(c, state.seen, at, state.due, noted)
  /\ WaitsOn(c, at, state.due, result.state.due)
  /\ IF WaitsOver(c, at, state.due) = {} THEN keys = {} ELSE keys = Evaluate(c, noted)

LEMMA PolledParts ==
  ASSUME NEW c, IsCondition(c), NEW bound \in Nat, NEW state, Timed(state.seen, bound),
         NEW at \in 0 .. bound
  PROVE  PolledSo(c, state, at, bound, Polled(c, state, at))
<1> DEFINE result == Polled(c, state, at)
           keys == Waits(c)
           begun(k) ==
             [at |-> at + c.within[CHOOSE n \in AbsenceNodes(c) : MissingKey(c, n) = k],
              emitted |-> FALSE]
           started == [k \in keys |-> begun(k)]
           due == Over(state.due, started)
           over == {k \in keys : ~due[k].emitted /\ at >= due[k].at}
           news == [k \in over |-> [at |-> at, of |-> 0]]
           noted == Over(news, state.seen)
           told == [k \in over |-> [at |-> due[k].at, emitted |-> TRUE]]
           next == Over(told, due)
<1>1. result = IF over = {}
                 THEN [state |-> [seen |-> state.seen, due |-> due], taken |-> {}]
                 ELSE TakeMatch(c, noted, next)
  BY Zenon DEF Polled, Waits, MissingKey
<1>2. /\ DOMAIN due = keys \cup DOMAIN state.due
      /\ \A k \in DOMAIN due : due[k] = IF k \in DOMAIN state.due THEN state.due[k] ELSE begun(k)
  <2> HIDE DEF begun, keys
  <2> QED
    BY DEF Over
<1>3. ASSUME NEW n \in AbsenceNodes(c) PROVE due[MissingKey(c, n)] = Deadline(c, n, at, state.due)
  <2>1. begun(MissingKey(c, n)) = [at |-> at + c.within[n], emitted |-> FALSE]
    <3>1. (CHOOSE m \in AbsenceNodes(c) : MissingKey(c, m) = MissingKey(c, n)) = n
      <4>1. \A m \in AbsenceNodes(c) : MissingKey(c, m) = MissingKey(c, n) => m = n
        BY OwnAbsence
      <4> QED
        BY <4>1
    <3> QED
      BY <3>1
  <2>2. MissingKey(c, n) \in keys
    BY DEF Waits
  <2> HIDE DEF due, begun, keys
  <2> QED
    BY <1>2, <2>1, <2>2 DEF Deadline
<1>4. over = WaitsOver(c, at, state.due)
  <2> HIDE DEF due
  <2> QED
    BY <1>3 DEF WaitsOver, WaitOver, Waits
<1>5. /\ DOMAIN noted = over \cup DOMAIN state.seen
      /\ \A k \in DOMAIN noted :
           noted[k] = IF k \in over THEN [at |-> at, of |-> 0] ELSE state.seen[k]
  <2> HIDE DEF over
  <2> QED
    BY DEF Over
<1>6. /\ DOMAIN next = over \cup DOMAIN due
      /\ \A k \in DOMAIN next :
           next[k] = IF k \in over THEN [at |-> due[k].at, emitted |-> TRUE] ELSE due[k]
  <2> HIDE DEF over, due
  <2> QED
    BY DEF Over
<1>7. over \subseteq keys
  OBVIOUS
<1> HIDE DEF over, due, next, noted, result
<1>8. \A n \in AbsenceNodes(c) : MissingKey(c, n) \in over <=> WaitOver(c, n, at, state.due)
  BY <1>4, OwnAbsence DEF WaitsOver
<1>9. WaitsOn(c, at, state.due, next)
  <2>1. ASSUME NEW n \in AbsenceNodes(c)
        PROVE  next[MissingKey(c, n)] =
                 IF WaitOver(c, n, at, state.due)
                   THEN [at |-> Deadline(c, n, at, state.due).at, emitted |-> TRUE]
                   ELSE Deadline(c, n, at, state.due)
    <3>1. MissingKey(c, n) \in DOMAIN next
      BY <1>2, <1>6 DEF Waits
    <3> QED
      BY <1>3, <1>6, <1>8, <3>1
  <2> QED
    BY <1>2, <1>6, <1>7, <2>1 DEF WaitsOn
<1>10. Timed(noted, bound)
  BY <1>5 DEF Timed
<1>11. CASE over = {}
  <2>1. result = [state |-> [seen |-> state.seen, due |-> due], taken |-> {}]
    BY <1>1, <1>11
  <2>2. Takes(state.seen, {}, result) /\ result.state = [seen |-> state.seen, due |-> due]
    BY <2>1, TakesNothing
  <2>3. WaitsOn(c, at, state.due, due)
    <3>1. ASSUME NEW n \in AbsenceNodes(c)
          PROVE  due[MissingKey(c, n)] =
                   IF WaitOver(c, n, at, state.due)
                     THEN [at |-> Deadline(c, n, at, state.due).at, emitted |-> TRUE]
                     ELSE Deadline(c, n, at, state.due)
      BY <1>3, <1>8, <1>11
    <3> QED
      BY <1>2, <3>1 DEF WaitsOn
  <2>4. NotesOver(c, state.seen, at, state.due, state.seen)
    BY <1>4, <1>11 DEF NotesOver
  <2>5. result.state.due = due
    BY <2>2
  <2> QED
    BY <1>4, <1>11, <2>2, <2>3, <2>4, <2>5 DEF result, PolledSo
<1>12. CASE over # {}
  <2>1. result = TakeMatch(c, noted, next)
    BY <1>1, <1>12
  <2>2. /\ Takes(noted, Evaluate(c, noted), result)
        /\ result.state = [seen |-> result.state.seen, due |-> next]
    BY <1>10, <2>1, TakeFacts
  <2>3. NotesOver(c, state.seen, at, state.due, noted)
    BY <1>4, <1>5 DEF NotesOver
  <2>4. result.state.due = next
    BY <2>2
  <2> QED
    BY <1>4, <1>9, <1>10, <1>12, <2>2, <2>3, <2>4 DEF result, PolledSo
<1> QED
  BY <1>11, <1>12

(***************************************************************************)
(* What holds for one rule between two holds of the lock: of the events it  *)
(* has seen, the deadlines of its NOTs, what was said of its leaves         *)
(* (heard), and the combinations fired for it.                              *)
(***************************************************************************)

(* An event is kept, or said of a leaf, only when it is recorded.           *)
Dated(seen, said, G, bound, last) ==
  /\ Timed(seen, bound)
  /\ \A k \in DOMAIN seen : seen[k].of \in 0 .. last
  /\ \A k \in DOMAIN said : said[k].at \in 0 .. bound /\ said[k].of \in 0 .. last
  /\ \A g \in G : \A e \in g.events : e.of \in 0 .. last
  /\ \A g \in G : \A k \in DOMAIN g.heard : g.heard[k].of \in 0 .. last
Unused(o, seen, said, G) ==
  /\ \A k \in DOMAIN seen : seen[k].of # o
  /\ \A k \in DOMAIN said : said[k].of # o
  /\ \A g \in G : \A e \in g.events : e.of # o
  /\ \A g \in G : \A k \in DOMAIN g.heard : g.heard[k].of # o

(* An event fired is not kept for the same leaf, nor fired again.           *)
CountsOnce(seen, G) ==
  /\ \A g \in G, k \in DOMAIN seen : seen[k].of # 0 =>
       \A e \in g.events : e.key = k => e.of # seen[k].of
  /\ \A f, g \in G : f # g => \A e \in f.events \cap g.events : e.of = 0

(* The wait of a NOT runs since its leaf was heard; while the absence it    *)
(* noted is kept, or was fired, the wait is over; it is noted once a wait.  *)
FiredFor(g, key) == \E e \in g.events : e.key = key
Silences(leaf, key, within, seen, due, said, G) ==
  /\ key \in DOMAIN due <=> leaf \in DOMAIN said
  /\ key \in DOMAIN due => due[key].at = said[leaf].at + within
  /\ key \in DOMAIN seen => key \in DOMAIN due /\ due[key].emitted /\ seen[key].at >= due[key].at
  /\ \A g \in G : \A e \in g.events : e.key = key =>
       /\ leaf \in DOMAIN g.heard /\ leaf \in DOMAIN said
       /\ e.at >= g.heard[leaf].at + within
  /\ \A g \in G : FiredFor(g, key) /\ g.heard[leaf] = said[leaf] =>
       key \notin DOMAIN seen /\ due[key].emitted
  /\ \A f, g \in G : f # g /\ FiredFor(f, key) /\ FiredFor(g, key) => f.heard[leaf] # g.heard[leaf]

(* The combination of a rule taken out of what was noted.                   *)
Firing(r, result, said) == [rule |-> r, events |-> result.taken, heard |-> said]
Justified(c, f) ==
  Satisfies(c, [k \in {e.key : e \in f.events} |-> (CHOOSE e \in f.events : e.key = k).at])

LEMMA FiringJustified ==
  ASSUME NEW c, IsCondition(c), NEW bound \in Nat, NEW noted, Timed(noted, bound), NEW result,
         Takes(noted, Evaluate(c, noted), result), Evaluate(c, noted) # {}, NEW r, NEW said
  PROVE  Justified(c, Firing(r, result, said))
<1> DEFINE keys == Evaluate(c, noted)
           events == result.taken
           at == [k \in {e.key : e \in events} |-> (CHOOSE e \in events : e.key = k).at]
<1>1. Satisfies(c, TimesOf(noted, keys))
  BY EvaluatedSatisfies
<1>2. events = {[key |-> k, at |-> noted[k].at, of |-> noted[k].of] : k \in keys}
  BY DEF Takes
<1> HIDE DEF keys, events
<1>3. {e.key : e \in events} = keys
  <2>1. \A e \in events : e.key \in keys
    BY <1>2
  <2>2. ASSUME NEW k \in keys PROVE \E e \in events : e.key = k
    <3>1. [key |-> k, at |-> noted[k].at, of |-> noted[k].of] \in events
      BY <1>2
    <3> QED
      BY <3>1
  <2> QED
    BY <2>1, <2>2
<1>4. ASSUME NEW k \in keys PROVE (CHOOSE e \in events : e.key = k).at = noted[k].at
  <2> DEFINE it == [key |-> k, at |-> noted[k].at, of |-> noted[k].of]
  <2>1. it \in events /\ it.key = k /\ it.at = noted[k].at
    BY <1>2
  <2>2. \A e \in events : e.key = k => e = it
    BY <1>2
  <2> HIDE DEF it
  <2>3. (CHOOSE e \in events : e.key = k) = it
    BY <2>1, <2>2
  <2> QED
    BY <2>1, <2>3
<1>5. at = TimesOf(noted, keys)
  BY <1>3, <1>4 DEF TimesOf
<1>6. Satisfies(c, at)
  BY <1>1, <1>5
<1> QED
  BY <1>6 DEF Justified, Firing, events

LEMMA CountNoted ==
  ASSUME NEW c, NEW seen, NEW said, NEW G, CountsOnce(seen, G), NEW noted, NEW s, NEW at, NEW of,
         Notes(c, seen, s, at, of, noted), Unused(of, seen, said, G)
  PROVE  CountsOnce(noted, G)
<1>1. ASSUME NEW g \in G, NEW k \in DOMAIN noted, noted[k].of # 0, NEW e \in g.events, e.key = k
      PROVE  e.of # noted[k].of
  <2>1. CASE k \in Noting(c, s)
    <3>1. noted[k].of = of
      BY <2>1 DEF Notes
    <3> QED
      BY <3>1 DEF Unused
  <2>2. CASE k \notin Noting(c, s)
    <3>1. k \in DOMAIN seen /\ noted[k] = seen[k]
      BY <2>2 DEF Notes
    <3> QED
      BY <1>1, <3>1 DEF CountsOnce
  <2> QED
    BY <2>1, <2>2
<1> QED
  BY <1>1 DEF CountsOnce

LEMMA CountOver ==
  ASSUME NEW c, NEW seen, NEW G, CountsOnce(seen, G), NEW noted, NEW at, NEW due,
         NotesOver(c, seen, at, due, noted)
  PROVE  CountsOnce(noted, G)
<1>1. ASSUME NEW g \in G, NEW k \in DOMAIN noted, noted[k].of # 0, NEW e \in g.events, e.key = k
      PROVE  e.of # noted[k].of
  <2>1. k \notin WaitsOver(c, at, due)
    <3>1. k \in WaitsOver(c, at, due) => noted[k] = [at |-> at, of |-> 0]
      BY DEF NotesOver
    <3> QED
      BY <1>1, <3>1
  <2>2. k \in DOMAIN seen /\ noted[k] = seen[k]
    BY <2>1 DEF NotesOver
  <2> QED
    BY <1>1, <2>2 DEF CountsOnce
<1> QED
  BY <1>1 DEF CountsOnce

LEMMA CountTaken ==
  ASSUME NEW noted, NEW G, CountsOnce(noted, G), NEW keys, NEW result, Takes(noted, keys, result),
         NEW r, NEW said
  PROVE  /\ CountsOnce(result.state.seen, G)
         /\ CountsOnce(result.state.seen, G \cup {Firing(r, result, said)})
<1> DEFINE seen == result.state.seen
           f == Firing(r, result, said)
<1>1. f.events = {[key |-> k, at |-> noted[k].at, of |-> noted[k].of] : k \in keys}
  BY DEF Firing, Takes
<1>2. /\ keys \subseteq DOMAIN noted /\ DOMAIN seen = DOMAIN noted \ keys
      /\ \A k \in DOMAIN seen : seen[k] = noted[k]
  BY DEF Takes
<1> HIDE DEF seen, f
<1>3. CountsOnce(seen, G)
  BY <1>2 DEF CountsOnce
<1>4. ASSUME NEW e \in f.events PROVE e.key \in keys /\ e.of = noted[e.key].of
  BY <1>1
<1>5. ASSUME NEW g \in G, NEW e \in f.events \cap g.events PROVE e.of = 0
  BY <1>2, <1>4 DEF CountsOnce
<1>6. \A k \in DOMAIN seen : \A e \in f.events : e.key # k
  BY <1>2, <1>4
<1>7. CountsOnce(seen, G \cup {f})
  BY <1>3, <1>5, <1>6 DEF CountsOnce
<1> QED
  BY <1>3, <1>7 DEF seen, f

(* What is said of leaves after a hold of the lock.                         *)
Says(said, keys, value, next) ==
  /\ DOMAIN next = keys \cup DOMAIN said
  /\ \A k \in DOMAIN next : next[k] = IF k \in keys THEN value ELSE said[k]
SaysFirst(said, keys, value, next) ==
  /\ DOMAIN next = keys \cup DOMAIN said
  /\ \A k \in DOMAIN next : next[k] = IF k \in DOMAIN said THEN said[k] ELSE value

SilenceOf(c, n, seen, due, said, G) ==
  Silences(c.key[Watched(c, n)], MissingKey(c, n), c.within[n], seen, due, said, G)

LEMMA SilenceNoted ==
  ASSUME NEW c, IsCondition(c), NEW n \in AbsenceNodes(c), NEW seen, NEW due, NEW said, NEW G,
         SilenceOf(c, n, seen, due, said, G), NEW noted, NEW next, NEW tells,
         NEW s, NEW at, NEW of, Unused(of, seen, said, G),
         Notes(c, seen, s, at, of, noted), WaitsAgain(c, s, at, due, next),
         Says(said, HitKeys(c, s), [at |-> at, of |-> of], tells)
  PROVE  SilenceOf(c, n, noted, next, tells, G)
<1> DEFINE leaf == c.key[Watched(c, n)]
           key == MissingKey(c, n)
           within == c.within[n]
<1>1. Silences(leaf, key, within, seen, due, said, G)
  BY DEF SilenceOf
<1>2. n \in Rearms(c, s) <=> leaf \in HitKeys(c, s)
  BY DEF Rearms, Rearmed
<1>3. \A m \in Rearms(c, s) : MissingKey(c, m) = key => m = n
  BY OwnAbsence DEF Rearms, Rearmed
<1>4. key \notin Noting(c, s)
  BY DEF Noting, Hit, MissingKey, Missing
<1>5. /\ DOMAIN tells = HitKeys(c, s) \cup DOMAIN said
      /\ leaf \in DOMAIN tells =>
           tells[leaf] = IF leaf \in HitKeys(c, s) THEN [at |-> at, of |-> of] ELSE said[leaf]
  BY DEF Says
<1>6. key \in DOMAIN noted =>
        key \in DOMAIN seen /\ noted[key] = seen[key] /\ \A m \in Rearms(c, s) : key # MissingKey(c, m)
  BY <1>4 DEF Notes
<1>7. DOMAIN next = {MissingKey(c, m) : m \in Rearms(c, s)} \cup DOMAIN due
  BY DEF WaitsAgain
<1>8. CASE leaf \in HitKeys(c, s)
  <2>1. n \in Rearms(c, s)
    BY <1>2, <1>8
  <2>2. next[key] = [at |-> at + within, emitted |-> FALSE]
    BY <2>1 DEF WaitsAgain
  <2>3. key \in DOMAIN next /\ key \notin DOMAIN noted
    BY <1>6, <1>7, <2>1
  <2>4. leaf \in DOMAIN tells /\ tells[leaf] = [at |-> at, of |-> of]
    BY <1>5, <1>8
  <2>5. next[key].at = tells[leaf].at + within
    BY <2>2, <2>4
  <2>6. \A g \in G : \A e \in g.events : e.key = key =>
          /\ leaf \in DOMAIN g.heard /\ leaf \in DOMAIN tells
          /\ e.at >= g.heard[leaf].at + within
    BY <1>1, <2>4 DEF Silences
  <2>7. ASSUME NEW g \in G, FiredFor(g, key) PROVE g.heard[leaf] # tells[leaf]
    <3>1. leaf \in DOMAIN g.heard
      BY <2>6, <2>7 DEF FiredFor
    <3>2. g.heard[leaf].of # of
      BY <3>1 DEF Unused
    <3> QED
      BY <2>4, <3>2
  <2>8. \A f, g \in G : f # g /\ FiredFor(f, key) /\ FiredFor(g, key) => f.heard[leaf] # g.heard[leaf]
    BY <1>1 DEF Silences
  <2> HIDE DEF leaf, key, within
  <2>9. Silences(leaf, key, within, noted, next, tells, G)
    BY <2>3, <2>4, <2>5, <2>6, <2>7, <2>8 DEF Silences
  <2> QED
    BY <2>9 DEF SilenceOf, leaf, key, within
<1>9. CASE leaf \notin HitKeys(c, s)
  <2>1. \A m \in Rearms(c, s) : key # MissingKey(c, m)
    BY <1>2, <1>3, <1>9
  <2>2. key \in DOMAIN next <=> key \in DOMAIN due
    BY <1>7, <2>1
  <2>3. key \in DOMAIN due => next[key] = due[key]
    BY <2>1 DEF WaitsAgain
  <2>4. leaf \in DOMAIN tells <=> leaf \in DOMAIN said
    BY <1>5, <1>9
  <2>5. leaf \in DOMAIN said => tells[leaf] = said[leaf]
    BY <1>5, <1>9
  <2> HIDE DEF leaf, key, within
  <2>6. \A g \in G : FiredFor(g, key) => leaf \in DOMAIN said
    BY <1>1 DEF Silences, FiredFor
  <2>7. leaf \in DOMAIN said => key \in DOMAIN due
    BY <1>1 DEF Silences
  <2>8. Silences(leaf, key, within, noted, next, tells, G)
    <3>1. \A g \in G : FiredFor(g, key) /\ g.heard[leaf] = tells[leaf] =>
            key \notin DOMAIN noted /\ next[key].emitted
      BY <1>1, <1>6, <2>3, <2>5, <2>6, <2>7 DEF Silences
    <3>2. key \in DOMAIN noted =>
            key \in DOMAIN next /\ next[key].emitted /\ noted[key].at >= next[key].at
      BY <1>1, <1>6, <2>2, <2>3 DEF Silences
    <3>3. \A g \in G : \A e \in g.events : e.key = key =>
            /\ leaf \in DOMAIN g.heard /\ leaf \in DOMAIN tells
            /\ e.at >= g.heard[leaf].at + within
      BY <1>1, <2>4 DEF Silences
    <3>4. key \in DOMAIN next => next[key].at = tells[leaf].at + within
      BY <1>1, <2>2, <2>3, <2>5 DEF Silences
    <3> QED
      BY <1>1, <2>2, <2>4, <3>1, <3>2, <3>3, <3>4 DEF Silences
  <2> QED
    BY <2>8 DEF SilenceOf, leaf, key, within
<1> QED
  BY <1>8, <1>9

LEMMA SilenceOver ==
  ASSUME NEW c, IsCondition(c), NEW n \in AbsenceNodes(c), NEW seen, NEW due, NEW said, NEW G,
         SilenceOf(c, n, seen, due, said, G), NEW noted, NEW next, NEW tells, NEW at,
         NotesOver(c, seen, at, due, noted), WaitsOn(c, at, due, next),
         SaysFirst(said, LeafKeys(c), [at |-> at, of |-> 0], tells)
  PROVE  SilenceOf(c, n, noted, next, tells, G)
<1> DEFINE leaf == c.key[Watched(c, n)]
           key == MissingKey(c, n)
           within == c.within[n]
           line == Deadline(c, n, at, due)
           over == WaitOver(c, n, at, due)
<1>1. Silences(leaf, key, within, seen, due, said, G)
  BY DEF SilenceOf
<1>2. leaf \in LeafKeys(c)
  BY OwnAbsence
<1>3. key \in WaitsOver(c, at, due) <=> over
  BY OwnAbsence DEF WaitsOver
<1>4. leaf \in DOMAIN tells /\ tells[leaf] = IF leaf \in DOMAIN said THEN said[leaf] ELSE [at |-> at, of |-> 0]
  BY <1>2 DEF SaysFirst
<1>5. key \in DOMAIN next /\ next[key] = IF over THEN [at |-> line.at, emitted |-> TRUE] ELSE line
  BY DEF WaitsOn, Waits
<1>6. line = IF key \in DOMAIN due THEN due[key] ELSE [at |-> at + within, emitted |-> FALSE]
  BY DEF Deadline
<1>7. over <=> ~line.emitted /\ at >= line.at
  BY DEF WaitOver
<1>8. key \in DOMAIN noted => IF over THEN noted[key] = [at |-> at, of |-> 0]
                              ELSE key \in DOMAIN seen /\ noted[key] = seen[key]
  BY <1>3 DEF NotesOver
<1> HIDE DEF leaf, key, within, line, over
<1>9. next[key].at = tells[leaf].at + within
  <2>1. next[key].at = line.at
    BY <1>5
  <2>2. CASE key \in DOMAIN due
    BY <1>1, <1>4, <1>6, <2>1, <2>2 DEF Silences
  <2>3. CASE key \notin DOMAIN due
    <3>1. leaf \notin DOMAIN said
      BY <1>1, <2>3 DEF Silences
    <3> QED
      BY <1>4, <1>6, <2>1, <2>3, <3>1
  <2> QED
    BY <2>2, <2>3
<1>10. ASSUME key \in DOMAIN noted PROVE next[key].emitted /\ noted[key].at >= next[key].at
  <2>1. CASE over
    <3>1. noted[key].at = at /\ next[key].at = line.at /\ next[key].emitted = TRUE
      BY <1>5, <1>8, <1>10, <2>1
    <3>2. at >= line.at
      BY <1>7, <2>1
    <3> QED
      BY <3>1, <3>2
  <2>2. CASE ~over
    <3>1. key \in DOMAIN seen /\ noted[key] = seen[key]
      BY <1>8, <1>10, <2>2
    <3>2. key \in DOMAIN due /\ due[key].emitted /\ seen[key].at >= due[key].at
      BY <1>1, <3>1 DEF Silences
    <3>3. next[key] = due[key]
      BY <1>5, <1>6, <2>2, <3>2
    <3> QED
      BY <3>1, <3>2, <3>3
  <2> QED
    BY <2>1, <2>2
<1>11. ASSUME NEW g \in G, FiredFor(g, key), g.heard[leaf] = tells[leaf]
       PROVE  key \notin DOMAIN noted /\ next[key].emitted
  <2>1. leaf \in DOMAIN said
    BY <1>1, <1>11 DEF Silences, FiredFor
  <2>2. g.heard[leaf] = said[leaf] /\ key \in DOMAIN due
    BY <1>1, <1>4, <1>11, <2>1 DEF Silences
  <2>3. key \notin DOMAIN seen /\ due[key].emitted
    BY <1>1, <1>11, <2>2 DEF Silences
  <2>4. line = due[key]
    BY <1>6, <2>2
  <2>5. ~over
    BY <1>7, <2>3, <2>4
  <2> QED
    BY <1>5, <1>8, <2>3, <2>4, <2>5
<1>12. \A g \in G : \A e \in g.events : e.key = key =>
         /\ leaf \in DOMAIN g.heard /\ leaf \in DOMAIN tells
         /\ e.at >= g.heard[leaf].at + within
  BY <1>1, <1>4 DEF Silences
<1>13. \A f, g \in G : f # g /\ FiredFor(f, key) /\ FiredFor(g, key) => f.heard[leaf] # g.heard[leaf]
  BY <1>1 DEF Silences
<1>14. Silences(leaf, key, within, noted, next, tells, G)
  BY <1>4, <1>5, <1>9, <1>10, <1>11, <1>12, <1>13 DEF Silences
<1> QED
  BY <1>14 DEF SilenceOf, leaf, key, within

LEMMA SilenceTaken ==
  ASSUME NEW leaf, NEW key, NEW within, NEW noted, NEW due, NEW said, NEW G,
         Silences(leaf, key, within, noted, due, said, G), NEW keys, NEW result,
         Takes(noted, keys, result), NEW r
  PROVE  /\ Silences(leaf, key, within, result.state.seen, due, said, G)
         /\ Silences(leaf, key, within, result.state.seen, due, said, G \cup {Firing(r, result, said)})
<1> DEFINE seen == result.state.seen
           f == Firing(r, result, said)
<1>1. f.events = {[key |-> k, at |-> noted[k].at, of |-> noted[k].of] : k \in keys} /\ f.heard = said
  BY DEF Firing, Takes
<1>2. /\ keys \subseteq DOMAIN noted /\ DOMAIN seen = DOMAIN noted \ keys
      /\ \A k \in DOMAIN seen : seen[k] = noted[k]
  BY DEF Takes
<1> HIDE DEF seen, f
<1>3. Silences(leaf, key, within, seen, due, said, G)
  BY <1>2 DEF Silences
<1>4. \A e \in f.events : e.key \in keys /\ e.at = noted[e.key].at
  BY <1>1
<1>5. FiredFor(f, key) => key \in keys /\ key \in DOMAIN noted /\ key \notin DOMAIN seen
  BY <1>2, <1>4 DEF FiredFor
<1>6. FiredFor(f, key) => key \in DOMAIN due /\ due[key].emitted /\ leaf \in DOMAIN said
  BY <1>5 DEF Silences
<1>7. ASSUME NEW e \in f.events, e.key = key
      PROVE  /\ leaf \in DOMAIN f.heard /\ leaf \in DOMAIN said
             /\ e.at >= f.heard[leaf].at + within
  <2>1. FiredFor(f, key)
    BY <1>7 DEF FiredFor
  <2>2. e.at = noted[key].at
    BY <1>4, <1>7
  <2>3. noted[key].at >= due[key].at /\ due[key].at = said[leaf].at + within
    BY <1>5, <1>6, <2>1 DEF Silences
  <2> QED
    BY <1>1, <1>6, <2>1, <2>2, <2>3
<1>8. ASSUME NEW g \in G, FiredFor(f, key), FiredFor(g, key) PROVE f.heard[leaf] # g.heard[leaf]
  <2>1. key \in DOMAIN noted
    BY <1>5, <1>8
  <2>2. g.heard[leaf] # said[leaf]
    BY <1>8, <2>1 DEF Silences
  <2> QED
    BY <1>1, <2>2
<1>9. Silences(leaf, key, within, seen, due, said, G \cup {f})
  <2>1. \A g \in G \cup {f} : \A e \in g.events : e.key = key =>
          /\ leaf \in DOMAIN g.heard /\ leaf \in DOMAIN said
          /\ e.at >= g.heard[leaf].at + within
    BY <1>3, <1>7 DEF Silences
  <2>2. \A g \in G \cup {f} : FiredFor(g, key) /\ g.heard[leaf] = said[leaf] =>
          key \notin DOMAIN seen /\ due[key].emitted
    BY <1>3, <1>5, <1>6 DEF Silences
  <2>3. \A h, g \in G \cup {f} :
          h # g /\ FiredFor(h, key) /\ FiredFor(g, key) => h.heard[leaf] # g.heard[leaf]
    BY <1>3, <1>8 DEF Silences
  <2> QED
    BY <1>3, <2>1, <2>2, <2>3 DEF Silences
<1> QED
  BY <1>3, <1>9 DEF seen, f

(* What is known afterwards was known before, or is of the event recorded.  *)
Extends(known, next, at, of) ==
  \A k \in DOMAIN next : next[k] = [at |-> at, of |-> of] \/ (k \in DOMAIN known /\ next[k] = known[k])

LEMMA NotesExtend ==
  ASSUME NEW c, NEW seen, NEW noted, NEW at
  PROVE  /\ \A s, of : Notes(c, seen, s, at, of, noted) => Extends(seen, noted, at, of)
         /\ \A due : NotesOver(c, seen, at, due, noted) => Extends(seen, noted, at, 0)
<1>1. ASSUME NEW s, NEW of, Notes(c, seen, s, at, of, noted) PROVE Extends(seen, noted, at, of)
  BY <1>1 DEF Notes, Extends
<1>2. ASSUME NEW due, NotesOver(c, seen, at, due, noted) PROVE Extends(seen, noted, at, 0)
  BY <1>2 DEF NotesOver, Extends
<1> QED
  BY <1>1, <1>2

LEMMA SayingExtends ==
  ASSUME NEW said, NEW next, NEW keys, NEW at, NEW of
  PROVE  /\ Says(said, keys, [at |-> at, of |-> of], next) => Extends(said, next, at, of)
         /\ SaysFirst(said, keys, [at |-> at, of |-> of], next) => Extends(said, next, at, of)
<1>1. ASSUME Says(said, keys, [at |-> at, of |-> of], next) PROVE Extends(said, next, at, of)
  BY <1>1 DEF Says, Extends
<1>2. ASSUME SaysFirst(said, keys, [at |-> at, of |-> of], next) PROVE Extends(said, next, at, of)
  BY <1>2 DEF SaysFirst, Extends
<1> QED
  BY <1>1, <1>2

LEMMA DatedOn ==
  ASSUME NEW seen, NEW said, NEW G, NEW bound \in Nat, NEW last \in Nat,
         Dated(seen, said, G, bound, last), NEW at \in 0 .. bound, NEW of \in 0 .. last,
         NEW noted, NEW tells, Extends(seen, noted, at, of), Extends(said, tells, at, of)
  PROVE  Dated(noted, tells, G, bound, last)
<1>1. ASSUME NEW k \in DOMAIN noted PROVE noted[k].at \in 0 .. bound /\ noted[k].of \in 0 .. last
  BY DEF Extends, Dated, Timed
<1>2. ASSUME NEW k \in DOMAIN tells PROVE tells[k].at \in 0 .. bound /\ tells[k].of \in 0 .. last
  BY DEF Extends, Dated
<1> QED
  BY <1>1, <1>2 DEF Dated, Timed

LEMMA UnusedOn ==
  ASSUME NEW seen, NEW said, NEW G, NEW o, Unused(o, seen, said, G), NEW at, NEW of, o # of,
         NEW noted, NEW tells, Extends(seen, noted, at, of), Extends(said, tells, at, of)
  PROVE  Unused(o, noted, tells, G)
<1>1. ASSUME NEW k \in DOMAIN noted PROVE noted[k].of # o
  BY DEF Extends, Unused
<1>2. ASSUME NEW k \in DOMAIN tells PROVE tells[k].of # o
  BY DEF Extends, Unused
<1> QED
  BY <1>1, <1>2 DEF Unused

LEMMA TakenFacts ==
  ASSUME NEW noted, NEW keys, NEW result, Takes(noted, keys, result), NEW r, NEW said
  PROVE  /\ DOMAIN result.state.seen \subseteq DOMAIN noted
         /\ \A k \in DOMAIN result.state.seen : result.state.seen[k] = noted[k]
         /\ \A e \in Firing(r, result, said).events : e.key \in DOMAIN noted /\ e.of = noted[e.key].of
         /\ Firing(r, result, said).heard = said /\ Firing(r, result, said).rule = r
         /\ result.taken = {} <=> keys = {}
<1>1. \A e \in result.taken : e.key \in DOMAIN noted /\ e.of = noted[e.key].of
  BY DEF Takes
<1>2. ASSUME NEW k \in keys PROVE [key |-> k, at |-> noted[k].at, of |-> noted[k].of] \in result.taken
  BY DEF Takes
<1>3. result.taken = {} <=> keys = {}
  BY <1>2 DEF Takes
<1> QED
  BY <1>1, <1>3 DEF Firing, Takes

LEMMA DatedTaken ==
  ASSUME NEW noted, NEW said, NEW G, NEW bound \in Nat, NEW last \in Nat,
         Dated(noted, said, G, bound, last), NEW keys, NEW result, Takes(noted, keys, result), NEW r
  PROVE  /\ Dated(result.state.seen, said, G, bound, last)
         /\ Dated(result.state.seen, said, G \cup {Firing(r, result, said)}, bound, last)
<1> DEFINE seen == result.state.seen
           f == Firing(r, result, said)
<1>1. /\ DOMAIN seen \subseteq DOMAIN noted /\ \A k \in DOMAIN seen : seen[k] = noted[k]
      /\ \A e \in f.events : e.key \in DOMAIN noted /\ e.of = noted[e.key].of
      /\ f.heard = said
  BY TakenFacts
<1> HIDE DEF seen, f
<1>2. Dated(seen, said, G, bound, last)
  BY <1>1 DEF Dated, Timed
<1>3. /\ \A e \in f.events : e.of \in 0 .. last
      /\ \A k \in DOMAIN f.heard : f.heard[k].of \in 0 .. last
  BY <1>1 DEF Dated
<1>4. Dated(seen, said, G \cup {f}, bound, last)
  BY <1>2, <1>3 DEF Dated
<1> QED
  BY <1>2, <1>4 DEF seen, f

LEMMA UnusedTaken ==
  ASSUME NEW noted, NEW said, NEW G, NEW o, Unused(o, noted, said, G),
         NEW keys, NEW result, Takes(noted, keys, result), NEW r
  PROVE  /\ Unused(o, result.state.seen, said, G)
         /\ Unused(o, result.state.seen, said, G \cup {Firing(r, result, said)})
<1> DEFINE seen == result.state.seen
           f == Firing(r, result, said)
<1>1. /\ DOMAIN seen \subseteq DOMAIN noted /\ \A k \in DOMAIN seen : seen[k] = noted[k]
      /\ \A e \in f.events : e.key \in DOMAIN noted /\ e.of = noted[e.key].of
      /\ f.heard = said
  BY TakenFacts
<1> HIDE DEF seen, f
<1>2. Unused(o, seen, said, G)
  BY <1>1 DEF Unused
<1>3. /\ \A e \in f.events : e.of # o
      /\ \A k \in DOMAIN f.heard : f.heard[k].of # o
  BY <1>1 DEF Unused
<1>4. Unused(o, seen, said, G \cup {f})
  BY <1>2, <1>3 DEF Unused
<1> QED
  BY <1>2, <1>4 DEF seen, f

(* Nothing complete is kept.                                                *)
Complete(c, seen) == \E keys \in SUBSET DOMAIN seen : Satisfies(c, TimesOf(seen, keys))

LEMMA PartOfComplete ==
  ASSUME NEW c, NEW seen, NEW noted, Complete(c, noted),
         \A k \in DOMAIN noted : k \in DOMAIN seen /\ noted[k] = seen[k]
  PROVE  Complete(c, seen)
<1>1. PICK keys \in SUBSET DOMAIN noted : Satisfies(c, TimesOf(noted, keys))
  BY DEF Complete
<1>2. TimesOf(noted, keys) = TimesOf(seen, keys)
  BY <1>1 DEF TimesOf
<1> QED
  BY <1>1, <1>2 DEF Complete

LEMMA NothingComplete ==
  ASSUME NEW c, IsCondition(c), ~ChoiceInWindow(c), NEW bound \in Nat,
         NEW seen, ~Complete(c, seen), NEW noted, Timed(noted, bound),
         NEW new, \A k \in DOMAIN noted : k # new => k \in DOMAIN seen /\ noted[k] = seen[k],
         NEW result, Takes(noted, Evaluate(c, noted), result)
  PROVE  ~Complete(c, result.state.seen)
<1> DEFINE whole == Evaluate(c, noted)
           left == result.state.seen
<1> SUFFICES ASSUME Complete(c, left) PROVE FALSE
  OBVIOUS
<1>1. DOMAIN left = DOMAIN noted \ whole /\ \A k \in DOMAIN left : left[k] = noted[k]
  BY DEF Takes
<1>2. PICK keys \in SUBSET DOMAIN left : Satisfies(c, TimesOf(left, keys))
  BY DEF Complete
<1>3. TimesOf(left, keys) = TimesOf(noted, keys) /\ keys \in SUBSET DOMAIN noted
  BY <1>1, <1>2 DEF TimesOf
<1>4. whole # {}
  BY <1>2, <1>3, SatisfiedEvaluates
<1>5. whole \in SUBSET DOMAIN noted /\ Satisfies(c, TimesOf(noted, whole))
  BY <1>4, EvaluatedSatisfies
<1> HIDE DEF whole, left
<1>6. new \in whole
  <2> SUFFICES ASSUME new \notin whole PROVE FALSE
    OBVIOUS
  <2>1. whole \in SUBSET DOMAIN seen /\ TimesOf(noted, whole) = TimesOf(seen, whole)
    BY <1>5 DEF TimesOf
  <2> QED
    BY <1>5, <2>1 DEF Complete
<1>7. new \notin keys
  BY <1>1, <1>2, <1>6
<1>8. keys \in SUBSET DOMAIN seen /\ TimesOf(noted, keys) = TimesOf(seen, keys)
  BY <1>3, <1>7 DEF TimesOf
<1> QED
  BY <1>2, <1>3, <1>8 DEF Complete

RuleHolds(c, seen, due, said, G, bound, last) ==
  /\ Dated(seen, said, G, bound, last)
  /\ CountsOnce(seen, G)
  /\ \A g \in G : Justified(c, g)
  /\ \A n \in AbsenceNodes(c) : SilenceOf(c, n, seen, due, said, G)
  /\ BindsOnce(c) /\ WaitsOnce(c) /\ ~ChoiceInWindow(c) => ~Complete(c, seen)

FiredAfter(r, result, said, G) == IF result.taken = {} THEN G ELSE G \cup {Firing(r, result, said)}

LEMMA RuleTaken ==
  ASSUME NEW c, IsCondition(c), NEW bound \in Nat, NEW last \in Nat,
         NEW noted, NEW due, NEW said, NEW G, Timed(noted, bound),
         Dated(noted, said, G, bound, last), CountsOnce(noted, G), \A g \in G : Justified(c, g),
         \A n \in AbsenceNodes(c) : SilenceOf(c, n, noted, due, said, G),
         NEW keys, keys \in {{}, Evaluate(c, noted)}, NEW result, Takes(noted, keys, result), NEW r,
         BindsOnce(c) /\ WaitsOnce(c) /\ ~ChoiceInWindow(c) => ~Complete(c, result.state.seen)
  PROVE  RuleHolds(c, result.state.seen, due, said, FiredAfter(r, result, said, G), bound, last)
<1> DEFINE seen == result.state.seen
           H == G \cup {Firing(r, result, said)}
           after == FiredAfter(r, result, said, G)
<1>1. Dated(seen, said, G, bound, last) /\ Dated(seen, said, H, bound, last)
  BY DatedTaken
<1>2. CountsOnce(seen, G) /\ CountsOnce(seen, H)
  BY CountTaken
<1>3. ASSUME NEW n \in AbsenceNodes(c)
      PROVE  SilenceOf(c, n, seen, due, said, G) /\ SilenceOf(c, n, seen, due, said, H)
  <2>1. Silences(c.key[Watched(c, n)], MissingKey(c, n), c.within[n], noted, due, said, G)
    BY DEF SilenceOf
  <2> QED
    BY <2>1, SilenceTaken DEF SilenceOf
<1>4. after = G \/ (after = H /\ keys # {})
  <2>1. result.taken = {} <=> keys = {}
    BY TakenFacts
  <2> QED
    BY <2>1 DEF FiredAfter
<1>5. keys # {} => Justified(c, Firing(r, result, said))
  BY FiringJustified
<1> HIDE DEF seen, after
<1>6. \A g \in after : Justified(c, g)
  BY <1>4, <1>5
<1>7. /\ Dated(seen, said, after, bound, last) /\ CountsOnce(seen, after)
      /\ \A n \in AbsenceNodes(c) : SilenceOf(c, n, seen, due, said, after)
  BY <1>1, <1>2, <1>3, <1>4
<1> QED
  BY <1>6, <1>7 DEF RuleHolds, seen, after

(* The rule goes on after a hold of the lock that recorded the event of.    *)
GoesOn(c, state, said, G, r, result, tells, bound, last, of) ==
  /\ RuleHolds(c, result.state.seen, result.state.due, tells, FiredAfter(r, result, tells, G),
               bound, last)
  /\ \A o : o # of /\ Unused(o, state.seen, said, G) =>
       Unused(o, result.state.seen, tells, FiredAfter(r, result, tells, G))

LEMMA RuleRecords ==
  ASSUME NEW c, IsCondition(c), NEW bound \in Nat, NEW last \in Nat, NEW state, NEW said, NEW G,
         RuleHolds(c, state.seen, state.due, said, G, bound, last),
         NEW s, NEW at \in 0 .. bound, NEW of \in 0 .. last, Unused(of, state.seen, said, G),
         NEW tells, Says(said, HitKeys(c, s), [at |-> at, of |-> of], tells), NEW r,
         NEW result, result = Matched(c, state, s, at, of)
  PROVE  GoesOn(c, state, said, G, r, result, tells, bound, last, of)
<1> DEFINE seen == state.seen
           due == state.due
<1>0. /\ Dated(seen, said, G, bound, last) /\ CountsOnce(seen, G)
      /\ \A g \in G : Justified(c, g)
      /\ \A n \in AbsenceNodes(c) : SilenceOf(c, n, seen, due, said, G)
      /\ BindsOnce(c) /\ WaitsOnce(c) /\ ~ChoiceInWindow(c) => ~Complete(c, seen)
  BY DEF RuleHolds
<1>1. Timed(seen, bound)
  BY <1>0 DEF Dated
<1>2. MatchedSo(c, state, s, at, of, bound, result)
  BY <1>1, MatchedParts
<1>3. PICK noted : \E keys :
        /\ Takes(noted, keys, result) /\ Timed(noted, bound)
        /\ Notes(c, seen, s, at, of, noted)
        /\ WaitsAgain(c, s, at, due, result.state.due)
        /\ IF Noting(c, s) = {} THEN keys = {} ELSE keys = Evaluate(c, noted)
  BY <1>2 DEF MatchedSo
<1>4. PICK keys :
        /\ Takes(noted, keys, result) /\ Timed(noted, bound)
        /\ Notes(c, seen, s, at, of, noted)
        /\ WaitsAgain(c, s, at, due, result.state.due)
        /\ IF Noting(c, s) = {} THEN keys = {} ELSE keys = Evaluate(c, noted)
  BY <1>3
<1> HIDE DEF seen, due
<1>5. Extends(seen, noted, at, of) /\ Extends(said, tells, at, of)
  BY <1>4, NotesExtend, SayingExtends
<1>6. Unused(of, seen, said, G)
  BY DEF seen
<1>7. Dated(noted, tells, G, bound, last)
  BY <1>0, <1>5, DatedOn
<1>8. CountsOnce(noted, G)
  BY <1>0, <1>4, <1>6, CountNoted
<1>9. \A n \in AbsenceNodes(c) : SilenceOf(c, n, noted, result.state.due, tells, G)
  BY <1>0, <1>4, <1>6, SilenceNoted
<1>10. ASSUME BindsOnce(c), WaitsOnce(c), ~ChoiceInWindow(c) PROVE ~Complete(c, result.state.seen)
  <2>0. ~Complete(c, seen)
    BY <1>0, <1>10
  <2>1. CASE Noting(c, s) = {}
    <3>1. /\ DOMAIN result.state.seen \subseteq DOMAIN noted
          /\ \A k \in DOMAIN result.state.seen : result.state.seen[k] = noted[k]
      BY <1>4, TakenFacts
    <3>2. \A k \in DOMAIN noted : k \in DOMAIN seen /\ noted[k] = seen[k]
      BY <1>4, <2>1 DEF Notes
    <3>3. \A k \in DOMAIN result.state.seen : k \in DOMAIN seen /\ result.state.seen[k] = seen[k]
      BY <3>1, <3>2
    <3> QED
      BY <2>0, <3>3, PartOfComplete
  <2>2. CASE Noting(c, s) # {}
    <3>1. PICK new \in Noting(c, s) : TRUE
      BY <2>2
    <3>2. \A k \in Noting(c, s) : k = new
      <4>1. \A m, n \in MatchingLeaves(c, s) : m = n
        BY <1>10 DEF MatchingLeaves, BindsOnce
      <4> QED
        BY <3>1, <4>1 DEF Noting, Positives
    <3>3. \A k \in DOMAIN noted : k # new => k \in DOMAIN seen /\ noted[k] = seen[k]
      BY <1>4, <3>2 DEF Notes
    <3>4. Takes(noted, Evaluate(c, noted), result)
      BY <1>4, <2>2
    <3> QED
      BY <1>4, <1>10, <2>0, <3>3, <3>4, NothingComplete
  <2> QED
    BY <2>1, <2>2
<1>11. keys \in {{}, Evaluate(c, noted)}
  BY <1>4
<1>12. RuleHolds(c, result.state.seen, result.state.due, tells, FiredAfter(r, result, tells, G),
                 bound, last)
  BY <1>0, <1>4, <1>7, <1>8, <1>9, <1>10, <1>11, RuleTaken
<1>13. ASSUME NEW o, o # of, Unused(o, seen, said, G)
       PROVE  Unused(o, result.state.seen, tells, FiredAfter(r, result, tells, G))
  <2>1. Unused(o, noted, tells, G)
    BY <1>5, <1>13, UnusedOn
  <2>2. /\ Unused(o, result.state.seen, tells, G)
        /\ Unused(o, result.state.seen, tells, G \cup {Firing(r, result, tells)})
    BY <1>4, <2>1, UnusedTaken
  <2> QED
    BY <2>2 DEF FiredAfter
<1> QED
  BY <1>12, <1>13 DEF GoesOn, seen

LEMMA RuleLooked ==
  ASSUME NEW c, IsCondition(c), NEW bound \in Nat, NEW last \in Nat, NEW state, NEW said, NEW G,
         RuleHolds(c, state.seen, state.due, said, G, bound, last), NEW at \in 0 .. bound,
         NEW tells, SaysFirst(said, LeafKeys(c), [at |-> at, of |-> 0], tells), NEW r,
         NEW result, result = Polled(c, state, at)
  PROVE  GoesOn(c, state, said, G, r, result, tells, bound, last, 0)
<1> DEFINE seen == state.seen
           due == state.due
<1>0. /\ Dated(seen, said, G, bound, last) /\ CountsOnce(seen, G)
      /\ \A g \in G : Justified(c, g)
      /\ \A n \in AbsenceNodes(c) : SilenceOf(c, n, seen, due, said, G)
      /\ BindsOnce(c) /\ WaitsOnce(c) /\ ~ChoiceInWindow(c) => ~Complete(c, seen)
  BY DEF RuleHolds
<1>1. Timed(seen, bound)
  BY <1>0 DEF Dated
<1>2. PolledSo(c, state, at, bound, result)
  BY <1>1, PolledParts
<1>3. PICK noted : \E keys :
        /\ Takes(noted, keys, result) /\ Timed(noted, bound)
        /\ NotesOver(c, seen, at, due, noted)
        /\ WaitsOn(c, at, due, result.state.due)
        /\ IF WaitsOver(c, at, due) = {} THEN keys = {} ELSE keys = Evaluate(c, noted)
  BY <1>2 DEF PolledSo
<1>4. PICK keys :
        /\ Takes(noted, keys, result) /\ Timed(noted, bound)
        /\ NotesOver(c, seen, at, due, noted)
        /\ WaitsOn(c, at, due, result.state.due)
        /\ IF WaitsOver(c, at, due) = {} THEN keys = {} ELSE keys = Evaluate(c, noted)
  BY <1>3
<1> HIDE DEF seen, due
<1>5. Extends(seen, noted, at, 0) /\ Extends(said, tells, at, 0)
  BY <1>4, NotesExtend, SayingExtends
<1>7. Dated(noted, tells, G, bound, last)
  <2>1. 0 \in 0 .. last
    OBVIOUS
  <2> QED
    BY <1>0, <1>5, <2>1, DatedOn
<1>8. CountsOnce(noted, G)
  BY <1>0, <1>4, CountOver
<1>9. \A n \in AbsenceNodes(c) : SilenceOf(c, n, noted, result.state.due, tells, G)
  BY <1>0, <1>4, SilenceOver
<1>10. ASSUME BindsOnce(c), WaitsOnce(c), ~ChoiceInWindow(c) PROVE ~Complete(c, result.state.seen)
  <2>0. ~Complete(c, seen)
    BY <1>0, <1>10
  <2>1. CASE WaitsOver(c, at, due) = {}
    <3>1. /\ DOMAIN result.state.seen \subseteq DOMAIN noted
          /\ \A k \in DOMAIN result.state.seen : result.state.seen[k] = noted[k]
      BY <1>4, TakenFacts
    <3>2. \A k \in DOMAIN noted : k \in DOMAIN seen /\ noted[k] = seen[k]
      BY <1>4, <2>1 DEF NotesOver
    <3>3. \A k \in DOMAIN result.state.seen : k \in DOMAIN seen /\ result.state.seen[k] = seen[k]
      BY <3>1, <3>2
    <3> QED
      BY <2>0, <3>3, PartOfComplete
  <2>2. CASE WaitsOver(c, at, due) # {}
    <3>1. PICK new \in WaitsOver(c, at, due) : TRUE
      BY <2>2
    <3>2. \A k \in WaitsOver(c, at, due) : k = new
      BY <1>10, <3>1 DEF WaitsOver, WaitsOnce
    <3>3. \A k \in DOMAIN noted : k # new => k \in DOMAIN seen /\ noted[k] = seen[k]
      BY <1>4, <3>2 DEF NotesOver
    <3>4. Takes(noted, Evaluate(c, noted), result)
      BY <1>4, <2>2
    <3> QED
      BY <1>4, <1>10, <2>0, <3>3, <3>4, NothingComplete
  <2> QED
    BY <2>1, <2>2
<1>11. keys \in {{}, Evaluate(c, noted)}
  BY <1>4
<1>12. RuleHolds(c, result.state.seen, result.state.due, tells, FiredAfter(r, result, tells, G),
                 bound, last)
  BY <1>0, <1>4, <1>7, <1>8, <1>9, <1>10, <1>11, RuleTaken
<1>13. ASSUME NEW o, o # 0, Unused(o, seen, said, G)
       PROVE  Unused(o, result.state.seen, tells, FiredAfter(r, result, tells, G))
  <2>1. Unused(o, noted, tells, G)
    BY <1>5, <1>13, UnusedOn
  <2>2. /\ Unused(o, result.state.seen, tells, G)
        /\ Unused(o, result.state.seen, tells, G \cup {Firing(r, result, tells)})
    BY <1>4, <2>1, UnusedTaken
  <2> QED
    BY <2>2 DEF FiredAfter
<1> QED
  BY <1>12, <1>13 DEF GoesOn, seen

(* Time goes on, and events are emitted.                                    *)
LEMMA RuleWaits ==
  ASSUME NEW c, NEW seen, NEW due, NEW said, NEW G, NEW bound \in Nat, NEW last \in Nat,
         RuleHolds(c, seen, due, said, G, bound, last),
         NEW later \in Nat, NEW more \in Nat, bound <= later, last <= more
  PROVE  RuleHolds(c, seen, due, said, G, later, more)
<1>1. 0 .. bound \subseteq 0 .. later /\ 0 .. last \subseteq 0 .. more
  OBVIOUS
<1>2. Dated(seen, said, G, bound, last)
  BY DEF RuleHolds
<1>3. Dated(seen, said, G, later, more)
  BY <1>1, <1>2, Zenon DEF Dated, Timed
<1> QED
  BY <1>3 DEF RuleHolds

(***************************************************************************)
(* The inductive invariant of the bus: every rule's, and that no thread has *)
(* still to record an event a rule already knows.                           *)
(***************************************************************************)
FiredOf(r) == {f \in fired : f.rule = r}
RuleInv(r) ==
  RuleHolds(rules[r], runtime[r].seen, runtime[r].due, heard[r], FiredOf(r), clock, emitted)
Busy(t) == thread[t].pc # "idle"
StillTo(t, r) ==
  \/ thread[t].pc = "stamped" /\ thread[t].rule <= r
  \/ thread[t].pc = "matched" /\ thread[t].rule < r
NewTo(s, r) == Unused(thread[s].of, runtime[r].seen, heard[r], FiredOf(r))

ThreadTypes(t) ==
  /\ thread[t] = [pc |-> thread[t].pc, rule |-> thread[t].rule, at |-> thread[t].at,
                  of |-> thread[t].of, got |-> thread[t].got]
  /\ thread[t].pc \in {"idle", "stamped", "matched"}
  /\ thread[t].at \in 0 .. clock /\ thread[t].of \in 0 .. emitted
  /\ Busy(t) => thread[t].rule \in DOMAIN rules
BusTypes ==
  /\ rules \in RuleSets /\ clock \in Nat /\ emitted \in Nat
  /\ DOMAIN thread = BusThreads /\ \A t \in BusThreads : ThreadTypes(t)
  /\ DOMAIN runtime = DOMAIN rules /\ DOMAIN heard = DOMAIN rules
  /\ \A f \in fired : f.rule \in DOMAIN rules
BusInv ==
  /\ BusTypes
  /\ \A r \in DOMAIN rules : RuleInv(r)
  /\ \A s \in Sources : Busy(s) => thread[s].of # 0
  /\ \A s, t \in Sources : s # t /\ Busy(s) /\ Busy(t) => thread[s].of # thread[t].of
  /\ \A s \in Sources, r \in DOMAIN rules : StillTo(s, r) => NewTo(s, r)

LEMMA RuleNumbers ==
  ASSUME rules \in RuleSets
  PROVE  /\ Len(rules) \in Nat /\ DOMAIN rules = 1 .. Len(rules)
         /\ \A r \in DOMAIN rules : IsCondition(rules[r])
BY BusAssumption DEF BusAssumption

LEMMA BusInvInit == BusInit => BusInv
<1> SUFFICES ASSUME BusInit PROVE BusInv
  OBVIOUS
<1>1. rules \in RuleSets /\ clock = 0 /\ emitted = 0 /\ fired = {}
  BY DEF BusInit
<1>2. \A t \in BusThreads : thread[t] = Idle
  BY DEF BusInit
<1>3. DOMAIN thread = BusThreads /\ DOMAIN runtime = DOMAIN rules /\ DOMAIN heard = DOMAIN rules
  BY DEF BusInit
<1>4. \A t \in BusThreads : ThreadTypes(t) /\ ~Busy(t) /\ \A r : ~StillTo(t, r)
  BY <1>1, <1>2 DEF ThreadTypes, Busy, StillTo, Idle
<1>5. BusTypes
  BY <1>1, <1>3, <1>4 DEF BusTypes
<1>6. ASSUME NEW r \in DOMAIN rules PROVE RuleInv(r)
  <2>1. IsCondition(rules[r])
    BY <1>1, RuleNumbers
  <2>2. runtime[r] = [seen |-> <<>>, due |-> <<>>] /\ heard[r] = <<>>
    BY DEF BusInit
  <2>3. FiredOf(r) = {}
    BY <1>1 DEF FiredOf
  <2> DEFINE none == <<>>
  <2>4. DOMAIN none = {}
    OBVIOUS
  <2>5. \A n \in AbsenceNodes(rules[r]) : SilenceOf(rules[r], n, none, none, none, {})
    <3> HIDE DEF none
    <3> QED
      BY <2>4 DEF SilenceOf, Silences
  <2>6. ASSUME ~ChoiceInWindow(rules[r]) PROVE ~Complete(rules[r], none)
    <3> SUFFICES ASSUME Complete(rules[r], none) PROVE FALSE
      OBVIOUS
    <3> HIDE DEF none
    <3>1. PICK keys \in SUBSET DOMAIN none : Satisfies(rules[r], TimesOf(none, keys))
      BY DEF Complete
    <3>2. Timed(none, 0) /\ 0 \in Nat
      BY <2>4 DEF Timed
    <3>3. Evaluate(rules[r], none) # {}
      BY <2>1, <2>6, <3>1, <3>2, SatisfiedEvaluates
    <3>4. Evaluate(rules[r], none) \subseteq DOMAIN none
      BY <2>1, <3>2, EvaluatedSatisfies
    <3> QED
      BY <2>4, <3>3, <3>4
  <2>7. Dated(none, none, {}, 0, 0) /\ CountsOnce(none, {})
    <3> HIDE DEF none
    <3> QED
      BY <2>4 DEF Dated, Timed, CountsOnce
  <2>8. RuleHolds(rules[r], none, none, none, {}, 0, 0)
    <3> HIDE DEF none
    <3> QED
      BY <2>5, <2>6, <2>7 DEF RuleHolds
  <2> QED
    BY <1>1, <2>2, <2>3, <2>8 DEF RuleInv
<1>7. Sources \subseteq BusThreads
  BY DEF BusThreads
<1> QED
  BY <1>4, <1>5, <1>6, <1>7 DEF BusInv

(* A step that changes no rule's state keeps it, later and with more events.*)
LEMMA RulesWait ==
  ASSUME BusInv, UNCHANGED <<rules, runtime, heard, fired>>,
         clock' \in Nat, emitted' \in Nat, clock <= clock', emitted <= emitted'
  PROVE  \A r \in DOMAIN rules' : RuleInv(r)'
<1> SUFFICES ASSUME NEW r \in DOMAIN rules PROVE RuleInv(r)'
  OBVIOUS
<1>1. RuleInv(r) /\ clock \in Nat /\ emitted \in Nat
  BY DEF BusInv, BusTypes
<1>2. RuleHolds(rules[r], runtime[r].seen, runtime[r].due, heard[r], FiredOf(r), clock', emitted')
  BY <1>1, RuleWaits DEF RuleInv
<1>3. FiredOf(r)' = FiredOf(r)
  BY DEF FiredOf
<1> QED
  BY <1>2, <1>3 DEF RuleInv

(* A thread that goes on to the next rule, or is done.                      *)
LEMMA NextRuleKeeps ==
  ASSUME BusTypes, NEW t \in BusThreads, Busy(t), NextRule(t),
         UNCHANGED <<rules, clock, emitted>>
  PROVE  /\ DOMAIN thread' = BusThreads
         /\ \A u \in BusThreads : ThreadTypes(u)'
         /\ \A u \in BusThreads \ {t} : thread'[u] = thread[u]
         /\ Busy(t)' => thread'[t].of = thread[t].of
         /\ \A r \in DOMAIN rules : StillTo(t, r)' => thread[t].rule < r
<1>1. Len(rules) \in Nat /\ DOMAIN rules = 1 .. Len(rules)
  BY RuleNumbers DEF BusTypes
<1>2. /\ DOMAIN thread = BusThreads /\ \A u \in BusThreads : ThreadTypes(u)
      /\ thread[t].rule \in 1 .. Len(rules) /\ clock \in Nat /\ emitted \in Nat
      /\ thread[t].of \in 0 .. emitted
  BY <1>1 DEF BusTypes, ThreadTypes
<1>3. /\ DOMAIN thread' = BusThreads
      /\ \A u \in BusThreads \ {t} : thread'[u] = thread[u]
      /\ thread'[t] = IF thread[t].rule = Len(rules) THEN Idle
                      ELSE Begins(thread[t].rule + 1, thread[t].of)
  BY <1>2 DEF NextRule
<1>4. ASSUME NEW u \in BusThreads \ {t} PROVE ThreadTypes(u)'
  <2>1. ThreadTypes(u)
    BY <1>2
  <2> QED
    BY <1>3, <2>1 DEF ThreadTypes, Busy
<1>5. CASE thread[t].rule = Len(rules)
  <2>1. thread'[t] = Idle
    BY <1>3, <1>5
  <2>2. ThreadTypes(t)' /\ ~Busy(t)' /\ \A r : ~StillTo(t, r)'
    BY <1>2, <2>1 DEF ThreadTypes, Busy, StillTo, Idle
  <2> QED
    BY <1>3, <1>4, <2>2
<1>6. CASE thread[t].rule # Len(rules)
  <2>1. thread'[t] = [pc |-> "stamped", rule |-> thread[t].rule + 1, at |-> clock,
                      of |-> thread[t].of, got |-> {}]
    BY <1>3, <1>6 DEF Begins
  <2>2. thread[t].rule + 1 \in DOMAIN rules
    BY <1>1, <1>2, <1>6
  <2>3. ThreadTypes(t)'
    BY <1>2, <2>1, <2>2 DEF ThreadTypes, Busy
  <2>4. \A r \in DOMAIN rules : StillTo(t, r)' => thread[t].rule < r
    BY <1>1, <1>2, <2>1 DEF StillTo
  <2> QED
    BY <1>3, <1>4, <2>1, <2>3, <2>4
<1> QED
  BY <1>5, <1>6

(* A thread leaves the lock: with what it took, or for the next rule.       *)
LEMMA LeavesKeeps ==
  ASSUME BusTypes, NEW t \in BusThreads, thread[t].pc = "stamped", NEW taken, Leaves(t, taken),
         UNCHANGED <<rules, clock, emitted>>
  PROVE  /\ DOMAIN thread' = BusThreads
         /\ \A u \in BusThreads : ThreadTypes(u)'
         /\ \A u \in BusThreads \ {t} : thread'[u] = thread[u]
         /\ Busy(t)' => thread'[t].of = thread[t].of
         /\ \A r \in DOMAIN rules : StillTo(t, r)' => thread[t].rule < r
<1>1. CASE taken = {}
  <2>1. NextRule(t) /\ Busy(t)
    BY <1>1 DEF Leaves, Busy
  <2> QED
    BY <2>1, NextRuleKeeps
<1>2. CASE taken # {}
  <2>1. thread' = [thread EXCEPT ![t].pc = "matched", ![t].got = taken]
    BY <1>2 DEF Leaves
  <2>2. DOMAIN thread = BusThreads /\ \A u \in BusThreads : ThreadTypes(u)
    BY DEF BusTypes
  <2>3. thread[t] = [pc |-> thread[t].pc, rule |-> thread[t].rule, at |-> thread[t].at,
                     of |-> thread[t].of, got |-> thread[t].got]
    BY <2>2 DEF ThreadTypes
  <2>4. /\ DOMAIN thread' = BusThreads
        /\ \A u \in BusThreads \ {t} : thread'[u] = thread[u]
        /\ thread'[t] = [thread[t] EXCEPT !.pc = "matched", !.got = taken]
    BY <2>1, <2>2
  <2>5. thread'[t] = [pc |-> "matched", rule |-> thread[t].rule, at |-> thread[t].at,
                      of |-> thread[t].of, got |-> taken]
    BY <2>3, <2>4
  <2>6. thread[t].rule \in DOMAIN rules
    BY <2>2 DEF ThreadTypes, Busy
  <2>7. ThreadTypes(t)'
    BY <2>2, <2>5, <2>6 DEF ThreadTypes, Busy
  <2>8. \A u \in BusThreads \ {t} : ThreadTypes(u)'
    BY <2>2, <2>4 DEF ThreadTypes, Busy
  <2>9. \A r \in DOMAIN rules : StillTo(t, r)' => thread[t].rule < r
    BY <2>5 DEF StillTo
  <2> QED
    BY <2>4, <2>5, <2>7, <2>8, <2>9
<1> QED
  BY <1>1, <1>2

LEMMA HeldKeeps ==
  ASSUME BusInv, NEW t \in BusThreads, thread[t].pc = "stamped", NEW r, r = thread[t].rule,
         NEW result, NEW tells, NEW after, after = FiredAfter(r, result, tells, FiredOf(r)),
         runtime' = [runtime EXCEPT ![r] = result.state], heard' = [heard EXCEPT ![r] = tells],
         Leaves(t, result.taken), UNCHANGED <<rules, clock, emitted>>,
         RuleHolds(rules[r], result.state.seen, result.state.due, tells, after, clock, emitted),
         \A s \in Sources \ {t} : StillTo(s, r) =>
           Unused(thread[s].of, result.state.seen, tells, after)
  PROVE  BusInv'
<1>1. BusTypes /\ r \in DOMAIN rules
  BY DEF BusInv, BusTypes, ThreadTypes, Busy
<1>2. /\ DOMAIN runtime' = DOMAIN rules /\ DOMAIN heard' = DOMAIN rules
      /\ runtime'[r] = result.state /\ heard'[r] = tells
      /\ \A q \in DOMAIN rules \ {r} : runtime'[q] = runtime[q] /\ heard'[q] = heard[q]
  BY <1>1 DEF BusTypes
<1>3. /\ DOMAIN thread' = BusThreads
      /\ \A u \in BusThreads : ThreadTypes(u)'
      /\ \A u \in BusThreads \ {t} : thread'[u] = thread[u]
      /\ Busy(t)' => thread'[t].of = thread[t].of
      /\ \A q \in DOMAIN rules : StillTo(t, q)' => thread[t].rule < q
  BY <1>1, LeavesKeeps
<1>4. fired' = IF result.taken = {} THEN fired ELSE fired \cup {Firing(r, result, tells)}
  BY <1>2 DEF Leaves, Firing
<1>5. Firing(r, result, tells).rule = r
  BY DEF Firing
<1>6. FiredOf(r)' = after /\ \A q \in DOMAIN rules \ {r} : FiredOf(q)' = FiredOf(q)
  BY <1>4, <1>5 DEF FiredOf, FiredAfter
<1>7. BusTypes'
  <2>1. \A f \in fired' : f.rule \in DOMAIN rules
    BY <1>1, <1>4, <1>5 DEF BusTypes
  <2> QED
    BY <1>1, <1>2, <1>3, <2>1 DEF BusTypes
<1>8. ASSUME NEW q \in DOMAIN rules PROVE RuleInv(q)'
  <2>1. CASE q = r
    BY <1>2, <1>6, <2>1 DEF RuleInv
  <2>2. CASE q # r
    <3>1. RuleInv(q)
      BY DEF BusInv
    <3> QED
      BY <1>2, <1>6, <2>2, <3>1 DEF RuleInv
  <2> QED
    BY <2>1, <2>2
<1>9. \A s \in Sources : s \in BusThreads /\ (Busy(s)' => thread'[s].of = thread[s].of /\ Busy(s))
  <2>1. Busy(t)
    BY DEF Busy
  <2> QED
    BY <1>3, <2>1 DEF BusThreads, Busy
<1>10. /\ \A s \in Sources : Busy(s)' => thread'[s].of # 0
       /\ \A s, u \in Sources : s # u /\ Busy(s)' /\ Busy(u)' => thread'[s].of # thread'[u].of
  BY <1>9 DEF BusInv
<1>11. ASSUME NEW s \in Sources, NEW q \in DOMAIN rules, StillTo(s, q)'
       PROVE  NewTo(s, q)'
  <2>1. Busy(s)'
    BY <1>11 DEF StillTo, Busy
  <2>2. thread'[s].of = thread[s].of
    BY <1>9, <2>1
  <2>3. StillTo(s, q) /\ (s = t => q # r)
    <3>1. CASE s = t
      <4>1. r < q
        BY <1>3, <1>11, <3>1
      <4>2. r \in Nat /\ q \in Nat
        BY <1>1, RuleNumbers DEF BusTypes
      <4> QED
        BY <3>1, <4>1, <4>2 DEF StillTo
    <3>2. CASE s # t
      <4>1. thread'[s] = thread[s]
        BY <1>3, <1>9, <3>2
      <4> QED
        BY <1>11, <3>2, <4>1 DEF StillTo
    <3> QED
      BY <3>1, <3>2
  <2>4. CASE q = r
    BY <1>2, <1>6, <2>2, <2>3, <2>4 DEF NewTo
  <2>5. CASE q # r
    <3>1. NewTo(s, q)
      BY <2>3 DEF BusInv
    <3> QED
      BY <1>2, <1>6, <2>2, <2>5, <3>1 DEF NewTo
  <2> QED
    BY <2>4, <2>5
<1> QED
  BY <1>7, <1>8, <1>10, <1>11 DEF BusInv

LEMMA RecordKeeps ==
  ASSUME BusInv, NEW s \in Sources, Record(s)
  PROVE  BusInv'
<1> DEFINE r == thread[s].rule
           hit == {rules[r].key[n] : n \in MatchingLeaves(rules[r], s)}
           at == thread[s].at
           of == thread[s].of
           said == heard[r]
           tells == Over([k \in hit |-> [at |-> at, of |-> of]], said)
           result == Matched(rules[r], runtime[r], s, at, of)
           after == FiredAfter(r, result, tells, FiredOf(r))
<1>0. Sources \subseteq BusThreads
  BY DEF BusThreads
<1>1. /\ thread[s].pc = "stamped" /\ UNCHANGED <<rules, clock, emitted>>
      /\ runtime' = [runtime EXCEPT ![r] = result.state]
      /\ Leaves(s, result.taken)
  BY DEF Record
<1>2. heard' = [heard EXCEPT ![r] = tells]
  BY DEF Record
<1>3. /\ BusTypes /\ r \in DOMAIN rules /\ clock \in Nat /\ emitted \in Nat
      /\ at \in 0 .. clock /\ of \in 0 .. emitted
  BY <1>0, <1>1 DEF BusInv, BusTypes, ThreadTypes, Busy
<1>4. IsCondition(rules[r]) /\ r \in Nat
  BY <1>3, RuleNumbers DEF BusTypes
<1>5. Says(said, HitKeys(rules[r], s), [at |-> at, of |-> of], tells)
  <2> HIDE DEF said
  <2> QED
    BY DEF Says, Over, HitKeys
<1>6. RuleHolds(rules[r], runtime[r].seen, runtime[r].due, said, FiredOf(r), clock, emitted)
  BY <1>3 DEF BusInv, RuleInv
<1>7. Unused(of, runtime[r].seen, said, FiredOf(r))
  <2>1. StillTo(s, r)
    BY <1>1, <1>4 DEF StillTo
  <2> QED
    BY <1>3, <2>1 DEF BusInv, NewTo
<1> HIDE DEF r, at, of, said, tells, result, hit
<1> HIDE DEF after
<1>8. /\ RuleHolds(rules[r], result.state.seen, result.state.due, tells, after, clock, emitted)
      /\ \A o : o # of /\ Unused(o, runtime[r].seen, said, FiredOf(r)) =>
           Unused(o, result.state.seen, tells, after)
  <2>1. result = Matched(rules[r], runtime[r], s, at, of)
    BY DEF result
  <2> DEFINE known == FiredOf(r)
  <2>2. after = FiredAfter(r, result, tells, known)
    BY DEF after
  <2> HIDE DEF known
  <2>3. /\ RuleHolds(rules[r], runtime[r].seen, runtime[r].due, said, known, clock, emitted)
        /\ Unused(of, runtime[r].seen, said, known)
    BY <1>6, <1>7 DEF known
  <2>4. GoesOn(rules[r], runtime[r], said, known, r, result, tells, clock, emitted, of)
    BY <1>3, <1>4, <1>5, <2>1, <2>3, RuleRecords
  <2> QED
    BY <2>2, <2>4 DEF known, GoesOn
<1>9. ASSUME NEW u \in Sources \ {s}, StillTo(u, r)
      PROVE  Unused(thread[u].of, result.state.seen, tells, after)
  <2>1. Unused(thread[u].of, runtime[r].seen, said, FiredOf(r))
    BY <1>3, <1>9 DEF BusInv, NewTo, said
  <2>2. Busy(s) /\ Busy(u)
    BY <1>1, <1>9 DEF StillTo, Busy
  <2>3. thread[u].of # of
    BY <2>2 DEF BusInv, of
  <2> QED
    BY <1>8, <2>1, <2>3
<1>10. r = thread[s].rule
  BY DEF r
<1>11. after = FiredAfter(r, result, tells, FiredOf(r))
  BY DEF after
<1> QED
  BY <1>0, <1>1, <1>2, <1>8, <1>9, <1>10, <1>11, HeldKeeps

LEMMA LookKeeps ==
  ASSUME BusInv, Look
  PROVE  BusInv'
<1> DEFINE r == thread[Poller].rule
           at == thread[Poller].at
           said == heard[r]
           tells == Over(said, [k \in LeafKeys(rules[r]) |-> [at |-> at, of |-> 0]])
           result == Polled(rules[r], runtime[r], at)
           after == FiredAfter(r, result, tells, FiredOf(r))
<1>0. Sources \subseteq BusThreads /\ Poller \in BusThreads
  BY DEF BusThreads
<1>1. /\ thread[Poller].pc = "stamped" /\ UNCHANGED <<rules, clock, emitted>>
      /\ runtime' = [runtime EXCEPT ![r] = result.state]
      /\ Leaves(Poller, result.taken)
  BY DEF Look
<1>2. heard' = [heard EXCEPT ![r] = tells]
  BY DEF Look
<1>3. /\ BusTypes /\ r \in DOMAIN rules /\ clock \in Nat /\ emitted \in Nat
      /\ at \in 0 .. clock
  BY <1>0, <1>1 DEF BusInv, BusTypes, ThreadTypes, Busy
<1>4. IsCondition(rules[r]) /\ r \in Nat
  BY <1>3, RuleNumbers DEF BusTypes
<1>5. SaysFirst(said, LeafKeys(rules[r]), [at |-> at, of |-> 0], tells)
  <2> HIDE DEF said
  <2> QED
    BY DEF SaysFirst, Over
<1>6. RuleHolds(rules[r], runtime[r].seen, runtime[r].due, said, FiredOf(r), clock, emitted)
  BY <1>3 DEF BusInv, RuleInv
<1> HIDE DEF r, at, said, tells, result
<1> HIDE DEF after
<1>8. /\ RuleHolds(rules[r], result.state.seen, result.state.due, tells, after, clock, emitted)
      /\ \A o : o # 0 /\ Unused(o, runtime[r].seen, said, FiredOf(r)) =>
           Unused(o, result.state.seen, tells, after)
  <2>1. result = Polled(rules[r], runtime[r], at)
    BY DEF result
  <2> DEFINE known == FiredOf(r)
  <2>2. after = FiredAfter(r, result, tells, known)
    BY DEF after
  <2> HIDE DEF known
  <2>3. RuleHolds(rules[r], runtime[r].seen, runtime[r].due, said, known, clock, emitted)
    BY <1>6 DEF known
  <2>4. GoesOn(rules[r], runtime[r], said, known, r, result, tells, clock, emitted, 0)
    BY <1>3, <1>4, <1>5, <2>1, <2>3, RuleLooked
  <2> QED
    BY <2>2, <2>4 DEF known, GoesOn
<1>9. ASSUME NEW u \in Sources \ {Poller}, StillTo(u, r)
      PROVE  Unused(thread[u].of, result.state.seen, tells, after)
  <2>1. Unused(thread[u].of, runtime[r].seen, said, FiredOf(r))
    BY <1>3, <1>9 DEF BusInv, NewTo, said
  <2>2. Busy(u)
    BY <1>9 DEF StillTo, Busy
  <2>3. thread[u].of # 0
    BY <2>2 DEF BusInv
  <2> QED
    BY <1>8, <2>1, <2>3
<1>10. r = thread[Poller].rule
  BY DEF r
<1>11. after = FiredAfter(r, result, tells, FiredOf(r))
  BY DEF after
<1> QED
  BY <1>0, <1>1, <1>2, <1>8, <1>9, <1>10, <1>11, HeldKeeps

LEMMA EmitKeeps ==
  ASSUME BusInv, NEW s \in Sources, Emit(s)
  PROVE  BusInv'
<1>1. /\ thread[s].pc = "idle" /\ emitted' = emitted + 1
      /\ thread' = [thread EXCEPT ![s] = Begins(1, emitted + 1)]
      /\ UNCHANGED <<rules, runtime, clock, heard, fired>>
      /\ \E r \in DOMAIN rules : MatchingLeaves(rules[r], s) # {}
  BY DEF Emit
<1>2. /\ BusTypes /\ clock \in Nat /\ emitted \in Nat /\ emitted' \in Nat /\ emitted <= emitted'
      /\ DOMAIN thread = BusThreads /\ \A u \in BusThreads : ThreadTypes(u)
  BY <1>1 DEF BusInv, BusTypes
<1>3. Sources \subseteq BusThreads
  BY DEF BusThreads
<1>4. /\ DOMAIN thread' = BusThreads
      /\ thread'[s] = [pc |-> "stamped", rule |-> 1, at |-> clock, of |-> emitted + 1, got |-> {}]
      /\ \A u \in BusThreads \ {s} : thread'[u] = thread[u]
  BY <1>1, <1>2, <1>3 DEF Begins
<1>5. Len(rules) \in Nat /\ DOMAIN rules = 1 .. Len(rules) /\ 1 \in DOMAIN rules
  BY <1>1, <1>2, RuleNumbers DEF BusTypes
<1>6. ThreadTypes(s)'
  BY <1>1, <1>2, <1>4, <1>5 DEF ThreadTypes, Busy
<1>7. ASSUME NEW u \in BusThreads \ {s} PROVE ThreadTypes(u)'
  <2>1. ThreadTypes(u) /\ 0 .. emitted \subseteq 0 .. emitted'
    BY <1>2
  <2> QED
    BY <1>1, <1>4, <2>1 DEF ThreadTypes, Busy
<1>8. BusTypes'
  BY <1>1, <1>2, <1>4, <1>6, <1>7 DEF BusTypes
<1>9. \A r \in DOMAIN rules : RuleInv(r)'
  <2>1. clock' \in Nat /\ clock <= clock'
    BY <1>1, <1>2
  <2> QED
    BY <1>1, <1>2, <2>1, RulesWait
<1>10. \A u \in Sources \ {s} : thread[u].of \in 0 .. emitted /\ thread'[u] = thread[u]
  BY <1>2, <1>3, <1>4 DEF ThreadTypes
<1>11. thread'[s].of = emitted + 1 /\ emitted + 1 # 0 /\ emitted + 1 \notin 0 .. emitted
  BY <1>2, <1>4
<1>12. \A u \in Sources : Busy(u)' => thread'[u].of # 0
  BY <1>10, <1>11 DEF BusInv, Busy
<1>13. \A t, u \in Sources : t # u /\ Busy(t)' /\ Busy(u)' => thread'[t].of # thread'[u].of
  BY <1>10, <1>11 DEF BusInv, Busy
<1>14. ASSUME NEW u \in Sources, NEW r \in DOMAIN rules, StillTo(u, r)' PROVE NewTo(u, r)'
  <2>1. FiredOf(r)' = FiredOf(r)
    BY <1>1 DEF FiredOf
  <2>2. CASE u = s
    <3>1. Dated(runtime[r].seen, heard[r], FiredOf(r), clock, emitted)
      BY DEF BusInv, RuleInv, RuleHolds
    <3>2. Unused(emitted + 1, runtime[r].seen, heard[r], FiredOf(r))
      BY <1>11, <3>1 DEF Dated, Unused
    <3> QED
      BY <1>1, <1>11, <2>1, <2>2, <3>2 DEF NewTo
  <2>3. CASE u # s
    <3>1. StillTo(u, r)
      BY <1>10, <1>14, <2>3 DEF StillTo
    <3>2. NewTo(u, r)
      BY <3>1 DEF BusInv
    <3> QED
      BY <1>1, <1>10, <2>1, <2>3, <3>2 DEF NewTo
  <2> QED
    BY <2>2, <2>3
<1> QED
  BY <1>1, <1>8, <1>9, <1>12, <1>13, <1>14 DEF BusInv

(* What the threads of the triggers have is untouched.                      *)
LEMMA SourcesKeep ==
  ASSUME BusInv, UNCHANGED <<rules, runtime, heard, fired>>, BusTypes',
         clock <= clock', emitted <= emitted',
         \A s \in Sources : /\ Busy(s)' => Busy(s) /\ thread'[s].of = thread[s].of
                            /\ \A r \in DOMAIN rules : StillTo(s, r)' => StillTo(s, r)
  PROVE  BusInv'
<1>1. \A r \in DOMAIN rules' : RuleInv(r)'
  BY RulesWait DEF BusTypes
<1>2. ASSUME NEW s \in Sources, NEW r \in DOMAIN rules, StillTo(s, r)' PROVE NewTo(s, r)'
  <2>1. NewTo(s, r)
    BY <1>2 DEF BusInv
  <2>2. Busy(s)'
    BY <1>2 DEF StillTo, Busy
  <2>3. FiredOf(r)' = FiredOf(r)
    BY DEF FiredOf
  <2> QED
    BY <2>1, <2>2, <2>3 DEF NewTo
<1>3. /\ \A s \in Sources : Busy(s)' => thread'[s].of # 0
      /\ \A s, t \in Sources : s # t /\ Busy(s)' /\ Busy(t)' => thread'[s].of # thread'[t].of
  BY DEF BusInv
<1> QED
  BY <1>1, <1>2, <1>3 DEF BusInv

LEMMA PollKeeps ==
  ASSUME BusInv, Poll
  PROVE  BusInv'
<1>1. /\ Len(rules) > 0 /\ thread' = [thread EXCEPT ![Poller] = Begins(1, 0)]
      /\ UNCHANGED <<rules, runtime, clock, emitted, heard, fired>>
  BY DEF Poll
<1>2. /\ BusTypes /\ clock \in Nat /\ emitted \in Nat
      /\ DOMAIN thread = BusThreads /\ \A u \in BusThreads : ThreadTypes(u)
  BY DEF BusInv, BusTypes
<1>3. Sources \subseteq BusThreads \ {Poller} /\ Poller \in BusThreads
  BY BusAssumption DEF BusThreads, BusAssumption
<1>4. /\ DOMAIN thread' = BusThreads
      /\ thread'[Poller] = [pc |-> "stamped", rule |-> 1, at |-> clock, of |-> 0, got |-> {}]
      /\ \A u \in BusThreads \ {Poller} : thread'[u] = thread[u]
  BY <1>1, <1>2, <1>3 DEF Begins
<1>5. 1 \in DOMAIN rules
  BY <1>1, <1>2, RuleNumbers DEF BusTypes
<1>6. ThreadTypes(Poller)'
  BY <1>1, <1>2, <1>4, <1>5 DEF ThreadTypes, Busy
<1>7. \A u \in BusThreads \ {Poller} : ThreadTypes(u)'
  BY <1>1, <1>2, <1>4 DEF ThreadTypes, Busy
<1>8. BusTypes'
  BY <1>1, <1>2, <1>4, <1>6, <1>7 DEF BusTypes
<1>9. \A s \in Sources : /\ Busy(s)' => Busy(s) /\ thread'[s].of = thread[s].of
                         /\ \A r \in DOMAIN rules : StillTo(s, r)' => StillTo(s, r)
  BY <1>3, <1>4 DEF Busy, StillTo
<1>10. clock <= clock' /\ emitted <= emitted'
  BY <1>1, <1>2
<1> QED
  BY <1>1, <1>8, <1>9, <1>10, SourcesKeep

LEMMA TickKeeps ==
  ASSUME BusInv, Tick
  PROVE  BusInv'
<1>1. clock' = clock + 1 /\ UNCHANGED <<rules, runtime, thread, emitted, heard, fired>>
  BY DEF Tick
<1>2. BusTypes /\ clock \in Nat /\ emitted \in Nat
  BY DEF BusInv, BusTypes
<1>3. clock' \in Nat /\ clock <= clock' /\ emitted <= emitted' /\ 0 .. clock \subseteq 0 .. clock'
  BY <1>1, <1>2
<1>4. ASSUME NEW u \in BusThreads PROVE ThreadTypes(u)'
  <2>1. ThreadTypes(u)
    BY <1>2 DEF BusTypes
  <2> QED
    BY <1>1, <1>3, <2>1 DEF ThreadTypes, Busy
<1>5. BusTypes'
  BY <1>1, <1>2, <1>3, <1>4 DEF BusTypes
<1>6. \A s \in Sources : /\ Busy(s)' => Busy(s) /\ thread'[s].of = thread[s].of
                         /\ \A r \in DOMAIN rules : StillTo(s, r)' => StillTo(s, r)
  BY <1>1 DEF Busy, StillTo
<1> QED
  BY <1>1, <1>3, <1>5, <1>6, SourcesKeep

LEMMA DispatchKeeps ==
  ASSUME BusInv, NEW t \in BusThreads, Dispatch(t)
  PROVE  BusInv'
<1>1. /\ thread[t].pc = "matched" /\ NextRule(t)
      /\ UNCHANGED <<rules, runtime, clock, emitted, heard, fired>>
  BY DEF Dispatch
<1>2. BusTypes /\ clock \in Nat /\ emitted \in Nat /\ Busy(t)
  BY <1>1 DEF BusInv, BusTypes, Busy
<1>3. /\ DOMAIN thread' = BusThreads
      /\ \A u \in BusThreads : ThreadTypes(u)'
      /\ \A u \in BusThreads \ {t} : thread'[u] = thread[u]
      /\ Busy(t)' => thread'[t].of = thread[t].of
      /\ \A r \in DOMAIN rules : StillTo(t, r)' => thread[t].rule < r
  BY <1>1, <1>2, NextRuleKeeps
<1>4. BusTypes'
  BY <1>1, <1>2, <1>3 DEF BusTypes
<1>5. ASSUME NEW s \in Sources
      PROVE  /\ Busy(s)' => Busy(s) /\ thread'[s].of = thread[s].of
             /\ \A r \in DOMAIN rules : StillTo(s, r)' => StillTo(s, r)
  <2>1. CASE s = t
    BY <1>1, <1>2, <1>3, <2>1 DEF StillTo
  <2>2. CASE s # t
    <3>1. thread'[s] = thread[s]
      BY <1>3, <2>2 DEF BusThreads
    <3> QED
      BY <3>1 DEF Busy, StillTo
  <2> QED
    BY <2>1, <2>2
<1>6. clock <= clock' /\ emitted <= emitted'
  BY <1>1, <1>2
<1> QED
  BY <1>1, <1>4, <1>5, <1>6, SourcesKeep

LEMMA BusUntouched ==
  ASSUME BusInv, UNCHANGED <<rules, runtime, clock, thread, emitted, heard, fired>>
  PROVE  BusInv'
<1>1. BusTypes'
  BY DEF BusInv, BusTypes, ThreadTypes, Busy
<1>2. \A s \in Sources : /\ Busy(s)' => Busy(s) /\ thread'[s].of = thread[s].of
                         /\ \A r \in DOMAIN rules : StillTo(s, r)' => StillTo(s, r)
  BY DEF Busy, StillTo
<1>3. clock <= clock' /\ emitted <= emitted'
  BY DEF BusInv, BusTypes
<1> QED
  BY <1>1, <1>2, <1>3, SourcesKeep

LEMMA BusInvStep == BusInv /\ [BusNext]_busVars => BusInv'
<1> SUFFICES ASSUME BusInv, [BusNext]_busVars PROVE BusInv'
  OBVIOUS
<1>1. CASE Tick
  BY <1>1, TickKeeps
<1>2. CASE Poll
  BY <1>2, PollKeeps
<1>3. CASE Look
  BY <1>3, LookKeeps
<1>4. CASE BusShutdown
  BY <1>4, BusUntouched DEF BusShutdown
<1>5. ASSUME NEW s \in Sources, Emit(s) \/ Record(s) PROVE BusInv'
  BY <1>5, EmitKeeps, RecordKeeps
<1>6. ASSUME NEW t \in BusThreads, Dispatch(t) PROVE BusInv'
  BY <1>6, DispatchKeeps
<1>7. CASE UNCHANGED busVars
  BY <1>7, BusUntouched DEF busVars
<1> QED
  BY <1>1, <1>2, <1>3, <1>4, <1>5, <1>6, <1>7 DEF BusNext

LEMMA BusInvHolds == BusSpec => []BusInv
<1> QED
  BY BusInvInit, BusInvStep, PTL DEF BusSpec

LEMMA FiringsAreJustified == BusInv => FiringsJustified
<1> SUFFICES ASSUME BusInv PROVE FiringsJustified
  OBVIOUS
<1>1. ASSUME NEW f \in fired
      PROVE  /\ f.rule \in DOMAIN rules /\ f \in FiredOf(f.rule)
             /\ Justified(rules[f.rule], f) /\ CountsOnce(runtime[f.rule].seen, FiredOf(f.rule))
  <2>1. f.rule \in DOMAIN rules /\ f \in FiredOf(f.rule)
    BY DEF BusInv, BusTypes, FiredOf
  <2> QED
    BY <2>1 DEF BusInv, RuleInv, RuleHolds
<1>2. \A f \in fired :
        Satisfies(rules[f.rule], [k \in {e.key : e \in f.events} |->
                                    (CHOOSE e \in f.events : e.key = k).at])
  BY <1>1 DEF Justified
<1>3. ASSUME NEW f \in fired, NEW g \in fired, f # g, f.rule = g.rule, NEW e \in f.events \cap g.events
      PROVE  e.of = 0
  <2>1. f \in FiredOf(f.rule) /\ g \in FiredOf(f.rule)
    BY <1>3 DEF FiredOf
  <2> QED
    BY <1>1, <1>3, <2>1 DEF CountsOnce
<1> QED
  BY <1>2, <1>3 DEF FiringsJustified

LEMMA AbsencesAreHonest == BusInv => AbsencesHonest
<1> SUFFICES ASSUME BusInv, NEW f \in fired, NEW n \in AbsenceNodes(rules[f.rule]), NEW e \in f.events,
                    e.key = Missing(rules[f.rule].key[Watched(rules[f.rule], n)])
             PROVE  LET leaf == rules[f.rule].key[Watched(rules[f.rule], n)]
                    IN  /\ leaf \in DOMAIN f.heard
                        /\ e.at >= f.heard[leaf].at + rules[f.rule].within[n]
                        /\ \A g \in fired \ {f} :
                             (g.rule = f.rule /\ \E o \in g.events : o.key = e.key)
                               => g.heard[leaf] # f.heard[leaf]
  BY DEF AbsencesHonest
<1> DEFINE c == rules[f.rule]
           leaf == c.key[Watched(c, n)]
           key == MissingKey(c, n)
<1>1. f.rule \in DOMAIN rules /\ f \in FiredOf(f.rule)
  BY DEF BusInv, BusTypes, FiredOf
<1>2. SilenceOf(c, n, runtime[f.rule].seen, runtime[f.rule].due, heard[f.rule], FiredOf(f.rule))
  BY <1>1 DEF BusInv, RuleInv, RuleHolds
<1>3. e.key = key
  BY DEF MissingKey
<1>4. leaf \in DOMAIN f.heard /\ e.at >= f.heard[leaf].at + c.within[n]
  BY <1>1, <1>2, <1>3 DEF SilenceOf, Silences
<1>5. ASSUME NEW g \in fired \ {f}, g.rule = f.rule, \E o \in g.events : o.key = e.key
      PROVE  g.heard[leaf] # f.heard[leaf]
  <2>1. g \in FiredOf(f.rule) /\ FiredFor(g, key) /\ FiredFor(f, key)
    BY <1>3, <1>5 DEF FiredOf, FiredFor
  <2>2. f # g
    BY <1>5
  <2> QED
    BY <1>1, <1>2, <2>1, <2>2 DEF SilenceOf, Silences
<1> QED
  BY <1>4, <1>5

LEMMA NothingIsLeft == BusInv => NothingLeftUnfired
<1> SUFFICES ASSUME BusInv, NEW r \in DOMAIN rules,
                    BindsOnce(rules[r]), WaitsOnce(rules[r]), ~ChoiceInWindow(rules[r]),
                    NEW keys \in SUBSET DOMAIN runtime[r].seen,
                    Satisfies(rules[r], [k \in keys |-> runtime[r].seen[k].at])
             PROVE  FALSE
  BY DEF NothingLeftUnfired
<1>1. ~Complete(rules[r], runtime[r].seen)
  BY DEF BusInv, RuleInv, RuleHolds
<1>2. Satisfies(rules[r], TimesOf(runtime[r].seen, keys))
  BY DEF TimesOf
<1> QED
  BY <1>1, <1>2 DEF Complete

(* A rule fires for events that satisfy its condition and all its time      *)
(* windows, and none counts twice for the same leaf: match_and_take finds   *)
(* a combination and consumes it under one hold of the lock                 *)
(* (core/condition_runtime.py).                                             *)
THEOREM FiringsAlwaysJustified == BusSpec => []FiringsJustified
<1> QED
  BY BusInvHolds, FiringsAreJustified, PTL

(* A NOT counts only after a silence of its length since the last matching  *)
(* event the rule recorded, and a silence counts once (poll_absences).      *)
THEOREM AbsencesAlwaysHonest == BusSpec => []AbsencesHonest
<1> QED
  BY BusInvHolds, AbsencesAreHonest, PTL

(* What a rule keeps of its events is never a complete combination, but for *)
(* the three kinds of rules NothingLeftUnfired excepts.                     *)
THEOREM NothingStaysUnfired == BusSpec => []NothingLeftUnfired
<1> QED
  BY BusInvHolds, NothingIsLeft, PTL

(***************************************************************************)
(* The runs shown.  What is kept are events that were recorded; if those   *)
(* of a run are all among them, its status is the one that the whole       *)
(* script up to the last event published gives it, whatever was kept of    *)
(* the other runs: the two folds go in step (InStep).                      *)
(***************************************************************************)
Genuine(s) == \A i \in 1..Len(s) : s[i] >= 1 /\ script[s[i]].kind \in Recorded
OnlyRecorded == Genuine(memory) /\ Genuine(pending) /\ Genuine(batch) /\ Genuine(file)

LEMMA GenuinePiece ==
  ASSUME NEW s \in Seq(Nat), NEW q, NEW a, Piece(q, s, a), Genuine(s)
  PROVE  Genuine(q)
<1>0. /\ q \in Seq(Nat) /\ a \in Nat /\ Len(q) \in Nat /\ Len(s) \in Nat /\ a + Len(q) <= Len(s)
      /\ \A k \in 1..Len(q) : q[k] = s[a + k]
  BY DEF Piece
<1>1. ASSUME NEW k \in 1..Len(q) PROVE a + k \in 1..Len(s) /\ q[k] = s[a + k]
  BY <1>0
<1> QED
  BY <1>1 DEF Genuine

LEMMA GenuineJoined ==
  ASSUME NEW s \in Seq(Nat), NEW t \in Seq(Nat), Genuine(s), Genuine(t)
  PROVE  Genuine(s \o t)
<1>1. ASSUME NEW k \in 1..Len(s \o t)
      PROVE  (k \in 1..Len(s) /\ (s \o t)[k] = s[k])
               \/ (k - Len(s) \in 1..Len(t) /\ (s \o t)[k] = t[k - Len(s)])
  BY Joined
<1> QED
  BY <1>1 DEF Genuine

LEMMA GenuineLast ==
  ASSUME NEW s \in Seq(Nat), Genuine(s)
  PROVE  Genuine(LastOf(s))
<1>1. PICK a \in Nat : Piece(LastOf(s), s, a)
  BY LastPiece
<1> QED
  BY <1>1, GenuinePiece

LEMMA GenuineAppended ==
  ASSUME NEW s \in Seq(Nat), Genuine(s), NEW e \in Nat, e >= 1, script[e].kind \in Recorded
  PROVE  Genuine(LastOf(Append(s, e)))
<1>1. /\ Append(s, e) \in Seq(Nat) /\ Len(Append(s, e)) = Len(s) + 1 /\ Len(s) \in Nat
      /\ \A k \in 1..Len(s) : Append(s, e)[k] = s[k]
      /\ Append(s, e)[Len(s) + 1] = e
  BY AppendProperties, LenProperties
<1>2. Genuine(Append(s, e))
  <2> SUFFICES ASSUME NEW i \in 1..Len(s) + 1
               PROVE  Append(s, e)[i] >= 1 /\ script[Append(s, e)[i]].kind \in Recorded
    BY <1>1 DEF Genuine
  <2>1. CASE i = Len(s) + 1
    BY <1>1, <2>1
  <2>2. CASE i # Len(s) + 1
    <3>1. i \in 1..Len(s)
      BY <1>1, <2>2
    <3> QED
      BY <1>1, <3>1 DEF Genuine
  <2> QED
    BY <2>1, <2>2
<1> QED
  BY <1>1, <1>2, GenuineLast

LEMMA OnlyRecordedInit == HistoryInit => OnlyRecorded
  BY DEF HistoryInit, OnlyRecorded, Genuine

LEMMA OnlyRecordedStep == RecordInv /\ OnlyRecorded /\ [HistoryNext]_historyVars => OnlyRecorded'
<1> SUFFICES ASSUME RecordInv, OnlyRecorded, [HistoryNext]_historyVars PROVE OnlyRecorded'
  OBVIOUS
<1>0. /\ memory \in Seq(Nat) /\ pending \in Seq(Nat) /\ batch \in Seq(Nat) /\ file \in Seq(Nat)
      /\ published \in Nat
      /\ Genuine(memory) /\ Genuine(pending) /\ Genuine(batch) /\ Genuine(file)
      /\ Genuine(<<>>) /\ (writer = "writing" <=> batch # <<>>)
  BY DEF RecordInv, RecordTypes, InHand, OnlyRecorded, Genuine
<1>a. script' = script
  BY DEF historyVars, HistoryNext, WriterStep, Disturbance, Publish, WriterWaits, WriterExits,
         WriterTakes, BatchWritten, Compacts, BatchFails, CompactionFails, Restart
<1>b. SUFFICES \E m, p, b, f :
                 /\ m = memory' /\ p = pending' /\ b = batch' /\ f = file'
                 /\ Genuine(m) /\ Genuine(p) /\ Genuine(b) /\ Genuine(f)
  <2>1. PICK m, p, b, f :
          /\ m = memory' /\ p = pending' /\ b = batch' /\ f = file'
          /\ Genuine(m) /\ Genuine(p) /\ Genuine(b) /\ Genuine(f)
    OBVIOUS
  <2> QED
    BY <1>a, <2>1 DEF OnlyRecorded, Genuine
<1>1. ASSUME NEW q, NEW a, Piece(q, batch, a), file' = file \o q PROVE \E f : f = file' /\ Genuine(f)
  <2>1. q \in Seq(Nat) /\ Genuine(q)
    BY <1>0, <1>1, GenuinePiece DEF Piece
  <2>2. Genuine(file \o q)
    BY <1>0, <2>1, GenuineJoined
  <2> QED
    BY <1>1, <2>2
<1>2. CASE Publish
  <2>1. CASE script[published + 1].kind \in Recorded
    <3>1. /\ memory' = LastOf(Append(memory, published + 1))
          /\ pending' = LastOf(Append(pending, published + 1)) /\ batch' = batch /\ file' = file
      BY <1>2, <2>1 DEF Publish, Enqueue, fileVars
    <3>2. published + 1 \in Nat /\ published + 1 >= 1
      BY <1>0
    <3>3. Genuine(LastOf(Append(memory, published + 1))) /\ Genuine(LastOf(Append(pending, published + 1)))
      BY <1>0, <2>1, <3>2, GenuineAppended
    <3> QED
      BY <1>0, <3>1, <3>3
  <2>2. CASE script[published + 1].kind \notin Recorded
    BY <1>0, <1>2, <2>2 DEF Publish, fileVars
  <2> QED
    BY <2>1, <2>2
<1>3. CASE WriterWaits \/ WriterExits \/ CompactionFails \/ UNCHANGED historyVars
  BY <1>0, <1>3 DEF WriterWaits, WriterExits, CompactionFails, historyVars, fileVars
<1>4. CASE WriterTakes
  <2>1. PICK n : /\ n = IF Len(pending) < BatchSize THEN Len(pending) ELSE BatchSize
                 /\ batch' = SubSeq(pending, 1, n) /\ pending' = SubSeq(pending, n + 1, Len(pending))
    BY <1>4 DEF WriterTakes
  <2>2. Len(pending) \in Nat /\ n \in Nat /\ n <= Len(pending)
    <3>1. Len(pending) \in Nat /\ BatchSize \in Nat
      BY <1>0, HistoryAssumption
    <3> QED
      BY <2>1, <3>1
  <2>3. Piece(SubSeq(pending, 0 + 1, n), pending, 0) /\ Piece(SubSeq(pending, n + 1, Len(pending)), pending, n)
    BY <1>0, <2>1, <2>2, SubSeqPiece
  <2>4. Genuine(SubSeq(pending, 0 + 1, n)) /\ Genuine(SubSeq(pending, n + 1, Len(pending)))
    BY <1>0, <2>3, GenuinePiece
  <2>5. batch' = SubSeq(pending, 0 + 1, n)
    BY <2>1
  <2>6. memory' = memory /\ file' = file
    BY <1>4 DEF WriterTakes, fileVars
  <2> QED
    BY <1>0, <2>1, <2>4, <2>5, <2>6
<1>5. CASE BatchWritten
  <2>1. \E q, a : Piece(q, batch, a) /\ file' = file \o q
    <3>1. CASE torn
      <4>1. batch # <<>> /\ file' = file \o Tail(batch)
        BY <1>0, <1>5, <3>1 DEF BatchWritten, Appends
      <4> QED
        BY <1>0, <4>1, TailPiece
    <3>2. CASE ~torn
      <4>1. file' = file \o batch
        BY <1>5, <3>2 DEF BatchWritten, Appends
      <4>2. Piece(batch, batch, 0)
        BY <1>0 DEF Piece
      <4> QED
        BY <4>1, <4>2
    <3> QED
      BY <3>1, <3>2
  <2> QED
    BY <1>0, <1>1, <1>5, <2>1 DEF BatchWritten
<1>6. CASE BatchFails
  <2>1. PICK n \in 0..Len(batch), piece \in BOOLEAN : WrittenUpTo(n, piece)
    BY <1>6 DEF BatchFails
  <2>2. PICK q, a : Piece(q, batch, a) /\ file' = file \o q
    BY <1>0, <1>6, <2>1, Written DEF BatchFails
  <2> QED
    BY <1>0, <1>1, <1>6, <2>2 DEF BatchFails
<1>7. CASE Compacts
  <2>1. Genuine(LastOf(file))
    BY <1>0, GenuineLast
  <2> QED
    BY <1>0, <1>7, <2>1 DEF Compacts
<1>8. CASE Restart
  <2>1. PICK f : f = file' /\ Genuine(f) /\ f \in Seq(Nat)
    <3>1. CASE writer = "writing"
      <4>1. PICK n \in 0..Len(batch), piece \in BOOLEAN : WrittenUpTo(n, piece)
        BY <1>8, <3>1 DEF Restart
      <4>2. PICK q, a : Piece(q, batch, a) /\ file' = file \o q
        BY <1>0, <3>1, <4>1, Written
      <4>3. file' \in Seq(Nat)
        BY <4>2, FileGrows
      <4> QED
        BY <1>1, <4>2, <4>3
    <3>2. CASE writer # "writing"
      BY <1>0, <1>8, <3>2 DEF Restart
    <3> QED
      BY <3>1, <3>2
  <2>2. Genuine(LastOf(f))
    BY <2>1, GenuineLast
  <2>3. memory' = LastOf(f) /\ pending' = <<>> /\ batch' = <<>>
    BY <1>8, <2>1 DEF Restart
  <2> QED
    BY <1>0, <2>1, <2>2, <2>3
<1> QED
  BY <1>2, <1>3, <1>4, <1>5, <1>6, <1>7, <1>8 DEF HistoryNext, WriterStep, Disturbance

(* Values that follow, one from the one before it, from a first one.        *)
Links(f, n, V, first, Step) ==
  f \in [0..n -> V] /\ f[0] = first /\ \A i \in 1..n : f[i] = Step[i][f[i - 1]]

LEMMA Chain ==
  ASSUME NEW n \in Nat, NEW V, NEW first \in V, NEW Step \in [1..n -> [V -> V]]
  PROVE  \E f : Links(f, n, V, first, Step)
<1> DEFINE Upto(d) == \E f \in [0..n -> V] : f[0] = first /\ \A i \in 1..n : i <= d => f[i] = Step[i][f[i - 1]]
           T == {d \in Nat : ~Upto(d)}
<1>1. Upto(0)
  <2>1. [i \in 0..n |-> first] \in [0..n -> V] /\ [i \in 0..n |-> first][0] = first
    OBVIOUS
  <2>2. \A i \in 1..n : ~(i <= 0)
    OBVIOUS
  <2> QED
    BY <2>1, <2>2
<1>2. ASSUME NEW d \in Nat, Upto(d) PROVE Upto(d + 1)
  <2>1. PICK f \in [0..n -> V] : f[0] = first /\ \A i \in 1..n : i <= d => f[i] = Step[i][f[i - 1]]
    BY <1>2
  <2>2. CASE d + 1 > n
    <3>1. \A i \in 1..n : i <= d
      BY <2>2
    <3> QED
      BY <2>1, <3>1
  <2>3. CASE ~(d + 1 > n)
    <3>0. d + 1 \in 1..n /\ d \in 0..n /\ (d + 1) - 1 = d
      BY <2>3
    <3>1. PICK v \in V : v = Step[d + 1][f[d]]
      <4>1. Step[d + 1] \in [V -> V] /\ f[d] \in V
        BY <3>0
      <4> QED
        BY <4>1
    <3> DEFINE g == [i \in 0..n |-> IF i = d + 1 THEN v ELSE f[i]]
    <3>2. g \in [0..n -> V] /\ g[0] = first
      BY <2>1
    <3>3. ASSUME NEW i \in 1..n, i <= d + 1 PROVE g[i] = Step[i][g[i - 1]]
      <4>0. i - 1 \in 0..n /\ i \in 0..n /\ i - 1 # d + 1
        BY <3>3
      <4>1. g[i - 1] = f[i - 1]
        BY <4>0
      <4>2. CASE i = d + 1
        BY <3>0, <3>1, <4>0, <4>1, <4>2
      <4>3. CASE i # d + 1
        <5>1. i <= d /\ g[i] = f[i]
          BY <3>3, <4>0, <4>3
        <5> QED
          BY <2>1, <4>1, <5>1
      <4> QED
        BY <4>2, <4>3
    <3> HIDE DEF g
    <3> QED
      BY <3>2, <3>3
  <2> QED
    BY <2>2, <2>3
<1>3. T = {}
  <2> SUFFICES ASSUME T # {} PROVE FALSE
    OBVIOUS
  <2>0. T \in SUBSET Nat
    OBVIOUS
  <2> HIDE DEF Upto
  <2>1. PICK d \in T : \A e \in T : d <= e
    BY <2>0, LeastNumber
  <2>2. d # 0
    BY <1>1
  <2>3. d - 1 \in Nat /\ (d - 1) + 1 = d
    BY <2>2
  <2>4. Upto(d - 1)
    BY <2>1, <2>3
  <2> QED
    BY <1>2, <2>3, <2>4
<1>4. PICK f \in [0..n -> V] : f[0] = first /\ \A i \in 1..n : i <= n => f[i] = Step[i][f[i - 1]]
  BY <1>3
<1> QED
  BY <1>4 DEF Links

Shows == {"unknown", "running", "queued", "failed", "succeeded", "dropped", "replaced"}

LEMMA StatusStays ==
  ASSUME NEW run, NEW e, NEW status \in Shows
  PROVE  Applied(run, e, status) \in Shows /\ (status \in Terminal => Applied(run, e, status) = status)
<1>1. \A kind, current : current \in Terminal => StatusAfter(kind, current) = current
  BY DEF StatusAfter
<1>2. \A kind : \A current \in Shows : StatusAfter(kind, current) \in Shows
  BY DEF StatusAfter, Shows
<1>3. "unknown" \notin Terminal /\ "running" \in Shows
  BY DEF Terminal, Shows
<1> QED
  BY <1>1, <1>2, <1>3 DEF Applied

Folded(f, run, events) ==
  /\ f \in [0..Len(events) -> Shows] /\ f[0] = "unknown"
  /\ \A i \in 1..Len(events) : f[i] = Applied(run, events[i], f[i - 1])

LEMMA StatusesFold ==
  ASSUME NEW run, NEW m \in Seq(Nat)
  PROVE  Folded(Statuses(run, m), run, m)
<1> DEFINE N == 0..Len(m)
           Next(f, i) == IF i = 0 THEN "unknown" ELSE Applied(run, m[i], f[i - 1])
           Step == [i \in 1..Len(m) |-> [s \in Shows |-> Applied(run, m[i], s)]]
<1>0. Len(m) \in Nat /\ "unknown" \in Shows
  BY DEF Shows
<1>1. PICK f \in [0..Len(m) -> Shows] :
        f[0] = "unknown" /\ \A i \in 1..Len(m) : f[i] = Applied(run, m[i], f[i - 1])
  <2>1. Step \in [1..Len(m) -> [Shows -> Shows]]
    BY StatusStays
  <2>2. \A i \in 1..Len(m) : \A s \in Shows : Step[i][s] = Applied(run, m[i], s)
    OBVIOUS
  <2> HIDE DEF Step
  <2>c. \E f : Links(f, Len(m), Shows, "unknown", Step)
    BY <1>0, <2>1, Chain
  <2>3. PICK f \in [0..Len(m) -> Shows] : f[0] = "unknown" /\ \A i \in 1..Len(m) : f[i] = Step[i][f[i - 1]]
    BY <2>c DEF Links
  <2>4. ASSUME NEW i \in 1..Len(m) PROVE f[i] = Applied(run, m[i], f[i - 1])
    <3>1. i - 1 \in 0..Len(m)
      BY <1>0
    <3>2. f[i - 1] \in Shows
      BY <3>1
    <3> QED
      BY <2>2, <2>3, <3>2
  <2> QED
    BY <2>3, <2>4
<1>2. f = [i \in N |-> Next(f, i)]
  <2>1. \A i \in N : f[i] = Next(f, i)
    BY <1>0, <1>1
  <2>2. f = [i \in N |-> f[i]]
    OBVIOUS
  <2> HIDE DEF Next
  <2> QED
    BY <2>1, <2>2
<1> DEFINE E == Statuses(run, m)
<1>3. E = [i \in N |-> Next(E, i)]
  BY <1>2 DEF Statuses
<1>4. ASSUME NEW i \in N PROVE E[i] = IF i = 0 THEN "unknown" ELSE Applied(run, m[i], E[i - 1])
  <2> HIDE DEF E
  <2> QED
    BY <1>3
<1> HIDE DEF E
<1> DEFINE T == {i \in N : E[i] # f[i]}
<1>5. T = {}
  <2> SUFFICES ASSUME T # {} PROVE FALSE
    OBVIOUS
  <2>1. T \in SUBSET Nat
    BY <1>0
  <2>2. PICK i \in T : \A j \in T : i <= j
    BY <2>1, LeastNumber
  <2>3. i \in N /\ E[i] # f[i] /\ i \in Nat
    BY <1>0
  <2>4. i # 0
    BY <1>1, <1>4, <2>3
  <2>5. i - 1 \in N /\ i \in 1..Len(m) /\ ~(i <= i - 1)
    BY <1>0, <2>3, <2>4
  <2>6. E[i - 1] = f[i - 1]
    BY <2>2, <2>5
  <2> QED
    BY <1>1, <1>4, <2>3, <2>4, <2>5, <2>6
<1>6. E = f
  <2>1. E = [i \in N |-> E[i]]
    BY <1>3
  <2>2. f = [i \in N |-> f[i]]
    OBVIOUS
  <2>3. \A i \in N : E[i] = f[i]
    BY <1>5
  <2> QED
    BY <2>1, <2>2, <2>3
<1> QED
  BY <1>1, <1>6 DEF E, Folded

(* The status that the script gives a run, up to each event.                *)
Verdicts(v, run, n) ==
  /\ v \in [0..n -> Shows] /\ v[0] = "unknown"
  /\ \A e \in 1..n :
       v[e] = IF script[e].kind \in Recorded THEN Applied(run, e, v[e - 1]) ELSE v[e - 1]

LEMMA VerdictsExist ==
  ASSUME NEW run, NEW n \in Nat
  PROVE  \E v : Verdicts(v, run, n)
<1> DEFINE Step == [e \in 1..n |-> [s \in Shows |-> IF script[e].kind \in Recorded THEN Applied(run, e, s) ELSE s]]
<1>1. Step \in [1..n -> [Shows -> Shows]]
  BY StatusStays
<1>2. \A e \in 1..n : \A s \in Shows :
        Step[e][s] = IF script[e].kind \in Recorded THEN Applied(run, e, s) ELSE s
  OBVIOUS
<1>3. "unknown" \in Shows
  BY DEF Shows
<1> HIDE DEF Step
<1>c. \E v : Links(v, n, Shows, "unknown", Step)
  BY <1>1, <1>3, Chain
<1>4. PICK v \in [0..n -> Shows] : v[0] = "unknown" /\ \A e \in 1..n : v[e] = Step[e][v[e - 1]]
  BY <1>c DEF Links
<1>5. ASSUME NEW e \in 1..n
      PROVE  v[e] = IF script[e].kind \in Recorded THEN Applied(run, e, v[e - 1]) ELSE v[e - 1]
  <2>1. e - 1 \in 0..n
    OBVIOUS
  <2>2. v[e - 1] \in Shows
    BY <2>1
  <2> QED
    BY <1>2, <1>4, <2>2
<1> QED
  BY <1>4, <1>5 DEF Verdicts

(* Who keeps all events of a run shows what the script says of it.          *)
AllOf(run, p, m) ==
  \A e \in 1..p : script[e].run = run /\ script[e].kind \in Recorded => Within(e, m)

LEMMA InStep ==
  ASSUME NEW run, NEW n \in Nat, NEW v, Verdicts(v, run, n), NEW p \in 0..n,
         NEW m \in Seq(Nat), Increasing(m), UpTo(m, p), Genuine(m), AllOf(run, p, m)
  PROVE  Statuses(run, m)[Len(m)] = v[p]
<1>0. Len(m) \in Nat /\ p \in Nat /\ p <= n
  OBVIOUS
<1>1. PICK s : s = Statuses(run, m) /\ Folded(s, run, m)
  BY StatusesFold
<1> DEFINE At(e, i) == (i = 0 \/ m[i] <= e) /\ (i = Len(m) \/ e < m[i + 1])
           Bad == {e \in 0..p : \E i \in 0..Len(m) : At(e, i) /\ s[i] # v[e]}
<1>2. Bad = {}
  <2> SUFFICES ASSUME Bad # {} PROVE FALSE
    OBVIOUS
  <2>1. Bad \in SUBSET Nat
    BY <1>0
  <2>2. PICK e \in Bad : \A d \in Bad : e <= d
    BY <2>1, LeastNumber
  <2>3. PICK i \in 0..Len(m) : At(e, i) /\ s[i] # v[e]
    OBVIOUS
  <2>4. e \in Nat /\ e \in 0..p /\ i \in Nat /\ i <= Len(m)
    BY <1>0, <2>1, <2>2
  <2>5. \A k \in 1..Len(m) : m[k] \in Nat /\ m[k] >= 1 /\ m[k] <= p /\ script[m[k]].kind \in Recorded
    BY DEF Genuine, UpTo
  <2>6. CASE e = 0
    <3>1. i = 0
      <4> SUFFICES ASSUME i # 0 PROVE FALSE
        OBVIOUS
      <4>1. i \in 1..Len(m) /\ m[i] <= 0
        BY <2>3, <2>4, <2>6
      <4> QED
        BY <2>5, <4>1
    <3> QED
      BY <1>1, <2>3, <2>6, <3>1 DEF Verdicts, Folded
  <2>7. CASE e # 0
    <3>1. e - 1 \in 0..p /\ e \in 1..n /\ e \in 1..p /\ ~(e <= e - 1)
      BY <1>0, <2>4, <2>7
    <3>2. \A j \in 0..Len(m) : At(e - 1, j) => s[j] = v[e - 1]
      BY <2>2, <3>1
    <3>3. v[e] = IF script[e].kind \in Recorded THEN Applied(run, e, v[e - 1]) ELSE v[e - 1]
      BY <3>1 DEF Verdicts
    <3>4. CASE i # 0 /\ m[i] = e
      <4>1. i \in 1..Len(m) /\ i - 1 \in 0..Len(m) /\ (i - 1) + 1 = i
        BY <2>4, <3>4
      <4>2. At(e - 1, i - 1)
        <5>1. e - 1 < m[(i - 1) + 1]
          BY <2>4, <3>4, <4>1
        <5>2. ASSUME i - 1 # 0 PROVE m[i - 1] <= e - 1
          <6>1. i - 1 \in 1..Len(m) /\ i - 1 < i
            BY <4>1, <5>2
          <6>2. m[i - 1] < m[i] /\ m[i - 1] \in Nat
            BY <2>5, <4>1, <6>1 DEF Increasing
          <6> QED
            BY <2>4, <3>4, <6>2
        <5> QED
          BY <5>1, <5>2
      <4>3. s[i - 1] = v[e - 1]
        BY <3>2, <4>1, <4>2
      <4>4. s[i] = Applied(run, m[i], s[i - 1])
        BY <1>1, <4>1 DEF Folded
      <4>5. script[e].kind \in Recorded
        BY <2>5, <3>4, <4>1
      <4> QED
        BY <2>3, <3>3, <3>4, <4>3, <4>4, <4>5
    <3>5. CASE ~(i # 0 /\ m[i] = e)
      <4>1. At(e - 1, i)
        <5>1. ASSUME i # 0 PROVE m[i] <= e - 1
          <6>1. i \in 1..Len(m)
            BY <2>4, <5>1
          <6>2. m[i] \in Nat /\ m[i] # e /\ m[i] <= e
            BY <2>3, <2>5, <3>5, <5>1, <6>1
          <6> QED
            BY <2>4, <6>2
        <5>2. ASSUME i # Len(m) PROVE e - 1 < m[i + 1]
          <6>1. i + 1 \in 1..Len(m)
            BY <1>0, <2>4, <5>2
          <6>2. m[i + 1] \in Nat /\ e < m[i + 1]
            BY <2>3, <2>5, <5>2, <6>1
          <6> QED
            BY <2>4, <6>2
        <5> QED
          BY <5>1, <5>2
      <4>2. s[i] = v[e - 1]
        BY <3>2, <4>1
      <4>3. ~Within(e, m)
        <5> SUFFICES ASSUME NEW k \in 1..Len(m), m[k] = e PROVE FALSE
          BY DEF Within
        <5>1. CASE k = i
          BY <2>4, <3>5, <5>1
        <5>2. CASE k < i
          <6>1. i \in 1..Len(m)
            BY <1>0, <2>4, <5>2
          <6>2. m[k] < m[i] /\ m[i] \in Nat /\ m[i] <= e
            BY <2>3, <2>5, <5>2, <6>1 DEF Increasing
          <6> QED
            BY <2>4, <6>2
        <5>3. CASE k > i
          <6>1. i + 1 \in 1..Len(m) /\ (k = i + 1 \/ i + 1 < k) /\ i # Len(m)
            BY <1>0, <2>4, <5>3
          <6>2. m[i + 1] \in Nat /\ e < m[i + 1] /\ (m[i + 1] = m[k] \/ m[i + 1] < m[k])
            BY <2>3, <2>5, <6>1 DEF Increasing
          <6> QED
            BY <2>4, <6>2
        <5> QED
          BY <2>4, <5>1, <5>2, <5>3
      <4>4. ~(script[e].run = run /\ script[e].kind \in Recorded)
        BY <3>1, <4>3 DEF AllOf
      <4>5. v[e] = v[e - 1]
        BY <3>3, <4>4 DEF Applied
      <4> QED
        BY <2>3, <4>2, <4>5
    <3> QED
      BY <3>4, <3>5
  <2> QED
    BY <2>6, <2>7
<1>3. At(p, Len(m))
  <2>1. Len(m) # 0 => Len(m) \in 1..Len(m)
    BY <1>0
  <2> QED
    BY <2>1 DEF UpTo
<1>4. s[Len(m)] = v[p]
  BY <1>0, <1>2, <1>3
<1> QED
  BY <1>1, <1>4

RecordGoesOn ==
  /\ script' = script
  /\ published \in Nat /\ published' \in Nat /\ published \in 0..published'
  /\ published' = published \/ published' = published + 1

LEMMA RecordSteps == RecordInv /\ [HistoryNext]_historyVars => RecordGoesOn
<1> SUFFICES ASSUME RecordInv, [HistoryNext]_historyVars PROVE RecordGoesOn
  OBVIOUS
<1>1. published \in Nat
  BY DEF RecordInv, RecordTypes
<1>2. script' = script /\ (published' = published \/ published' = published + 1)
  BY DEF historyVars, HistoryNext, WriterStep, Disturbance, Publish, WriterWaits, WriterExits,
         WriterTakes, BatchWritten, Compacts, BatchFails, CompactionFails, Restart
<1> QED
  BY <1>1, <1>2 DEF RecordGoesOn

(* What is shown of a run all of whose events are kept.                     *)
LEMMA ShownInStep ==
  \A run, n, v : (/\ RecordInv /\ OnlyRecorded /\ n \in Nat /\ published \in 0..n
                  /\ Verdicts(v, run, n) /\ KeepsAll(run, memory))
                    => Shown(run) = v[published]
<1> SUFFICES ASSUME NEW run, NEW n, NEW v, RecordInv, OnlyRecorded, n \in Nat, published \in 0..n,
                    Verdicts(v, run, n), KeepsAll(run, memory)
             PROVE  Shown(run) = v[published]
  OBVIOUS
<1>1. memory \in Seq(Nat) /\ Increasing(memory) /\ UpTo(memory, published) /\ Genuine(memory)
  BY DEF RecordInv, RecordTypes, InOrder, OnlyRecorded
<1>2. AllOf(run, published, memory)
  <2>1. Len(memory) \in Nat /\ DOMAIN memory = 1..Len(memory)
    BY <1>1
  <2> QED
    BY <2>1 DEF AllOf, KeepsAll, Within
<1>3. Statuses(run, memory)[Len(memory)] = v[published]
  BY <1>1, <1>2, InStep
<1> QED
  BY <1>3 DEF Shown

EndKept ==
  \A run \in RunsOf :
    (Shown(run) \in Terminal /\ KeepsAll(run, memory) /\ KeepsAll(run, memory)')
      => Shown(run)' = Shown(run)

LEMMA EndIsKept ==
  RecordInv /\ OnlyRecorded /\ RecordInv' /\ OnlyRecorded' /\ [HistoryNext]_historyVars => EndKept
<1>1. (\A run, n, v : (/\ RecordInv /\ OnlyRecorded /\ n \in Nat /\ published \in 0..n
                       /\ Verdicts(v, run, n) /\ KeepsAll(run, memory))
                         => Shown(run) = v[published])'
  BY ShownInStep, PTL
<1> SUFFICES ASSUME RecordInv, OnlyRecorded, RecordInv', OnlyRecorded', [HistoryNext]_historyVars,
                    NEW run \in RunsOf, Shown(run) \in Terminal,
                    KeepsAll(run, memory), KeepsAll(run, memory)'
             PROVE  Shown(run)' = Shown(run)
  BY DEF EndKept
<1>2. RecordGoesOn
  BY RecordSteps
<1>3. PICK n : n = published' /\ n \in Nat /\ published \in 0..n /\ n \in 0..n
  BY <1>2 DEF RecordGoesOn
<1>4. PICK v : Verdicts(v, run, n)
  BY <1>3, VerdictsExist
<1>5. Verdicts(v, run, n)'
  <2>1. \A e, s : Applied(run, e, s)' = Applied(run, e, s)
    BY <1>2 DEF RecordGoesOn, Applied
  <2> QED
    BY <1>2, <1>4, <2>1 DEF RecordGoesOn, Verdicts
<1>6. Shown(run) = v[published]
  BY <1>3, <1>4, ShownInStep
<1>7. Shown(run)' = v[n]
  BY <1>1, <1>3, <1>5
<1>8. v[n] = v[published]
  <2>1. CASE n = published
    BY <2>1
  <2>2. CASE n = published + 1
    <3>1. n \in 1..n /\ n - 1 = published /\ n - 1 \in 0..n
      BY <1>3, <2>2
    <3>2. v[n] = IF script[n].kind \in Recorded THEN Applied(run, n, v[n - 1]) ELSE v[n - 1]
      BY <1>4, <3>1 DEF Verdicts
    <3>3. v[n - 1] \in Shows
      BY <1>4, <3>1 DEF Verdicts
    <3>4. v[n - 1] \in Terminal
      BY <1>6, <3>1
    <3>5. Applied(run, n, v[n - 1]) = v[n - 1]
      BY <3>3, <3>4, StatusStays
    <3> QED
      BY <3>1, <3>2, <3>5
  <2> QED
    BY <1>2, <1>3, <2>1, <2>2 DEF RecordGoesOn
<1> QED
  BY <1>6, <1>7, <1>8

(* An end once shown is not taken back and not replaced by another, for any *)
(* script, any capacity and any failures and restarts, as long as no event  *)
(* of the run has been lost: the fold over what is kept passes over late    *)
(* events (run_history.py: build_runs, _apply_event).                       *)
LEMMA EndsKept == HistoryInit /\ [][HistoryNext]_historyVars => EndStands
<1>1. EndKept <=> \A run \in RunsOf :
                    (Shown(run) \in Terminal /\ KeepsAll(run, memory) /\ KeepsAll(run, memory)')
                      => Shown(run)' = Shown(run)
  BY DEF EndKept
<1> QED
  BY <1>1, RecordInvInit, RecordInvStep, OnlyRecordedInit, OnlyRecordedStep, EndIsKept, PTL
     DEF EndStands

THEOREM EndsStand == HistorySpec => EndStands
<1> QED
  BY EndsKept, PTL DEF HistorySpec

(* With the threads that publish and the streams that are served, too.      *)
THEOREM RecordsEndsStand == RecordsSpec => EndStands
<1> QED
  BY EndsKept, RecordsRunHistory, PTL
=============================================================================
