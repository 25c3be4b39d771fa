---------------------------- MODULE RunAdmission ----------------------------
(***************************************************************************)
(* What the run scheduler promises, without saying how: a bounded set of   *)
(* busy runs fed by one first-come-first-served line per rule.             *)
(*                                                                         *)
(*   - never more than MaxWorkers runs are busy or MaxPending in line;     *)
(*   - the runs of a rule that waited become busy in the order they came;  *)
(*   - a run that is over (turned away, thrown out of its line or left)    *)
(*     never becomes busy again, and only its own rule's arrivals or a     *)
(*     removal of the rule throw a run out of line;                        *)
(*   - after closing nobody is let in.                                     *)
(*                                                                         *)
(* RuleScheduler implements it (RuleScheduler!Admission).                  *)
(***************************************************************************)
EXTENDS Naturals, Sequences, FiniteSets

CONSTANTS Key, Run, MaxWorkers, MaxPending

VARIABLES
  owner,   \* the rule of each run
  line,    \* the runs in line for each rule, first to come first
  busy,    \* runs that hold a worker
  over,    \* runs that will never (again) hold one
  closed   \* has the scheduler been shut down?

vars == <<owner, line, busy, over, closed>>

Members(s) == {s[i] : i \in DOMAIN s}
InLine == UNION {Members(line[k]) : k \in Key}
Fresh(r) == r \notin InLine \cup busy \cup over

Init ==
  /\ owner \in [Run -> Key]
  /\ line = [k \in Key |-> <<>>]
  /\ busy = {}
  /\ over = {}
  /\ closed = FALSE

(* What an arrival may find of its rule's line: all of it, or, when it      *)
(* replaces what is there, none.                                            *)
Kept(k) == {line[k], <<>>}
ThrownOut(k, kept) == IF kept = line[k] THEN {} ELSE Members(line[k])

ComeIn(r) ==
  \E kept \in Kept(owner[r]) :
    /\ ~closed
    /\ Fresh(r)
    /\ Cardinality(busy) < MaxWorkers
    /\ busy' = busy \cup {r}
    /\ line' = [line EXCEPT ![owner[r]] = kept]
    /\ over' = over \cup ThrownOut(owner[r], kept)
    /\ UNCHANGED <<owner, closed>>

GetInLine(r) ==
  \E kept \in Kept(owner[r]) :
    /\ ~closed
    /\ Fresh(r)
    /\ Cardinality(InLine \ ThrownOut(owner[r], kept)) < MaxPending
    /\ line' = [line EXCEPT ![owner[r]] = Append(kept, r)]
    /\ over' = over \cup ThrownOut(owner[r], kept)
    /\ UNCHANGED <<owner, busy, closed>>

TurnAway(r) ==
  \E kept \in Kept(owner[r]) :
    /\ Fresh(r)
    /\ line' = [line EXCEPT ![owner[r]] = kept]
    /\ over' = over \cup ThrownOut(owner[r], kept) \cup {r}
    /\ UNCHANGED <<owner, busy, closed>>

CallNext(k) ==
  /\ ~closed
  /\ line[k] # <<>>
  /\ Cardinality(busy) < MaxWorkers
  /\ busy' = busy \cup {Head(line[k])}
  /\ line' = [line EXCEPT ![k] = Tail(@)]
  /\ UNCHANGED <<owner, over, closed>>

Leave(r) ==
  /\ r \in busy
  /\ busy' = busy \ {r}
  /\ over' = over \cup {r}
  /\ UNCHANGED <<owner, line, closed>>

Disband(k) ==
  /\ line' = [line EXCEPT ![k] = <<>>]
  /\ over' = over \cup Members(line[k])
  /\ UNCHANGED <<owner, busy, closed>>

Close ==
  /\ closed' = TRUE
  /\ line' = [k \in Key |-> <<>>]
  /\ over' = over \cup InLine
  /\ UNCHANGED <<owner, busy>>

Next ==
  \/ \E r \in Run : ComeIn(r) \/ GetInLine(r) \/ TurnAway(r) \/ Leave(r)
  \/ \E k \in Key : CallNext(k) \/ Disband(k)
  \/ Close

Spec == Init /\ [][Next]_vars
=============================================================================
