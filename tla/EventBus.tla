------------------------------ MODULE EventBus ------------------------------
(***************************************************************************)
(* The way of an event from a trigger's thread to the rules it fires       *)
(* (core/event_bus.py) and of the deadlines of NOT conditions, which the   *)
(* engine's main loop looks at (core/engine.py, _run).  Rules are matched  *)
(* one after the other, each under the lock of the condition runtime; the  *)
(* clock is read before that lock is taken, so trigger threads and the     *)
(* main loop may come to the lock in another order than they read it.      *)
(* The state of the runtime and the matching itself are ConditionRuntime's. *)
(*                                                                         *)
(* One snapshot of rules is modelled: the swap of snapshots by a reload,   *)
(* each with a runtime of its own, is HotReload's.                         *)
(***************************************************************************)
EXTENDS ConditionRuntime

CONSTANTS
  RuleSets,    \* sequences of conditions a snapshot of rules may have
  Sources,     \* trigger instances; the events of one come from one thread
  Poller,      \* the engine's main loop
  MaxTime,     \* bound: the clock stops here
  MaxEvents    \* bound: events the triggers emit altogether

ASSUME BusAssumption ==
  /\ Poller \notin Sources
  /\ MaxTime \in Nat /\ MaxEvents \in Nat
  /\ \A snapshot \in RuleSets :
       /\ Len(snapshot) \in Nat /\ DOMAIN snapshot = 1 .. Len(snapshot)
       /\ \A r \in DOMAIN snapshot : IsCondition(snapshot[r])

VARIABLES
  rules,       \* the conditions of the snapshot's rules
  runtime,     \* per rule: what its condition has seen (ConditionRuntime)
  clock,
  thread,      \* per thread: where it is in emit_event or poll_absences
  emitted,     \* events emitted so far
  down,        \* the engine is shutting down
  heard,       \* per rule and leaf key: the last event recorded, or when watching began
  fired        \* the combinations taken: rule, events, what was heard by then

busVars == <<rules, runtime, clock, thread, emitted, down, heard, fired>>

BusThreads == Sources \cup {Poller}
Idle == [pc |-> "idle", rule |-> 0, at |-> 0, of |-> 0, got |-> {}]
LeafKeys(c) == {c.key[n] : n \in {n \in Nodes(c) : c.op[n] = "leaf"}}

BusInit ==
  /\ rules \in RuleSets
  /\ runtime = [r \in DOMAIN rules |-> [seen |-> <<>>, due |-> <<>>]]
  /\ clock = 0
  /\ thread = [t \in BusThreads |-> Idle]
  /\ emitted = 0
  /\ down = FALSE
  /\ heard = [r \in DOMAIN rules |-> <<>>]
  /\ fired = {}

Tick ==
  /\ clock < MaxTime
  /\ clock' = clock + 1
  /\ UNCHANGED <<rules, runtime, thread, emitted, down, heard, fired>>

\* A thread begins with a rule: it reads the clock, before it takes the lock.
Begins(r, of) == [pc |-> "stamped", rule |-> r, at |-> clock, of |-> of, got |-> {}]

\* A trigger instance that some rule asks for emits; an event that comes during the shutdown
\* is ignored.
Emit(s) ==
  /\ thread[s].pc = "idle" /\ ~down /\ emitted < MaxEvents
  /\ \E r \in DOMAIN rules : MatchingLeaves(rules[r], s) # {}
  /\ emitted' = emitted + 1
  /\ thread' = [thread EXCEPT ![s] = Begins(1, emitted + 1)]
  /\ UNCHANGED <<rules, runtime, clock, down, heard, fired>>

\* The main loop's look at the deadlines.
Poll ==
  /\ thread[Poller].pc = "idle" /\ ~down /\ Len(rules) > 0
  /\ thread' = [thread EXCEPT ![Poller] = Begins(1, 0)]
  /\ UNCHANGED <<rules, runtime, clock, emitted, down, heard, fired>>

NextRule(t) ==
  thread' = [thread EXCEPT ![t] =
               IF @.rule = Len(rules) THEN Idle ELSE Begins(@.rule + 1, @.of)]

\* What a thread leaves behind when it leaves the lock with these events taken, or none.
Leaves(t, taken) ==
  IF taken = {}
    THEN NextRule(t) /\ UNCHANGED fired
    ELSE /\ thread' = [thread EXCEPT ![t].pc = "matched", ![t].got = taken]
         /\ fired' = fired \cup {[rule |-> thread[t].rule, events |-> taken,
                                  heard |-> heard'[thread[t].rule]]}

\* match_and_take, under the lock.
Record(s) ==
  LET r == thread[s].rule
      result == Matched(rules[r], runtime[r], s, thread[s].at, thread[s].of)
      hit == {rules[r].key[n] : n \in MatchingLeaves(rules[r], s)}
  IN  /\ thread[s].pc = "stamped"
      /\ runtime' = [runtime EXCEPT ![r] = result.state]
      /\ heard' = [heard EXCEPT ![r] =
                     Over([k \in hit |-> [at |-> thread[s].at, of |-> thread[s].of]], @)]
      /\ Leaves(s, result.taken)
      /\ UNCHANGED <<rules, clock, emitted, down>>

\* poll_absences of the runtime, under the lock.
Look ==
  LET r == thread[Poller].rule
      result == Polled(rules[r], runtime[r], thread[Poller].at)
  IN  /\ thread[Poller].pc = "stamped"
      /\ runtime' = [runtime EXCEPT ![r] = result.state]
      /\ heard' = [heard EXCEPT ![r] =
                     Over(@, [k \in LeafKeys(rules[r]) |-> [at |-> thread[Poller].at, of |-> 0]])]
      /\ Leaves(Poller, result.taken)
      /\ UNCHANGED <<rules, clock, emitted, down>>

\* The rule is announced, its context prepared and the run submitted, or refused when its
\* context cannot be prepared; what becomes of the run is RuleScheduler's.  Then the next rule.
Dispatch(t) ==
  /\ thread[t].pc = "matched"
  /\ NextRule(t)
  /\ UNCHANGED <<rules, runtime, clock, emitted, down, heard, fired>>

\* The engine shuts down.
BusShutdown ==
  /\ ~down
  /\ down' = TRUE
  /\ UNCHANGED <<rules, runtime, clock, thread, emitted, heard, fired>>

BusNext ==
  \/ Tick \/ Poll \/ Look \/ BusShutdown
  \/ \E s \in Sources : Emit(s) \/ Record(s)
  \/ \E t \in BusThreads : Dispatch(t)

BusSpec == BusInit /\ [][BusNext]_busVars

(***************************************************************************)
(* Properties.                                                             *)
(***************************************************************************)

\* A rule fires for a combination that satisfies its condition and all its time windows, and
\* no event counts twice for the same leaf, however threads and the clock interleave
\* (take_last_match consumes what match has found, under one hold of the lock).
FiringsJustified ==
  /\ \A f \in fired :
       Satisfies(rules[f.rule], [k \in {e.key : e \in f.events} |->
                                   (CHOOSE e \in f.events : e.key = k).at])
  /\ \A f, g \in fired : f # g /\ f.rule = g.rule => \A e \in f.events \cap g.events : e.of = 0

\* A NOT counts as "has not happened" only after a silence: within_seconds have passed since the
\* last matching event recorded, and one silence counts once, until the next matching event
\* (docs/rule-schema-v2.md: then it stays quiet until a matching event is received again).
AbsencesHonest ==
  \A f \in fired : \A n \in AbsenceNodes(rules[f.rule]) : \A e \in f.events :
    LET leaf == rules[f.rule].key[Watched(rules[f.rule], n)]
    IN  e.key = Missing(leaf) =>
          /\ leaf \in DOMAIN f.heard
          /\ e.at >= f.heard[leaf].at + rules[f.rule].within[n]
          /\ \A g \in fired \ {f} :
               (g.rule = f.rule /\ \E o \in g.events : o.key = e.key)
                 => g.heard[leaf] # f.heard[leaf]

\* A complete combination never lies about: whatever is kept of the events of a rule does not
\* satisfy its condition, so no event is waiting for an unrelated one to set the rule off.
\* Three kinds of rules are excepted.  If a trigger instance is bound to several leaves, an event
\* takes part in several combinations, of which match takes one; so does the one look at which
\* several NOTs turn out to be over.  And in a time window the branch of an "any" hit last may
\* lie too late where another would fit.
BindsOnce(c) == \A m, n \in Nodes(c) :
  c.op[m] = "leaf" /\ c.op[n] = "leaf" /\ c.source[m] = c.source[n] => m = n
WaitsOnce(c) == \A m, n \in AbsenceNodes(c) : m = n
ChoiceInWindow(c) == \E n, m \in Nodes(c) :
  /\ c.op[n] = "all" /\ c.within[n] > 0
  /\ c.op[m] = "any" /\ m > n /\ KeysBelow(c)[m] \subseteq KeysBelow(c)[n]
NothingLeftUnfired ==
  \A r \in {r \in DOMAIN rules : BindsOnce(rules[r]) /\ WaitsOnce(rules[r]) /\ ~ChoiceInWindow(rules[r])} :
    \A keys \in SUBSET DOMAIN runtime[r].seen :
      ~Satisfies(rules[r], [k \in keys |-> runtime[r].seen[k].at])
=============================================================================
