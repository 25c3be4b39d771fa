-------------------------- MODULE ConditionRuntime --------------------------
(***************************************************************************)
(* The matching of events against the condition of a rule                  *)
(* (core/condition_runtime.py, core/conditions.py): which leaves an event  *)
(* hits, how the hits of several events add up to a combination, how a     *)
(* combination is consumed, and the deadlines of NOT conditions.           *)
(*                                                                         *)
(* A condition is a tree, given as a record of functions over its nodes:   *)
(*   root     the node the evaluation starts from,                         *)
(*   op       "leaf", "not", "all" or "any",                               *)
(*   kids     the sequence of a node's children,                           *)
(*   key      the key of a leaf (_event_key),                              *)
(*   source   the trigger instance whose events a leaf matches,            *)
(*   within   within_seconds of an "all" or "not" node, 0 where it is not  *)
(*            given.                                                       *)
(* The state kept for a rule is a record: seen, the events not consumed    *)
(* yet by key, and due, the deadline of each NOT.  _fired and _last_matches *)
(* live only inside match_and_take, which takes what it has just matched.  *)
(***************************************************************************)
EXTENDS Integers, Sequences, FiniteSets, FiniteSetsExt, Functions

\* A condition that the rule check accepts (validate_condition_tree, validate_rule_binding_ids):
\* a tree, its nodes numbered from the root down, whose leaves have keys of their own.
Nodes(c) == DOMAIN c.op
IsTree(c) ==
  /\ c.kids \in [Nodes(c) -> Seq(Nodes(c))]
  /\ c.root = 1 /\ c.root \in Nodes(c)
  /\ \A n \in Nodes(c) : \A i \in DOMAIN c.kids[n] : c.kids[n][i] > n
  /\ \A m, n \in Nodes(c) : \A i \in DOMAIN c.kids[m], j \in DOMAIN c.kids[n] :
       c.kids[m][i] = c.kids[n][j] => m = n /\ i = j
  /\ \A n \in Nodes(c) \ {c.root} : \E m \in Nodes(c) : \E i \in DOMAIN c.kids[m] : c.kids[m][i] = n
IsCondition(c) ==
  /\ c.op \in Seq({"leaf", "not", "all", "any"})
  /\ IsTree(c)
  /\ c.within \in [Nodes(c) -> Nat]
  /\ \A n \in Nodes(c) :
       /\ c.op[n] = "leaf" <=> c.kids[n] = <<>>
       /\ c.op[n] = "not" => Len(c.kids[n]) = 1 /\ c.op[c.kids[n][1]] = "leaf"
  /\ \A m, n \in Nodes(c) : c.op[m] = "leaf" /\ c.op[n] = "leaf" /\ c.key[m] = c.key[n] => m = n

\* Keys of _seen: a leaf's own key, or "not:" and the key of the leaf a NOT watches.
Hit(key) == <<"id", key>>
Missing(key) == <<"not", key>>

Watched(c, n) == c.kids[n][1]
AbsenceNodes(c) == {n \in Nodes(c) : c.op[n] = "not"}
PositiveLeaves(c) ==
  {n \in Nodes(c) : c.op[n] = "leaf" /\ \A a \in AbsenceNodes(c) : n # Watched(c, a)}

\* The leaves an event of a trigger instance matches: same type, same configuration.
MatchingLeaves(c, source) == {n \in Nodes(c) : c.op[n] = "leaf" /\ c.source[n] = source}

(***************************************************************************)
(* What is known of the events of a rule.                                  *)
(***************************************************************************)

\* Mutant: events at the very edge of the window do not count.
FitsStrictly(limit, seen, keys) ==
  limit = 0 \/ \A j, k \in keys : seen[j].at - seen[k].at < limit

\* within_seconds of an "all": the events of the combination lie close enough together.
Fits(limit, seen, keys) ==
  limit = 0 \/ \A j, k \in keys : seen[j].at - seen[k].at <= limit

\* What a function of the nodes gives for the children of one.
AtKids(c, of, n) == [i \in DOMAIN c.kids[n] |-> of[c.kids[n][i]]]

\* The events that make a node true, {} when it is not, given those of its children: those of
\* every child of an "all", those of the branch hit last of an "any" (the first of them if
\* several were).
EventsAt(c, seen, n, part) ==
  LET met == {i \in DOMAIN part : part[i] # {}}
      both == UNION {part[i] : i \in DOMAIN part}
      last(i) == Max({seen[k].at : k \in part[i]})
      latest == CHOOSE i \in met : \A j \in met :
                  last(j) < last(i) \/ (last(j) = last(i) /\ i <= j)
  IN  CASE c.op[n] = "leaf" -> {Hit(c.key[n])} \cap DOMAIN seen
        [] c.op[n] = "not" -> {Missing(c.key[Watched(c, n)])} \cap DOMAIN seen
        [] c.op[n] = "all" -> IF met = DOMAIN part /\ Fits(c.within[n], seen, both) THEN both ELSE {}
        [] OTHER -> IF met = {} THEN {} ELSE part[latest]

Evaluation(c, seen) ==
  LET eval[n \in Nodes(c)] == EventsAt(c, seen, n, AtKids(c, eval, n)) IN eval
Evaluate(c, seen) == Evaluation(c, seen)[c.root]

Without(f, keys) == Restrict(f, DOMAIN f \ keys)
Over(f, g) == [k \in DOMAIN f \cup DOMAIN g |-> IF k \in DOMAIN f THEN f[k] ELSE g[k]]

\* Mutant: take_last_match leaves the events it returns.
TakeMatchKeepsSeen(c, seen, due) ==
  LET keys == Evaluate(c, seen)
  IN  [state |-> [seen |-> seen, due |-> due],
       taken |-> {[key |-> k, at |-> seen[k].at, of |-> seen[k].of] : k \in keys}]

\* What a locked section leaves behind: the state it keeps and the events it hands out,
\* which are consumed (take_last_match); no events when nothing matched.
TakeMatch(c, seen, due) ==
  LET keys == Evaluate(c, seen)
  IN  [state |-> [seen |-> Without(seen, keys), due |-> due],
       taken |-> {[key |-> k, at |-> seen[k].at, of |-> seen[k].of] : k \in keys}]

\* Mutant: only the NOTs of the condition's root start to wait again.
RearmedAtRoot(c, hit) == {n \in AbsenceNodes(c) : n = c.root /\ c.key[Watched(c, n)] \in hit}

\* The NOTs that watch for one of these keys.
Rearmed(c, hit) == {n \in AbsenceNodes(c) : c.key[Watched(c, n)] \in hit}

\* A matching event arrives at `at': NOTs that watch for it start to wait again and forget
\* that it was missing, the leaves it hits are noted, a complete combination is taken.
Matched(c, state, source, at, of) ==
  LET hit == {c.key[n] : n \in MatchingLeaves(c, source)}
      rearmed == Rearmed(c, hit)
      positive == {c.key[n] : n \in MatchingLeaves(c, source) \cap PositiveLeaves(c)}
      notOf(n) == Missing(c.key[Watched(c, n)])
      deadline(k) ==
        [at |-> at + c.within[CHOOSE n \in rearmed : notOf(n) = k], emitted |-> FALSE]
      due == [k \in {notOf(n) : n \in rearmed} |-> deadline(k)]
      kept == Without(state.seen, DOMAIN due)
      noted == [k \in {Hit(p) : p \in positive} |-> [at |-> at, of |-> of]]
  IN  IF positive = {}
        THEN [state |-> [seen |-> kept, due |-> Over(due, state.due)], taken |-> {}]
        ELSE TakeMatch(c, Over(noted, kept), Over(due, state.due))

\* The engine looks at the deadlines of a rule's NOTs at `at': a wait starts with the first
\* look, one that is over is noted once, and a combination it completes is taken.
Polled(c, state, at) ==
  LET keyOf(n) == Missing(c.key[Watched(c, n)])
      keys == {keyOf(n) : n \in AbsenceNodes(c)}
      started == [k \in keys |->
                    [at |-> at + c.within[CHOOSE n \in AbsenceNodes(c) : keyOf(n) = k],
                     emitted |-> FALSE]]
      due == Over(state.due, started)
      over == {k \in keys : ~due[k].emitted /\ at >= due[k].at}
      noted == [k \in over |-> [at |-> at, of |-> 0]]
      told == [k \in over |-> [at |-> due[k].at, emitted |-> TRUE]]
  IN  IF over = {}
        THEN [state |-> [seen |-> state.seen, due |-> due], taken |-> {}]
        ELSE TakeMatch(c, Over(noted, state.seen), Over(told, due))

(***************************************************************************)
(* What a condition means, independently of how it is evaluated.           *)
(***************************************************************************)

\* The sets of events that make a node true, each as small as it can be, given those of its
\* children.
CombinationsOf(c, n, part) ==
  CASE c.op[n] = "leaf" -> {{Hit(c.key[n])}}
    [] c.op[n] = "not" -> {{Missing(c.key[Watched(c, n)])}}
    [] c.op[n] = "any" -> UNION {part[i] : i \in DOMAIN part}
    [] OTHER -> {UNION {pick[i] : i \in DOMAIN part} :
                   pick \in {p \in [DOMAIN part -> UNION {part[i] : i \in DOMAIN part}] :
                              \A i \in DOMAIN part : p[i] \in part[i]}}
Combinations(c) ==
  LET of[n \in Nodes(c)] == CombinationsOf(c, n, AtKids(c, of, n)) IN of

\* The keys found below each node.
KeysOf(c, n, part) ==
  CASE c.op[n] = "leaf" -> {Hit(c.key[n])}
    [] c.op[n] = "not" -> {Missing(c.key[Watched(c, n)])}
    [] OTHER -> UNION {part[i] : i \in DOMAIN part}
KeysBelow(c) ==
  LET below[n \in Nodes(c)] == KeysOf(c, n, AtKids(c, below, n)) IN below

\* Events with these times satisfy the condition and every time window in it.
Satisfies(c, at) ==
  /\ DOMAIN at \in Combinations(c)[c.root]
  /\ \A n \in {n \in Nodes(c) : c.op[n] = "all" /\ c.within[n] > 0} :
       \A j, k \in KeysBelow(c)[n] \cap DOMAIN at : at[j] - at[k] <= c.within[n]
=============================================================================
