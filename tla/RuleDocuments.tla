--------------------------- MODULE RuleDocuments ----------------------------
(* How a document of rules gets to the engine (core/rules.py, core/rule_model *)
(* .py, core/conditions.py, host/api/services/rules.py, config.py): it is     *)
(* shaped, checked, normalised and checked again by the API or when the file  *)
(* is read, and every rule is checked once more against the loaded plug-ins.  *)
(* References and old step names are RuleBindings' and RuleUpgrade's matter.  *)
EXTENDS Integers, Sequences, FiniteSets, SequencesExt

CONSTANT MaxChanges      \* bound on changes of the installed plug-ins

VARIABLES raw,           \* the document as it came: a sequence of rules
          route,           \* "api", "file" or "backup": how it comes
          plugins,       \* state of each plug-in
          changes,       \* how often that changed
          opinion,       \* validate_draft's verdict on a single rule
          fate,        \* what became of the document
          stored,        \* the normalised document
          prepared       \* positions of the rules the engine runs

documentVars == <<raw, route, plugins, changes, opinion, fate, stored, prepared>>

Plugins == {"clock", "usb", "notify", "volume"}
Cancellable == {"notify"}        \* cancellation_api "runtime-v1"

(* "incapable": the platform fits but a capability is missing; "stale": its   *)
(* data type is of another version than the parameters in the rules.          *)
PluginStates == {"ready", "disabled", "incompatible", "incapable", "stale", "gone"}
Listed == {p \in Plugins : plugins[p] # "gone"}
Loaded == {p \in Plugins : plugins[p] \in {"ready", "incapable", "stale"}}
Offered == {p \in Plugins : plugins[p] \in {"ready", "disabled", "stale"}}
TypeFits(p) == plugins[p] # "stale"

----------------------------------------------------------------------------
(* RawDocuments. A binding id is missing, malformed, or has its prefix and a     *)
(* number or, when it was minted, the place of its node.                      *)
NoId == <<>>
BadId == <<"bad">>
Own(prefix, i) == <<prefix, "own", i>>
Minted(prefix, place) == <<prefix, "new", place>>
Proper(prefix, id) == Len(id) = 3 /\ id[1] = prefix

Node(kind, type, op, within, id, children) ==
  [kind |-> kind, type |-> type, op |-> op, within |-> within, id |-> id,
   children |-> children]
Leaf(type, id) == Node("leaf", type, "", "none", id, <<>>)
Group(op, within, children) == Node("group", "", op, within, NoId, children)
Null == Node("null", "", "", "none", NoId, <<>>)
Omitted == Node("omitted", "", "", "none", NoId, <<>>)

Action(type, id, options, yes, no, failure) ==
  [type |-> type, id |-> id, options |-> options, yes |-> yes, no |-> no, failure |-> failure]
Bare(type, id) == Action(type, id, "none", <<>>, <<>>, <<>>)

(* legacy: the values of the fields "event" and "trigger".                    *)
Rule(id, condition, legacy, actions) ==
  [id |-> id, condition |-> condition, legacy |-> legacy, actions |-> actions,
   preconditions |-> FALSE]

----------------------------------------------------------------------------
(* normalize_rule_shape.                                                      *)
Modern(op) == CASE op = "and" -> "all" [] op = "or" -> "any" [] OTHER -> op
Lower(op) == CASE op = "ALL" -> "all" [] op = "ANY" -> "any" [] OTHER -> op
Effective(node) == Modern(Lower(node.op))

RECURSIVE ModernCondition(_)
ModernCondition(node) ==
  IF node.kind # "group" THEN node
  ELSE [node EXCEPT !.op = Modern(@),
                    !.within = IF Modern(node.op) = "any" THEN "none" ELSE @,
                    !.children = [k \in DOMAIN @ |-> ModernCondition(@[k])]]

RECURSIVE Unwrapped(_)
Unwrapped(node) ==
  CASE node.kind = "leaf" -> node
    [] node.kind = "group" /\ node.op # "not" /\ Len(node.children) = 1 ->
         Unwrapped(node.children[1])
    [] OTHER -> Null

Agree(r) ==
  /\ Len(r.legacy) = 2 => r.legacy[1] = r.legacy[2]
  /\ r.legacy # <<>> /\ r.condition # Omitted =>
       Unwrapped(ModernCondition(r.condition)) = r.legacy[1]

Shaped(r) ==
  [r EXCEPT !.legacy = <<>>,
            !.condition = IF @ = Omitted /\ r.legacy # <<>> THEN ModernCondition(r.legacy[1])
                          ELSE ModernCondition(@)]

----------------------------------------------------------------------------
(* validate_rules_structure.                                                  *)
RECURSIVE ConditionValid(_)
ConditionValid(node) ==
  \/ node.kind = "leaf" /\ node.type # ""
  \/ /\ node.kind = "group" /\ node.within # "bad"
     /\ Effective(node) \in {"any", "all", "not"}
     /\ node.children # <<>> /\ \A k \in DOMAIN node.children : ConditionValid(node.children[k])
     /\ Effective(node) = "not" =>
          Len(node.children) = 1 /\ node.children[1].kind = "leaf" /\ node.within # "none"

RECURSIVE LeavesOf(_)
LeavesOf(node) ==
  IF node.kind = "leaf" THEN <<node>>
  ELSE FlattenSeq([k \in DOMAIN node.children |-> LeavesOf(node.children[k])])

RECURSIVE ActionValid(_, _)
ActionValid(a, failuresAllowed) ==
  \/ a.type = "set" /\ a.options = "none" /\ a.failure = <<>>
  \/ /\ a.type = "if" /\ a.options = "none" /\ a.failure = <<>> /\ a.yes \o a.no # <<>>
     /\ \A b \in ToSet(a.yes \o a.no) : ActionValid(b, failuresAllowed)
  \/ /\ a.type \notin {"set", "if", ""} /\ a.options # "bad"
     /\ a.failure # <<>> => failuresAllowed /\ \A b \in ToSet(a.failure) : ActionValid(b, FALSE)

(* iter_action_nodes: whatever the type of the action.                        *)
RECURSIVE NodesOf(_)
NodesOf(actions) ==
  FlattenSeq([k \in DOMAIN actions |->
    LET a == actions[k] IN
    <<a>> \o NodesOf(a.yes) \o NodesOf(a.no) \o NodesOf(a.failure)])

(* validate_rule_binding_ids: missing ids are allowed, no malformed and no    *)
(* repeated ones.                                                             *)
IdsValid(r) ==
  LET ts == [k \in DOMAIN LeavesOf(r.condition) |-> LeavesOf(r.condition)[k].id]
      as == [k \in DOMAIN NodesOf(r.actions) |-> NodesOf(r.actions)[k].id]
      given == SelectSeq(ts \o as, LAMBDA id : id # NoId)
  IN /\ \A id \in ToSet(ts) \ {NoId} : Proper("t", id)
     /\ \A id \in ToSet(as) \ {NoId} : Proper("a", id)
     /\ IsInjective(given)

RuleValid(r) ==
  /\ Agree(r)
  /\ LET s == Shaped(r) IN
     /\ ~s.preconditions
     /\ s.id \in {NoId} \/ Proper("r", s.id)
     /\ ConditionValid(s.condition)
     /\ s.actions # <<>> /\ \A a \in ToSet(s.actions) : ActionValid(a, TRUE)
     /\ IdsValid(s)

Valid(document) ==
  /\ \A k \in DOMAIN document : RuleValid(document[k])
  /\ \A j, k \in DOMAIN document :
       j # k /\ document[j].id # NoId => document[j].id # document[k].id

----------------------------------------------------------------------------
(* normalize_rules. The walk of ensure_rule_binding_ids: the places that get  *)
(* an id, each with the id it has. Branches of anything but an "if" are not   *)
(* entered, nor failure actions of failure actions.                           *)
RECURSIVE ConditionWalk(_, _)
ConditionWalk(node, place) ==
  CASE node.kind = "leaf" -> <<[place |-> place, id |-> node.id]>>
    [] node.kind = "group" ->
         FlattenSeq([k \in DOMAIN node.children |->
           ConditionWalk(node.children[k], Append(place, k))])
    [] OTHER -> <<>>

Branches(a) == IF a.type = "if" THEN <<a.yes, a.no>> ELSE << <<>>, <<>> >>
RECURSIVE ActionWalk(_, _, _)
ActionWalk(actions, place, failures) ==
  FlattenSeq([k \in DOMAIN actions |->
    LET a == actions[k]
        here == Append(place, k)
    IN <<[place |-> here, id |-> a.id]>>
         \o (IF failures THEN ActionWalk(a.failure, Append(here, 3), FALSE) ELSE <<>>)
         \o ActionWalk(Branches(a)[1], Append(here, 1), failures)
         \o ActionWalk(Branches(a)[2], Append(here, 2), failures)])

KeepsId(prefix, walk, place, id) ==
  /\ Proper(prefix, id)
  /\ \A j \in DOMAIN walk : walk[j].place = place =>
       \A i \in 1 .. j - 1 : walk[i].id # id

IdFor(prefix, walk, place, id) ==
  IF KeepsId(prefix, walk, place, id) THEN id ELSE Minted(prefix, place)

RECURSIVE WithLeafIds(_, _, _)
WithLeafIds(node, place, walk) ==
  CASE node.kind = "leaf" -> [node EXCEPT !.id = IdFor("t", walk, place, @)]
    [] node.kind = "group" ->
         [node EXCEPT !.children = [k \in DOMAIN @ |-> WithLeafIds(@[k], Append(place, k), walk)]]
    [] OTHER -> node

RECURSIVE WithActionIds(_, _, _, _)
WithActionIds(actions, place, walk, failures) ==
  [k \in DOMAIN actions |->
    LET a == actions[k]
        here == Append(place, k)
    IN [a EXCEPT !.id = IdFor("a", walk, here, @),
                 !.failure = IF failures THEN WithActionIds(@, Append(here, 3), walk, FALSE) ELSE @,
                 !.yes = IF a.type = "if" THEN WithActionIds(@, Append(here, 1), walk, failures) ELSE @,
                 !.no = IF a.type = "if" THEN WithActionIds(@, Append(here, 2), walk, failures) ELSE @]]

(* ensure_rule_id.                                                            *)
RuleIdFor(document, k) ==
  LET id == document[k].id IN
  IF Proper("r", id) /\ \A j \in 1 .. k - 1 : document[j].id # id THEN id ELSE Minted("r", <<k>>)

Normal(document) ==
  [k \in DOMAIN document |->
    LET r == Shaped(document[k]) IN
    [r EXCEPT !.id = RuleIdFor(document, k),
              !.condition = WithLeafIds(@, <<>>, ConditionWalk(@, <<>>)),
              !.actions = WithActionIds(@, <<>>, ActionWalk(@, <<>>, TRUE), TRUE)]]

----------------------------------------------------------------------------
(* validate_rules, against the plug-ins that are listed or loaded. Actions    *)
(* are looked at only when all events are in order.                           *)
ControlSteps == {"if", "set"}
EventsRun(r, known) ==
  \A leaf \in ToSet(LeavesOf(r.condition)) : leaf.type \in known /\ TypeFits(leaf.type)
ActionRuns(a, known) ==
  a.type \notin ControlSteps =>
    /\ a.type \in known /\ TypeFits(a.type)
    /\ a.options = "timeout" => a.type \in Cancellable

Runs(r, known) ==
  /\ EventsRun(r, known)
  /\ \A a \in ToSet(NodesOf(r.actions)) : ActionRuns(a, known)

NoDocument == <<>>
NothingPrepared == {0}

CheckDraft ==
  /\ route = "api" /\ opinion = "none" /\ Len(raw) = 1
  /\ opinion' = IF /\ Valid(raw)
                   /\ LET r == Normal(raw)[1] IN
                      /\ Runs(r, Listed)
                      /\ \A leaf \in ToSet(LeavesOf(r.condition)) : leaf.type \in Offered
                      /\ \A a \in ToSet(NodesOf(r.actions)) : a.type \in ControlSteps \cup Offered
                THEN "valid" ELSE "invalid"
  /\ UNCHANGED <<raw, route, plugins, changes, fate, stored, prepared>>

Accept(document) ==
  /\ fate' = "accepted" /\ stored' = document
  /\ UNCHANGED <<raw, route, plugins, changes, opinion, prepared>>
Refuse ==
  /\ fate' = "refused"
  /\ UNCHANGED <<raw, route, plugins, changes, opinion, stored, prepared>>

(* RuleService._save: normalize_rule_input, then the plug-ins.                *)
SaveDocument ==
  /\ route = "api" /\ fate = "none"
  /\ IF Valid(raw) /\ Valid(Normal(raw)) /\ \A k \in DOMAIN raw : Runs(Normal(raw)[k], Listed)
     THEN Accept(Normal(raw)) ELSE Refuse

(* load_verified_rules at the start of the engine.                            *)
LoadDocument ==
  /\ route = "file" /\ fate = "none"
  /\ IF Valid(raw) /\ Valid(Normal(raw)) THEN Accept(Normal(raw)) ELSE Refuse

(* _recover_rules: normalised without having been checked.                    *)
RecoverDocument ==
  /\ route = "backup" /\ fate = "none"
  /\ IF (\A k \in DOMAIN raw : Agree(raw[k])) /\ Valid(Normal(raw))
     THEN Accept(Normal(raw)) ELSE Refuse

(* load_verified_rules for the editor, which may hold removed preconditions   *)
(* still; it shows the document and the user takes them out.                  *)
RepairDocument ==
  /\ route = "file" /\ fate = "refused"
  /\ \E k \in DOMAIN raw : raw[k].preconditions
  /\ LET bare == [k \in DOMAIN raw |-> [raw[k] EXCEPT !.preconditions = FALSE]] IN
     /\ Valid(bare) /\ Valid(Normal(bare))
     /\ raw' = Normal(bare)
  /\ route' = "api" /\ fate' = "none"
  /\ UNCHANGED <<plugins, changes, opinion, stored, prepared>>

(* prepare_rules, with the plug-ins the engine has loaded.                    *)
PrepareDocument ==
  /\ fate = "accepted" /\ prepared = NothingPrepared
  /\ Valid(stored)
  /\ prepared' = {k \in DOMAIN stored : Runs(Normal(stored)[k], Loaded)}
  /\ UNCHANGED <<raw, route, plugins, changes, opinion, fate, stored>>

(* A plug-in is switched, updated or removed; a refused document may be tried *)
(* again.                                                                     *)
PluginChanges(p, to) ==
  /\ changes < MaxChanges /\ prepared = NothingPrepared /\ to # plugins[p]
  /\ plugins' = [plugins EXCEPT ![p] = to] /\ changes' = changes + 1
  /\ opinion' = "none"
  /\ fate' = IF fate = "refused" THEN "none" ELSE fate
  /\ UNCHANGED <<raw, route, stored, prepared>>

DocumentNext ==
  \/ CheckDraft \/ SaveDocument \/ LoadDocument \/ RecoverDocument \/ RepairDocument
  \/ PrepareDocument
  \/ \E p \in Plugins, to \in PluginStates : PluginChanges(p, to)

----------------------------------------------------------------------------
(* guaranteed_trigger_ids: the leaves present whenever the condition holds.   *)

RECURSIVE Guaranteed(_)
Guaranteed(node) ==
  CASE node.kind = "leaf" -> {node.id}
    [] Effective(node) = "not" -> {}
    [] Effective(node) = "all" -> UNION {Guaranteed(c) : c \in ToSet(node.children)}
    [] OTHER -> {id \in Guaranteed(node.children[1]) :
                  \A c \in ToSet(node.children) : id \in Guaranteed(c)}

----------------------------------------------------------------------------
(* RawDocuments that arrive: conditions of two levels with old and new           *)
(* operators; actions with branches and failure actions; two rules.           *)
Clock == Leaf("clock", Own("t", 1))
Usb == Leaf("usb", NoId)
SomeLeaves == {Clock, Usb, Leaf("usb", Own("t", 1)), Leaf("usb", Own("a", 1))}
Pairs(S) == {<<x, y>> : x, y \in S}
Singles(S) == {<<x>> : x \in S}
SmallGroups ==
  {Group(op, within, children) :
     op \in {"any", "and", "ALL", "not"}, within \in {"none", "good"},
     children \in Singles(SomeLeaves) \cup Pairs({Clock, Usb})}
BigGroups ==
  {Group(op, within, children) :
     op \in {"or", "all"}, within \in {"good", "bad"},
     children \in {<<g, Usb>> : g \in SmallGroups} \cup Singles(SmallGroups)}
Conditions == SomeLeaves \cup SmallGroups \cup BigGroups \cup {Null, Omitted, Group("any", "none", <<>>)}
OldFields == {<<>>, <<Clock>>, <<Usb, Usb>>, <<Clock, Usb>>, <<Null>>, <<Group("or", "good", <<Clock, Usb>>)>>}

Notify == Bare("notify", Own("a", 1))
SomeActions ==
  {Bare("notify", Own("a", 1)), Bare("volume", Own("a", 1)), Bare("volume", NoId), Bare("", NoId),
   Action("volume", NoId, "timeout", <<>>, <<>>, <<>>),
   Action("notify", Own("a", 2), "timeout", <<>>, <<>>, <<Bare("volume", NoId)>>),
   Action("set", BadId, "none", <<>>, <<>>, <<>>),
   Action("set", Own("a", 2), "bad", <<>>, <<>>, <<>>)}
Lists == {<<>>} \cup Singles(SomeActions)
ActionLists ==
  {<<Notify, Action(type, id, "none", yes, no, failure)>> :
     type \in {"notify", "if"}, id \in {Own("a", 1), NoId},
     yes \in Lists, no \in {<<>>, <<Bare("volume", NoId)>>}, failure \in Lists}

RawDocuments ==
  {<<Rule(Own("r", 1), c, old, <<Notify>>)>> : c \in Conditions, old \in OldFields}
    \cup {<<Rule(NoId, Clock, <<>>, list)>> : list \in ActionLists}
    \cup {<<Rule(i, Clock, <<>>, <<Notify>>), Rule(j, Usb, <<>>, <<Bare("volume", NoId)>>)>> :
            i, j \in {NoId, Own("r", 1), Own("r", 2), BadId}}
    \cup {<<[Rule(NoId, Clock, <<>>, <<Notify>>) EXCEPT !.preconditions = TRUE]>>}

DocumentInit ==
  /\ raw \in RawDocuments /\ route \in {"api", "file", "backup"}
  /\ plugins = [p \in Plugins |-> "ready"] /\ changes = 0
  /\ opinion = "none" /\ fate = "none" /\ stored = NoDocument /\ prepared = NothingPrepared

DocumentSpec == DocumentInit /\ [][DocumentNext]_documentVars

----------------------------------------------------------------------------
(* Properties.                                                                *)

(* Whether a condition holds when these leaves' events have occurred, leaves  *)
(* known by their type or by their id.                                        *)
RECURSIVE Holds(_, _, _)
Holds(node, by, occurred) ==
  CASE node.kind = "leaf" -> node[by] \in occurred
    [] Effective(node) = "not" -> ~Holds(node.children[1], by, occurred)
    [] Effective(node) = "all" -> \A c \in ToSet(node.children) : Holds(c, by, occurred)
    [] OTHER -> \E c \in ToSet(node.children) : Holds(c, by, occurred)

(* What the document says of when a rule runs: its condition and old fields.  *)
Statements(r) == ({r.condition} \cup ToSet(r.legacy)) \ {Null, Omitted}

(* No rewriting changes when a rule runs: whatever set of events occurs, the  *)
(* accepted condition holds just when each statement of the document does.    *)
MeaningPreserved ==
  fate = "accepted" => \A k \in DOMAIN stored :
    \A said \in Statements(raw[k]), occurred \in SUBSET Plugins :
      Holds(said, "type", occurred) = Holds(stored[k].condition, "type", occurred)

(* A guaranteed leaf, whose data an action may use without asking, is in      *)
(* every set of events that makes the condition hold; and no leaf that is in  *)
(* all of them is refused.                                                    *)
GuaranteedAlways ==
  fate = "accepted" => \A k \in DOMAIN stored :
    LET condition == stored[k].condition
        ids == {leaf.id : leaf \in ToSet(LeavesOf(condition))}
        enough == {occurred \in SUBSET ids : Holds(condition, "id", occurred)}
    IN Guaranteed(condition) = {id \in ids : \A occurred \in enough : id \in occurred}

(* The actions a run may perform, and those of them it performs on failure.   *)
RECURSIVE Performed(_)
Performed(actions) ==
  UNION {{a} \cup IF a.type = "if" THEN Performed(a.yes \o a.no) ELSE Performed(a.failure) :
           a \in ToSet(actions)}
OnFailure(actions) == UNION {ToSet(a.failure) : a \in Performed(actions)}

(* Everything that fires or is performed has an id of its own, of the right   *)
(* prefix; nothing to be performed on failure has failure actions itself; and *)
(* loading the stored document again changes nothing.                         *)
IdsOf(r) ==
  LET walk == ConditionWalk(r.condition, <<>>) \o ActionWalk(r.actions, <<>>, TRUE) IN
  [k \in DOMAIN walk |-> walk[k].id]
DocumentSettled ==
  fate = "accepted" =>
    /\ Valid(stored) /\ Normal(stored) = stored
    /\ \A k \in DOMAIN stored :
         /\ IsInjective(IdsOf(stored[k])) /\ NoId \notin ToSet(IdsOf(stored[k]))
         /\ Performed(stored[k].actions) \subseteq ToSet(NodesOf(stored[k].actions))
         /\ \A a \in OnFailure(stored[k].actions) : a.failure = <<>>
    /\ \A j, k \in DOMAIN stored : stored[j].id = stored[k].id => j = k

(* Every rule that is run finds its plug-ins, and every other one would miss  *)
(* one of those it names or sets a time limit the plug-in cannot keep.        *)
Named(r) == {leaf.type : leaf \in ToSet(LeavesOf(r.condition))}
              \cup ({a.type : a \in ToSet(NodesOf(r.actions))} \ ControlSteps)
Performs(r) == {leaf.type : leaf \in ToSet(LeavesOf(r.condition))}
                 \cup ({a.type : a \in Performed(r.actions)} \ ControlSteps)
RunsWhatItCan ==
  prepared # NothingPrepared => \A k \in DOMAIN stored :
    IF k \in prepared THEN \A p \in Performs(stored[k]) : p \in Loaded /\ TypeFits(p)
    ELSE \/ \E p \in Named(stored[k]) : p \notin Loaded \/ ~TypeFits(p)
         \/ \E a \in ToSet(NodesOf(stored[k].actions)) :
              a.options = "timeout" /\ a.type \notin Cancellable

(* The gates agree: a draft found valid is saved, and with the plug-ins as    *)
(* they were then is run, unless one of them is switched off.                 *)
GatesAgree ==
  /\ opinion = "valid" => fate # "refused"
  /\ opinion = "valid" /\ prepared # NothingPrepared
       /\ (\A p \in Named(stored[1]) : plugins[p] # "disabled") => prepared = {1}

DocumentsSettle ==
  MeaningPreserved /\ GuaranteedAlways /\ DocumentSettled /\ RunsWhatItCan /\ GatesAgree
=============================================================================
