---------------------------- MODULE RuleUpgrade -----------------------------
(* Normalising the rules of older versions (core/rule_model.py): every step   *)
(* gets a lasting binding id, and references by an old step id or by an       *)
(* automatic step name are turned into references by binding id. A document   *)
(* has the steps m1, m2, m3 and, in a branch or as failure actions of m2, the *)
(* steps n1 and n2; n2 and m3 each refer to a step by an old name.            *)
EXTENDS Integers, Sequences, FiniteSets, SequencesExt

CONSTANT NestedIds       \* whether the steps inside m2 may have old ids too

VARIABLES legacy,        \* the document as it was loaded
          binding,       \* binding_id of each step
          points,        \* where the reference of n2 and of m3 points now
          passes         \* how often the document has been normalised

upgradeVars == <<legacy, binding, points, passes>>

Outer == <<"m1", "m2", "m3">>
Inner == <<"n1", "n2">>
OldSteps == ToSet(Outer) \cup ToSet(Inner)
Readers == {"n2", "m3"}
ListOf(s) == IF s \in ToSet(Inner) THEN Inner ELSE Outer
IndexOf(s) == CHOOSE k \in DOMAIN ListOf(s) : ListOf(s)[k] = s

(* Names of steps: an old id; "type_2"; "type_2_then_type_1"; a binding id.   *)
OldId(i) == <<"id", i>>
NoName == <<"none">>
ShortName(doc, s) == <<doc.type[s], IndexOf(s)>>
LongName(doc, s) == ShortName(doc, "m2") \o <<doc.branch>> \o ShortName(doc, s)
BindingId(s) == <<"binding", s>>

(* The ids a document may come with: one that is not valid or has been seen   *)
(* is replaced.                                                               *)
Taken == BindingId("kept")
FreshFor(s) == BindingId(s)

----------------------------------------------------------------------------
(* normalize_rules.                                                           *)

(* ensure_rule_binding_ids: in the order of the walk, the first step to have  *)
(* a valid id keeps it and all others get a new one.                          *)

(* Mutant: ids that were seen before are kept too.                            *)
KeepsAnyway(ids, s) == ids[s] # NoName

Walk == <<"m1", "m2", "n1", "n2", "m3">>
Keeps(ids, s) ==
  /\ ids[s] # NoName
  /\ \A k \in DOMAIN Walk : ids[Walk[k]] = ids[s] =>
       \E j \in 1 .. k : Walk[j] = s

Bound(ids) == [s \in OldSteps |-> IF Keeps(ids, s) THEN ids[s] ELSE FreshFor(s)]

(* _normalize_rule_actions: an id that one step of the list has is replaced   *)
(* by that step's automatic name, in the whole of the list's steps.           *)
Owners(doc, list, name) == {s \in ToSet(list) : doc.id[s] = name /\ name # NoName}
Renamed(doc, list, name) ==
  IF Cardinality(Owners(doc, list, name)) = 1
  THEN ShortName(doc, CHOOSE s \in Owners(doc, list, name) : TRUE)
  ELSE name
Automatic(doc, reader, name) ==
  IF reader \in ToSet(Inner) THEN Renamed(doc, Outer, Renamed(doc, Inner, name))
  ELSE Renamed(doc, Outer, name)

(* _upgrade_rule_templates: the names of the list and of those around it.     *)
Known(doc, reader) ==
  {<<ShortName(doc, s), s>> : s \in ToSet(Outer)}
    \cup IF reader \in ToSet(Inner) THEN {<<LongName(doc, s), s>> : s \in ToSet(Inner)} ELSE {}

(* A name that is not known is left as it is.                                 *)
Upgraded(doc, bound, reader, name) ==
  LET new == Automatic(doc, reader, name)
      found == {e \in Known(doc, reader) : e[1] = new}
  IN IF found = {} THEN new ELSE bound[(CHOOSE e \in found : TRUE)[2]]

OldNames(doc) == {OldId(i) : i \in {1, 2}} \cup {ShortName(doc, s) : s \in ToSet(Outer)}
                \cup {LongName(doc, s) : s \in ToSet(Inner)}

Assignments(values, most) ==
  {f \in [OldSteps -> values] : Cardinality({s \in OldSteps : f[s] # NoName}) <= most}
LegacyDocument(types, ids, bounds) ==
  [type : types, branch : {"then", "failure_actions"}, bound : bounds,
   id : {f \in ids : NestedIds \/ \A s \in ToSet(Inner) : f[s] = NoName}]

(* Documents with old ids and no binding ids, and the other way round.        *)
OldDocuments ==
  LET unnamed == [s \in OldSteps |-> NoName] IN
  LegacyDocument([OldSteps -> {"p", "q"}], Assignments({NoName, OldId(1), OldId(2)}, 2), {unnamed})
    \cup LegacyDocument({[s \in OldSteps |-> "p"]}, {unnamed}, Assignments({NoName, Taken}, 3))

UpgradeInit ==
  /\ legacy \in OldDocuments
  /\ binding = legacy.bound
  /\ points \in [Readers -> OldNames(legacy)]
  /\ passes = 0

Normalise ==
  /\ passes < 2
  /\ passes' = passes + 1
  /\ LET bound == Bound(binding) IN
     /\ binding' = bound
     /\ points' = [r \in Readers |->
          Upgraded([legacy EXCEPT !.id = IF passes = 0 THEN @ ELSE [s \in OldSteps |-> NoName]],
                   bound, r, points[r])]
  /\ UNCHANGED legacy

UpgradeNext == Normalise
UpgradeSpec == UpgradeInit /\ [][UpgradeNext]_upgradeVars

----------------------------------------------------------------------------
(* Properties.                                                                *)

(* The step a name of the old document stood for, seen from a reader.         *)
StoodFor(reader, name) ==
  {s \in OldSteps :
     \/ legacy.id[s] = name
     \/ s \in ToSet(Outer) /\ ShortName(legacy, s) = name
     \/ s \in ToSet(Inner) /\ reader \in ToSet(Inner) /\ LongName(legacy, s) = name}

(* Normalising gives every step an id of its own, and doing it again changes  *)
(* nothing more: the saved document is what was loaded.                       *)
IdsSettle ==
  passes > 0 => /\ \A s, u \in OldSteps : binding[s] = binding[u] => s = u
                /\ Bound(binding) = binding

(* The steps that are completed when a step runs.                             *)
CompletedBefore(r) == IF r = "n2" THEN {"m1", "n1"} ELSE {"m1", "m2"}

(* A reference that meant one completed step means that step afterwards, or   *)
(* is left as it was; it never comes to mean another one.                     *)
KeepsMeaning ==
  \A r \in Readers : \A s \in CompletedBefore(r) :
    StoodFor(r, points[r]) = {s} /\ points'[r] # points[r] /\ passes = 0 =>
      points'[r] = binding'[s]
MeaningKept == [][KeepsMeaning]_upgradeVars

(* Both, for the passing run: a document is normalised once and for all, and  *)
(* the references of a document without old ids in branches keep their steps. *)
UpgradeSound == [][IdsSettle' /\ KeepsMeaning]_upgradeVars
=============================================================================
