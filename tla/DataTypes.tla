------------------------------ MODULE DataTypes -----------------------------
(* Data types of plug-in ports and variables (core/data_types.py and          *)
(* type_registry.py). When a rule is saved, a reference is accepted if the    *)
(* type of its source is compatible with the type of the parameter; when it   *)
(* runs, the value is checked against the parameter's type. One source and    *)
(* one target declaration, and one catalogue of custom types, are taken from  *)
(* small universes.                                                           *)
EXTENDS Integers, Sequences, FiniteSets, SequencesExt

VARIABLES source, target,    \* type declarations, normalised
          field,             \* the path of the reference: <<>>, "f" or an index
          verdict,           \* what the check of the rule said
          catalogue,         \* custom types: binding, available, dependencies
          available          \* those that may be used, once it is built

typeVars == <<source, target, field, verdict, catalogue, available>>

(* A declaration is <<kind, nullable, enum, arguments>>; the arguments of an  *)
(* array are its item type, of a union its variants, of an object the types   *)
(* of its fields f and g (<<>> where there is none), which of them are        *)
(* required, and what else it may have.                                       *)
Plain(kind) == <<kind, FALSE, {}, <<>> >>
Nullable(t) == <<t[1], TRUE, t[3], t[4]>>
Enum(kind, values) == <<kind, FALSE, values, <<>> >>
ArrayOf(t) == <<"array", FALSE, {}, <<t>> >>
Union(ts) == <<"union", FALSE, {}, ts>>
Object(f, required, extra) == <<"object", FALSE, {}, <<f, required, extra>> >>
AnyType == Plain("any")
NullType == Plain("null")
Sealed == Plain("nothing")        \* additional_properties: false

Scalars == {Plain(k) : k \in {"any", "null", "bool", "int", "number", "text", "date"}}
             \cup {Nullable(Plain("int")), Nullable(Plain("text"))}
             \cup {Enum("text", {<<"text", "a">>}), Enum("text", {<<"text", "a">>, <<"text", "b">>}),
                   Enum("int", {<<"int", "0">>})}
Simple == {Plain("int"), Plain("number"), Plain("text"), Nullable(Plain("int")), AnyType}
TypeUniverse ==
  Scalars \cup {ArrayOf(t) : t \in Scalars} \cup {Nullable(ArrayOf(Plain("int")))}
    \cup {Union(<<t, u>>) : t \in Simple, u \in Simple \cup {NullType, Plain("bool")}}
    \cup {ArrayOf(Union(<<Plain("int"), Plain("text")>>))}
    \cup {Object(f[1], f[2], e) : f \in {<< <<>>, FALSE>>} \cup {<< <<t>>, r>> : t \in Simple, r \in BOOLEAN},
                                  e \in {Sealed, AnyType, Plain("int"), Plain("text")}}

(* Values, each tagged with what it is.                                       *)
NoValue == <<"null", "">>
Atoms == {NoValue, <<"bool", "true">>, <<"int", "0">>, <<"int", "1">>, <<"half", "0.5">>,
          <<"text", "a">>, <<"text", "b">>, <<"text", "c">>, <<"text", "2024-01-01">>}
Absent == <<"absent">>
Fields == {Absent, NoValue, <<"int", "0">>, <<"int", "1">>, <<"half", "0.5">>, <<"text", "a">>, <<"text", "c">>}
Values == Atoms
            \cup {<<"array", <<>> >>} \cup {<<"array", <<v>> >> : v \in Atoms}
            \cup {<<"array", <<v, w>> >> : v \in {<<"int", "1">>}, w \in Fields \ {Absent}}
            \cup {<<"object", <<v, w>> >> : v \in Fields, w \in Fields}

----------------------------------------------------------------------------
(* normalize_value: whether a value is accepted by a type.                    *)
AcceptsAtom(kind, v) ==
  CASE kind = "bool" -> v[1] = "bool"
    [] kind = "int" -> v[1] = "int"
    [] kind = "number" -> v[1] \in {"int", "half"}
    [] kind = "text" -> v[1] = "text"
    [] kind = "date" -> v = <<"text", "2024-01-01">>
    [] kind = "null" -> v = NoValue
    [] OTHER -> FALSE

RECURSIVE Accepts(_, _)
Accepts(t, v) ==
  LET enumerated == t[3] # {} => v \in t[3]
      fits ==
        CASE t[1] = "any" -> TRUE
          [] t[1] = "union" -> \E k \in DOMAIN t[4] : Accepts(t[4][k], v)
          [] t[1] = "array" -> v[1] = "array" /\ \A k \in DOMAIN v[2] : Accepts(t[4][1], v[2][k])
          [] t[1] = "object" ->
               /\ v[1] = "object"
               /\ t[4][2] => v[2][1] # Absent
               /\ v[2][1] # Absent => Accepts(IF t[4][1] # <<>> THEN t[4][1][1] ELSE t[4][3], v[2][1])
               /\ v[2][2] # Absent => Accepts(t[4][3], v[2][2])
          [] OTHER -> AcceptsAtom(t[1], v)
  IN enumerated /\ ((v = NoValue /\ t[2]) \/ fits)

----------------------------------------------------------------------------
(* types_compatible.                                                          *)
Widens(a, b) == \/ a = b
                \/ <<a, b>> \in {<<"text", "date">>, <<"date", "text">>, <<"number", "int">>, <<"int", "number">>}

RequiredKept(l, r) == r[4][2] => l[4][2]

RECURSIVE Compatible(_, _)
Compatible(l, r) ==
  CASE l[1] = "any" \/ r[1] = "any" -> TRUE
    [] l[1] = "null" ->
         r[1] = "null" \/ r[2] \/ (r[1] = "union" /\ \E k \in DOMAIN r[4] : Compatible(l, r[4][k]))
    [] l[2] /\ ~r[2] ->
         Compatible(NullType, r) /\ Compatible(<<l[1], FALSE, l[3], l[4]>>, r)
    [] l[1] = "union" -> \A k \in DOMAIN l[4] : Compatible(l[4][k], r)
    [] r[1] = "union" -> \E k \in DOMAIN r[4] : Compatible(l, r[4][k])
    [] OTHER ->
         /\ r[3] # {} => l[3] # {} /\ l[3] \subseteq r[3]
         /\ CASE l[1] = "array" /\ r[1] = "array" -> Compatible(l[4][1], r[4][1])
              [] l[1] = "object" /\ r[1] = "object" ->
                   LET extra == l[4][3] IN
                   /\ RequiredKept(l, r)
                   /\ l[4][1] # <<>> =>
                        LET other == IF r[4][1] # <<>> THEN r[4][1][1] ELSE r[4][3]
                        IN other # Sealed /\ Compatible(l[4][1][1], other)
                   /\ extra # Sealed =>
                        /\ (r[4][1] # <<>> /\ l[4][1] = <<>>) => Compatible(extra, r[4][1][1])
                        /\ r[4][3] # Sealed /\ Compatible(extra, r[4][3])
              [] OTHER -> Widens(l[1], r[1])

(* type_at_path, for one segment: the type, or Sealed where there is none,    *)
(* and whether the value may be missing.                                      *)
At1(t, maybe) == [type |-> t, optional |-> maybe]
RECURSIVE TypeAt(_, _)
TypeAt(t, segment) ==
  CASE segment = "" -> At1(t, FALSE)
    [] t[1] = "any" -> At1(AnyType, t[2])
    [] t[1] = "array" /\ segment = "0" -> At1(t[4][1], TRUE)
    [] t[1] = "object" /\ segment = "f" ->
         At1(IF t[4][1] # <<>> THEN t[4][1][1] ELSE t[4][3], t[2] \/ ~t[4][2])
    [] t[1] = "union" ->
         LET parts == [k \in DOMAIN t[4] |-> TypeAt(t[4][k], segment)]
             found == SelectSeq(parts, LAMBDA p : p.type # Sealed)
         IN At1(IF found = <<>> THEN Sealed
                ELSE IF Len(found) = 1 THEN found[1].type
                ELSE Union([k \in DOMAIN found |-> found[k].type]),
                t[2] \/ Len(found) < Len(parts) \/ \E k \in DOMAIN found : found[k].optional)
    [] OTHER -> At1(Sealed, TRUE)

ValueAt(v, segment) ==
  CASE segment = "" -> v
    [] segment = "0" /\ v[1] = "array" /\ v[2] # <<>> -> v[2][1]
    [] segment = "f" /\ v[1] = "object" -> v[2][1]
    [] OTHER -> Absent

----------------------------------------------------------------------------
(* TypeRegistry: the declared types of the installed plug-ins.                *)
CustomIds == {"A", "B", "C"}
Catalogues == [usable : SUBSET CustomIds, shared : SUBSET CustomIds,
               uses : [CustomIds -> {d \in SUBSET (CustomIds \cup {"gone"}) : Cardinality(d) <= 1}]]

(* A shared type that contains a private one is refused.                      *)
Refused(c) == \E a \in c.shared : c.uses[a] \cap (CustomIds \ c.shared) # {}

(* _check_dependencies: types whose dependencies cannot be used drop out one  *)
(* after the other.                                                           *)
RECURSIVE Usable(_, _)
Usable(c, S) ==
  LET kept == {a \in S : c.uses[a] \subseteq S} IN IF kept = S THEN S ELSE Usable(c, kept)

----------------------------------------------------------------------------
TypesInit ==
  /\ verdict = "none" /\ available = {}
  /\ \/ /\ source \in TypeUniverse /\ target \in TypeUniverse /\ field \in {"", "f", "0"}
        /\ field # "" => target \in Scalars
        /\ catalogue = [usable |-> {}, shared |-> {}, uses |-> [a \in CustomIds |-> {}]]
     \/ /\ source = AnyType /\ target = AnyType /\ field = "" /\ catalogue \in Catalogues

(* The check of a reference when a rule is saved.                             *)
CheckReference ==
  /\ verdict = "none"
  /\ verdict' = LET at == TypeAt(source, field)
                IN IF at.type = Sealed \/ at.optional \/ ~Compatible(at.type, target)
                   THEN "refused" ELSE "accepted"
  /\ UNCHANGED <<source, target, field, catalogue, available>>

(* Building the registry from the catalogue.                                  *)
BuildRegistry ==
  /\ available = {} /\ ~Refused(catalogue)
  /\ available' = Usable(catalogue, catalogue.usable)
  /\ UNCHANGED <<source, target, field, verdict, catalogue>>

TypesNext == CheckReference \/ BuildRegistry
TypesSpec == TypesInit /\ [][TypesNext]_typeVars

----------------------------------------------------------------------------
(* Properties.                                                                *)

RECURSIVE Mentions(_, _)
Mentions(t, kind) ==
  t[1] = kind \/ CASE t[1] \in {"array", "union"} -> \E k \in DOMAIN t[4] : Mentions(t[4][k], kind)
                   [] t[1] = "object" -> Mentions(t[4][3], kind) \/ (t[4][1] # <<>> /\ Mentions(t[4][1][1], kind))
                   [] OTHER -> FALSE

(* What the check leaves to the run: data of any type, text that may be a     *)
(* date, and a number that may be whole.                                      *)
LeftToTheRun(s, t) ==
  \/ Mentions(s, "any") \/ Mentions(t, "any")
  \/ Mentions(s, "text") /\ Mentions(t, "date")
  \/ Mentions(s, "number") /\ Mentions(t, "int")

(* A reference is accepted only if every value its source can have is there   *)
(* and accepted by the parameter, and refused only if some value is not.      *)
AcceptedReferencesDeliver ==
  LET delivered == {ValueAt(v, field) : v \in {w \in Values : Accepts(source, w)}}
      bad == {v \in delivered : v = Absent \/ ~Accepts(target, v)}
  IN /\ verdict = "accepted" => bad = {} \/ LeftToTheRun(source, target)
     /\ verdict = "refused" => bad # {}

(* A custom type can be used exactly if nothing it is built from, however     *)
(* deep, is missing or disabled.                                              *)
RECURSIVE Reaches(_, _, _)
Reaches(c, S, n) == IF n = 0 THEN S ELSE Reaches(c, S \cup UNION {c.uses[a] : a \in S \cap CustomIds}, n - 1)
AvailableTypesAreWhole ==
  available # {} => available = {a \in CustomIds : Reaches(catalogue, {a}, 3) \subseteq catalogue.usable}

TypesHold == AcceptedReferencesDeliver /\ AvailableTypesAreWhole
=============================================================================
