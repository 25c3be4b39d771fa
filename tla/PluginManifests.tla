--------------------------- MODULE PluginManifests ---------------------------
(* What a plug-in's manifest promises (security/plugin_schema.py) and what is *)
(* built on it: the editors of its parameters (extensions/registry.py,        *)
(* api/services/interactions.py) and the check of the values they hand over   *)
(* (core/rules.py), where and how its code is called (plugin_checks.py,       *)
(* plugin_loader.py, core/workflow.py), and the outputs of its events and     *)
(* results. Fields that are checked one at a time are one choice, "rest".     *)
EXTENDS DataTypes

VARIABLES manifest,
          judgement,   \* "none", "accepted", "refused", "aborted"
          session,     \* the editor that is open
          kept,        \* what the rule has of it: parameter, value, fresh
          produced     \* <<value, whether it was let through>>: an output

manifestVars == <<manifest, judgement, session, kept, produced>>

Closed == [state |-> "closed"]
Denied == [state |-> "denied"]
Nothing == <<>>

----------------------------------------------------------------------------
(* Manifests: one around which one group of fields varies at a time.          *)
Param(name, data, value) == [name |-> name, data |-> data, value |-> value]
Editor(parameter, data, value, command, view, legacy) ==
  [id |-> "e1", parameter |-> parameter, data |-> data, value |-> value,
   command |-> command, view |-> view, legacy |-> legacy]
PlainRuns == [admin |-> FALSE, executables |-> "none", mode |-> "none", api |-> "none",
              cancel |-> FALSE, literal |-> "none"]
PlainOutput == [type |-> "string", value |-> "", item |-> "", format |-> "", required |-> TRUE]
Plainest ==
  [kind |-> "action", rest |-> "good", params |-> <<Param("p", "", "text")>>,
   commands |-> {"c"}, types |-> [t \in {"t"} |-> 1], views |-> <<>>, editors |-> <<>>,
   runs |-> PlainRuns, platforms |-> {}, entries |-> Nothing, output |-> PlainOutput]

ParamLists == {<<Param("p", "", "text")>>, <<Param("p", "", "")>>, <<Param("p", "t", "")>>,
               <<Param("p", "", "text"), Param("q", "t", "")>>,
               <<Param("p", "", "text"), Param("p", "t", "")>>}
Editors == {Editor(p, d, v, "c", "", l) : p \in {"p", "q"}, d \in {"", "t", "u"},
                                           v \in {"", "text", "number"}, l \in BOOLEAN}
Followers(e) == {<<>>, <<e>>, <<[e EXCEPT !.id = "e2"]>>, <<Editor("q", "t", "", "c", "", FALSE)>>,
                 <<[Editor("q", "t", "", "c", "", TRUE) EXCEPT !.id = "e2"]>>}
Views == {<<>>} \cup {<<[page |-> g, commands |-> c]>> : g \in {"inside", "outside"}, c \in {{"c"}, {"c", "d"}}}
EditorManifest(params, commands, types, views, editors) ==
  [Plainest EXCEPT !.params = params, !.commands = commands, !.types = [t \in types |-> 1],
                   !.views = views, !.editors = editors]
EditorManifests ==
  {EditorManifest(p, {"c", "d"}, types, <<>>, <<e>> \o more) :
     p \in ParamLists, types \in {{}, {"t"}, {"t", "u"}},
     <<e, more>> \in UNION {{<<e, f>> : f \in Followers(e)} : e \in Editors}}
  \cup {EditorManifest(<<Param("p", "t", "")>>, c, {"t"}, w, <<Editor("p", "t", "", d, v, FALSE)>>) :
           c \in {{"c"}, {"c", "d"}}, w \in Views, d \in {"c", "d"}, v \in {"", "w"}}
BareManifests == {[Plainest EXCEPT !.params = p, !.rest = r] : p \in ParamLists, r \in {"good", "bad", "odd"}}
RunManifests ==
  {[Plainest EXCEPT !.kind = k, !.runs = r] :
     k \in {"trigger", "action"},
     r \in [admin : BOOLEAN, executables : {"none", "empty", "paths", "names"},
            mode : {"none", "in-process", "isolated"}, api : {"none", "context-v1"},
            cancel : BOOLEAN, literal : {"none", "p", "z"}]}
Platforms == {"here", "there"}
PlaceManifests ==
  {[Plainest EXCEPT !.platforms = p, !.entries = e] :
     p \in SUBSET Platforms, e \in {Nothing} \cup UNION {[s -> {"inside", "outside"}] : s \in SUBSET Platforms \ {{}}}}
LegacyKinds == {"string", "number", "bool", "array", "object", "any"}
OutputManifests ==
  {[Plainest EXCEPT !.kind = k, !.output = o] :
     k \in {"trigger", "action"},
     o \in [type : LegacyKinds \cup {"int", "date", "unheard"}, value : {"", "int", "text"},
            item : {"", "int"}, format : {"", "date"}, required : BOOLEAN]}

----------------------------------------------------------------------------
(* validate_plugin_meta.                                                      *)
ParamNames(m) == {m.params[k].name : k \in DOMAIN m.params}
Ids(items) == {items[k].id : k \in DOMAIN items}

ItemsDistinct(m) == Cardinality(Ids(m.editors)) = Len(m.editors)

ViewsValid(m) ==
  \A k \in DOMAIN m.views : m.views[k].page = "inside" /\ m.views[k].commands \subseteq m.commands

(* The first parameter of the name counts.                                    *)
ParamOf(m, name) ==
  m.params[CHOOSE k \in DOMAIN m.params : m.params[k].name = name /\ \A j \in 1..(k - 1) : m.params[j].name # name]

EditorValid(m, e) ==
  /\ e.parameter \in ParamNames(m)
  /\ LET p == ParamOf(m, e.parameter)
     IN IF p.data # ""
          THEN e.data \in DOMAIN m.types /\ e.value = ""
          ELSE e.data = "" /\ e.value # "" /\ e.value = p.value /\ ~e.legacy
  /\ e.command \in m.commands
  /\ e.view # "" => m.views # <<>>

EditorsValid(m) ==
  /\ \A k \in DOMAIN m.editors : EditorValid(m, m.editors[k])
  /\ \A j, k \in DOMAIN m.editors : m.editors[j].parameter = m.editors[k].parameter => j = k

DataParamsServed(m) ==
  \A k \in DOMAIN m.params :
    m.params[k].data # "" =>
      /\ m.params[k].data \in DOMAIN m.types
      /\ \E j \in DOMAIN m.editors : m.editors[j].parameter = m.params[k].name

LiteralValid(m) ==
  m.runs.literal # "none" => m.kind = "action" /\ m.runs.literal \in ParamNames(m)

(* admin_executables: those that count.                                       *)
AdminValid(m) ==
  /\ m.runs.executables # "none" => m.runs.executables = "names" /\ m.runs.admin
  /\ m.runs.admin => m.runs.executables # "none" /\ m.runs.mode # "isolated"

PlacesValid(m) ==
  m.entries # Nothing =>
    /\ \A s \in DOMAIN m.entries : m.entries[s] = "inside"
    /\ m.platforms # {} => DOMAIN m.entries = m.platforms

CancellationValid(m) ==
  m.runs.cancel => m.runs.api = "context-v1" /\ m.runs.mode # "isolated"

OutputValid(o) == o.type # "unheard"

(* A trigger has no field for the way it is called.                           *)
FieldsKnown(m) ==
  m.kind = "trigger" => m.runs.mode = "none" /\ m.runs.api = "none" /\ ~m.runs.cancel

ContributesValid(m) == ItemsDistinct(m) /\ ViewsValid(m) /\ EditorsValid(m) /\ DataParamsServed(m)

MetaValid(m) ==
  /\ m.rest = "good" /\ ContributesValid(m) /\ LiteralValid(m) /\ AdminValid(m) /\ PlacesValid(m)
  /\ CancellationValid(m) /\ OutputValid(m.output) /\ FieldsKnown(m)

----------------------------------------------------------------------------
(* The editors: ExtensionRegistry and invoke_extension.                       *)
Text == <<"text">>
Number == <<"number">>
Unowned == <<"object">>                     \* an object without $type
Stranger == <<"object", "stranger">>     \* one whose $type says nothing
Owned(t, version) == <<"owned", t, version>>
EditorValues == {Text, Number, Unowned, Stranger} \cup {Owned(t, v) : t \in {"t", "u"}, v \in 1..2}

HasType(m, e) == e.data \in DOMAIN m.types

ViewCommands(m, e) == IF e.view # "" /\ m.views # <<>> THEN m.views[1].commands ELSE {}

(* source_commands: only an editor leads to commands, a view does not.        *)
SourceCommands(m, source_kind, e) ==
  IF source_kind = "parameter_editors" THEN {e.command} \cup ViewCommands(m, e) ELSE {}

ValueMatches(value_type, v) == v = <<value_type>>

(* The value the rule already has, as the editor is opened.                   *)
CurrentFits(m, e, v) ==
  \/ v = Nothing
  \/ HasType(m, e) /\ v = Owned(e.data, m.types[e.data])
  \/ HasType(m, e) /\ v[1] # "owned" /\ v # Stranger /\ e.legacy
  \/ ~HasType(m, e) /\ ValueMatches(e.value, v)

(* The value a command returns.                                               *)
ReturnFits(m, e, v) ==
  IF HasType(m, e) THEN v = Owned(e.data, m.types[e.data]) ELSE ValueMatches(e.value, v)

(* _valid_plugin_data, and the check of a plain parameter's value.            *)
RuleTakes(m, p, v) ==
  \/ p.data = "" /\ ValueMatches(p.value, v)
  \/ p.data \in DOMAIN m.types /\ v = Owned(p.data, m.types[p.data])
  \/ p.data # "" /\ v = Unowned /\ \E k \in DOMAIN m.editors : m.editors[k].parameter = p.name /\ m.editors[k].legacy

EditorOf(m, name) == {m.editors[k] : k \in {j \in DOMAIN m.editors : m.editors[j].parameter = name}}

----------------------------------------------------------------------------
(* Where and how the code is called.                                          *)
RunsHere(m) ==
  IF m.entries # Nothing THEN "here" \in DOMAIN m.entries ELSE m.platforms = {} \/ "here" \in m.platforms

Entrypoint(m) == IF m.entries # Nothing /\ "here" \in DOMAIN m.entries THEN m.entries["here"] ELSE "inside"

Called(m) ==
  CASE m.kind = "trigger" -> "thread"
    [] m.runs.mode = "isolated" -> "worker"
    [] m.runs.api = "context-v1" -> "with context"
    [] OTHER -> "plainly"

----------------------------------------------------------------------------
(* Outputs: field_type, check_payload_contract and normalize_fields.          *)
KindOf(name) ==
  CASE name = "string" -> Plain("text")
    [] name = "array" -> ArrayOf(AnyType)
    [] name = "object" -> Object(<<>>, FALSE, AnyType)
    [] OTHER -> Plain(name)

FieldType(o) ==
  CASE o.value # "" -> Plain(o.value)
    [] o.value = "" /\ o.format # "" -> Plain(o.format)
    [] o.value = "" /\ o.format = "" /\ o.type = "array" /\ o.item # "" -> ArrayOf(Plain(o.item))
    [] OTHER -> KindOf(o.type)

Contracted(o) == o.value # "" \/ o.type \notin LegacyKinds

PayloadPasses(o, v) ==
  IF v = Absent THEN ~o.required
  ELSE IF Contracted(o) THEN Accepts(FieldType(o), v)
  ELSE CASE o.type = "string" -> v[1] = "text"
         [] o.type = "number" -> v[1] \in {"int", "half"}
         [] o.type = "bool" -> v[1] = "bool"
         [] OTHER -> TRUE

ResultPasses(o, v) ==
  Contracted(o) => IF v = Absent THEN ~o.required ELSE Accepts(FieldType(o), v)

----------------------------------------------------------------------------
ManifestsInit ==
  /\ manifest \in EditorManifests \cup BareManifests \cup RunManifests \cup PlaceManifests \cup OutputManifests
  /\ judgement = "none" /\ session = Closed /\ kept = Nothing /\ produced = Nothing

(* scan_plugins. A list or an object where a name belongs ends the scan with  *)
(* a TypeError.                                                               *)
ScanManifest ==
  /\ judgement = "none"
  /\ judgement' = IF manifest.rest = "odd" THEN "aborted" ELSE IF MetaValid(manifest) THEN "accepted" ELSE "refused"
  /\ UNCHANGED <<manifest, session, kept, produced>>

Typed(m, e) == HasType(m, e) \/ e.value # ""

(* invoke_extension without a session; the rule's value comes along. The      *)
(* session keeps the type as it is now.                                       *)
OpenEditor(e, source_kind, command) ==
  LET current == IF kept # Nothing /\ kept.parameter = e.parameter THEN kept.value ELSE Nothing
      allowed == SourceCommands(manifest, source_kind, e)
  IN /\ judgement = "accepted" /\ session.state # "open"
     /\ session' = IF command \in allowed /\ Typed(manifest, e) /\ CurrentFits(manifest, e, current)
                   THEN [state |-> "open", editor |-> e, allowed |-> allowed, types |-> manifest.types]
                   ELSE Denied
     /\ UNCHANGED <<manifest, judgement, kept, produced>>

(* The command returns a value, which the dashboard puts into the rule; a     *)
(* value that does not fit costs the session.                                 *)
HandOver(v) ==
  /\ session.state = "open"
  /\ session' = Closed
  /\ kept' = IF ReturnFits([manifest EXCEPT !.types = session.types], session.editor, v)
             THEN [parameter |-> session.editor.parameter, value |-> v, fresh |-> session.types = manifest.types]
             ELSE kept
  /\ UNCHANGED <<manifest, judgement, produced>>

(* A further command finds the plug-in loaded again.                          *)
FindStale ==
  /\ session.state = "open" /\ session.types # manifest.types
  /\ session' = Closed
  /\ UNCHANGED <<manifest, judgement, kept, produced>>

(* The rule has a value that no editor of this version has made.              *)
OldValue(name, v) ==
  /\ judgement = "accepted" /\ kept = Nothing /\ session = Closed /\ manifest.editors # <<>>
  /\ kept' = [parameter |-> name, value |-> v, fresh |-> FALSE]
  /\ UNCHANGED <<manifest, judgement, session, produced>>

(* The plug-in is updated, with a new version of a type.                      *)
UpdateTypes ==
  /\ judgement = "accepted" /\ "t" \in DOMAIN manifest.types /\ manifest.types["t"] = 1
  /\ manifest.editors # <<>>
  /\ manifest' = [manifest EXCEPT !.types["t"] = 2]
  /\ kept' = IF kept # Nothing THEN [kept EXCEPT !.fresh = FALSE] ELSE kept
  /\ UNCHANGED <<judgement, session, produced>>

(* An event's payload, or an action's result, has v for the declared output.  *)
Produce(v) ==
  /\ judgement = "accepted" /\ produced = Nothing /\ manifest.editors = <<>>
  /\ produced' = <<v, IF manifest.kind = "trigger" THEN PayloadPasses(manifest.output, v)
                                                   ELSE ResultPasses(manifest.output, v)>>
  /\ UNCHANGED <<manifest, judgement, session, kept>>

ManifestsNext ==
  \/ ScanManifest \/ FindStale \/ UpdateTypes
  \/ \E k \in DOMAIN manifest.editors, s \in {"parameter_editors", "views"}, c \in manifest.commands :
       OpenEditor(manifest.editors[k], s, c)
  \/ \E v \in EditorValues : HandOver(v)
  \/ \E n \in ParamNames(manifest), v \in EditorValues : OldValue(n, v)
  \/ \E v \in Values \cup {Absent} : Produce(v)
ManifestsSpec == ManifestsInit /\ [][ManifestsNext]_manifestVars

----------------------------------------------------------------------------
(* What the documentation asks of an author and the validator does not check: *)
(* names of parameters differ, and an editor has its parameter's data type.   *)
AsDocumented(m) ==
  /\ Cardinality(ParamNames(m)) = Len(m.params)
  /\ \A k \in DOMAIN m.editors : m.editors[k].data = ParamOf(m, m.editors[k].parameter).data

(* An accepted manifest's editors can be opened and lead to declared commands *)
(* only; data of a plug-in has exactly one editor. What an editor hands over  *)
(* is what the rule check takes, and what the rule check takes the editor can *)
(* be opened with again, also after an update of the type.                    *)
EditorsServe ==
  /\ \A k \in DOMAIN manifest.editors : Typed(manifest, manifest.editors[k])
  /\ \A k \in DOMAIN manifest.params :
       manifest.params[k].data # "" => Cardinality(EditorOf(manifest, manifest.params[k].name)) = 1
  /\ session.state = "open" => session.allowed \subseteq manifest.commands
  /\ (kept # Nothing /\ AsDocumented(manifest)) =>
       LET taken == RuleTakes(manifest, ParamOf(manifest, kept.parameter), kept.value)
       IN /\ kept.fresh => taken
          /\ taken => \A e \in EditorOf(manifest, kept.parameter) : CurrentFits(manifest, e, kept.value)

(* The code runs where the manifest says, from its own folder, and one that   *)
(* may be stopped or acts as administrator is called in a way that can.       *)
CallsFounded ==
  /\ RunsHere(manifest) => Entrypoint(manifest) = "inside"
  /\ manifest.platforms # {} => (RunsHere(manifest) <=> "here" \in manifest.platforms)
  /\ manifest.runs.cancel => Called(manifest) = "with context"
  /\ manifest.runs.admin => Called(manifest) # "worker" /\ manifest.runs.executables = "names"

(* What the old declarations leave unchecked: an action's results, lists and  *)
(* objects of an event, and formats.                                          *)
Unchecked(m) ==
  /\ ~Contracted(m.output)
  /\ m.kind = "action" \/ m.output.type \in {"array", "object"} \/ m.output.format # ""

(* An output that was let through has the type references to it were checked  *)
(* against (binding_schema.output_type), and one held back has not.           *)
OutputsTyped ==
  produced # Nothing =>
    LET o == manifest.output  v == produced[1]
        asTyped == IF v = Absent THEN ~o.required ELSE Accepts(FieldType(o), v)
    IN produced[2] = asTyped \/ Unchecked(manifest)

ManifestsServe == judgement = "accepted" => EditorsServe /\ CallsFounded /\ OutputsTyped
=============================================================================
