----------------------------- MODULE MCRulePath ------------------------------
(* Small instances, for TLC, of what happens to a rule before and around its*)
(* runs. The initial state chooses the part that moves: a rule's document   *)
(* checked, saved and loaded, an old document upgraded, its references and  *)
(* types, a run by hand, a plug-in's manifest and what is built on it; or an*)
(* event matched to rules, recorded through failures and restarts, or       *)
(* streamed. The others are parked in one state.                            *)
EXTENDS EventBus, EventBroker, RuleBindings, RuleUpgrade, DataTypes, ManualRuns,
        RuleDocuments, PluginManifests, TLC

CONSTANTS p1, p2, Parts

VARIABLE part

eventVars == <<busVars, recordsVars>>
ruleVars == <<bindingVars, upgradeVars, typeVars, manualVars, documentVars, manifestVars>>
vars == <<part, eventVars, ruleVars>>

(* Conditions as the rule editor writes them; "a", "b" and "c" are trigger  *)
(* instances.                                                               *)
CNode(op, kids, key, from, within) ==
  [op |-> op, kids |-> kids, key |-> key, source |-> from, within |-> within]
Event(from) == CNode("leaf", <<>>, from, from, 0)
CGroup(op, kids, within) == CNode(op, kids, "", "", within)
Tree(nodes) ==
  [root |-> 1,
   op |-> [n \in DOMAIN nodes |-> nodes[n].op],
   kids |-> [n \in DOMAIN nodes |-> nodes[n].kids],
   key |-> [n \in DOMAIN nodes |-> nodes[n].key],
   source |-> [n \in DOMAIN nodes |-> nodes[n].source],
   within |-> [n \in DOMAIN nodes |-> nodes[n].within]]

BothWithin1 == Tree(<<CGroup("all", <<2, 3>>, 1), Event("a"), Event("b")>>)
PairOrOne == Tree(<<CGroup("any", <<2, 3>>, 0), CGroup("all", <<4, 5>>, 0), Event("c"),
                    Event("a"), Event("b")>>)
StartThenSilence == Tree(<<CGroup("all", <<2, 3>>, 0), Event("a"), CGroup("not", <<4>>, 1), Event("b")>>)
SilenceOrPair == Tree(<<CGroup("all", <<2, 3>>, 1), Event("a"),
                        CGroup("any", <<4, 5>>, 0), Event("b"), CGroup("not", <<6>>, 1), Event("c")>>)
(* The same trigger instance is bound twice.                                *)
BoundTwice == Tree(<<CGroup("any", <<2, 3>>, 0), CNode("leaf", <<>>, "a2", "a", 0),
                     CGroup("all", <<4, 5>>, 0), Event("a"), Event("b")>>)
Silence == Tree(<<CGroup("not", <<2>>, 1), Event("a")>>)

MCRuleSets == {<<BothWithin1>>, <<PairOrOne>>, <<StartThenSilence>>, <<SilenceOrPair>>,
               <<BoundTwice, Silence>>}

(* A run replaced while it runs, whose actions then return; a queued run that *)
(* resumes.                                                                 *)
Ev(run, kind) == [run |-> run, kind |-> kind]
ReplacedRun == <<Ev("r1", "rule_triggered"), Ev("r1", "run_replaced"), Ev("r1", "workflow_completed"),
                 Ev("r2", "rule_triggered")>>
QueuedRun == <<Ev("r1", "rule_triggered"), Ev("r1", "run_queued"), Ev("engine", "rules_reloaded"),
               Ev("r1", "action_executed"), Ev("r1", "workflow_failed")>>
MCScripts == {ReplacedRun, QueuedRun}

----------------------------------------------------------------------------
(* Parts with many initial states, parked in one.                           *)
ParkBindings ==
  /\ document = [kind |-> "action", fired |-> {"t1"}, continues |-> {}, initial |-> FALSE,
                 read |-> NoReads]
  /\ frames = <<>> /\ records = [s \in StepIds |-> Unrecorded]
  /\ variable = NotThere /\ marked = {} /\ reads = {}
ParkUpgrade ==
  /\ legacy = [type |-> [s \in OldSteps |-> "p"], branch |-> "then",
               bound |-> [s \in OldSteps |-> NoName], id |-> [s \in OldSteps |-> NoName]]
  /\ binding = legacy.bound /\ points = [r \in Readers |-> NoName] /\ passes = 0
ParkTypes ==
  /\ source = AnyType /\ target = AnyType /\ field = "" /\ verdict = "none" /\ available = {}
  /\ catalogue = [usable |-> {}, shared |-> {}, uses |-> [a \in CustomIds |-> {}]]
ParkManual ==
  NothingAsked /\ plan = [branch |-> FALSE, version |-> 1, use |-> [s \in RuleSteps |-> NoUse]]
ParkDocuments ==
  /\ raw = <<Rule(NoId, Clock, <<>>, <<Notify>>)>> /\ route = "api"
  /\ plugins = [p \in Plugins |-> "ready"] /\ changes = 0
  /\ opinion = "none" /\ fate = "none" /\ stored = NoDocument /\ prepared = NothingPrepared
ParkManifests ==
  /\ manifest = Plainest /\ judgement = "none" /\ session = Closed
  /\ kept = Nothing /\ produced = Nothing

MCInit ==
  /\ part \in Parts
  /\ BusInit /\ BrokerInit
  /\ part = "matching" \/ rules = <<BothWithin1>>
  /\ part \in {"recording", "streaming"} \/ script = ReplacedRun
  /\ IF part = "bindings" THEN BindingsInit ELSE ParkBindings
  /\ IF part = "upgrade" THEN UpgradeInit ELSE ParkUpgrade
  /\ IF part = "types" THEN TypesInit ELSE ParkTypes
  /\ IF part = "manual" THEN ManualInit ELSE ParkManual
  /\ IF part = "documents" THEN DocumentInit ELSE ParkDocuments
  /\ IF part = "manifests" THEN ManifestsInit ELSE ParkManifests

----------------------------------------------------------------------------
Only(p, A) == part = p /\ A /\ UNCHANGED part
Matching(A) == Only("matching", A) /\ UNCHANGED <<recordsVars, ruleVars>>
Recording(A) == Only("recording", A) /\ UNCHANGED <<busVars, ruleVars>>
Streaming(A) == Only("streaming", A) /\ UNCHANGED <<busVars, ruleVars>>
Checking(p, A) == Only(p, A) /\ UNCHANGED eventVars
Binding(A) == Checking("bindings", A)
              /\ UNCHANGED <<upgradeVars, typeVars, manualVars, documentVars, manifestVars>>
Upgrading(A) == Checking("upgrade", A)
                /\ UNCHANGED <<bindingVars, typeVars, manualVars, documentVars, manifestVars>>
Typing(A) == Checking("types", A)
             /\ UNCHANGED <<bindingVars, upgradeVars, manualVars, documentVars, manifestVars>>
Asking(A) == Checking("manual", A)
             /\ UNCHANGED <<bindingVars, upgradeVars, typeVars, documentVars, manifestVars>>
Submitting(A) == Checking("documents", A)
                 /\ UNCHANGED <<bindingVars, upgradeVars, typeVars, manualVars, manifestVars>>
Manifesting(A) == Checking("manifests", A)
                  /\ UNCHANGED <<bindingVars, upgradeVars, typeVars, manualVars, documentVars>>

BindingSteps ==
  \/ Binding(PerformAction) \/ Binding(Assign) \/ Binding(Decide) \/ Binding(EndSequence)

ManualSteps ==
  \/ ruling = "none" /\ \E q \in Requests : Asking(AskToRun(q))
  \/ Asking(SaveMeanwhile) \/ Asking(PerformManual) \/ Asking(CheckResults)

DocumentSteps ==
  \/ Submitting(CheckDraft) \/ Submitting(SaveDocument) \/ Submitting(LoadDocument)
  \/ Submitting(RecoverDocument) \/ Submitting(RepairDocument) \/ Submitting(PrepareDocument)
  \/ \E p \in {"clock", "volume"}, to \in PluginStates :
       Submitting(raw[1].condition = Clock /\ PluginChanges(p, to))

ManifestSteps ==
  \/ Manifesting(ScanManifest) \/ Manifesting(FindStale) \/ Manifesting(UpdateTypes)
  \/ \E k \in DOMAIN manifest.editors, s \in {"parameter_editors", "views"}, c \in manifest.commands :
       Manifesting(OpenEditor(manifest.editors[k], s, c))
  \/ \E v \in EditorValues : Manifesting(HandOver(v))
  \/ \E n \in ParamNames(manifest), v \in EditorValues : Manifesting(OldValue(n, v))
  \/ \E v \in Values \cup {Absent} : Manifesting(Produce(v))

EventSteps ==
  \/ Matching(Tick) \/ Matching(Poll) \/ Matching(Look) \/ Matching(BusShutdown)
  \/ \E s \in Sources : Matching(Emit(s)) \/ Matching(Record(s))
  \/ \E t \in BusThreads : Matching(Dispatch(t))
  \/ Recording(PublishRecords(p1)) \/ Recording(CopySubscriptions(p1))
  \/ Recording(WriterWaits /\ UNCHANGED brokerVars)
  \/ Recording(WriterExits /\ UNCHANGED brokerVars)
  \/ Recording(WriterTakes /\ UNCHANGED brokerVars)
  \/ Recording(BatchWritten /\ UNCHANGED brokerVars)
  \/ Recording(BatchFails /\ UNCHANGED brokerVars)
  \/ Recording(Compacts /\ UNCHANGED brokerVars)
  \/ Recording(CompactionFails /\ UNCHANGED brokerVars)
  \/ Recording(RecordsRestart)
  \/ \E p \in Publishers : Streaming(PublishRecords(p)) \/ Streaming(CopySubscriptions(p))
  \/ \E p \in Publishers, s \in Streams : Streaming(Send(p, s))
  \/ \E s \in Streams : Streaming(Subscribe(s)) \/ Streaming(Deliver(s)) \/ Streaming(Read(s))
                          \/ Streaming(Disconnect(s))
  \/ Streaming(LoopCloses)

MCNext ==
  \/ part \in {"matching", "recording", "streaming"} /\ EventSteps
  \/ part = "bindings" /\ BindingSteps
  \/ Upgrading(Normalise)
  \/ Typing(CheckReference) \/ Typing(BuildRegistry)
  \/ part = "manual" /\ ManualSteps
  \/ part = "documents" /\ DocumentSteps
  \/ part = "manifests" /\ ManifestSteps

MCSpec == MCInit /\ [][MCNext]_vars

----------------------------------------------------------------------------
(* References, types, the data of partial runs, rule documents and what is   *)
(* built on manifests are sound (RuleBindings, DataTypes, ManualRuns,         *)
(* RuleDocuments, PluginManifests).                                           *)
DocumentsSound ==
  BindingsHold /\ TypesHold /\ ManualRunsFounded /\ DocumentsSettle /\ ManifestsServe
=============================================================================
