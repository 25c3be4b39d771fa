----------------------------- MODULE ConfigStore -----------------------------
(* The signed files config.json and rules.json (config.py: SignedConfigStore) *)
(* with the two threads of the process that write them: the engine's start   *)
(* (host/app.py: create_engine), which reads, migrates and recovers them, and *)
(* the API's event loop, which saves rules, switches plug-ins and re-signs.   *)
(* A signed write first copies the old file over its backup and then replaces *)
(* the file; between the two, and between the steps of a start, the other     *)
(* thread moves, a write may fail and the process may die.                    *)
EXTENDS Naturals

CONSTANTS Rules,         \* rules, each standing for its rule_id and contents
          Plugins,       \* user plug-ins
          ShippedOff,    \* those whose own metadata says "enabled": false
          MaxStarts, MaxRequests, MaxFaults   \* bounds of the environment

ASSUME StoreConstants == ShippedOff \subseteq Plugins

VARIABLES files,     \* what lies on disk under each name
          secret,    \* the signing secret's file: its number, 0 when it is gone
          cached,    \* the secret this process has read, 0 when none yet
          lock,      \* holder of rules_lock
          at,        \* where each thread is
          write,     \* the signed write each thread has begun
          inMemory,    \* what each thread has read for later: the engine's start
                     \* config.json, an approval rules.json
          seen,      \* the rules.json the editor has open
          promised,  \* rules the user was told are saved
          starts, requests, faults

diskVars == <<files, secret>>
storeVars == <<files, secret, cached, lock, at, write, inMemory, seen, promised,
               starts, requests, faults>>

StoreThreads == {"engine", "api"}
FileNames == {"config", "rules"}
Backup(name) == [config |-> "config.bak", rules |-> "rules.bak"][name]

Contents(is, rules, legacy, off, key) ==
  [is |-> is, rules |-> rules, legacy |-> legacy, off |-> off, key |-> key]
NoFile == Contents("absent", {}, FALSE, {}, 0)
Damaged == Contents("damaged", {}, FALSE, {}, 0)
FileOf(rules, legacy, off, key) == Contents("document", rules, legacy, off, key)
(* rules.json holds rules; config.json holds the plug-ins switched off and,   *)
(* in the format before rules.json existed, the rules as well.                *)
RulesDocument(rules) == FileOf(rules, FALSE, {}, 0)
ConfigDocument(off) == FileOf({}, FALSE, off, 0)

Parses(doc) == doc.is = "document"
Key == IF cached # 0 THEN cached ELSE secret
Verified(doc) == Parses(doc) /\ secret # 0 /\ doc.key = Key
NewKey == faults + 1
SigningKey == IF Key # 0 THEN Key ELSE NewKey

NoWrite == [name |-> "none", doc |-> NoFile, base |-> NoFile, stage |-> "none",
            then |-> "idle", otherwise |-> "idle"]

(* A thread decides on a signed write; base is what it takes the file to be.  *)
(* Writes of rules.json need its lock: the engine's start and an approval     *)
(* look at the file before they take it, the saving of rules after.           *)
BeginWrite(t, name, doc, base, stage, then, otherwise) ==
  /\ write' = [write EXCEPT ![t] = [name |-> name, doc |-> [doc EXCEPT !.key = SigningKey],
                                    base |-> base, stage |-> stage,
                                    then |-> then, otherwise |-> otherwise]]
  /\ cached' = SigningKey
  /\ secret' = IF Key = 0 THEN NewKey ELSE secret
  /\ at' = [at EXCEPT ![t] = "writing"]
WriteConfig(t, doc, then, otherwise) ==
  BeginWrite(t, "config", doc, files["config"], "backup", then, otherwise) /\ UNCHANGED lock
WriteRules(t, doc, base, then, otherwise) ==
  BeginWrite(t, "rules", doc, base, "lock", then, otherwise) /\ UNCHANGED lock

ReleaseLock(t) == IF lock = t THEN "free" ELSE lock

(* What the next start, or an approval by the user, can still bring back.     *)
Legacy(disk) == IF Parses(disk["config"])
                THEN disk["config"].rules
                ELSE IF disk["config"] = Damaged /\ Parses(disk["config.bak"])
                     THEN disk["config.bak"].rules ELSE {}
Held(disk) == Legacy(disk) \cup
              (IF Parses(disk["rules"]) THEN disk["rules"].rules
               ELSE IF disk["rules"] = Damaged /\ Parses(disk["rules.bak"])
                    THEN disk["rules.bak"].rules ELSE {})

EmptyDisk == [n \in FileNames \cup {"config.bak", "rules.bak"} |-> NoFile]
StoreInit ==
  /\ \E some \in SUBSET Rules :
       /\ files \in {EmptyDisk,
                     [EmptyDisk EXCEPT !["config"] = FileOf({}, FALSE, {}, 1),
                                   !["rules"] = FileOf(some, FALSE, {}, 1)],
                     [EmptyDisk EXCEPT !["config"] = FileOf(some, TRUE, {}, 1)]}
       /\ promised = Held(files)
  /\ secret = IF files = EmptyDisk THEN 0 ELSE 1
  /\ cached = 0 /\ lock = "free"
  /\ at = [t \in StoreThreads |-> IF t = "engine" THEN "down" ELSE "idle"]
  /\ write = [t \in StoreThreads |-> NoWrite]
  /\ inMemory = [t \in StoreThreads |-> NoFile] /\ seen = NoFile
  /\ starts = 0 /\ requests = 0 /\ faults = 0

----------------------------------------------------------------------------
(* The signed write.                                                          *)
TakeLock(t) ==
  /\ write[t].stage = "lock" /\ lock = "free"
  /\ lock' = t /\ write' = [write EXCEPT ![t].stage = "backup"]
  /\ UNCHANGED <<files, secret, cached, at, inMemory, seen, promised,
                 starts, requests, faults>>

(* The file is no longer what the writer took it to be: it was written by the *)
(* other thread between this one's look at it and its write.                  *)
Overrun(t) == files[write[t].name] # write[t].base
(* A rule is only in the write under way while the write that puts a backup   *)
(* back has copied the damaged file over that backup.                         *)
Rewriting(t) == write[t].stage = "main" /\ files[write[t].name] = Damaged
InFlight == UNION {write[t].doc.rules : t \in {u \in StoreThreads : Rewriting(u)}}

CopyToBackup(t) ==
  /\ write[t].stage = "backup"
  /\ files' = IF files[write[t].name] = NoFile THEN files
              ELSE [files EXCEPT ![Backup(write[t].name)] = files[write[t].name]]
  /\ write' = [write EXCEPT ![t].stage = "main"]
  /\ UNCHANGED <<secret, cached, lock, at, inMemory, seen, promised,
                 starts, requests, faults>>

(* The API normalises config.json when it saves it, which drops the rules it  *)
(* carries when no start has migrated them yet.                               *)
DropsOldFormat(t) == t = "api" /\ write[t].name = "config" /\ files["config"].rules # {}
SettledLabel(label) == IF label \in {"saved", "switched", "approved"} THEN "idle" ELSE label

Replace(t) ==
  /\ write[t].stage = "main"
  /\ LET w == write[t] IN
     /\ files' = [files EXCEPT ![w.name] = w.doc]
     /\ at' = [at EXCEPT ![t] = SettledLabel(w.then)]
     /\ promised' = IF w.then = "saved" THEN w.doc.rules
                    ELSE IF Overrun(t) \/ DropsOldFormat(t) THEN promised \cap Held(files')
                    ELSE promised
     /\ seen' = IF w.then = "saved" THEN w.doc ELSE seen
  /\ write' = [write EXCEPT ![t] = NoWrite]
  /\ lock' = ReleaseLock(t)
  /\ UNCHANGED <<secret, cached, inMemory, starts, requests, faults>>

(* Either part of a write may fail: the old file stays.                       *)
WriteFails(t) ==
  /\ faults < MaxFaults /\ write[t].stage \in {"backup", "main"}
  /\ write' = [write EXCEPT ![t] = NoWrite]
  /\ at' = [at EXCEPT ![t] = write[t].otherwise]
  /\ lock' = ReleaseLock(t)
  /\ promised' = IF Rewriting(t) THEN promised \cap Held(files) ELSE promised
  /\ faults' = faults + 1
  /\ UNCHANGED <<files, secret, cached, inMemory, seen, starts, requests>>

----------------------------------------------------------------------------
(* create_engine.                                                             *)
Enter(t, label) == at' = [at EXCEPT ![t] = label] /\ UNCHANGED <<write, lock, cached, secret>>
UnchangedByStart == UNCHANGED <<files, seen, promised, requests, faults>>

StartEngine ==
  /\ at["engine"] \in {"down", "failed"} /\ starts < MaxStarts
  /\ Enter("engine", "load config")
  /\ starts' = starts + 1 /\ UNCHANGED inMemory /\ UnchangedByStart

KeepInMemory(doc) == inMemory' = [inMemory EXCEPT !["engine"] = doc]

(* Rules of the old format join rules.json unless it has them already.        *)
TakeOver(old, then) ==
  IF files["rules"] = NoFile
  THEN WriteRules("engine", RulesDocument(old), NoFile, then, "failed")
  ELSE IF old = {} THEN Enter("engine", then)
  ELSE IF Verified(files["rules"])
       THEN WriteRules("engine", RulesDocument(old \cup files["rules"].rules), files["rules"],
                       then, "failed")
       ELSE Enter("engine", "failed")

(* _migrate_rules_file: first the rules, then config.json, as read when the   *)
(* migration began, without them.                                             *)
OldFormat == Parses(files["config"]) /\ files["config"].legacy
MigrateThen(strip, next) ==
  IF OldFormat THEN TakeOver(files["config"].rules, strip) ELSE Enter("engine", next)

(* load_config.                                                               *)
Recoverable(name) == files[name] = Damaged /\ Verified(files[Backup(name)])
Unusable(name) == files[name] # NoFile /\ ~Verified(files[name]) /\ ~Recoverable(name)
LoadConfig ==
  /\ at["engine"] = "load config"
  /\ \/ /\ files["config"] = NoFile
        /\ KeepInMemory(ConfigDocument({}))
        /\ WriteConfig("engine", ConfigDocument({}), "migrate plugins", "migrate plugins")
     \/ /\ Verified(files["config"])
        /\ KeepInMemory(files["config"])
        /\ MigrateThen("strip config", "migrate plugins")
     \/ /\ Recoverable("config")
        /\ LET backup == files["config.bak"] IN
           /\ KeepInMemory(ConfigDocument(backup.off))
           /\ IF backup.rules = {} THEN Enter("engine", "recover config")
              ELSE TakeOver(backup.rules, "recover config")
     \/ /\ Unusable("config")
        /\ Enter("engine", "failed") /\ UNCHANGED inMemory
  /\ UNCHANGED starts /\ UnchangedByStart

RecoverConfig ==
  /\ at["engine"] = "recover config"
  /\ WriteConfig("engine", inMemory["engine"], "migrate plugins", "failed")
  /\ UNCHANGED <<inMemory, starts>> /\ UnchangedByStart

(* load_rules begins with the same migration, which finds nothing to do:      *)
(* load_config has left no config.json in the old format (OldFormatGone).     *)
MigrateRules ==
  /\ at["engine"] = "migrate rules" /\ Enter("engine", "load rules")
  /\ UNCHANGED <<inMemory, starts>> /\ UnchangedByStart

StripConfig ==
  /\ at["engine"] = "strip config"
  /\ WriteConfig("engine", ConfigDocument(inMemory["engine"].off), "migrate plugins", "failed")
  /\ UNCHANGED <<inMemory, starts>> /\ UnchangedByStart

(* migrate_user_plugin_enabled_state.                                         *)
MigratePlugins ==
  /\ at["engine"] = "migrate plugins"
  /\ LET off == inMemory["engine"].off IN
     /\ KeepInMemory(ConfigDocument(off \cup ShippedOff))
     /\ IF ShippedOff \subseteq off
        THEN Enter("engine", "migrate rules")
        ELSE WriteConfig("engine", ConfigDocument(off \cup ShippedOff),
                         "migrate rules", "migrate rules")
  /\ UNCHANGED starts /\ UnchangedByStart

(* Mutant: rules that cannot be read are replaced by none.                    *)
LoadRulesAfresh ==
  /\ at["engine"] = "load rules"
  /\ \/ /\ ~Verified(files["rules"])
        /\ WriteRules("engine", RulesDocument({}), files["rules"], "up", "up")
     \/ Verified(files["rules"]) /\ Enter("engine", "up")
  /\ UNCHANGED <<inMemory, starts>> /\ UnchangedByStart

(* load_rules.                                                                *)
LoadRules ==
  /\ at["engine"] = "load rules"
  /\ \/ /\ files["rules"] = NoFile
        /\ WriteRules("engine", RulesDocument({}), NoFile, "up", "up")
     \/ /\ Verified(files["rules"]) /\ Enter("engine", "up")
     \/ /\ Recoverable("rules")
        /\ WriteRules("engine", RulesDocument(files["rules.bak"].rules), Damaged, "up", "failed")
     \/ /\ Unusable("rules") /\ Enter("engine", "failed")
  /\ UNCHANGED <<inMemory, starts>> /\ UnchangedByStart

StopEngine ==
  /\ at["engine"] = "up" /\ Enter("engine", "down")
  /\ UNCHANGED <<inMemory, starts>> /\ UnchangedByStart

----------------------------------------------------------------------------
(* The API. Its handlers run on one event loop, one after the other.          *)
UnchangedByApi == UNCHANGED <<files, promised, starts, faults>>
Request == /\ at["api"] = "idle" /\ requests < MaxRequests
           /\ requests' = requests + 1

(* GET /api/rules.                                                            *)
ListRules ==
  /\ at["api"] = "idle" /\ Verified(files["rules"]) /\ lock # "engine"
  /\ seen # files["rules"] /\ seen' = files["rules"]
  /\ UNCHANGED <<secret, cached, lock, at, write, inMemory, requests>> /\ UnchangedByApi

(* PUT /api/rules, with the revision of the file the editor has open or, from *)
(* an older client, without one.                                              *)
SaveRules(rules, checked) ==
  /\ Request
  /\ checked => seen = files["rules"]
  /\ files["rules"] = NoFile \/ Verified(files["rules"])
  /\ lock = "free" /\ lock' = "api"
  /\ BeginWrite("api", "rules", RulesDocument(rules), files["rules"], "backup", "saved", "idle")
  /\ UNCHANGED <<inMemory, seen>> /\ UnchangedByApi

(* POST /api/plugins/toggle; a missing config.json is created first.          *)
Toggle(p) ==
  /\ \/ Request
     \/ at["api"] = "toggle" /\ UNCHANGED requests
  /\ \/ /\ files["config"] = NoFile
        /\ WriteConfig("api", ConfigDocument({}), "toggle", "idle")
     \/ /\ Verified(files["config"])
        /\ LET off == files["config"].off IN
           WriteConfig("api", ConfigDocument(IF p \in off THEN off \ {p} ELSE off \cup {p}),
                       "switched", "idle")
  /\ UNCHANGED <<inMemory, seen>> /\ UnchangedByApi

(* POST /api/security/approve: both files are signed anew, whoever wrote them.*)
Approve ==
  /\ Request
  /\ Parses(files["config"])
  /\ files["rules"] = NoFile \/ Parses(files["rules"])
  /\ inMemory' = [inMemory EXCEPT !["api"] = files["rules"]]
  /\ WriteConfig("api", ConfigDocument(files["config"].off),
                 IF files["rules"] = NoFile THEN "idle" ELSE "approve rules", "idle")
  /\ UNCHANGED seen /\ UnchangedByApi
ApproveRules ==
  /\ at["api"] = "approve rules"
  /\ WriteRules("api", RulesDocument(inMemory["api"].rules), inMemory["api"], "approved", "idle")
  /\ UNCHANGED <<inMemory, seen, requests>> /\ UnchangedByApi

----------------------------------------------------------------------------
(* What happens to the files and to the process.                              *)
(* Files are damaged while nobody works on them.                              *)
AtRest == at["engine"] \in {"down", "failed", "up"} /\ at["api"] = "idle"
Damage(name) ==
  /\ AtRest /\ faults < MaxFaults /\ Parses(files[name])
  /\ files' = [files EXCEPT ![name] = Damaged]
  /\ promised' = promised \cap Held(files')
  /\ faults' = faults + 1
  /\ UNCHANGED <<secret, cached, lock, at, write, inMemory, seen, starts, requests>>

LoseSecret ==
  /\ faults < MaxFaults /\ secret # 0
  /\ secret' = 0 /\ faults' = faults + 1
  /\ UNCHANGED <<files, cached, lock, at, write, inMemory, seen, promised,
                 starts, requests>>

Crash ==
  /\ faults < MaxFaults
  /\ at' = [t \in StoreThreads |-> IF t = "engine" THEN "down" ELSE "idle"]
  /\ write' = [t \in StoreThreads |-> NoWrite]
  /\ lock' = "free" /\ cached' = 0 /\ seen' = NoFile
  /\ inMemory' = [t \in StoreThreads |-> NoFile]
  /\ promised' = IF \E t \in StoreThreads : Rewriting(t) THEN promised \cap Held(files) ELSE promised
  /\ faults' = faults + 1
  /\ UNCHANGED <<files, secret, starts, requests>>

StoreNext ==
  \/ \E t \in StoreThreads : TakeLock(t) \/ CopyToBackup(t) \/ Replace(t) \/ WriteFails(t)
  \/ StartEngine \/ LoadConfig \/ RecoverConfig
  \/ StripConfig \/ MigratePlugins \/ MigrateRules
  \/ LoadRules \/ StopEngine
  \/ ListRules
  \/ \E rules \in SUBSET Rules, checked \in BOOLEAN : SaveRules(rules, checked)
  \/ \E p \in Plugins : Toggle(p)
  \/ Approve \/ ApproveRules
  \/ \E n \in FileNames : Damage(n)
  \/ LoseSecret \/ Crash

StoreSpec == StoreInit /\ [][StoreNext]_storeVars

----------------------------------------------------------------------------
(* Properties.                                                                *)

(* A rule the user was told is saved is never lost by what the program does:  *)
(* it stays where the next start, or an approval, finds it, through migration,*)
(* recovery, failing writes and crashes at any point. What damage itself      *)
(* destroys is excepted, and so are a write whose file was changed under it,  *)
(* a recovery broken off between its two writes and a save of config.json by  *)
(* the API before any start has taken the rules out of it. And no start reads *)
(* rules.json while rules of the old format are still waiting in config.json. *)
OldFormatGone == at["engine"] \in {"migrate rules", "load rules", "up"} => ~OldFormat
RulesKept == OldFormatGone /\ promised \subseteq Held(files) \cup InFlight
=============================================================================
