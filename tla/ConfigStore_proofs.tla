------------------------- MODULE ConfigStore_proofs --------------------------
(***************************************************************************)
(* Proof about ConfigStore, for any rules, any plug-ins and any number of  *)
(* starts, requests and faults: a rule the user was told is saved stays    *)
(* where a start, or an approval, finds it.                                *)
(***************************************************************************)
EXTENDS ConfigStore, TLAPS

(***************************************************************************)
(* The inductive invariant.                                                *)
(***************************************************************************)

Doc == [is : {"absent", "damaged", "document"}, rules : SUBSET Rules, legacy : BOOLEAN,
        off : SUBSET Plugins, key : Nat]
DiskNames == {"config", "rules", "config.bak", "rules.bak"}
Labels == {"down", "idle", "writing", "load config", "recover config", "migrate rules",
           "strip config", "migrate plugins", "load rules", "up", "failed", "toggle", "switched",
           "approve rules", "approved", "saved"}
Write == [name : {"none", "config", "rules"}, doc : Doc, base : Doc,
          stage : {"none", "lock", "backup", "main"}, then : Labels, otherwise : Labels]

Stored ==
  /\ files \in [DiskNames -> Doc]
  /\ secret \in Nat /\ cached \in Nat /\ faults \in Nat
  /\ at \in [StoreThreads -> Labels]
  /\ write \in [StoreThreads -> Write]
  /\ inMemory \in [StoreThreads -> Doc]

RulesHeld(disk) == IF Parses(disk["rules"]) THEN disk["rules"].rules
                   ELSE IF disk["rules"] = Damaged /\ Parses(disk["rules.bak"])
                        THEN disk["rules.bak"].rules ELSE {}

(* Only the old format of config.json carries rules.                        *)
OnlyOldCarries == files["config"].rules # {} => OldFormat

Writing(t, name) == at[t] = "writing" /\ write[t].name = name
Bare(doc) == Parses(doc) /\ doc.rules = {} /\ doc.legacy = FALSE

(* A thread that is writing has a write, and no other has; what it writes   *)
(* parses, and config.json is written without rules.                        *)
WriteSound(t) ==
  /\ at[t] = "writing" <=> write[t].stage # "none"
  /\ at[t] = "writing" => Writing(t, "config") \/ Writing(t, "rules")
  /\ Writing(t, "config") => Bare(write[t].doc)
  /\ Writing(t, "rules") => Parses(write[t].doc)

(* The API writes over what it could read, and an approval only re-signs.   *)
ApiSound ==
  LET w == write["api"] IN
  /\ Writing("api", "config") => files["config"] # Damaged /\ w.then # "saved"
  /\ Writing("api", "rules") => files["rules"] # Damaged
  /\ Writing("api", "config") /\ w.then = "approve rules" => files["rules"] # Damaged
  /\ at["api"] = "approve rules" => files["rules"] # Damaged
  /\ at["api"] = "approve rules" \/ (Writing("api", "rules") /\ w.then # "saved")
       => Parses(files["config"]) /\ files["config"].rules = {}
  /\ Writing("api", "rules") /\ w.then # "saved" => w.then = "approved" /\ w.doc.rules = w.base.rules
  /\ Writing("api", "config") => w.then \in {"toggle", "switched", "idle", "approve rules"}
  /\ at["api"] = "writing" => w.otherwise = "idle"

Settled == {"migrate plugins", "migrate rules", "load rules", "up"}
Joined == {"strip config", "recover config"}

(* The engine's start: once it is about to write config.json, rules.json    *)
(* holds what was promised; what it writes to rules.json contains what is   *)
(* there, in the file or, when that is damaged, in its backup, and the      *)
(* rules of the old format; and it goes on without the old format.          *)
EngineSound ==
  LET w == write["engine"] IN
  /\ at["engine"] \in Joined \/ Writing("engine", "config") => promised \subseteq RulesHeld(files)
  /\ Writing("engine", "rules") =>
       /\ w.then \in Joined \cup {"up"}
       /\ w.then \in Joined => Legacy(files) \subseteq w.doc.rules
       /\ files["rules"] = Damaged /\ Parses(files["rules.bak"])
            => files["rules.bak"].rules \subseteq w.doc.rules
       /\ Parses(w.base) => w.base.rules \subseteq w.doc.rules
       /\ w.then = "up" => OldFormat = FALSE
  /\ Writing("engine", "config") => w.then \in {"migrate plugins", "migrate rules"}
  /\ at["engine"] = "writing" =>
       /\ w.otherwise \in Settled \cup {"failed"}
       /\ w.otherwise \in Settled => OldFormat = FALSE
       /\ w.otherwise = "migrate plugins" => files["config"] # Damaged
  /\ at["engine"] = "recover config" \/ (Writing("engine", "rules") /\ w.then = "recover config")
       => Bare(inMemory["engine"])
  /\ at["engine"] \in Settled => OldFormat = FALSE
  /\ at["engine"] = "migrate plugins" => files["config"] # Damaged

(* A promised rule is found on disk, or in the write that puts a damaged    *)
(* file's backup back.                                                      *)
Found(r) ==
  \/ r \in Held(files)
  \/ Rewriting("engine") /\ r \in write["engine"].doc.rules

KeptInv ==
  /\ Stored /\ OnlyOldCarries
  /\ WriteSound("engine") /\ WriteSound("api")
  /\ ApiSound /\ EngineSound
  /\ \A r \in promised : Found(r)

(***************************************************************************)
(* Documents and writes.                                                   *)
(***************************************************************************)

LEMMA Blank ==
  /\ NoFile \in Doc /\ Damaged \in Doc /\ NoFile.rules = {} /\ Damaged.rules = {}
  /\ NoFile.is = "absent" /\ Damaged.is = "damaged" /\ NoFile # Damaged
  BY DEF NoFile, Damaged, Contents, Doc

LEMMA Whole ==
  ASSUME NEW doc, Parses(doc)
  PROVE  doc # NoFile /\ doc # Damaged
  BY Blank DEF Parses

LEMMA ConfigDocuments ==
  ASSUME NEW off \in SUBSET Plugins
  PROVE  ConfigDocument(off) \in Doc /\ Bare(ConfigDocument(off))
  BY DEF Contents, Doc, Parses, ConfigDocument, FileOf, Bare

LEMMA RulesDocuments ==
  ASSUME NEW held \in SUBSET Rules
  PROVE  /\ RulesDocument(held) \in Doc /\ Parses(RulesDocument(held))
         /\ RulesDocument(held).rules = held
  BY DEF Contents, Doc, Parses, RulesDocument, FileOf

LEMMA Names ==
  /\ Backup("config") = "config.bak" /\ Backup("rules") = "rules.bak"
  /\ StoreThreads = {"engine", "api"} /\ FileNames = {"config", "rules"}
  /\ FileNames \cup {"config.bak", "rules.bak"} = DiskNames
  BY DEF Backup, StoreThreads, FileNames, DiskNames

LEMMA Typed ==
  ASSUME Stored
  PROVE  /\ \A n \in DiskNames : files[n] \in Doc
         /\ \A t \in StoreThreads :
              write[t] \in Write /\ write[t].doc \in Doc /\ write[t].base \in Doc
              /\ inMemory[t] \in Doc /\ at[t] \in Labels
         /\ SigningKey \in Nat /\ NewKey \in Nat
  BY DEF Stored, Write, SigningKey, NewKey, Key

LEMMA Keyed ==
  ASSUME NEW doc \in Doc, NEW key \in Nat
  PROVE  /\ [doc EXCEPT !.key = key] \in Doc
         /\ [doc EXCEPT !.key = key].rules = doc.rules
         /\ [doc EXCEPT !.key = key].is = doc.is
         /\ [doc EXCEPT !.key = key].legacy = doc.legacy
  BY DEF Doc

(* What a thread that decides on a write has in hand.                       *)
Begun(t, name, doc, base, stage, then, otherwise) ==
  /\ at' = [at EXCEPT ![t] = "writing"]
  /\ secret' \in Nat /\ cached' \in Nat
  /\ write' \in [StoreThreads -> Write]
  /\ \A u \in StoreThreads : u # t => write'[u] = write[u]
  /\ write'[t].name = name /\ write'[t].base = base /\ write'[t].stage = stage
  /\ write'[t].then = then /\ write'[t].otherwise = otherwise
  /\ write'[t].doc \in Doc /\ write'[t].doc.rules = doc.rules
  /\ Parses(doc) => Parses(write'[t].doc)
  /\ Bare(doc) => Bare(write'[t].doc)

LEMMA BeginWriteBegins ==
  ASSUME Stored, NEW t \in StoreThreads, NEW name \in FileNames, NEW doc \in Doc, NEW base \in Doc,
         NEW stage \in {"lock", "backup"}, NEW then \in Labels, NEW otherwise \in Labels,
         BeginWrite(t, name, doc, base, stage, then, otherwise)
  PROVE  Begun(t, name, doc, base, stage, then, otherwise)
<1> DEFINE d == [doc EXCEPT !.key = SigningKey]
           w == [name |-> name, doc |-> d, base |-> base, stage |-> stage,
                 then |-> then, otherwise |-> otherwise]
<1>1. /\ write' = [write EXCEPT ![t] = w]
      /\ cached' = SigningKey
      /\ secret' = IF Key = 0 THEN NewKey ELSE secret
      /\ at' = [at EXCEPT ![t] = "writing"]
  BY DEF BeginWrite
<1>2. d \in Doc /\ d.rules = doc.rules /\ d.is = doc.is /\ d.legacy = doc.legacy
  BY Typed, Keyed
<1> HIDE DEF d
<1>3. w \in Write
  BY <1>2 DEF Write, FileNames
<1>4. /\ w.name = name /\ w.base = base /\ w.stage = stage /\ w.then = then
      /\ w.otherwise = otherwise /\ w.doc = d
  OBVIOUS
<1> HIDE DEF w
<1>5. /\ write' \in [StoreThreads -> Write] /\ write'[t] = w
      /\ \A u \in StoreThreads : u # t => write'[u] = write[u]
  BY <1>1, <1>3 DEF Stored
<1>6. secret' \in Nat /\ cached' \in Nat
  BY <1>1, Typed DEF Stored
<1>7. (Parses(doc) => Parses(d)) /\ (Bare(doc) => Bare(d))
  BY <1>2 DEF Parses, Bare
<1> QED
  BY <1>1, <1>2, <1>4, <1>5, <1>6, <1>7 DEF Begun

LEMMA NoWriteTyped == NoWrite \in Write /\ NoWrite.stage = "none"
  BY Blank DEF NoWrite, Write, Labels

(***************************************************************************)
(* Steps that leave the files alone and promise nothing new.               *)
(***************************************************************************)

(* The API moves, and may take promises back: what is said of the engine    *)
(* still holds.                                                             *)
LEMMA ApiMoves ==
  ASSUME KeptInv, UNCHANGED files, promised' \subseteq promised,
         at'["engine"] = at["engine"], write'["engine"] = write["engine"],
         inMemory'["engine"] = inMemory["engine"],
         Stored', WriteSound("api")', ApiSound'
  PROVE  KeptInv'
<1>1. OnlyOldCarries' /\ WriteSound("engine")' /\ (\A r \in promised : Found(r))'
  BY DEF KeptInv, OnlyOldCarries, OldFormat, WriteSound, Writing, Found, Rewriting, Held, Legacy
<1>2. EngineSound'
  BY DEF KeptInv, EngineSound, Writing, OldFormat, RulesHeld, Legacy
<1> QED
  BY <1>1, <1>2 DEF KeptInv

(* The engine has no write in hand: every promised rule is on disk.         *)
LEMMA OnDisk ==
  ASSUME KeptInv, at["engine"] # "writing"
  PROVE  promised \subseteq Held(files)
  BY DEF KeptInv, WriteSound, Found, Rewriting

LEMMA EngineMoves ==
  ASSUME KeptInv, at["engine"] # "writing", UNCHANGED <<files, promised>>,
         at'["api"] = at["api"], write'["api"] = write["api"],
         Stored', WriteSound("engine")', EngineSound'
  PROVE  KeptInv'
<1>1. OnlyOldCarries' /\ WriteSound("api")' /\ ApiSound'
  BY DEF KeptInv, OnlyOldCarries, OldFormat, WriteSound, ApiSound, Writing
<1>2. (\A r \in promised : Found(r))'
  BY OnDisk DEF Found, Held, Legacy
<1> QED
  BY <1>1, <1>2 DEF KeptInv

(* A write the API begins leaves the engine's own alone.                    *)
LEMMA ApiBegins ==
  ASSUME KeptInv, NEW name, NEW doc, NEW base, NEW stage, NEW then,
         Begun("api", name, doc, base, stage, then, "idle"),
         name = "config" \/ name = "rules", stage = "lock" \/ stage = "backup",
         Parses(doc), name = "config" => Bare(doc),
         UNCHANGED <<files, promised, faults>>,
         inMemory' \in [StoreThreads -> Doc], inMemory'["engine"] = inMemory["engine"],
         ApiSound'
  PROVE  KeptInv'
<1>1. Stored'
  BY Names DEF Begun, KeptInv, Stored, Labels
<1>2. at'["engine"] = at["engine"] /\ write'["engine"] = write["engine"] /\ at'["api"] = "writing"
  BY Names DEF Begun, KeptInv, Stored
<1>3. WriteSound("api")'
  BY <1>2 DEF Begun, WriteSound, Writing
<1> QED
  BY <1>1, <1>2, <1>3, ApiMoves

LEMMA SaveRulesKeeps ==
  ASSUME KeptInv, NEW held \in SUBSET Rules, NEW checked \in BOOLEAN, SaveRules(held, checked)
  PROVE  KeptInv'
<1> DEFINE doc == RulesDocument(held)
<1>1. doc \in Doc /\ Parses(doc) /\ doc.rules = held
  BY RulesDocuments
<1> HIDE DEF doc
<1>2. /\ BeginWrite("api", "rules", doc, files["rules"], "backup", "saved", "idle")
      /\ UNCHANGED <<files, promised, faults, inMemory>>
      /\ files["rules"] = NoFile \/ Verified(files["rules"])
  BY DEF SaveRules, UnchangedByApi, doc
<1>3. Begun("api", "rules", doc, files["rules"], "backup", "saved", "idle")
  <2>1. Stored /\ files["rules"] \in Doc
    BY Typed DEF KeptInv, DiskNames
  <2> QED
    BY <1>1, <1>2, <2>1, Names, BeginWriteBegins DEF Labels
<1>4. files["rules"] # Damaged
  BY <1>2, Blank, Whole DEF Verified
<1>5. at'["api"] = "writing"
  BY <1>3, Names DEF Begun, KeptInv, Stored
<1>6. ApiSound'
  BY <1>2, <1>3, <1>4, <1>5 DEF Begun, ApiSound, Writing
<1>7. inMemory \in [StoreThreads -> Doc]
  BY DEF KeptInv, Stored
<1> QED
  BY <1>1, <1>2, <1>3, <1>6, <1>7, ApiBegins

LEMMA SwitchKeeps ==
  ASSUME KeptInv, NEW off \in SUBSET Plugins, NEW then \in {"toggle", "switched"},
         BeginWrite("api", "config", ConfigDocument(off), files["config"], "backup", then, "idle"),
         files["config"] # Damaged, UNCHANGED <<files, promised, faults, inMemory>>
  PROVE  KeptInv'
<1> DEFINE doc == ConfigDocument(off)
<1>1. doc \in Doc /\ Bare(doc) /\ Parses(doc)
  BY ConfigDocuments DEF Bare
<1>2. BeginWrite("api", "config", doc, files["config"], "backup", then, "idle")
  OBVIOUS
<1> HIDE DEF doc
<1>3. Begun("api", "config", doc, files["config"], "backup", then, "idle")
  <2>1. Stored /\ files["config"] \in Doc /\ then \in Labels
    BY Typed DEF KeptInv, DiskNames, Labels
  <2> QED
    BY ZenonT(60), <1>1, <1>2, <2>1, Names, BeginWriteBegins DEF Labels
<1>4. at'["api"] = "writing"
  BY <1>3, Names DEF Begun, KeptInv, Stored
<1>5. ApiSound'
  BY <1>3, <1>4 DEF Begun, ApiSound, Writing
<1>6. inMemory \in [StoreThreads -> Doc]
  BY DEF KeptInv, Stored
<1> QED
  BY <1>1, <1>3, <1>5, <1>6, ApiBegins

LEMMA ToggleKeeps ==
  ASSUME KeptInv, NEW p \in Plugins, Toggle(p)
  PROVE  KeptInv'
<1>1. UNCHANGED <<files, promised, faults, inMemory>>
  BY DEF Toggle, UnchangedByApi
<1>2. CASE files["config"] = NoFile /\ WriteConfig("api", ConfigDocument({}), "toggle", "idle")
  <2>1. BeginWrite("api", "config", ConfigDocument({}), files["config"], "backup", "toggle", "idle")
    BY <1>2 DEF WriteConfig
  <2>2. files["config"] # Damaged
    BY <1>2, Blank
  <2>3. PICK none : none = {}
    OBVIOUS
  <2> QED
    BY <1>1, <2>1, <2>2, <2>3, SwitchKeeps
<1>3. CASE /\ Verified(files["config"])
           /\ LET off == files["config"].off IN
              WriteConfig("api", ConfigDocument(IF p \in off THEN off \ {p} ELSE off \cup {p}),
                          "switched", "idle")
  <2> DEFINE off == files["config"].off
             now == IF p \in off THEN off \ {p} ELSE off \cup {p}
  <2>1. now \in SUBSET Plugins
    BY Typed DEF KeptInv, DiskNames, Doc
  <2>2. files["config"] # Damaged
    BY <1>3, Whole DEF Verified
  <2>3. BeginWrite("api", "config", ConfigDocument(now), files["config"], "backup", "switched", "idle")
    BY <1>3 DEF WriteConfig
  <2> HIDE DEF now
  <2> QED
    BY <1>1, <2>1, <2>2, <2>3, SwitchKeeps
<1> QED
  BY <1>2, <1>3 DEF Toggle

LEMMA ApproveKeeps ==
  ASSUME KeptInv, Approve
  PROVE  KeptInv'
<1> DEFINE doc == ConfigDocument(files["config"].off)
           then == IF files["rules"] = NoFile THEN "idle" ELSE "approve rules"
<1>0. then \in {"idle", "approve rules"}
  OBVIOUS
<1>1. doc \in Doc /\ Bare(doc)
  BY Typed, ConfigDocuments DEF KeptInv, DiskNames, Doc
<1>2. /\ BeginWrite("api", "config", doc, files["config"], "backup", then, "idle")
      /\ UNCHANGED <<files, promised, faults>>
      /\ inMemory' = [inMemory EXCEPT !["api"] = files["rules"]]
      /\ files["config"] # Damaged /\ files["rules"] # Damaged
  BY Blank, Whole DEF Approve, UnchangedByApi, WriteConfig
<1> HIDE DEF doc, then
<1>3. Begun("api", "config", doc, files["config"], "backup", then, "idle")
  <2>1. Stored /\ files["config"] \in Doc /\ then \in Labels
    BY <1>0, Typed DEF KeptInv, DiskNames, Labels
  <2> QED
    BY ZenonT(60), <1>1, <1>2, <2>1, Names, BeginWriteBegins DEF Labels
<1>4. at'["api"] = "writing"
  BY <1>3, Names DEF Begun, KeptInv, Stored
<1>5. ApiSound'
  BY <1>0, <1>2, <1>3, <1>4 DEF Begun, ApiSound, Writing
<1>6. inMemory' \in [StoreThreads -> Doc] /\ inMemory'["engine"] = inMemory["engine"]
  BY <1>2, Typed, Names DEF KeptInv, Stored, DiskNames
<1>7. Parses(doc)
  BY <1>1 DEF Bare
<1> QED
  BY <1>1, <1>2, <1>3, <1>5, <1>6, <1>7, ApiBegins

LEMMA ApproveRulesKeeps ==
  ASSUME KeptInv, ApproveRules
  PROVE  KeptInv'
<1> DEFINE doc == RulesDocument(inMemory["api"].rules)
<1>1. doc \in Doc /\ Parses(doc) /\ doc.rules = inMemory["api"].rules
  BY Typed, Names, RulesDocuments DEF KeptInv, Doc
<1>2. /\ BeginWrite("api", "rules", doc, inMemory["api"], "lock", "approved", "idle")
      /\ UNCHANGED <<files, promised, faults, inMemory>>
      /\ at["api"] = "approve rules"
  BY DEF ApproveRules, UnchangedByApi, WriteRules
<1> HIDE DEF doc
<1>3. Begun("api", "rules", doc, inMemory["api"], "lock", "approved", "idle")
  <2>1. Stored /\ inMemory["api"] \in Doc
    BY Typed, Names DEF KeptInv
  <2> QED
    BY <1>1, <1>2, <2>1, Names, BeginWriteBegins DEF Labels
<1>4. at'["api"] = "writing"
  BY <1>3, Names DEF Begun, KeptInv, Stored
<1>5. ApiSound'
  BY <1>1, <1>2, <1>3, <1>4 DEF Begun, KeptInv, ApiSound, Writing
<1>6. inMemory' \in [StoreThreads -> Doc] /\ inMemory'["engine"] = inMemory["engine"]
  BY <1>2 DEF KeptInv, Stored
<1>7. PICK base : Begun("api", "rules", doc, base, "lock", "approved", "idle")
  BY <1>3
<1>8. Parses(doc) /\ UNCHANGED <<files, promised, faults>>
  BY <1>1, <1>2
<1>9. PICK stage : (stage = "lock" \/ stage = "backup")
                   /\ Begun("api", "rules", doc, base, stage, "approved", "idle")
  BY <1>7
<1> QED
  BY <1>9, <1>8, <1>5, <1>6, ApiBegins

(***************************************************************************)
(* The engine's start.                                                     *)
(***************************************************************************)

LEMMA EngineBegins ==
  ASSUME KeptInv, at["engine"] # "writing",
         NEW name, NEW doc, NEW base, NEW stage, NEW then, NEW otherwise,
         Begun("engine", name, doc, base, stage, then, otherwise),
         name = "config" \/ name = "rules", stage = "lock" \/ stage = "backup",
         Parses(doc), name = "config" => Bare(doc),
         UNCHANGED <<files, promised, faults>>,
         inMemory' \in [StoreThreads -> Doc], EngineSound'
  PROVE  KeptInv'
<1>1. Stored'
  BY Names DEF Begun, KeptInv, Stored, Labels
<1>2. at'["api"] = at["api"] /\ write'["api"] = write["api"] /\ at'["engine"] = "writing"
  BY Names DEF Begun, KeptInv, Stored
<1>3. WriteSound("engine")'
  BY <1>2 DEF Begun, WriteSound, Writing
<1> QED
  BY <1>1, <1>2, <1>3, EngineMoves

LEMMA EngineEnters ==
  ASSUME KeptInv, at["engine"] # "writing", NEW label \in Labels, label # "writing",
         Enter("engine", label), UNCHANGED <<files, promised, faults>>,
         inMemory' \in [StoreThreads -> Doc],
         label \in Joined => promised \subseteq RulesHeld(files),
         label = "recover config" => Bare(inMemory'["engine"]),
         label \in Settled => OldFormat = FALSE,
         label = "migrate plugins" => files["config"] # Damaged
  PROVE  KeptInv'
<1>1. /\ at' = [at EXCEPT !["engine"] = label]
      /\ UNCHANGED <<write, lock, cached, secret>>
  BY DEF Enter
<1>2. at'["engine"] = label /\ at'["api"] = at["api"] /\ at' \in [StoreThreads -> Labels]
  BY <1>1, Names DEF KeptInv, Stored
<1>3. Stored'
  BY <1>1, <1>2 DEF KeptInv, Stored
<1>4. WriteSound("engine")'
  BY <1>1, <1>2 DEF KeptInv, WriteSound, Writing
<1>5. RulesHeld(files)' = RulesHeld(files) /\ OldFormat' = OldFormat
  BY DEF RulesHeld, OldFormat
<1>6. EngineSound'
  BY <1>1, <1>2, <1>5 DEF EngineSound, Writing
<1> QED
  BY <1>1, <1>2, <1>3, <1>4, <1>6, EngineMoves

LEMMA JoinedWriteKeeps ==
  ASSUME KeptInv, at["engine"] # "writing", NEW then \in Joined,
         NEW doc \in Doc, Parses(doc), Legacy(files) \subseteq doc.rules, NEW base \in Doc,
         WriteRules("engine", doc, base, then, "failed"),
         files["rules"] # Damaged, Parses(base) => base.rules \subseteq doc.rules,
         then = "recover config" => Bare(inMemory'["engine"]),
         UNCHANGED <<files, promised, faults>>, inMemory' \in [StoreThreads -> Doc]
  PROVE  KeptInv'
<1>0. then \in Labels /\ "failed" \in Labels
  BY DEF Joined, Labels
<1>1. Begun("engine", "rules", doc, base, "lock", then, "failed")
  <2>1. Stored /\ BeginWrite("engine", "rules", doc, base, "lock", then, "failed")
    BY DEF KeptInv, WriteRules
  <2> QED
    BY <1>0, <2>1, Names, BeginWriteBegins
<1>2. at'["engine"] = "writing"
  BY <1>1, Names DEF Begun, KeptInv, Stored
<1>3. Legacy(files)' = Legacy(files)
  BY DEF Legacy
<1>4. EngineSound'
  BY <1>1, <1>2, <1>3 DEF Begun, EngineSound, Writing, Joined, Settled
<1>5. PICK name, stage, otherwise :
        /\ name = "rules" /\ name # "config" /\ stage = "lock"
        /\ Begun("engine", name, doc, base, stage, then, otherwise)
  BY <1>1
<1> QED
  BY <1>4, <1>5, EngineBegins

(* Rules of the old format are in rules.json, or on their way to it.        *)
LEMMA TakeOverKeeps ==
  ASSUME KeptInv, at["engine"] = "load config", NEW old \in SUBSET Rules, NEW then \in Joined,
         TakeOver(old, then), Legacy(files) \subseteq old,
         then = "recover config" => Bare(inMemory'["engine"]),
         UNCHANGED <<files, promised, faults>>, inMemory' \in [StoreThreads -> Doc]
  PROVE  KeptInv'
<1>0. then \in Labels /\ then # "writing" /\ then \notin Settled
  BY DEF Joined, Labels, Settled
<1>1. at["engine"] # "writing"
  OBVIOUS
<1>2. CASE files["rules"] = NoFile
  <2>1. RulesDocument(old) \in Doc /\ Parses(RulesDocument(old)) /\ RulesDocument(old).rules = old
    BY RulesDocuments
  <2>2. WriteRules("engine", RulesDocument(old), NoFile, then, "failed")
    BY <1>2 DEF TakeOver
  <2>3. NoFile \in Doc /\ files["rules"] # Damaged /\ ~Parses(NoFile)
    BY <1>2, Blank DEF Parses
  <2> QED
    BY <1>1, <2>1, <2>2, <2>3, JoinedWriteKeeps
<1>3. CASE files["rules"] # NoFile /\ old = {}
  <2>1. Enter("engine", then)
    BY <1>3 DEF TakeOver
  <2>2. promised \subseteq RulesHeld(files)
    BY <1>3, OnDisk DEF Held, RulesHeld
  <2>3. at["engine"] # "writing" /\ (then = "recover config" => Bare(inMemory'["engine"]))
        /\ then # "migrate plugins"
    BY <1>0 DEF Settled
  <2> QED
    BY <1>0, <2>1, <2>2, <2>3, EngineEnters
<1>4. CASE files["rules"] # NoFile /\ old # {} /\ Verified(files["rules"])
  <2> DEFINE all == old \cup files["rules"].rules
  <2>1. files["rules"] \in Doc /\ all \in SUBSET Rules
    BY Typed DEF KeptInv, DiskNames, Doc
  <2>2. RulesDocument(all) \in Doc /\ Parses(RulesDocument(all)) /\ RulesDocument(all).rules = all
    BY <2>1, RulesDocuments
  <2>3. WriteRules("engine", RulesDocument(all), files["rules"], then, "failed")
    BY <1>4 DEF TakeOver
  <2>4. files["rules"] # Damaged
    BY <1>4, Whole DEF Verified
  <2> QED
    BY <1>1, <2>1, <2>2, <2>3, <2>4, JoinedWriteKeeps
<1>5. CASE files["rules"] # NoFile /\ old # {} /\ ~Verified(files["rules"])
  <2>1. Enter("engine", "failed")
    BY <1>5 DEF TakeOver
  <2>2. "failed" \in Labels /\ "failed" \notin Joined /\ "failed" \notin Settled
    BY DEF Labels, Joined, Settled
  <2> QED
    BY <2>1, <2>2, EngineEnters
<1> QED
  BY <1>2, <1>3, <1>4, <1>5

(* A bare document is written to config.json when no promise rests on what  *)
(* was there.                                                               *)
LEMMA ConfigWriteKeeps ==
  ASSUME KeptInv, at["engine"] # "writing", NEW doc \in Doc, Bare(doc),
         NEW then \in {"migrate plugins", "migrate rules"},
         NEW otherwise \in Settled \cup {"failed"},
         WriteConfig("engine", doc, then, otherwise),
         promised \subseteq RulesHeld(files),
         otherwise \in Settled => OldFormat = FALSE,
         otherwise = "migrate plugins" => files["config"] # Damaged,
         UNCHANGED <<files, promised, faults>>, inMemory' \in [StoreThreads -> Doc]
  PROVE  KeptInv'
<1>1. Begun("engine", "config", doc, files["config"], "backup", then, otherwise)
  <2>1. Stored /\ BeginWrite("engine", "config", doc, files["config"], "backup", then, otherwise)
    BY DEF KeptInv, WriteConfig
  <2>2. files["config"] \in Doc /\ then \in Labels /\ otherwise \in Labels
    BY <2>1, Typed DEF DiskNames, Labels, Settled
  <2> QED
    BY <2>1, <2>2, Names, BeginWriteBegins
<1>2. at'["engine"] = "writing"
  BY <1>1, Names DEF Begun, KeptInv, Stored
<1>3. RulesHeld(files)' = RulesHeld(files) /\ OldFormat' = OldFormat
  BY DEF RulesHeld, OldFormat
<1>4. EngineSound'
  BY <1>1, <1>2, <1>3 DEF Begun, EngineSound, Writing, Joined, Settled
<1>5. Parses(doc)
  BY DEF Bare
<1> QED
  BY <1>1, <1>4, <1>5, EngineBegins

(* Where config.json is neither of the old format nor damaged, what was     *)
(* promised is in rules.json.                                               *)
LEMMA NothingLegacy ==
  ASSUME KeptInv, at["engine"] # "writing", Legacy(files) = {}
  PROVE  promised \subseteq RulesHeld(files)
  BY OnDisk DEF Held, RulesHeld

LEMMA NoOldRules ==
  ASSUME KeptInv, OldFormat = FALSE, files["config"] # Damaged
  PROVE  Legacy(files) = {}
  BY DEF KeptInv, OnlyOldCarries, Legacy

LEMMA StartKeeps ==
  ASSUME KeptInv, StartEngine \/ StopEngine \/ MigrateRules
  PROVE  KeptInv'
<1>1. inMemory' \in [StoreThreads -> Doc] /\ UNCHANGED <<files, promised, faults, inMemory>>
  BY DEF StartEngine, StopEngine, MigrateRules, UnchangedByStart, KeptInv, Stored
<1>2. PICK label \in Labels :
        /\ Enter("engine", label) /\ label # "writing" /\ at["engine"] # "writing"
        /\ label \notin Joined /\ label # "recover config" /\ label # "migrate plugins"
        /\ label \in Settled => OldFormat = FALSE
  <2>1. CASE StartEngine
    <3>1. /\ "load config" \in Labels /\ "load config" \notin Joined /\ "load config" \notin Settled
          /\ Enter("engine", "load config") /\ at["engine"] # "writing"
      BY <2>1 DEF StartEngine, Labels, Joined, Settled
    <3> QED
      BY <3>1
  <2>2. CASE StopEngine
    <3>1. /\ "down" \in Labels /\ "down" \notin Joined /\ "down" \notin Settled
          /\ Enter("engine", "down") /\ at["engine"] # "writing"
      BY <2>2 DEF StopEngine, Labels, Joined, Settled
    <3> QED
      BY <3>1
  <2>3. CASE MigrateRules
    <3>1. /\ "load rules" \in Labels /\ "load rules" \notin Joined
          /\ Enter("engine", "load rules") /\ at["engine"] # "writing" /\ OldFormat = FALSE
      BY <2>3 DEF MigrateRules, Labels, Joined, KeptInv, EngineSound, Settled
    <3> QED
      BY <3>1
  <2> QED
    BY <2>1, <2>2, <2>3
<1> QED
  BY <1>1, <1>2, EngineEnters

LEMMA LoadConfigKeeps ==
  ASSUME KeptInv, LoadConfig
  PROVE  KeptInv'
<1>1. /\ at["engine"] = "load config" /\ at["engine"] # "writing"
      /\ UNCHANGED <<files, promised, faults>>
  BY DEF LoadConfig, UnchangedByStart
<1>2. files["config"] \in Doc /\ files["config.bak"] \in Doc
  BY Typed DEF KeptInv, DiskNames
<1>3. ASSUME NEW doc \in Doc, KeepInMemory(doc)
      PROVE  inMemory' \in [StoreThreads -> Doc] /\ inMemory'["engine"] = doc
  BY <1>3, Names DEF KeptInv, Stored, KeepInMemory
<1>4. CASE /\ files["config"] = NoFile
           /\ KeepInMemory(ConfigDocument({}))
           /\ WriteConfig("engine", ConfigDocument({}), "migrate plugins", "migrate plugins")
  <2>1. ConfigDocument({}) \in Doc /\ Bare(ConfigDocument({}))
    BY ConfigDocuments
  <2>2. inMemory' \in [StoreThreads -> Doc]
    BY <1>3, <1>4, <2>1
  <2>3. Legacy(files) = {} /\ OldFormat = FALSE /\ files["config"] # Damaged
    BY <1>4, Blank DEF Legacy, OldFormat, Parses
  <2>4. promised \subseteq RulesHeld(files)
    BY <1>1, <2>3, NothingLegacy
  <2>5. PICK next \in {"migrate plugins", "migrate rules"} :
          next \in Settled /\ WriteConfig("engine", ConfigDocument({}), next, next)
    <3>1. "migrate plugins" \in Settled
      BY DEF Settled
    <3> QED
      BY <1>4, <3>1
  <2> QED
    BY <1>1, <2>1, <2>2, <2>3, <2>4, <2>5, ConfigWriteKeeps
<1>5. CASE /\ Verified(files["config"])
           /\ KeepInMemory(files["config"])
           /\ MigrateThen("strip config", "migrate plugins")
  <2>1. inMemory' \in [StoreThreads -> Doc]
    BY <1>2, <1>3, <1>5
  <2>2. CASE OldFormat
    <3>1. TakeOver(files["config"].rules, "strip config")
      BY <1>5, <2>2 DEF MigrateThen
    <3>2. files["config"].rules \in SUBSET Rules /\ Legacy(files) \subseteq files["config"].rules
      BY <1>2, <2>2 DEF Doc, Legacy, OldFormat
    <3>3. PICK then \in Joined : then # "recover config" /\ TakeOver(files["config"].rules, then)
      BY <3>1 DEF Joined
    <3> QED
      BY <1>1, <2>1, <3>2, <3>3, TakeOverKeeps
  <2>3. CASE ~OldFormat
    <3>1. Enter("engine", "migrate plugins")
      BY <1>5, <2>3 DEF MigrateThen
    <3>2. files["config"] # Damaged /\ OldFormat = FALSE
      <4>1. OldFormat = FALSE
        BY <2>3 DEF OldFormat
      <4> QED
        BY <1>5, <4>1, Whole DEF Verified
    <3>3. PICK label \in Labels : /\ label # "writing" /\ label \notin Joined
                                  /\ label # "recover config" /\ Enter("engine", label)
      BY <3>1 DEF Labels, Joined
    <3> QED
      BY <1>1, <2>1, <3>2, <3>3, EngineEnters
  <2> QED
    BY <2>2, <2>3
<1>6. CASE /\ Recoverable("config")
           /\ LET backup == files["config.bak"] IN
              /\ KeepInMemory(ConfigDocument(backup.off))
              /\ IF backup.rules = {} THEN Enter("engine", "recover config")
                 ELSE TakeOver(backup.rules, "recover config")
  <2> DEFINE old == files["config.bak"].rules
  <2>1. /\ ConfigDocument(files["config.bak"].off) \in Doc
        /\ Bare(ConfigDocument(files["config.bak"].off))
    BY <1>2, ConfigDocuments DEF Doc
  <2>2. /\ inMemory' \in [StoreThreads -> Doc]
        /\ inMemory'["engine"] = ConfigDocument(files["config.bak"].off)
    BY <1>3, <1>6, <2>1
  <2>3. Bare(inMemory'["engine"])
    BY <2>1, <2>2 DEF Bare, Parses
  <2>4. files["config"] = Damaged /\ Parses(files["config.bak"])
    BY <1>6, Names DEF Recoverable, Verified
  <2>5. Legacy(files) = old
    BY <2>4, Blank DEF Legacy, Parses
  <2>6. CASE old = {}
    <3>1. Enter("engine", "recover config")
      BY <1>6, <2>6
    <3>2. promised \subseteq RulesHeld(files)
      BY <1>1, <2>5, <2>6, NothingLegacy
    <3>3. PICK label \in Labels : /\ label # "writing" /\ label \notin Settled
                                  /\ label # "migrate plugins" /\ Enter("engine", label)
      BY <3>1 DEF Labels, Settled
    <3> QED
      BY <1>1, <2>2, <2>3, <3>2, <3>3, EngineEnters
  <2>7. CASE old # {}
    <3>1. PICK then \in Joined : TakeOver(old, then)
      BY <1>6, <2>7 DEF Joined
    <3>2. old \in SUBSET Rules
      BY <1>2 DEF Doc
    <3> QED
      BY <1>1, <2>2, <2>3, <2>5, <3>1, <3>2, TakeOverKeeps
  <2> QED
    BY <2>6, <2>7
<1>7. CASE Unusable("config") /\ Enter("engine", "failed") /\ UNCHANGED inMemory
  <2>1. PICK label \in Labels : /\ label # "writing" /\ label \notin Settled /\ label \notin Joined
                                /\ label # "migrate plugins" /\ label # "recover config"
                                /\ Enter("engine", label)
    BY <1>7 DEF Labels, Settled, Joined
  <2>2. inMemory' \in [StoreThreads -> Doc]
    BY <1>7 DEF KeptInv, Stored
  <2> QED
    BY <1>1, <2>1, <2>2, EngineEnters
<1> QED
  BY <1>4, <1>5, <1>6, <1>7 DEF LoadConfig

LEMMA JoinedKeeps ==
  ASSUME KeptInv, RecoverConfig \/ StripConfig
  PROVE  KeptInv'
<1>1. /\ at["engine"] \in Joined /\ at["engine"] # "writing"
      /\ UNCHANGED <<files, promised, faults>> /\ inMemory' \in [StoreThreads -> Doc]
  BY DEF RecoverConfig, StripConfig, UnchangedByStart, Joined, KeptInv, Stored
<1>2. PICK doc \in Doc : Bare(doc) /\ WriteConfig("engine", doc, "migrate plugins", "failed")
  <2>1. inMemory["engine"] \in Doc
    BY Typed, Names DEF KeptInv
  <2>2. CASE RecoverConfig
    BY <2>1, <2>2 DEF RecoverConfig, KeptInv, EngineSound
  <2>3. CASE StripConfig
    <3> DEFINE doc == ConfigDocument(inMemory["engine"].off)
    <3>1. doc \in Doc /\ Bare(doc)
      BY <2>1, ConfigDocuments DEF Doc
    <3>2. WriteConfig("engine", doc, "migrate plugins", "failed")
      BY <2>3 DEF StripConfig
    <3> HIDE DEF doc
    <3> QED
      BY <3>1, <3>2
  <2> QED
    BY <2>2, <2>3
<1>3. PICK otherwise \in Settled \cup {"failed"} :
        /\ otherwise \notin Settled /\ otherwise # "migrate plugins"
        /\ WriteConfig("engine", doc, "migrate plugins", otherwise)
  BY <1>2 DEF Settled
<1>4. promised \subseteq RulesHeld(files)
  BY <1>1 DEF KeptInv, EngineSound
<1> QED
  BY <1>1, <1>2, <1>3, <1>4, ConfigWriteKeeps

LEMMA MigratePluginsKeeps ==
  ASSUME KeptInv, MigratePlugins
  PROVE  KeptInv'
<1> DEFINE off == inMemory["engine"].off
           doc == ConfigDocument(off \cup ShippedOff)
<1>1. /\ at["engine"] = "migrate plugins" /\ at["engine"] # "writing"
      /\ UNCHANGED <<files, promised, faults>> /\ KeepInMemory(doc)
  BY DEF MigratePlugins, UnchangedByStart
<1>2. off \in SUBSET Plugins
  BY Typed, Names DEF KeptInv, Doc
<1>3. doc \in Doc /\ Bare(doc)
  BY <1>2, StoreConstants, ConfigDocuments
<1>4. inMemory' \in [StoreThreads -> Doc]
  BY <1>1, <1>3 DEF KeptInv, Stored, KeepInMemory
<1>5. OldFormat = FALSE /\ files["config"] # Damaged
  BY <1>1 DEF KeptInv, EngineSound, Settled
<1>6. promised \subseteq RulesHeld(files)
  BY <1>1, <1>5, NoOldRules, NothingLegacy
<1>7. CASE ShippedOff \subseteq off
  <2>1. PICK label \in Labels : /\ label # "writing" /\ label \notin Joined
                                /\ label # "recover config" /\ Enter("engine", label)
    BY <1>7 DEF MigratePlugins, Labels, Joined
  <2> QED
    BY <1>1, <1>4, <1>5, <2>1, EngineEnters
<1>8. CASE ~(ShippedOff \subseteq off)
  <2>1. PICK otherwise \in Settled \cup {"failed"} :
          WriteConfig("engine", doc, "migrate rules", otherwise)
    BY <1>8 DEF MigratePlugins, Settled
  <2> HIDE DEF doc
  <2> QED
    BY <1>1, <1>3, <1>4, <1>5, <1>6, <2>1, ConfigWriteKeeps
<1> QED
  BY <1>7, <1>8

LEMMA LoadedWriteKeeps ==
  ASSUME KeptInv, at["engine"] # "writing", OldFormat = FALSE,
         NEW doc \in Doc, Parses(doc), NEW base \in Doc, ~Parses(base),
         WriteRules("engine", doc, base, "up", "up") \/ WriteRules("engine", doc, base, "up", "failed"),
         files["rules"] = Damaged /\ Parses(files["rules.bak"])
           => files["rules.bak"].rules \subseteq doc.rules,
         UNCHANGED <<files, promised, faults>>, inMemory' \in [StoreThreads -> Doc]
  PROVE  KeptInv'
<1>0. PICK otherwise \in {"up", "failed"} : WriteRules("engine", doc, base, "up", otherwise)
  OBVIOUS
<1>1. PICK name, stage, then :
        /\ name = "rules" /\ name # "config" /\ stage = "lock" /\ then = "up"
        /\ Begun("engine", name, doc, base, stage, then, otherwise)
  <2>1. Stored /\ BeginWrite("engine", "rules", doc, base, "lock", "up", otherwise)
    BY <1>0 DEF KeptInv, WriteRules
  <2>2. otherwise \in Labels /\ "up" \in Labels
    BY DEF Labels
  <2>3. Begun("engine", "rules", doc, base, "lock", "up", otherwise)
    BY <2>1, <2>2, Names, BeginWriteBegins
  <2> QED
    BY <2>3
<1>2. at'["engine"] = "writing"
  BY <1>1, Names DEF Begun, KeptInv, Stored
<1>3. OldFormat' = FALSE
  BY DEF OldFormat
<1>4. EngineSound'
  BY <1>1, <1>2, <1>3 DEF Begun, EngineSound, Writing, Joined, Settled
<1> QED
  BY <1>1, <1>4, EngineBegins

LEMMA LoadRulesKeeps ==
  ASSUME KeptInv, LoadRules
  PROVE  KeptInv'
<1>1. /\ at["engine"] = "load rules" /\ at["engine"] # "writing"
      /\ UNCHANGED <<files, promised, faults>> /\ inMemory' \in [StoreThreads -> Doc]
      /\ OldFormat = FALSE
  BY DEF LoadRules, UnchangedByStart, KeptInv, Stored, EngineSound, Settled
<1>2. ASSUME NEW label \in Labels, label \in {"up", "failed"}, Enter("engine", label)
      PROVE  KeptInv'
  <2>1. /\ label # "writing" /\ label \notin Joined /\ label # "recover config"
        /\ label # "migrate plugins"
    BY <1>2 DEF Joined
  <2> QED
    BY <1>1, <1>2, <2>1, EngineEnters
<1>3. CASE Verified(files["rules"]) /\ Enter("engine", "up")
  BY <1>2, <1>3 DEF Labels
<1>4. CASE Unusable("rules") /\ Enter("engine", "failed")
  BY <1>2, <1>4 DEF Labels
<1>5. CASE files["rules"] = NoFile /\ WriteRules("engine", RulesDocument({}), NoFile, "up", "up")
  <2>1. /\ RulesDocument({}) \in Doc /\ Parses(RulesDocument({})) /\ NoFile \in Doc
        /\ files["rules"] # Damaged /\ ~Parses(NoFile)
    BY <1>5, Blank, RulesDocuments DEF Parses
  <2> QED
    BY <1>1, <1>5, <2>1, LoadedWriteKeeps
<1>6. CASE /\ Recoverable("rules")
           /\ WriteRules("engine", RulesDocument(files["rules.bak"].rules), Damaged, "up", "failed")
  <2>1. files["rules.bak"].rules \in SUBSET Rules
    BY Typed DEF KeptInv, DiskNames, Doc
  <2>2. /\ RulesDocument(files["rules.bak"].rules) \in Doc
        /\ Parses(RulesDocument(files["rules.bak"].rules))
        /\ RulesDocument(files["rules.bak"].rules).rules = files["rules.bak"].rules
    BY <2>1, RulesDocuments
  <2>3. Damaged \in Doc /\ ~Parses(Damaged)
    BY Blank DEF Parses
  <2> QED
    BY <1>1, <1>6, <2>2, <2>3, LoadedWriteKeeps
<1> QED
  BY <1>3, <1>4, <1>5, <1>6 DEF LoadRules

(***************************************************************************)
(* A write goes on.                                                        *)
(***************************************************************************)

LEMMA Restaged ==
  ASSUME Stored, NEW t \in StoreThreads, NEW stage \in {"backup", "main"},
         write' = [write EXCEPT ![t].stage = stage]
  PROVE  /\ write' \in [StoreThreads -> Write]
         /\ \A u \in StoreThreads : u # t => write'[u] = write[u]
         /\ write'[t].stage = stage
         /\ \A u \in StoreThreads :
              /\ write'[u].name = write[u].name /\ write'[u].doc = write[u].doc
              /\ write'[u].base = write[u].base /\ write'[u].then = write[u].then
              /\ write'[u].otherwise = write[u].otherwise
  BY DEF Stored, Write

(* The engine's write goes on in the same state of the files.               *)
LEMMA TakeLockKeeps ==
  ASSUME KeptInv, NEW t \in StoreThreads, TakeLock(t)
  PROVE  KeptInv'
<1>1. /\ UNCHANGED <<files, secret, cached, at, inMemory, promised, faults>>
      /\ write' = [write EXCEPT ![t].stage = "backup"] /\ write[t].stage = "lock"
  BY DEF TakeLock
<1>2. /\ write' \in [StoreThreads -> Write]
      /\ \A u \in StoreThreads : u # t => write'[u] = write[u]
      /\ write'[t].stage = "backup"
      /\ \A u \in StoreThreads :
           /\ write'[u].name = write[u].name /\ write'[u].doc = write[u].doc
           /\ write'[u].base = write[u].base /\ write'[u].then = write[u].then
           /\ write'[u].otherwise = write[u].otherwise
  BY <1>1, Restaged DEF KeptInv
<1>3. Stored'
  BY <1>1, <1>2 DEF KeptInv, Stored
<1>4. OnlyOldCarries'
  BY <1>1 DEF KeptInv, OnlyOldCarries, OldFormat
<1>5. WriteSound("engine")' /\ WriteSound("api")'
  BY <1>1, <1>2, Names DEF KeptInv, WriteSound, Writing
<1>6. ApiSound'
  <2>1. \A n \in FileNames : Writing("api", n)' <=> Writing("api", n)
    BY <1>1, <1>2, Names DEF Writing
  <2> QED
    BY <1>1, <1>2, <2>1, Names DEF KeptInv, ApiSound
<1>7. EngineSound'
  <2>1. RulesHeld(files)' = RulesHeld(files) /\ Legacy(files)' = Legacy(files)
        /\ OldFormat' = OldFormat
    BY <1>1 DEF RulesHeld, Legacy, OldFormat
  <2> QED
    BY <1>1, <1>2, <2>1, Names DEF KeptInv, EngineSound, Writing
<1>8. (\A r \in promised : Found(r))'
  BY <1>1, <1>2, Names DEF KeptInv, Found, Rewriting, Held, Legacy
<1> QED
  BY <1>3, <1>4, <1>5, <1>6, <1>7, <1>8 DEF KeptInv

(* The backup is overwritten; what counts of it is in the file or, when the *)
(* file is damaged, in the write.                                           *)
LEMMA CopyKeeps ==
  ASSUME KeptInv, NEW t \in StoreThreads, CopyToBackup(t)
  PROVE  KeptInv'
<1> DEFINE name == write[t].name
<1>1. /\ UNCHANGED <<secret, cached, at, inMemory, promised, faults>>
      /\ write' = [write EXCEPT ![t].stage = "main"] /\ write[t].stage = "backup"
      /\ files' = IF files[name] = NoFile THEN files
                  ELSE [files EXCEPT ![Backup(name)] = files[name]]
  BY DEF CopyToBackup
<1>2. /\ write' \in [StoreThreads -> Write]
      /\ \A u \in StoreThreads : u # t => write'[u] = write[u]
      /\ write'[t].stage = "main"
      /\ \A u \in StoreThreads :
           /\ write'[u].name = write[u].name /\ write'[u].doc = write[u].doc
           /\ write'[u].base = write[u].base /\ write'[u].then = write[u].then
           /\ write'[u].otherwise = write[u].otherwise
  BY <1>1, Restaged DEF KeptInv
<1>3. Writing(t, "config") \/ Writing(t, "rules")
  BY <1>1, Names DEF KeptInv, WriteSound
<1>4. /\ files' \in [DiskNames -> Doc]
      /\ files'["config"] = files["config"] /\ files'["rules"] = files["rules"]
      /\ name = "config" => /\ files'["rules.bak"] = files["rules.bak"]
                            /\ files["config"] = Damaged => files'["config.bak"] = Damaged
      /\ name = "rules" => /\ files'["config.bak"] = files["config.bak"]
                           /\ files["rules"] = Damaged => files'["rules.bak"] = Damaged
  BY <1>1, <1>3, Names, Blank DEF KeptInv, Stored, Writing, DiskNames
<1>5. Stored'
  BY <1>1, <1>2, <1>4 DEF KeptInv, Stored
<1>6. OnlyOldCarries' /\ OldFormat' = OldFormat
  BY <1>4 DEF KeptInv, OnlyOldCarries, OldFormat
<1>7. WriteSound("engine")' /\ WriteSound("api")'
  BY <1>1, <1>2, Names DEF KeptInv, WriteSound, Writing
<1>8. ApiSound'
  <2>1. \A n \in FileNames : Writing("api", n)' <=> Writing("api", n)
    BY <1>1, <1>2, Names DEF Writing
  <2> QED
    BY <1>1, <1>2, <1>4, <2>1, Names DEF KeptInv, ApiSound
<1>9. t = "api" => files[name] # Damaged
  BY <1>3 DEF KeptInv, ApiSound, Writing
<1>10. ~Parses(Damaged)
  BY Blank DEF Parses
<1>11. Legacy(files') \subseteq Legacy(files)
  BY <1>3, <1>4, <1>10 DEF Legacy, Writing
<1>12. files[name] # Damaged => RulesHeld(files') = RulesHeld(files) /\ Legacy(files') = Legacy(files)
  <2>1. CASE name = "config"
    BY <1>4, <2>1 DEF RulesHeld, Legacy
  <2>2. CASE name = "rules"
    BY <1>4, <2>2 DEF RulesHeld, Legacy
  <2> QED
    BY <1>3, <2>1, <2>2 DEF Writing
<1>13. name = "config" => RulesHeld(files') = RulesHeld(files)
  BY <1>4 DEF RulesHeld
<1>14. EngineSound'
  <2>1. at["engine"] \in Joined \/ Writing("engine", "config") => promised \subseteq RulesHeld(files')
    <3>1. CASE t = "api"
      BY <1>9, <1>12, <3>1 DEF KeptInv, EngineSound
    <3>2. CASE t = "engine"
      BY <1>3, <1>13, <3>2 DEF KeptInv, EngineSound, Writing, Joined
    <3> QED
      BY <3>1, <3>2, Names
  <2>2. Writing("engine", "rules") /\ files["rules"] = Damaged /\ Parses(files'["rules.bak"])
          => files'["rules.bak"].rules \subseteq write["engine"].doc.rules
    <3>1. CASE t = "api"
      BY <1>3, <1>4, <1>9, <3>1 DEF KeptInv, EngineSound, Writing
    <3>2. CASE t = "engine"
      BY <1>4, <1>10, <3>2 DEF Writing
    <3> QED
      BY <3>1, <3>2, Names
  <2>3. \A n \in FileNames : Writing("engine", n)' <=> Writing("engine", n)
    BY <1>1, <1>2, Names DEF Writing
  <2>4. write'["engine"].then = write["engine"].then /\ write'["engine"].doc = write["engine"].doc
        /\ write'["engine"].base = write["engine"].base
        /\ write'["engine"].otherwise = write["engine"].otherwise
    BY <1>2, Names
  <2>5. RulesHeld(files)' = RulesHeld(files') /\ Legacy(files)' = Legacy(files')
    OBVIOUS
  <2> QED
    BY ZenonT(60), <1>1, <1>4, <1>6, <1>11, <2>1, <2>2, <2>3, <2>4, <2>5, Names DEF KeptInv, EngineSound
<1>15. (\A r \in promised : Found(r))'
  <2> SUFFICES ASSUME NEW r \in promised PROVE Found(r)'
    BY <1>1
  <2>1. CASE files[name] # Damaged
    <3>1. Held(files') = Held(files)
      BY <1>12, <2>1 DEF Held, RulesHeld, Legacy
    <3>2. CASE r \in Held(files)
      BY <3>1, <3>2 DEF Found
    <3>3. CASE r \notin Held(files)
      <4>1. Rewriting("engine") /\ r \in write["engine"].doc.rules
        BY <3>3 DEF KeptInv, Found
      <4>2. Writing("engine", "config") \/ Writing("engine", "rules")
        BY <1>1, <4>1 DEF Rewriting, KeptInv, WriteSound
      <4>3. t # "engine" /\ write'["engine"] = write["engine"]
        BY <1>1, <1>2, <4>1, Names DEF Rewriting
      <4>4. Rewriting("engine")'
        BY <1>4, <4>1, <4>2, <4>3 DEF Rewriting, Writing
      <4> QED
        BY <4>1, <4>3, <4>4 DEF Found
    <3> QED
      BY <3>2, <3>3
  <2>2. CASE files[name] = Damaged /\ name = "config"
    <3>1. Writing("engine", "config")
      BY <1>3, <1>9, <2>2, Names DEF Writing
    <3>2. r \in RulesHeld(files')
      BY <1>13, <2>2, <3>1 DEF KeptInv, EngineSound
    <3> QED
      BY <3>2 DEF Found, Held, RulesHeld
  <2>3. CASE files[name] = Damaged /\ name = "rules"
    <3>1. t = "engine" /\ Writing("engine", "rules")
      BY <1>3, <1>9, <2>3, Names DEF Writing
    <3>2. r \in Held(files)
      BY <1>1, <3>1 DEF KeptInv, Found, Rewriting
    <3>3. Legacy(files') = Legacy(files)
      BY <1>4, <2>3 DEF Legacy
    <3>4. CASE r \in Legacy(files)
      BY <3>3, <3>4 DEF Found, Held
    <3>5. CASE r \notin Legacy(files)
      <4>1. r \in write["engine"].doc.rules
        BY <2>3, <3>1, <3>2, <3>5, <1>10 DEF KeptInv, EngineSound, Held
      <4>2. Rewriting("engine")'
        BY <1>2, <1>4, <2>3, <3>1 DEF Rewriting
      <4> QED
        BY <1>2, <3>1, <4>1, <4>2 DEF Found
    <3> QED
      BY <3>4, <3>5
  <2> QED
    BY <1>3, <2>1, <2>2, <2>3 DEF Writing
<1> QED
  BY <1>5, <1>6, <1>7, <1>8, <1>14, <1>15 DEF KeptInv

(* What a replacement leaves: the file, the label the thread goes on with,  *)
(* no write in hand, and the promises.                                      *)
LEMMA Replaced ==
  ASSUME KeptInv, NEW t \in StoreThreads, Replace(t), NEW name \in FileNames, Writing(t, name)
  PROVE  /\ files' \in [DiskNames -> Doc] /\ files'[name] = write[t].doc
         /\ \A n \in DiskNames : n # name => files'[n] = files[n]
         /\ at' \in [StoreThreads -> Labels] /\ at'[t] = SettledLabel(write[t].then)
         /\ write' \in [StoreThreads -> Write] /\ write'[t].stage = "none"
         /\ \A u \in StoreThreads : u # t => at'[u] = at[u] /\ write'[u] = write[u]
         /\ UNCHANGED <<secret, cached, inMemory, faults>>
         /\ Parses(files'[name]) /\ files'[name] # Damaged
<1>1. /\ files' = [files EXCEPT ![name] = write[t].doc]
      /\ at' = [at EXCEPT ![t] = SettledLabel(write[t].then)]
      /\ write' = [write EXCEPT ![t] = NoWrite]
      /\ UNCHANGED <<secret, cached, inMemory, faults>>
  BY DEF Replace, Writing
<1>2. write[t].doc \in Doc /\ write[t].then \in Labels
  BY Typed DEF KeptInv, Write
<1>3. SettledLabel(write[t].then) \in Labels
  BY <1>2 DEF SettledLabel, Labels
<1>4. name \in DiskNames
  BY Names DEF DiskNames
<1>5. /\ files' \in [DiskNames -> Doc] /\ files'[name] = write[t].doc
      /\ \A n \in DiskNames : n # name => files'[n] = files[n]
  BY <1>1, <1>2, <1>4 DEF KeptInv, Stored
<1>6. /\ at' \in [StoreThreads -> Labels] /\ at'[t] = SettledLabel(write[t].then)
      /\ write' \in [StoreThreads -> Write] /\ write'[t].stage = "none"
      /\ \A u \in StoreThreads : u # t => at'[u] = at[u] /\ write'[u] = write[u]
  BY <1>1, <1>3, NoWriteTyped DEF KeptInv, Stored
<1>7. Parses(write[t].doc)
  BY Names DEF KeptInv, WriteSound, Writing, Bare
<1>8. Parses(files'[name]) /\ files'[name] # Damaged
  BY <1>5, <1>7, Blank DEF Parses
<1> QED
  BY <1>1, <1>5, <1>6, <1>8

(* Promises that were checked against the new files are found there.        *)
LEMMA Rechecked ==
  ASSUME promised' \subseteq Held(files')
  PROVE  (\A r \in promised : Found(r))'
  BY DEF Found, Held, Legacy

LEMMA ApiReplacesRules ==
  ASSUME KeptInv, Replace("api"), Writing("api", "rules")
  PROVE  KeptInv'
<1> DEFINE w == write["api"]
<1>0. "api" \in StoreThreads /\ "engine" \in StoreThreads /\ "rules" \in FileNames
      /\ "engine" # "api" /\ "config" \in DiskNames /\ "config.bak" \in DiskNames
      /\ "config" # "rules" /\ "config.bak" # "rules"
  BY Names DEF DiskNames
<1>1. /\ files' \in [DiskNames -> Doc] /\ files'["rules"] = w.doc
      /\ \A n \in DiskNames : n # "rules" => files'[n] = files[n]
      /\ at' \in [StoreThreads -> Labels] /\ at'["api"] = SettledLabel(w.then)
      /\ write' \in [StoreThreads -> Write] /\ write'["api"].stage = "none"
      /\ \A u \in StoreThreads : u # "api" => at'[u] = at[u] /\ write'[u] = write[u]
      /\ UNCHANGED <<secret, cached, inMemory, faults>>
      /\ Parses(files'["rules"]) /\ files'["rules"] # Damaged
  BY <1>0, Replaced
<1>2. files'["config"] = files["config"] /\ files'["config.bak"] = files["config.bak"]
      /\ at'["engine"] = at["engine"] /\ write'["engine"] = write["engine"]
  BY <1>0, <1>1
<1>3. at'["api"] = "idle"
  BY <1>1 DEF KeptInv, ApiSound, SettledLabel
<1>4. RulesHeld(files') = w.doc.rules /\ Legacy(files') = Legacy(files) /\ OldFormat' = OldFormat
  BY <1>1, <1>2 DEF RulesHeld, Legacy, OldFormat
<1>5. ~Rewriting("engine") \/ write["engine"].name = "config"
  <2>1. files["rules"] # Damaged
    BY DEF KeptInv, ApiSound
  <2> QED
    BY <2>1 DEF Rewriting, KeptInv, WriteSound, Writing
<1>6. promised \subseteq Held(files)
  <2>1. ASSUME Rewriting("engine") PROVE write["engine"].doc.rules = {}
    BY <1>5, <2>1 DEF Rewriting, KeptInv, WriteSound, Writing, Bare
  <2> QED
    BY <2>1 DEF KeptInv, Found
<1>7. /\ promised' \subseteq Held(files')
      /\ promised \subseteq RulesHeld(files) => promised' \subseteq RulesHeld(files')
  <2>1. CASE w.then = "saved"
    <3>1. promised' = w.doc.rules
      BY <2>1 DEF Replace
    <3> QED
      BY <1>1, <1>4, <3>1 DEF Held
  <2>2. CASE w.then # "saved" /\ (Overrun("api") \/ DropsOldFormat("api"))
    <3>1. promised' = promised \cap Held(files')
      BY <2>2 DEF Replace
    <3>2. Legacy(files) = {}
      BY <2>2, Blank DEF KeptInv, ApiSound, Legacy
    <3>3. Held(files') = RulesHeld(files')
      BY <1>4, <3>2 DEF Held, RulesHeld
    <3> QED
      BY <3>1, <3>3
  <2>3. CASE w.then # "saved" /\ ~(Overrun("api") \/ DropsOldFormat("api"))
    <3>1. promised' = promised
      BY <2>3 DEF Replace
    <3>2. files["rules"] = w.base /\ w.doc.rules = w.base.rules
      BY <2>3 DEF Overrun, Writing, KeptInv, ApiSound
    <3>3. RulesHeld(files) \subseteq RulesHeld(files')
      <4>1. files["rules"] # Damaged
        BY DEF KeptInv, ApiSound
      <4> QED
        BY <1>4, <3>2, <4>1 DEF RulesHeld
    <3>4. Held(files) \subseteq Held(files')
      BY <1>4, <3>3 DEF Held, RulesHeld
    <3> QED
      BY <1>6, <3>1, <3>3, <3>4
  <2> QED
    BY <2>1, <2>2, <2>3
<1>8. Stored' /\ OnlyOldCarries'
  BY <1>1, <1>2, <1>4 DEF KeptInv, Stored, OnlyOldCarries
<1>9. WriteSound("engine")' /\ WriteSound("api")'
  BY <1>1, <1>2, <1>3 DEF KeptInv, WriteSound, Writing
<1>10. ApiSound'
  BY <1>3 DEF ApiSound, Writing
<1>11. EngineSound'
  BY <1>1, <1>2, <1>4, <1>7 DEF KeptInv, EngineSound, Writing
<1> QED
  BY <1>7, <1>8, <1>9, <1>10, <1>11, Rechecked DEF KeptInv

LEMMA ApiReplacesConfig ==
  ASSUME KeptInv, Replace("api"), Writing("api", "config")
  PROVE  KeptInv'
<1> DEFINE w == write["api"]
<1>0. "api" \in StoreThreads /\ "engine" \in StoreThreads /\ "config" \in FileNames
      /\ "engine" # "api" /\ "rules" \in DiskNames /\ "rules.bak" \in DiskNames
      /\ "rules" # "config" /\ "rules.bak" # "config"
  BY Names DEF DiskNames
<1>1. /\ files' \in [DiskNames -> Doc] /\ files'["config"] = w.doc
      /\ \A n \in DiskNames : n # "config" => files'[n] = files[n]
      /\ at' \in [StoreThreads -> Labels] /\ at'["api"] = SettledLabel(w.then)
      /\ write' \in [StoreThreads -> Write] /\ write'["api"].stage = "none"
      /\ \A u \in StoreThreads : u # "api" => at'[u] = at[u] /\ write'[u] = write[u]
      /\ UNCHANGED <<secret, cached, inMemory, faults>>
      /\ Parses(files'["config"]) /\ files'["config"] # Damaged
  BY <1>0, Replaced
<1>2. files'["rules"] = files["rules"] /\ files'["rules.bak"] = files["rules.bak"]
      /\ at'["engine"] = at["engine"] /\ write'["engine"] = write["engine"]
  BY <1>0, <1>1
<1>3. /\ w.then \in {"toggle", "switched", "idle", "approve rules"}
      /\ at'["api"] \in {"toggle", "idle", "approve rules"}
      /\ at'["api"] = "approve rules" => w.then = "approve rules"
  BY <1>1 DEF KeptInv, ApiSound, SettledLabel
<1>4. Bare(w.doc)
  BY DEF KeptInv, WriteSound
<1>5. RulesHeld(files') = RulesHeld(files) /\ Legacy(files') = {} /\ OldFormat' = FALSE
  BY <1>1, <1>2, <1>4 DEF RulesHeld, Legacy, OldFormat, Bare
<1>6. promised' \subseteq promised
  BY <1>3 DEF Replace
<1>7. (\A r \in promised : Found(r))'
  <2>1. CASE Overrun("api") \/ DropsOldFormat("api")
    <3>1. promised' \subseteq Held(files')
      BY <1>3, <2>1 DEF Replace
    <3> QED
      BY <3>1, Rechecked
  <2>2. CASE ~Overrun("api") /\ ~DropsOldFormat("api")
    <3>1. Legacy(files) = {}
      BY <2>2 DEF DropsOldFormat, Writing, KeptInv, ApiSound, Legacy
    <3>2. Held(files) = Held(files')
      BY <1>5, <3>1 DEF Held, RulesHeld
    <3>3. ASSUME NEW r \in promised', r \notin Held(files)
          PROVE  Rewriting("engine") /\ r \in write["engine"].doc.rules
                 /\ write["engine"].name # "config"
      BY <1>6, <3>3 DEF KeptInv, Found, Rewriting, ApiSound
    <3>4. ASSUME Rewriting("engine"), write["engine"].name # "config" PROVE Rewriting("engine")'
      <4>1. write["engine"].name = "rules"
        BY <3>4 DEF Rewriting, KeptInv, WriteSound, Writing
      <4> QED
        BY <1>2, <3>4, <4>1 DEF Rewriting
    <3> QED
      BY <1>2, <3>2, <3>3, <3>4 DEF Found
  <2> QED
    BY <2>1, <2>2
<1>8. Stored' /\ OnlyOldCarries'
  BY <1>1, <1>4 DEF KeptInv, Stored, OnlyOldCarries, Bare
<1>9. WriteSound("engine")' /\ WriteSound("api")'
  BY <1>1, <1>2, <1>3 DEF KeptInv, WriteSound, Writing
<1>10. ApiSound'
  BY <1>1, <1>2, <1>3, <1>4 DEF KeptInv, ApiSound, Writing, Bare
<1>11. EngineSound'
  BY <1>1, <1>2, <1>5, <1>6 DEF KeptInv, EngineSound, Writing
<1> QED
  BY <1>7, <1>8, <1>9, <1>10, <1>11 DEF KeptInv

LEMMA EngineReplacesRules ==
  ASSUME KeptInv, Replace("engine"), Writing("engine", "rules")
  PROVE  KeptInv'
<1> DEFINE w == write["engine"]
<1>0. "api" \in StoreThreads /\ "engine" \in StoreThreads /\ "rules" \in FileNames
      /\ "engine" # "api" /\ "config" \in DiskNames /\ "config.bak" \in DiskNames
      /\ "config" # "rules" /\ "config.bak" # "rules"
  BY Names DEF DiskNames
<1>1. /\ files' \in [DiskNames -> Doc] /\ files'["rules"] = w.doc
      /\ \A n \in DiskNames : n # "rules" => files'[n] = files[n]
      /\ at' \in [StoreThreads -> Labels] /\ at'["engine"] = SettledLabel(w.then)
      /\ write' \in [StoreThreads -> Write] /\ write'["engine"].stage = "none"
      /\ \A u \in StoreThreads : u # "engine" => at'[u] = at[u] /\ write'[u] = write[u]
      /\ UNCHANGED <<secret, cached, inMemory, faults>>
      /\ Parses(files'["rules"]) /\ files'["rules"] # Damaged
  BY <1>0, Replaced
<1>2. files'["config"] = files["config"] /\ files'["config.bak"] = files["config.bak"]
      /\ at'["api"] = at["api"] /\ write'["api"] = write["api"]
  BY <1>0, <1>1
<1>3. /\ w.then \in Joined \cup {"up"} /\ at'["engine"] = w.then /\ at'["engine"] # "writing"
  BY <1>1 DEF KeptInv, EngineSound, SettledLabel, Joined
<1>4. RulesHeld(files') = w.doc.rules /\ Legacy(files') = Legacy(files) /\ OldFormat' = OldFormat
  BY <1>1, <1>2 DEF RulesHeld, Legacy, OldFormat
<1>5. promised' \subseteq Held(files')
  <2>1. CASE Overrun("engine")
    BY <1>3, <2>1 DEF Replace, Joined
  <2>2. CASE ~Overrun("engine")
    <3>1. promised' \subseteq promised
      BY <1>3, <2>2 DEF Replace, Joined
    <3>2. files["rules"] = w.base
      BY <2>2 DEF Overrun, Writing
    <3>3. RulesHeld(files) \subseteq w.doc.rules
      BY <3>2 DEF RulesHeld, KeptInv, EngineSound
    <3>4. Held(files) \subseteq Held(files') /\ w.doc.rules \subseteq Held(files')
      BY <1>4, <3>3 DEF Held, RulesHeld
    <3> QED
      BY <3>1, <3>4 DEF KeptInv, Found
  <2> QED
    BY <2>1, <2>2
<1>6. at'["engine"] \in Joined => promised' \subseteq RulesHeld(files')
  <2>1. w.then \in Joined => Legacy(files) \subseteq w.doc.rules
    BY DEF KeptInv, EngineSound
  <2> QED
    BY <1>3, <1>4, <1>5, <2>1 DEF Held, RulesHeld
<1>7. Stored' /\ OnlyOldCarries'
  BY <1>1, <1>2, <1>4 DEF KeptInv, Stored, OnlyOldCarries
<1>8. WriteSound("engine")' /\ WriteSound("api")'
  BY <1>1, <1>2, <1>3 DEF KeptInv, WriteSound, Writing
<1>9. ApiSound'
  BY <1>1, <1>2 DEF KeptInv, ApiSound, Writing
<1>10. EngineSound'
  <2>1. w.then = "recover config" => Bare(inMemory["engine"])
    BY DEF KeptInv, EngineSound
  <2>2. w.then = "up" => OldFormat = FALSE
    BY DEF KeptInv, EngineSound
  <2> QED
    BY <1>1, <1>3, <1>4, <1>6, <2>1, <2>2 DEF EngineSound, Writing, Joined, Settled, Bare, Parses
<1> QED
  BY <1>5, <1>7, <1>8, <1>9, <1>10, Rechecked DEF KeptInv

LEMMA EngineReplacesConfig ==
  ASSUME KeptInv, Replace("engine"), Writing("engine", "config")
  PROVE  KeptInv'
<1> DEFINE w == write["engine"]
<1>0. "api" \in StoreThreads /\ "engine" \in StoreThreads /\ "config" \in FileNames
      /\ "engine" # "api" /\ "rules" \in DiskNames /\ "rules.bak" \in DiskNames
      /\ "rules" # "config" /\ "rules.bak" # "config"
  BY Names DEF DiskNames
<1>1. /\ files' \in [DiskNames -> Doc] /\ files'["config"] = w.doc
      /\ \A n \in DiskNames : n # "config" => files'[n] = files[n]
      /\ at' \in [StoreThreads -> Labels] /\ at'["engine"] = SettledLabel(w.then)
      /\ write' \in [StoreThreads -> Write] /\ write'["engine"].stage = "none"
      /\ \A u \in StoreThreads : u # "engine" => at'[u] = at[u] /\ write'[u] = write[u]
      /\ UNCHANGED <<secret, cached, inMemory, faults>>
      /\ Parses(files'["config"]) /\ files'["config"] # Damaged
  BY <1>0, Replaced
<1>2. files'["rules"] = files["rules"] /\ files'["rules.bak"] = files["rules.bak"]
      /\ at'["api"] = at["api"] /\ write'["api"] = write["api"]
  BY <1>0, <1>1
<1>3. w.then \in {"migrate plugins", "migrate rules"} /\ at'["engine"] = w.then
  BY <1>1 DEF KeptInv, EngineSound, SettledLabel
<1>4. Bare(w.doc)
  BY DEF KeptInv, WriteSound
<1>5. RulesHeld(files') = RulesHeld(files) /\ OldFormat' = FALSE
  BY <1>1, <1>2, <1>4 DEF RulesHeld, OldFormat, Bare
<1>6. promised' \subseteq promised /\ promised \subseteq RulesHeld(files)
  BY <1>3 DEF Replace, KeptInv, EngineSound
<1>7. promised' \subseteq Held(files')
  BY <1>5, <1>6 DEF Held, RulesHeld
<1>8. Stored' /\ OnlyOldCarries'
  BY <1>1, <1>4 DEF KeptInv, Stored, OnlyOldCarries, Bare
<1>9. WriteSound("engine")' /\ WriteSound("api")'
  BY <1>1, <1>2, <1>3 DEF KeptInv, WriteSound, Writing
<1>10. ApiSound'
  BY <1>1, <1>2, <1>4 DEF KeptInv, ApiSound, Writing, Bare
<1>11. EngineSound'
  BY <1>1, <1>3, <1>5 DEF EngineSound, Writing, Joined, Settled
<1> QED
  BY <1>7, <1>8, <1>9, <1>10, <1>11, Rechecked DEF KeptInv

LEMMA ReplaceKeeps ==
  ASSUME KeptInv, NEW t \in StoreThreads, Replace(t)
  PROVE  KeptInv'
<1>1. Writing(t, "config") \/ Writing(t, "rules")
  BY Names DEF Replace, KeptInv, WriteSound
<1> QED
  BY <1>1, Names, ApiReplacesRules, ApiReplacesConfig, EngineReplacesRules, EngineReplacesConfig

(***************************************************************************)
(* Failures.                                                               *)
(***************************************************************************)

LEMMA WriteFailsKeeps ==
  ASSUME KeptInv, NEW t \in StoreThreads, WriteFails(t)
  PROVE  KeptInv'
<1>1. /\ write' = [write EXCEPT ![t] = NoWrite]
      /\ at' = [at EXCEPT ![t] = write[t].otherwise]
      /\ faults' = faults + 1 /\ UNCHANGED <<files, secret, cached, inMemory>>
      /\ promised' = IF Rewriting(t) THEN promised \cap Held(files) ELSE promised
      /\ write[t].stage # "none"
  BY DEF WriteFails
<1>2. /\ write' \in [StoreThreads -> Write] /\ write'[t].stage = "none"
      /\ at' \in [StoreThreads -> Labels] /\ at'[t] = write[t].otherwise
      /\ \A u \in StoreThreads : u # t => at'[u] = at[u] /\ write'[u] = write[u]
  <2>1. write[t].otherwise \in Labels
    BY Typed DEF KeptInv, Write
  <2> QED
    BY <1>1, <2>1, NoWriteTyped DEF KeptInv, Stored
<1>3. Stored'
  BY <1>1, <1>2 DEF KeptInv, Stored
<1>4. promised' \subseteq promised
  BY <1>1
<1>5. at[t] = "writing"
  BY <1>1, Names DEF KeptInv, WriteSound
<1>6. CASE t = "api"
  <2>1. at'["api"] = "idle"
    BY <1>2, <1>5, <1>6 DEF KeptInv, ApiSound
  <2>2. WriteSound("api")' /\ ApiSound'
    BY <1>2, <1>6, <2>1 DEF WriteSound, ApiSound, Writing
  <2>3. at'["engine"] = at["engine"] /\ write'["engine"] = write["engine"]
    BY <1>2, <1>6, Names
  <2> QED
    BY <1>1, <1>3, <1>4, <2>2, <2>3, ApiMoves
<1>7. CASE t = "engine"
  <2>1. at'["engine"] \in Settled \cup {"failed"} /\ at'["engine"] # "writing"
        /\ at'["engine"] \notin Joined
    BY <1>2, <1>5, <1>7 DEF KeptInv, EngineSound, Settled, Joined
  <2>2. at'["api"] = at["api"] /\ write'["api"] = write["api"]
    BY <1>2, <1>7, Names
  <2>3. OnlyOldCarries' /\ WriteSound("engine")' /\ WriteSound("api")'
    BY <1>1, <1>2, <1>7, <2>1, <2>2 DEF KeptInv, OnlyOldCarries, OldFormat, WriteSound, Writing
  <2>4. ApiSound'
    BY <1>1, <2>2 DEF KeptInv, ApiSound, Writing
  <2>5. EngineSound'
    <3>1. OldFormat' = OldFormat
      BY <1>1 DEF OldFormat
    <3> QED
      BY <1>1, <1>2, <1>5, <1>7, <2>1, <3>1 DEF KeptInv, EngineSound, Writing, Settled
  <2>6. promised' \subseteq Held(files')
    <3>1. promised' \subseteq Held(files)
      BY <1>1, <1>7 DEF KeptInv, Found
    <3> QED
      BY <1>1, <3>1 DEF Held, Legacy
  <2> QED
    BY <1>3, <2>3, <2>4, <2>5, <2>6, Rechecked DEF KeptInv
<1> QED
  BY <1>6, <1>7, Names

LEMMA DamageKeeps ==
  ASSUME KeptInv, NEW name \in FileNames, Damage(name)
  PROVE  KeptInv'
<1>1. /\ files' = [files EXCEPT ![name] = Damaged]
      /\ promised' = promised \cap Held(files') /\ faults' = faults + 1
      /\ UNCHANGED <<secret, cached, at, write, inMemory>> /\ AtRest
  BY DEF Damage
<1>2. /\ files' \in [DiskNames -> Doc] /\ files'[name] = Damaged
      /\ \A n \in DiskNames : n # name => files'[n] = files[n]
  BY <1>1, Blank, Names DEF KeptInv, Stored, DiskNames
<1>3. Stored'
  BY <1>1, <1>2 DEF KeptInv, Stored
<1>4. OnlyOldCarries' /\ (OldFormat = FALSE => OldFormat' = FALSE)
  <2>1. CASE name = "config"
    BY <1>2, <2>1, Blank DEF OnlyOldCarries, OldFormat, Parses
  <2>2. CASE name # "config"
    <3>1. files'["config"] = files["config"]
      BY <1>2, <2>2 DEF DiskNames
    <3> QED
      BY <3>1 DEF KeptInv, OnlyOldCarries, OldFormat
  <2> QED
    BY <2>1, <2>2
<1>5. WriteSound("engine")' /\ WriteSound("api")'
  BY <1>1 DEF KeptInv, WriteSound, Writing
<1>6. ApiSound'
  BY <1>1 DEF AtRest, ApiSound, Writing
<1>7. EngineSound'
  BY <1>1, <1>4 DEF AtRest, KeptInv, EngineSound, Writing, Joined, Settled
<1>8. (\A r \in promised : Found(r))'
  <2>1. promised' \subseteq Held(files')
    BY <1>1
  <2> QED
    BY <2>1, Rechecked
<1> QED
  BY <1>3, <1>4, <1>5, <1>6, <1>7, <1>8 DEF KeptInv

LEMMA CrashKeeps ==
  ASSUME KeptInv, Crash
  PROVE  KeptInv'
<1>1. /\ at' = [t \in StoreThreads |-> IF t = "engine" THEN "down" ELSE "idle"]
      /\ write' = [t \in StoreThreads |-> NoWrite]
      /\ cached' = 0 /\ inMemory' = [t \in StoreThreads |-> NoFile]
      /\ faults' = faults + 1 /\ UNCHANGED <<files, secret>>
      /\ promised' = IF \E t \in StoreThreads : Rewriting(t)
                       THEN promised \cap Held(files) ELSE promised
  BY DEF Crash
<1>2. /\ at' \in [StoreThreads -> Labels] /\ at'["engine"] = "down" /\ at'["api"] = "idle"
      /\ write' \in [StoreThreads -> Write]
      /\ write'["engine"].stage = "none" /\ write'["api"].stage = "none"
      /\ inMemory' \in [StoreThreads -> Doc]
  BY <1>1, NoWriteTyped, Blank, Names DEF Labels
<1>3. Stored'
  BY <1>1, <1>2 DEF KeptInv, Stored
<1>4. OnlyOldCarries' /\ WriteSound("engine")' /\ WriteSound("api")'
  BY <1>1, <1>2 DEF KeptInv, OnlyOldCarries, OldFormat, WriteSound, Writing
<1>5. ApiSound' /\ EngineSound'
  BY <1>2 DEF ApiSound, EngineSound, Writing, Joined, Settled
<1>6. promised' \subseteq Held(files')
  <2>1. promised' \subseteq Held(files)
    BY <1>1, Names DEF KeptInv, Found
  <2> QED
    BY <1>1, <2>1 DEF Held, Legacy
<1> QED
  BY <1>3, <1>4, <1>5, <1>6, Rechecked DEF KeptInv

(* Nothing of what is said of files, writes and promises changes.           *)
LEMMA NothingMoves ==
  ASSUME KeptInv, UNCHANGED <<files, at, write, inMemory, promised>>,
         secret' \in Nat, cached' \in Nat, faults' \in Nat
  PROVE  KeptInv'
<1>1. Stored'
  BY DEF KeptInv, Stored
<1>2. WriteSound("api")' /\ ApiSound'
  BY DEF KeptInv, WriteSound, ApiSound, Writing
<1> QED
  BY <1>1, <1>2, ApiMoves

(***************************************************************************)
(* The invariant and the theorem.                                          *)
(***************************************************************************)

LEMMA KeptInvInit == StoreInit => KeptInv
<1> SUFFICES ASSUME StoreInit PROVE KeptInv
  OBVIOUS
<1>1. files \in [DiskNames -> Doc] /\ OnlyOldCarries
  <2>1. PICK some \in SUBSET Rules :
          files \in {EmptyDisk,
                     [EmptyDisk EXCEPT !["config"] = FileOf({}, FALSE, {}, 1),
                                       !["rules"] = FileOf(some, FALSE, {}, 1)],
                     [EmptyDisk EXCEPT !["config"] = FileOf(some, TRUE, {}, 1)]}
    BY DEF StoreInit
  <2>2. /\ FileOf({}, FALSE, {}, 1) \in Doc /\ FileOf({}, FALSE, {}, 1).rules = {}
        /\ FileOf(some, FALSE, {}, 1) \in Doc
        /\ FileOf(some, TRUE, {}, 1) \in Doc /\ Parses(FileOf(some, TRUE, {}, 1))
        /\ FileOf(some, TRUE, {}, 1).legacy = TRUE
    BY DEF FileOf, Contents, Doc, Parses
  <2>3. EmptyDisk \in [DiskNames -> Doc] /\ EmptyDisk["config"].rules = {}
    BY Blank, Names DEF EmptyDisk, DiskNames
  <2>4. CASE files = EmptyDisk
    BY <2>3, <2>4 DEF OnlyOldCarries
  <2>5. CASE files = [EmptyDisk EXCEPT !["config"] = FileOf({}, FALSE, {}, 1),
                                       !["rules"] = FileOf(some, FALSE, {}, 1)]
    <3>1. files \in [DiskNames -> Doc] /\ files["config"] = FileOf({}, FALSE, {}, 1)
      BY <2>2, <2>3, <2>5 DEF DiskNames
    <3> QED
      BY <2>2, <3>1 DEF OnlyOldCarries
  <2>6. CASE files = [EmptyDisk EXCEPT !["config"] = FileOf(some, TRUE, {}, 1)]
    <3>1. files \in [DiskNames -> Doc] /\ files["config"] = FileOf(some, TRUE, {}, 1)
      BY <2>2, <2>3, <2>6 DEF DiskNames
    <3> QED
      BY <2>2, <3>1 DEF OnlyOldCarries, OldFormat
  <2> QED
    BY <2>1, <2>4, <2>5, <2>6
<1>2. /\ at \in [StoreThreads -> Labels] /\ at["engine"] = "down" /\ at["api"] = "idle"
      /\ write \in [StoreThreads -> Write]
      /\ write["engine"].stage = "none" /\ write["api"].stage = "none"
      /\ inMemory \in [StoreThreads -> Doc]
  BY NoWriteTyped, Blank, Names DEF StoreInit, Labels
<1>3. Stored
  BY <1>1, <1>2 DEF StoreInit, Stored
<1>4. WriteSound("engine") /\ WriteSound("api") /\ ApiSound /\ EngineSound
  BY <1>2 DEF WriteSound, ApiSound, EngineSound, Writing, Joined, Settled
<1>5. \A r \in promised : Found(r)
  BY DEF StoreInit, Found
<1> QED
  BY <1>1, <1>3, <1>4, <1>5 DEF KeptInv

LEMMA KeptInvStep == KeptInv /\ [StoreNext]_storeVars => KeptInv'
<1> SUFFICES ASSUME KeptInv, [StoreNext]_storeVars PROVE KeptInv'
  OBVIOUS
<1>0. secret \in Nat /\ cached \in Nat /\ faults \in Nat /\ faults + 1 \in Nat
  BY DEF KeptInv, Stored
<1>1. ASSUME NEW t \in StoreThreads, TakeLock(t) \/ CopyToBackup(t) \/ Replace(t) \/ WriteFails(t)
      PROVE  KeptInv'
  BY <1>1, TakeLockKeeps, CopyKeeps, ReplaceKeeps, WriteFailsKeeps
<1>2. CASE StartEngine \/ StopEngine \/ MigrateRules
  BY <1>2, StartKeeps
<1>3. CASE LoadConfig \/ LoadRules
  BY <1>3, LoadConfigKeeps, LoadRulesKeeps
<1>4. CASE RecoverConfig \/ StripConfig \/ MigratePlugins
  BY <1>4, JoinedKeeps, MigratePluginsKeeps
<1>5. CASE ListRules
  BY <1>0, <1>5, NothingMoves DEF ListRules, UnchangedByApi
<1>6. ASSUME NEW held \in SUBSET Rules, NEW checked \in BOOLEAN, SaveRules(held, checked)
      PROVE  KeptInv'
  BY <1>6, SaveRulesKeeps
<1>7. ASSUME NEW p \in Plugins, Toggle(p) PROVE KeptInv'
  BY <1>7, ToggleKeeps
<1>8. CASE Approve \/ ApproveRules
  BY <1>8, ApproveKeeps, ApproveRulesKeeps
<1>9. ASSUME NEW n \in FileNames, Damage(n) PROVE KeptInv'
  BY <1>9, DamageKeeps
<1>10. CASE LoseSecret
  <2>1. secret' = 0 /\ faults' = faults + 1 /\ UNCHANGED <<files, cached, at, write, inMemory, promised>>
    BY <1>10 DEF LoseSecret
  <2> QED
    BY <1>0, <2>1, NothingMoves
<1>11. CASE Crash
  BY <1>11, CrashKeeps
<1>12. CASE UNCHANGED storeVars
  BY <1>0, <1>12, NothingMoves DEF storeVars
<1> QED
  BY <1>1, <1>2, <1>3, <1>4, <1>5, <1>6, <1>7, <1>8, <1>9, <1>10, <1>11, <1>12 DEF StoreNext

(* No rule the user was told is saved is lost by what the program does, and *)
(* no start reads rules.json while rules of the old format wait in          *)
(* config.json (config.py: SignedConfigStore, _migrate_rules_file,          *)
(* load_config, load_rules; host/app.py: create_engine).                    *)
THEOREM SavedRulesKept == StoreSpec => []RulesKept
<1>1. StoreInit => KeptInv
  BY KeptInvInit
<1>2. KeptInv /\ [StoreNext]_storeVars => KeptInv'
  BY KeptInvStep
<1>3. KeptInv => RulesKept
  <2> SUFFICES ASSUME KeptInv PROVE RulesKept
    OBVIOUS
  <2>1. OldFormatGone
    BY DEF KeptInv, EngineSound, Settled, OldFormatGone
  <2>2. ASSUME NEW r \in promised PROVE r \in Held(files) \cup InFlight
    BY Names DEF KeptInv, Found, InFlight
  <2> QED
    BY <2>1, <2>2 DEF RulesKept
<1> QED
  BY <1>1, <1>2, <1>3, PTL DEF StoreSpec
=============================================================================
