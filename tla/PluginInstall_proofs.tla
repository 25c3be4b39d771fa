------------------------- MODULE PluginInstall_proofs --------------------------
(* StillWorks for any number of ids, versions, installs at a time, mishaps and  *)
(* starts: while a working version is owed, one loads, or the only backup of    *)
(* the package holds one and the next start can tell what to replace with it.   *)
EXTENDS PluginInstall, FiniteSetTheorems, SequenceTheorems, TLAPS

Contents == Versions \cup {None, Partial}
Slots == [Ids -> Contents]
Places == {"idle", "claim", "copy", "copying", "clear", "move", "rollback", "prune", "record"}
InstallRecord == [at : Places, version : Versions \cup {None}, token : Tokens \cup {"none"},
                  todo : Seq(Ids), moved : Seq(Ids), staged : Contents]
BootRecord == [at : {"off", "loaded", "set aside", "put back", "reload", "started"},
               found : Slots, loaded : SUBSET Ids, restore : Ids \cup {"none"},
               active : Ids \cup {"none"}, undisturbed : BOOLEAN]

DiskTyped ==
  /\ dir \in Slots /\ backup \in Slots /\ brokenCopy \in Contents
  /\ preview \in [Tokens -> Versions \cup {None}]
  /\ owed \in BOOLEAN
InstallsTyped ==
  /\ install \in [Installers -> InstallRecord]
  /\ \A t \in Installers :
       /\ install[t].at # "idle" => install[t].version \in Versions
       /\ install[t].at = "move" => install[t].todo # <<>>
UninstallTyped ==
  uninstall \in [at : {"idle", "remove", "backups"}, id : Ids \cup {"none"}, backups : SUBSET Ids]
StartTyped ==
  /\ boot \in BootRecord
  /\ boot.at \in Restoring => boot.restore \in Ids
  /\ brokenCopy # None => boot.at = "put back" /\ boot.active \in Ids

InstallTypes == DiskTyped /\ InstallsTyped /\ UninstallTyped /\ StartTyped

(* A whole directory is neither missing nor partial.                            *)
LEMMA Kinds ==
  /\ Versions \subseteq Contents /\ {None, Partial} \subseteq Contents
  /\ ~Whole(None) /\ ~Whole(Partial) /\ None # Partial
  /\ \A c \in Contents : c # None /\ c # Partial => Whole(c)
  /\ \A c \in Loadable : Whole(c) /\ c # None
  BY InstallConstants DEF Contents, Whole, None, Partial

LEMMA Replaced ==
  ASSUME NEW slots \in Slots, NEW i, NEW c \in Contents
  PROVE  [slots EXCEPT ![i] = c] \in Slots
  BY DEF Slots

(* The last directory moved away is the first to return.                        *)
LEMMA Ends ==
  ASSUME NEW S, NEW s \in Seq(S), s # <<>>
  PROVE  Last(s) \in S /\ Front(s) \in Seq(S)
<1>1. Len(s) \in Nat \ {0} /\ Len(s) \in 1 .. Len(s) /\ s \in [1 .. Len(s) -> S]
  BY EmptySeq, LenProperties
<1>2. Last(s) = s[Len(s)]
  BY DEF Last
<1>3. Front(s) \in Seq(S)
  BY <1>1 DEF Front
<1> QED
  BY <1>1, <1>2, <1>3

LEMMA InstallTypesInit == InstallInit => InstallTypes
<1> SUFFICES ASSUME InstallInit PROVE InstallTypes
  OBVIOUS
<1>1. dir \in Slots /\ backup \in Slots /\ brokenCopy \in Contents
  BY InstallConstants, Kinds DEF InstallInit, Slots, Contents
<1>2. preview \in [Tokens -> Versions \cup {None}] /\ uninstall = NoUninstall
  BY DEF InstallInit
<1>3. install \in [Installers -> InstallRecord]
  BY DEF InstallInit, NoInstall, InstallRecord, Places, Contents
<1>4. boot \in BootRecord /\ boot.at = "off"
  BY DEF InstallInit, Off, BootRecord, Slots, Contents
<1> QED
  BY <1>1, <1>2, <1>3, <1>4
  DEF InstallTypes, DiskTyped, InstallsTyped, UninstallTyped, StartTyped, InstallInit,
      NoInstall, NoUninstall, Restoring

(* Replacing one install's record by one of the right kind.                     *)
LEMMA StepTyped ==
  ASSUME InstallsTyped, NEW t \in Installers, NEW r \in InstallRecord, Step(t, r),
         r.at # "idle" => r.version \in Versions, r.at = "move" => r.todo # <<>>
  PROVE  InstallsTyped'
  BY DEF InstallsTyped, Step

LEMMA NoInstallTyped == NoInstall \in InstallRecord /\ NoInstall.at = "idle"
  BY DEF NoInstall, InstallRecord, Places, Contents

(* What an install may do to its own record.                                    *)
LEMMA InstallStepTyped ==
  ASSUME InstallTypes, NEW t \in Installers,
         \/ \E k \in Tokens : BeginInstall(t, k)
         \/ \E force \in BOOLEAN : Claim(t, force)
         \/ BeginCopy(t) \/ EndCopy(t) \/ Clear(t) \/ MoveAway(t) \/ Place(t)
         \/ MoveFails(t) \/ Rollback(t) \/ RollbackFails(t) \/ Prune(t) \/ RecordHashes(t)
  PROVE  InstallsTyped'
<1> DEFINE r == install[t]
<1>0. /\ InstallsTyped /\ r \in InstallRecord /\ (r.at # "idle" => r.version \in Versions)
      /\ r.at = "move" => r.todo # <<>>
  BY DEF InstallTypes, InstallsTyped, DiskTyped
<1>1. CASE \E k \in Tokens : BeginInstall(t, k)
  <2>1. PICK k \in Tokens : BeginInstall(t, k)
    BY <1>1
  <2>2. preview[k] \in Versions
    BY <2>1 DEF BeginInstall, InstallTypes, DiskTyped
  <2>3. [NoInstall EXCEPT !.at = "claim", !.version = preview[k], !.token = k] \in InstallRecord
    BY <2>2, NoInstallTyped DEF InstallRecord, Places
  <2> QED
    BY <1>0, <2>1, <2>2, <2>3, NoInstallTyped, StepTyped DEF BeginInstall, InstallRecord
<1>2. CASE \E force \in BOOLEAN : Claim(t, force)
  <2>1. PICK force \in BOOLEAN : Claim(t, force)
    BY <1>2
  <2>2. CASE Step(t, NoInstall)
    BY <1>0, <2>2, NoInstallTyped, StepTyped
  <2>3. ASSUME ~Step(t, NoInstall)
        PROVE  \E obsolete \in {<<>>} \cup {<<i>> : i \in Ids} :
                 Step(t, [r EXCEPT !.at = "copy", !.todo = obsolete \o <<IdOf[r.version]>>])
    BY <2>1, <2>3 DEF Claim, InstallFails, Existing
  <2>4. ASSUME NEW obsolete \in {<<>>} \cup {<<i>> : i \in Ids},
               Step(t, [r EXCEPT !.at = "copy", !.todo = obsolete \o <<IdOf[r.version]>>])
        PROVE  InstallsTyped'
    <3>1. r.at = "claim" /\ r.version \in Versions /\ IdOf[r.version] \in Ids
      BY <1>0, <2>1, InstallConstants DEF Claim
    <3>2. obsolete \in Seq(Ids) /\ <<IdOf[r.version]>> \in Seq(Ids)
      <4>1. CASE obsolete = <<>>
        BY <3>1, <4>1
      <4>2. CASE obsolete \in {<<i>> : i \in Ids}
        <5>1. PICK i \in Ids : obsolete = <<i>>
          BY <4>2
        <5> QED
          BY <3>1, <5>1
      <4> QED
        BY <4>1, <4>2
    <3>3. [r EXCEPT !.at = "copy", !.todo = obsolete \o <<IdOf[r.version]>>] \in InstallRecord
      BY <1>0, <3>2, ConcatProperties DEF InstallRecord, Places
    <3> QED
      BY <1>0, <2>4, <3>1, <3>3, StepTyped DEF InstallRecord
  <2> QED
    BY <2>2, <2>3, <2>4
<1>3. CASE BeginCopy(t) \/ EndCopy(t)
  <2>1. \/ Step(t, NoInstall)
        \/ Step(t, [r EXCEPT !.at = "copying"]) /\ r.at # "idle"
        \/ Step(t, [r EXCEPT !.at = "clear", !.staged = r.version]) /\ r.at # "idle"
        \/ Step(t, [r EXCEPT !.at = "clear", !.staged = Partial]) /\ r.at # "idle"
    BY <1>3 DEF BeginCopy, EndCopy, InstallFails
  <2>2. /\ [r EXCEPT !.at = "copying"] \in InstallRecord
        /\ [r EXCEPT !.at = "clear", !.staged = r.version] \in InstallRecord
        /\ [r EXCEPT !.at = "clear", !.staged = Partial] \in InstallRecord
    BY <1>0 DEF InstallRecord, Places, Contents
  <2> QED
    BY <1>0, <2>1, <2>2, NoInstallTyped, StepTyped DEF InstallRecord
<1>4. CASE Clear(t) \/ MoveAway(t) \/ Place(t) \/ MoveFails(t)
  <2>1. \/ Step(t, [r EXCEPT !.todo = Tail(@)]) /\ r.todo # <<>> /\ r.at = "clear"
        \/ Step(t, [r EXCEPT !.at = "move"]) /\ r.todo # <<>>
        \/ Step(t, [r EXCEPT !.at = "rollback"])
        \/ Step(t, [r EXCEPT !.at = "prune"])
        \/ /\ Step(t, [r EXCEPT !.at = "clear", !.todo = Tail(@),
                                 !.moved = Append(@, Head(r.todo))])
           /\ r.todo # <<>>
    <3>1. CASE Clear(t)
      BY <3>1 DEF Clear
    <3>2. CASE MoveAway(t)
      <4>1. r.todo # <<>>
        BY <1>0, <3>2 DEF MoveAway
      <4> QED
        BY <3>2, <4>1 DEF MoveAway, CurrentId
    <3>3. CASE Place(t) \/ MoveFails(t)
      BY <3>3 DEF Place, MoveFails
    <3> QED
      BY <1>4, <3>1, <3>2, <3>3
  <2>2. r.at # "idle"
    BY <1>4 DEF Clear, MoveAway, Place, MoveFails
  <2>3. /\ [r EXCEPT !.at = "rollback"] \in InstallRecord
        /\ [r EXCEPT !.at = "prune"] \in InstallRecord
        /\ [r EXCEPT !.at = "move"] \in InstallRecord
    BY <1>0 DEF InstallRecord, Places
  <2>4. CASE r.todo # <<>>
    <3>1. r.todo \in Seq(Ids) /\ r.moved \in Seq(Ids)
      BY <1>0 DEF InstallRecord
    <3>2. Tail(r.todo) \in Seq(Ids) /\ Append(r.moved, Head(r.todo)) \in Seq(Ids)
      BY <2>4, <3>1, HeadTailProperties, AppendProperties
    <3>3. /\ [r EXCEPT !.todo = Tail(@)] \in InstallRecord
          /\ [r EXCEPT !.at = "clear", !.todo = Tail(@), !.moved = Append(@, Head(r.todo))]
               \in InstallRecord
      BY <1>0, <3>2 DEF InstallRecord, Places
    <3>4. [r EXCEPT !.todo = Tail(@)].at = r.at
      BY <1>0 DEF InstallRecord
    <3>5. CASE Step(t, [r EXCEPT !.todo = Tail(@)]) /\ r.at = "clear"
      BY <1>0, <2>2, <3>3, <3>4, <3>5, StepTyped DEF InstallRecord
    <3>6. CASE Step(t, [r EXCEPT !.at = "move"])
      BY <1>0, <2>2, <2>3, <2>4, <3>6, StepTyped DEF InstallRecord
    <3>7. CASE Step(t, [r EXCEPT !.at = "rollback"]) \/ Step(t, [r EXCEPT !.at = "prune"])
      BY <1>0, <2>2, <2>3, <3>7, StepTyped DEF InstallRecord
    <3>8. CASE Step(t, [r EXCEPT !.at = "clear", !.todo = Tail(@),
                                 !.moved = Append(@, Head(r.todo))])
      BY <1>0, <2>2, <3>3, <3>8, StepTyped DEF InstallRecord
    <3> QED
      BY <2>1, <3>5, <3>6, <3>7, <3>8
  <2>5. CASE r.todo = <<>>
    BY <1>0, <2>1, <2>2, <2>3, <2>5, StepTyped DEF InstallRecord
  <2> QED
    BY <2>4, <2>5
<1>5. CASE Rollback(t) \/ RollbackFails(t) \/ Prune(t) \/ RecordHashes(t)
  <2>1. \/ Step(t, NoInstall) \/ UNCHANGED install
        \/ Step(t, [r EXCEPT !.moved = Front(@)]) /\ r.moved # <<>>
        \/ Step(t, [r EXCEPT !.at = "record"])
    BY <1>5 DEF Rollback, RollbackFails, Prune, RecordHashes, InstallFails
  <2>2. r.at # "idle"
    BY <1>5 DEF Rollback, RollbackFails, Prune, RecordHashes
  <2>3. r.moved # <<>> => Front(r.moved) \in Seq(Ids)
    BY <1>0, Ends DEF InstallRecord
  <2> QED
    BY <1>0, <2>1, <2>2, <2>3, NoInstallTyped, StepTyped DEF InstallRecord, Places, InstallsTyped
<1> QED
  BY <1>1, <1>2, <1>3, <1>4, <1>5

(* An install touches neither the uninstall nor, but for its being undisturbed, *)
(* the start.                                                                   *)
LEMMA InstallDiskTyped ==
  ASSUME InstallTypes, NEW t \in Installers,
         \/ \E k \in Tokens : BeginInstall(t, k)
         \/ \E force \in BOOLEAN : Claim(t, force)
         \/ BeginCopy(t) \/ EndCopy(t) \/ Clear(t) \/ MoveAway(t) \/ Place(t)
         \/ MoveFails(t) \/ Rollback(t) \/ RollbackFails(t) \/ Prune(t) \/ RecordHashes(t)
  PROVE  DiskTyped' /\ UninstallTyped' /\ StartTyped'
<1> USE DEF InstallTypes, DiskTyped, UninstallTyped, StartTyped
<1>0. /\ None \in Contents /\ Partial \in Contents /\ install[t] \in InstallRecord
      /\ [boot EXCEPT !.undisturbed = FALSE] \in BootRecord
      /\ [boot EXCEPT !.undisturbed = FALSE].at = boot.at
      /\ [boot EXCEPT !.undisturbed = FALSE].active = boot.active
      /\ [boot EXCEPT !.undisturbed = FALSE].restore = boot.restore
  BY Kinds DEF InstallsTyped, BootRecord
<1>1. CASE \E k \in Tokens : BeginInstall(t, k)
  BY <1>1 DEF BeginInstall, PreviewsOnly
<1>2. CASE \E force \in BOOLEAN : Claim(t, force)
  <2>1. \E k \in Tokens \cup {"none"} : preview' = [preview EXCEPT ![k] = None]
    BY <1>0, <1>2 DEF Claim, Discarded, InstallRecord
  <2> QED
    BY <1>2, <2>1 DEF Claim, PreviewsOnly
<1>3. CASE BeginCopy(t) \/ EndCopy(t)
  BY <1>3 DEF BeginCopy, EndCopy, PreviewsOnly
<1>4. CASE Clear(t)
  <2>1. backup' \in Slots
    BY <1>0, <1>4 DEF Clear, Slots
  <2> QED
    BY <1>0, <1>4, <2>1 DEF Clear, OnDisk, Touched
<1>5. CASE MoveAway(t)
  <2>1. CurrentId(t) \in Ids
    BY <1>5, HeadTailProperties DEF MoveAway, CurrentId, InstallsTyped, InstallRecord
  <2>2. backup' \in Slots /\ dir' \in Slots
    BY <1>0, <1>5, <2>1 DEF MoveAway, Slots
  <2> QED
    BY <1>0, <1>5, <2>2 DEF MoveAway, OnDisk, Touched
<1>6. CASE Place(t)
  <2>1. backup' \in Slots /\ dir' \in Slots
    BY <1>0, <1>6 DEF Place, Slots, InstallRecord
  <2> QED
    BY <1>0, <1>6, <2>1 DEF Place, OnDisk, Touched
<1>7. CASE MoveFails(t) \/ RollbackFails(t)
  BY <1>7 DEF MoveFails, RollbackFails, OnDisk
<1>8. CASE Rollback(t)
  <2>1. CASE install[t].moved = <<>>
    <3>1. UNCHANGED <<dir, backup, brokenCopy, preview, uninstall, boot, owed>>
      BY <1>8, <2>1 DEF Rollback, OnDisk
    <3> QED
      BY <3>1
  <2>2. CASE install[t].moved # <<>>
    <3>1. Last(install[t].moved) \in Ids
      BY <1>0, <2>2, Ends DEF InstallRecord
    <3>2. dir' \in Slots /\ backup' \in Slots
      BY <1>0, <1>8, <2>2, <3>1 DEF Rollback, Slots
    <3>3. UNCHANGED <<brokenCopy, preview, uninstall, boot, owed>>
      BY <1>8 DEF Rollback, OnDisk
    <3> QED
      BY <3>2, <3>3
  <2> QED
    BY <2>1, <2>2
<1>9. CASE Prune(t)
  <2>1. backup' \in Slots
    BY <1>0, <1>9 DEF Prune, Slots
  <2> QED
    BY <1>9, <2>1 DEF Prune, OnDisk
<1>10. CASE RecordHashes(t)
  BY <1>10 DEF RecordHashes
<1> QED
  BY <1>1, <1>2, <1>3, <1>4, <1>5, <1>6, <1>7, <1>8, <1>9, <1>10

(* The uninstall and the start keep their types, and leave installs alone.      *)
LEMMA UninstallStepTyped ==
  ASSUME InstallTypes,
         (\E i \in Ids : BeginUninstall(i)) \/ RemovePlugin \/ RemoveBackup \/ ForgetHashes
  PROVE  InstallTypes'
<1> USE DEF InstallTypes, DiskTyped, InstallsTyped, UninstallTyped, StartTyped, UninstallOnly
<1>0. /\ None \in Contents /\ Partial \in Contents
      /\ NoUninstall \in [at : {"idle", "remove", "backups"}, id : Ids \cup {"none"},
                           backups : SUBSET Ids]
  BY Kinds DEF NoUninstall
<1>1. CASE \E i \in Ids : BeginUninstall(i)
  <2>1. PICK i \in Ids : BeginUninstall(i)
    BY <1>1
  <2>2. {i} \cup (IF record[i] = dir[i] THEN {j \in Ids : Whole(backup[j])} ELSE {}) \subseteq Ids
    OBVIOUS
  <2>3. uninstall' \in [at : {"idle", "remove", "backups"}, id : Ids \cup {"none"},
                        backups : SUBSET Ids]
    BY <2>1, <2>2 DEF BeginUninstall
  <2> QED
    BY <2>1, <2>3 DEF BeginUninstall
<1>2. CASE RemovePlugin
  <2>1. dir' \in Slots
    BY <1>0, <1>2 DEF RemovePlugin, Slots
  <2> QED
    BY <1>0, <1>2, <2>1 DEF RemovePlugin
<1>3. CASE RemoveBackup
  <2>1. backup' \in Slots
    BY <1>0, <1>3 DEF RemoveBackup, Slots
  <2>2. UNCHANGED <<dir, brokenCopy, preview, owed, install, boot>>
    BY <1>3 DEF RemoveBackup
  <2>3. \/ uninstall' = NoUninstall
        \/ \E i : uninstall' = [uninstall EXCEPT !.backups = @ \ {i}]
    BY <1>3 DEF RemoveBackup
  <2>4. UninstallTyped'
    BY <1>0, <2>3
  <2> QED
    BY <2>1, <2>2, <2>4
<1>4. CASE ForgetHashes
  BY <1>0, <1>4 DEF ForgetHashes
<1> QED
  BY <1>1, <1>2, <1>3, <1>4

LEMMA StartStepTyped ==
  ASSUME InstallTypes,
         StartPlugins \/ LookAtBackups \/ SetAside \/ PutBack \/ Reload \/ InstallCrash
  PROVE  InstallTypes'
<1> USE DEF InstallTypes, DiskTyped, InstallsTyped, UninstallTyped, StartTyped, BootOnly, BootTo
<1>0. /\ None \in Contents /\ Partial \in Contents
      /\ Off \in BootRecord /\ Off.active = "none" /\ "none" \notin Ids
      /\ Off.found \in Slots /\ Off.at = "off"
  BY Kinds, InstallConstants DEF Off, Slots, BootRecord
<1>1. CASE StartPlugins
  <2>1. [i \in Ids |-> IF Allowed(i, dir[i]) THEN dir[i] ELSE None] \in Slots
    BY <1>0 DEF Slots
  <2>2. boot' \in BootRecord /\ boot'.at = "loaded" /\ boot'.active = "none"
    <3>1. Quiet \in BOOLEAN
      BY DEF Quiet
    <3> QED
      BY <1>0, <1>1, <2>1, <3>1 DEF StartPlugins, BootRecord
  <2> QED
    BY <1>1, <2>2 DEF StartPlugins, Restoring
<1>2. CASE LookAtBackups
  <2>1. Working \subseteq Ids /\ Broken \subseteq Ids
    BY DEF Working, Broken, Retained, Exact, Clearly, ReadableBackups
  <2>2. CASE Broken = {}
    <3>1. boot' = [boot EXCEPT !.at = "started", !.found = Off.found, !.loaded = Working]
      BY <1>2, <2>2 DEF LookAtBackups
    <3>2. boot' \in BootRecord /\ boot'.at = "started" /\ boot'.active = boot.active
      BY <1>0, <2>1, <3>1 DEF BootRecord
    <3> QED
      BY <1>2, <3>2 DEF LookAtBackups, Restoring
  <2>3. ASSUME NEW i \in Broken,
               boot' = [boot EXCEPT !.at = "set aside", !.restore = i,
                          !.active = IF Candidates(i) = {} THEN "none"
                                     ELSE CHOOSE j \in Candidates(i) : TRUE],
               UNCHANGED owed
        PROVE  InstallTypes'
    <3>1. Candidates(i) # {} => (CHOOSE j \in Candidates(i) : TRUE) \in Ids
      BY DEF Candidates
    <3>2. boot' \in BootRecord /\ boot'.restore \in Ids
      BY <2>1, <2>3, <3>1 DEF BootRecord
    <3>3. UNCHANGED <<dir, backup, brokenCopy, preview, install, uninstall>> /\ brokenCopy = None
      BY <1>2 DEF LookAtBackups
    <3> QED
      BY <2>3, <3>2, <3>3
  <2>4. \/ Broken = {}
        \/ \E i \in Broken :
             /\ boot' = [boot EXCEPT !.at = "set aside", !.restore = i,
                          !.active = IF Candidates(i) = {} THEN "none"
                                     ELSE CHOOSE j \in Candidates(i) : TRUE]
             /\ UNCHANGED owed
    BY <1>2 DEF LookAtBackups
  <2>5. CASE Broken # {}
    <3>1. PICK i \in Broken :
             /\ boot' = [boot EXCEPT !.at = "set aside", !.restore = i,
                          !.active = IF Candidates(i) = {} THEN "none"
                                     ELSE CHOOSE j \in Candidates(i) : TRUE]
             /\ UNCHANGED owed
      BY <2>4, <2>5
    <3> QED
      BY <2>3, <3>1
  <2> QED
    BY <2>2, <2>5
<1>3. CASE SetAside
  <2>1. dir' \in Slots /\ brokenCopy' \in Contents
    <3>1. InTheWay \in Contents
      BY <1>0 DEF InTheWay, Slots
    <3>2. /\ UNCHANGED dir \/ dir' = [dir EXCEPT ![boot.active] = None]
          /\ UNCHANGED brokenCopy \/ brokenCopy' = InTheWay
      BY <1>3 DEF SetAside
    <3>3. dir \in Slots /\ backup \in Slots /\ brokenCopy \in Contents
      OBVIOUS
    <3> HIDE DEF InstallTypes, DiskTyped, InstallsTyped, UninstallTyped, StartTyped
    <3> QED
      BY <1>0, <3>1, <3>2, <3>3, Replaced
  <2>2. boot' \in BootRecord /\ boot'.restore = boot.restore /\ boot'.active = boot.active
    BY <1>3 DEF SetAside, BootRecord
  <2>3. boot.restore \in Ids
    BY <1>3 DEF SetAside, Restoring
  <2>4. brokenCopy' # None => boot.active \in Ids
    BY <1>3 DEF SetAside, InTheWay
  <2>5. brokenCopy' # None => boot'.at = "put back"
    BY <1>3 DEF SetAside, BootRecord
  <2>6. UNCHANGED <<backup, preview, owed, install, uninstall>>
    BY <1>3 DEF SetAside
  <2>7. StartTyped'
    BY <2>2, <2>3, <2>4, <2>5
  <2> QED
    BY <2>1, <2>6, <2>7
<1>4. CASE PutBack
  <2>1. dir' \in Slots /\ backup' \in Slots /\ brokenCopy' = None
    <3>1. boot.restore \in Ids
      BY <1>4 DEF PutBack, Restoring
    <3>2. /\ brokenCopy' = None
          /\ UNCHANGED backup \/ backup' = [backup EXCEPT ![boot.restore] = None]
          /\ \/ UNCHANGED dir \/ dir' = [dir EXCEPT ![boot.restore] = backup[boot.restore]]
             \/ dir' = [dir EXCEPT ![boot.active] = brokenCopy]
      BY <1>4 DEF PutBack
    <3>3. dir \in Slots /\ backup \in Slots /\ brokenCopy \in Contents
      OBVIOUS
    <3>4. backup[boot.restore] \in Contents
      BY <3>1, <3>3 DEF Slots
    <3> HIDE DEF InstallTypes, DiskTyped, InstallsTyped, UninstallTyped, StartTyped
    <3> QED
      BY <1>0, <3>2, <3>3, <3>4, Replaced
  <2>2. boot' \in BootRecord /\ boot'.at = "reload"
    BY <1>4 DEF PutBack, BootRecord
  <2> QED
    BY <1>0, <1>4, <2>1, <2>2 DEF PutBack, Restoring
<1>5. CASE Reload
  <2>1. boot' = [boot EXCEPT !.at = "started", !.found = Off.found,
                             !.loaded = {i \in Ids : Loads(i, dir[i])}]
    BY <1>5 DEF Reload
  <2>2. boot' \in BootRecord /\ boot'.at = "started" /\ boot'.active = boot.active
    BY <1>0, <2>1 DEF BootRecord
  <2> QED
    BY <1>5, <2>2 DEF Reload, Restoring
<1>6. CASE InstallCrash
  <2>1. install' \in [Installers -> InstallRecord] /\ \A t \in Installers : install'[t].at = "idle"
    BY <1>6, NoInstallTyped DEF InstallCrash
  <2>2. boot' \in BootRecord /\ boot'.at = "off"
    BY <1>0, <1>6 DEF InstallCrash
  <2> QED
    BY <1>0, <1>6, <2>1, <2>2 DEF InstallCrash, NoUninstall, Restoring
<1> QED
  BY <1>1, <1>2, <1>3, <1>4, <1>5, <1>6

LEMMA InstallTypesNext == InstallTypes /\ [InstallNext]_installVars => InstallTypes'
<1> SUFFICES ASSUME InstallTypes, [InstallNext]_installVars PROVE InstallTypes'
  OBVIOUS
<1>1. CASE (\E k \in Tokens, v \in Versions : Preview(k, v))
           \/ (\E k \in Tokens : PurgeExpired(k))
  <2>1. preview' \in [Tokens -> Versions \cup {None}] /\ UNCHANGED install /\ PreviewsOnly
    BY <1>1 DEF Preview, PurgeExpired, Discarded, InstallTypes, DiskTyped
  <2> QED
    BY <2>1 DEF InstallTypes, DiskTyped, InstallsTyped, UninstallTyped, StartTyped, PreviewsOnly
<1>2. ASSUME NEW t \in Installers,
             \/ \E k \in Tokens : BeginInstall(t, k)
             \/ \E force \in BOOLEAN : Claim(t, force)
             \/ BeginCopy(t) \/ EndCopy(t) \/ Clear(t) \/ MoveAway(t) \/ Place(t)
             \/ MoveFails(t) \/ Rollback(t) \/ RollbackFails(t) \/ Prune(t) \/ RecordHashes(t)
      PROVE  InstallTypes'
  BY <1>2, InstallStepTyped, InstallDiskTyped DEF InstallTypes
<1>3. CASE UNCHANGED installVars
  BY <1>3 DEF InstallTypes, DiskTyped, InstallsTyped, UninstallTyped, StartTyped, installVars
<1> QED
  BY <1>1, <1>2, <1>3, UninstallStepTyped, StartStepTyped DEF InstallNext

----------------------------------------------------------------------------
(* Who is at work. A start nobody disturbs meets no install that has moved a    *)
(* directory, and nothing is owed of what is being uninstalled.                 *)
Early == {"idle", "claim", "copy", "copying"}
Fresh == \A t \in Installers : install[t].at \in Early => install[t].moved = <<>>
Calm ==
  boot.undisturbed =>
    \A t \in Installers : install[t].at \in Early \cup {"clear", "rollback"} /\ install[t].moved = <<>>
UninstallExcused == uninstall.at # "idle" => ~owed

ControlInv == Fresh /\ Calm /\ UninstallExcused

LEMMA InstallControl ==
  ASSUME InstallTypes, ControlInv, NEW t \in Installers,
         \/ \E k \in Tokens : BeginInstall(t, k)
         \/ \E force \in BOOLEAN : Claim(t, force)
         \/ BeginCopy(t) \/ EndCopy(t) \/ Clear(t) \/ MoveAway(t) \/ Place(t)
         \/ MoveFails(t) \/ Rollback(t) \/ RollbackFails(t) \/ Prune(t) \/ RecordHashes(t)
  PROVE  ControlInv'
<1> DEFINE r == install[t]
<1>0. /\ install \in [Installers -> InstallRecord] /\ r \in InstallRecord
      /\ boot \in BootRecord /\ Fresh /\ Calm /\ UninstallExcused
      /\ NoInstall.at = "idle" /\ NoInstall.moved = <<>>
  BY DEF InstallTypes, InstallsTyped, StartTyped, ControlInv, NoInstall
<1>1. \A u \in Installers \ {t} : install'[u] = install[u]
  <2>1. UNCHANGED install \/ \E n : Step(t, n)
    <3>1. CASE \/ (\E k \in Tokens : BeginInstall(t, k)) \/ (\E force \in BOOLEAN : Claim(t, force))
               \/ BeginCopy(t) \/ EndCopy(t)
      BY <3>1 DEF BeginInstall, Claim, InstallFails, BeginCopy, EndCopy
    <3>2. CASE Clear(t) \/ MoveAway(t) \/ Place(t)
      BY <3>2 DEF Clear, MoveAway, Place
    <3>3. CASE \/ MoveFails(t) \/ Rollback(t) \/ RollbackFails(t) \/ Prune(t) \/ RecordHashes(t)
      BY <3>3 DEF MoveFails, Rollback, RollbackFails, InstallFails, Prune, RecordHashes
    <3> QED
      BY <3>1, <3>2, <3>3
  <2> QED
    BY <1>0, <2>1 DEF Step
<1>2. UNCHANGED uninstall /\ (owed' => owed)
  <2>1. CASE \/ (\E k \in Tokens : BeginInstall(t, k)) \/ (\E force \in BOOLEAN : Claim(t, force))
             \/ BeginCopy(t) \/ EndCopy(t)
    <3>1. PreviewsOnly
      BY <2>1 DEF BeginInstall, Claim, BeginCopy, EndCopy
    <3> QED
      BY <3>1 DEF PreviewsOnly
  <2>2. CASE Clear(t) \/ MoveAway(t) \/ Place(t)
    BY <2>2 DEF Clear, MoveAway, Place, OnDisk
  <2>3. CASE \/ MoveFails(t) \/ Rollback(t) \/ RollbackFails(t) \/ Prune(t) \/ RecordHashes(t)
    BY <2>3 DEF MoveFails, Rollback, RollbackFails, Prune, RecordHashes, OnDisk
  <2> QED
    BY <2>1, <2>2, <2>3
<1>3. UninstallExcused'
  BY <1>0, <1>2 DEF UninstallExcused
<1>4. ASSUME install'[t].at \in Early => install'[t].moved = <<>>,
             boot'.undisturbed => /\ boot.undisturbed /\ install'[t].moved = <<>>
                                  /\ install'[t].at \in Early \cup {"clear", "rollback"}
      PROVE  ControlInv'
  <2>1. Fresh'
    BY <1>0, <1>1, <1>4 DEF Fresh
  <2>2. Calm'
    BY <1>0, <1>1, <1>4 DEF Calm
  <2> QED
    BY <1>3, <2>1, <2>2 DEF ControlInv
<1>5. CASE \E k \in Tokens : BeginInstall(t, k)
  <2>1. PICK k \in Tokens : BeginInstall(t, k)
    BY <1>5
  <2>2. UNCHANGED boot /\ install'[t].at = "claim" /\ install'[t].moved = <<>>
    BY <1>0, <2>1 DEF NoInstall, BeginInstall, PreviewsOnly, Step
  <2> QED
    BY <1>4, <2>2 DEF Early
<1>6. CASE (\E force \in BOOLEAN : Claim(t, force)) \/ BeginCopy(t) \/ EndCopy(t)
  <2>1. UNCHANGED boot /\ r.moved = <<>>
    <3>1. UNCHANGED boot /\ r.at \in Early
      BY <1>6 DEF Claim, BeginCopy, EndCopy, PreviewsOnly, Early
    <3> QED
      BY <1>0, <3>1 DEF Fresh
  <2>2. install'[t].moved = <<>> /\ install'[t].at \in Early \cup {"clear"}
    <3>1. CASE \E force \in BOOLEAN : Claim(t, force)
      <4>1. \/ Step(t, NoInstall)
            \/ \E todo : Step(t, [r EXCEPT !.at = "copy", !.todo = todo])
        BY <3>1 DEF Claim, InstallFails
      <4>2. CASE Step(t, NoInstall)
        BY <1>0, <4>2 DEF Step, Early
      <4>3. ASSUME NEW todo, Step(t, [r EXCEPT !.at = "copy", !.todo = todo])
            PROVE  install'[t].moved = <<>> /\ install'[t].at \in Early \cup {"clear"}
        BY <1>0, <2>1, <4>3 DEF Step, InstallRecord, Early
      <4> QED
        BY <4>1, <4>2, <4>3
    <3>2. CASE BeginCopy(t) \/ EndCopy(t)
      <4>1. \/ Step(t, NoInstall)
            \/ Step(t, [r EXCEPT !.at = "copying"])
            \/ \E staged : Step(t, [r EXCEPT !.at = "clear", !.staged = staged])
        BY <3>2 DEF BeginCopy, EndCopy, InstallFails
      <4>2. CASE Step(t, NoInstall)
        BY <1>0, <4>2 DEF Step, Early
      <4>3. CASE Step(t, [r EXCEPT !.at = "copying"])
        BY <1>0, <2>1, <4>3 DEF Step, InstallRecord, Early
      <4>4. ASSUME NEW staged, Step(t, [r EXCEPT !.at = "clear", !.staged = staged])
            PROVE  install'[t].moved = <<>> /\ install'[t].at \in Early \cup {"clear"}
        BY <1>0, <2>1, <4>4 DEF Step, InstallRecord, Early
      <4> QED
        BY <4>1, <4>2, <4>3, <4>4
    <3> QED
      BY <1>6, <3>1, <3>2
  <2> QED
    BY <1>4, <2>1, <2>2
<1>7. CASE Clear(t) \/ MoveAway(t) \/ Place(t)
  <2>1. boot'.undisturbed = FALSE
    BY <1>0, <1>7 DEF Clear, MoveAway, Place, Touched, BootRecord
  <2>2. install'[t].at \notin Early
    <3>1. CASE Clear(t)
      BY <1>0, <3>1 DEF Clear, Early, Step, InstallRecord
    <3>2. CASE MoveAway(t)
      <4>1. CASE Step(t, [r EXCEPT !.at = "clear", !.todo = Tail(@), !.moved = Append(@, CurrentId(t))])
        BY <1>0, <4>1 DEF Early, Step, InstallRecord
      <4>2. CASE Step(t, [r EXCEPT !.at = "rollback"])
        BY <1>0, <4>2 DEF Early, Step, InstallRecord
      <4> QED
        BY <3>2, <4>1, <4>2 DEF MoveAway
    <3>3. CASE Place(t)
      BY <1>0, <3>3 DEF Place, Early, Step, InstallRecord
    <3> QED
      BY <1>7, <3>1, <3>2, <3>3
  <2> QED
    BY <1>4, <2>1, <2>2
<1>8. CASE MoveFails(t)
  <2>1. UNCHANGED boot /\ install'[t].at = "rollback" /\ install'[t].moved = r.moved
    BY <1>0, <1>8 DEF MoveFails, OnDisk, Step, InstallRecord
  <2> QED
    BY <1>0, <1>4, <2>1 DEF Calm, Early
<1>9. CASE Rollback(t) \/ RollbackFails(t)
  <2>1. /\ UNCHANGED boot
        /\ \/ install'[t] = NoInstall
           \/ install'[t].at = "rollback" /\ r.moved # <<>>
    BY <1>0, <1>9 DEF Rollback, RollbackFails, InstallFails, Step, InstallRecord
  <2> QED
    BY <1>0, <1>4, <2>1 DEF Calm, Early
<1>10. CASE Prune(t) \/ RecordHashes(t)
  <2>1. UNCHANGED boot /\ ~boot.undisturbed
    BY <1>0, <1>10 DEF Prune, RecordHashes, Calm, Early
  <2>2. install'[t] = NoInstall \/ install'[t].at = "record" \/ install'[t] = install[t]
    BY <1>0, <1>10 DEF Prune, RecordHashes, Step, InstallRecord
  <2> QED
    BY <1>0, <1>4, <2>1, <2>2 DEF Early, Fresh
<1> QED
  BY <1>5, <1>6, <1>7, <1>8, <1>9, <1>10

LEMMA OtherControl ==
  ASSUME InstallTypes, ControlInv,
         \/ (\E i \in Ids : BeginUninstall(i)) \/ RemovePlugin \/ RemoveBackup \/ ForgetHashes
         \/ StartPlugins \/ LookAtBackups \/ SetAside \/ PutBack \/ Reload \/ InstallCrash
  PROVE  ControlInv'
<1>0. /\ boot \in BootRecord /\ Fresh /\ Calm /\ UninstallExcused
      /\ NoUninstall.at = "idle" /\ NoInstall.at = "idle" /\ NoInstall.moved = <<>>
  BY DEF InstallTypes, StartTyped, ControlInv, NoInstall, NoUninstall
<1>1. ASSUME UNCHANGED install, boot'.undisturbed => boot.undisturbed
      PROVE  Fresh' /\ Calm'
  BY <1>0, <1>1 DEF Fresh, Calm
<1>2. CASE (\E i \in Ids : BeginUninstall(i)) \/ RemovePlugin \/ RemoveBackup \/ ForgetHashes
  <2>1. UNCHANGED <<install, boot>>
    BY <1>2 DEF BeginUninstall, RemovePlugin, RemoveBackup, ForgetHashes, UninstallOnly
  <2>2. ~owed'
    BY <1>0, <1>2 DEF BeginUninstall, RemovePlugin, RemoveBackup, ForgetHashes, UninstallExcused
  <2> QED
    BY <1>1, <2>1, <2>2 DEF ControlInv, UninstallExcused
<1>3. CASE StartPlugins
  <2>1. boot'.undisturbed = Quiet /\ UNCHANGED <<install, uninstall, owed>>
    BY <1>3 DEF StartPlugins, BootTo, Off
  <2>2. Fresh' /\ UninstallExcused'
    BY <1>0, <2>1 DEF Fresh, UninstallExcused
  <2>3. Calm'
    BY <1>0, <2>1 DEF Quiet, Calm, Fresh, Early
  <2> QED
    BY <2>2, <2>3 DEF ControlInv
<1>4. CASE LookAtBackups \/ Reload
  <2>1. /\ UNCHANGED <<install, uninstall>> /\ boot'.undisturbed = boot.undisturbed
        /\ owed' => owed \/ Quiet
    <3>1. UNCHANGED <<install, uninstall>> /\ (owed' => owed \/ Quiet)
      <4>1. UNCHANGED <<install, uninstall>>
        BY <1>4 DEF LookAtBackups, Reload, BootOnly
      <4>2. CASE LookAtBackups
        <5>1. (owed' = (owed \/ (Working # {} /\ Quiet))) \/ UNCHANGED owed
          BY <4>2 DEF LookAtBackups
        <5>2. CASE owed' = (owed \/ (Working # {} /\ Quiet))
          BY <4>1, <5>2, Zenon
        <5>3. CASE UNCHANGED owed
          BY <4>1, <5>3, Zenon
        <5> QED
          BY <5>1, <5>2, <5>3
      <4>3. CASE Reload
        BY <4>1, <4>3 DEF Reload
      <4> QED
        BY <1>4, <4>2, <4>3
    <3>2. CASE LookAtBackups
      <4>1. \/ boot' = [boot EXCEPT !.at = "started", !.found = Off.found, !.loaded = Working]
            \/ \E i, j : boot' = [boot EXCEPT !.at = "set aside", !.restore = i, !.active = j]
        BY <3>2 DEF LookAtBackups, BootTo
      <4> QED
        BY <1>0, <3>1, <4>1 DEF BootRecord
    <3>3. CASE Reload
      BY <1>0, <3>1, <3>3 DEF Reload, BootTo, BootRecord
    <3> QED
      BY <1>4, <3>2, <3>3
  <2>2. UninstallExcused'
    BY <1>0, <2>1 DEF Quiet, UninstallExcused
  <2> QED
    BY <1>1, <2>1, <2>2 DEF ControlInv
<1>5. CASE SetAside \/ PutBack
  <2>1. /\ UNCHANGED <<install, uninstall, owed>>
        /\ boot'.undisturbed => boot.undisturbed
    BY <1>0, <1>5 DEF SetAside, PutBack, BootTo, BootOnly, BootRecord
  <2> QED
    BY <1>0, <1>1, <2>1 DEF ControlInv, UninstallExcused
<1>6. CASE InstallCrash
  BY <1>0, <1>6 DEF InstallCrash, ControlInv, Fresh, Calm, UninstallExcused, Early
<1> QED
  BY <1>2, <1>3, <1>4, <1>5, <1>6

----------------------------------------------------------------------------
(* What is on disk. A version that loads is in place, or it is in the only      *)
(* backup of the package and at most one directory could be what it replaces.   *)
SomeLoads == \E i \in Ids : dir[i] \in Loadable
OnlyBackup(i) == backup[i] \in Loadable /\ \A j \in Ids \ {i} : ~Whole(backup[j])
Choosable(i) == \E a \in Ids \cup {"none"} : Candidates(i) \subseteq {a}
Kept == owed => SomeLoads \/ \E i \in Ids : OnlyBackup(i) /\ Choosable(i)

(* The engine has looked at the directories, not yet at the backups: an install *)
(* may have cleared the backup since, or brought back what it held.             *)
LoadedKept ==
  boot.at = "loaded" /\ owed =>
    \/ Working # {}
    \/ \E i \in Ids : OnlyBackup(i)
    \/ SomeLoads /\ ReadableBackups = {}

(* A restore puts back the one backup in place of all that it could replace; or *)
(* an install that fails has put it back already.                               *)
RestoreKept ==
  boot.at \in Restoring /\ owed =>
    \/ OnlyBackup(boot.restore) /\ Candidates(boot.restore) \subseteq {boot.active}
    \/ backup[boot.restore] = None /\ dir[boot.restore] \in Loadable

(* A start nobody disturbs works on what it has found.                          *)
Found ==
  boot.at = "loaded" /\ boot.undisturbed /\ owed =>
    \A i \in Ids : Whole(dir[i]) => boot.found[i] = dir[i]
ReloadKept == boot.at = "reload" /\ boot.undisturbed /\ owed => SomeLoads

DiskKept == Kept /\ LoadedKept /\ RestoreKept
StartKept == Found /\ ReloadKept /\ StillWorks
InstallInv == InstallTypes /\ ControlInv /\ DiskKept /\ StartKept

LEMMA InstallInvInit == ~Strict /\ InstallInit => InstallInv
<1> SUFFICES ASSUME ~Strict, InstallInit PROVE InstallInv
  OBVIOUS
<1>1. boot.at = "off" /\ NoInstall.at = "idle" /\ NoInstall.moved = <<>> /\ NoUninstall.at = "idle"
  BY DEF InstallInit, Off, NoInstall, NoUninstall
<1>2. ControlInv
  BY <1>1 DEF InstallInit, ControlInv, Fresh, Calm, UninstallExcused, Early
<1>3. owed => SomeLoads
  BY Kinds DEF InstallInit, Holding, SomeLoads
<1>4. DiskKept /\ StartKept
  BY <1>1, <1>3 DEF DiskKept, Kept, LoadedKept, RestoreKept, Restoring, StartKept, Found, ReloadKept,
                    StillWorks
<1> QED
  BY <1>2, <1>4, InstallTypesInit DEF InstallInv

LEMMA SameDisk ==
  ASSUME DiskKept, StartKept, UNCHANGED <<dir, backup, boot>>, owed' => owed
  PROVE  DiskKept' /\ StartKept'
<1>1. /\ \A i \in Ids : Candidates(i)' = Candidates(i) /\ OnlyBackup(i)' = OnlyBackup(i)
      /\ SomeLoads' = SomeLoads /\ Working' = Working /\ ReadableBackups' = ReadableBackups
  BY DEF Candidates, OnlyBackup, SomeLoads, Working, ReadableBackups
<1>2. Kept'
  BY <1>1 DEF DiskKept, Kept, Choosable
<1>3. LoadedKept'
  BY <1>1 DEF DiskKept, LoadedKept
<1>4. RestoreKept'
  BY DEF DiskKept, RestoreKept, OnlyBackup, Candidates
<1>5. StartKept'
  BY <1>1 DEF StartKept, Found, ReloadKept, StillWorks
<1> QED
  BY <1>2, <1>3, <1>4, <1>5 DEF DiskKept

(* An install that takes a step on disk disturbs the start.                     *)
LEMMA Disturbed ==
  ASSUME InstallTypes, Touched
  PROVE  /\ boot'.at = boot.at /\ boot'.found = boot.found
         /\ boot'.restore = boot.restore /\ boot'.active = boot.active
         /\ StartKept'
<1>1. /\ boot'.at = boot.at /\ boot'.found = boot.found /\ ~boot'.undisturbed
      /\ boot'.restore = boot.restore /\ boot'.active = boot.active
  BY DEF InstallTypes, StartTyped, Touched, BootRecord
<1> QED
  BY <1>1 DEF StartKept, Found, ReloadKept, StillWorks

(* The backup of what loads gives way: what loads stays.                        *)
LEMMA ClearKeeps ==
  ASSUME ~Strict, InstallTypes, DiskKept, StartKept, NEW t \in Installers, Clear(t)
  PROVE  DiskKept' /\ StartKept'
<1>1. /\ UNCHANGED dir /\ boot'.at = boot.at /\ boot'.found = boot.found
      /\ boot'.restore = boot.restore /\ boot'.active = boot.active /\ StartKept'
  BY Disturbed DEF Clear
<1>2. /\ \A j \in Ids : Candidates(j)' = Candidates(j)
      /\ SomeLoads' = SomeLoads /\ Working' = Working
  BY <1>1 DEF Candidates, SomeLoads, Working
<1>3. CASE UNCHANGED <<backup, owed>>
  <2>1. /\ \A j \in Ids : OnlyBackup(j)' = OnlyBackup(j)
        /\ ReadableBackups' = ReadableBackups
    BY <1>3 DEF OnlyBackup, ReadableBackups
  <2>2. Kept' /\ LoadedKept'
    BY <1>1, <1>2, <1>3, <2>1 DEF DiskKept, Kept, LoadedKept, Choosable
  <2>3. RestoreKept'
    BY <1>1, <1>3 DEF DiskKept, RestoreKept, OnlyBackup, Candidates
  <2> QED
    BY <1>1, <2>2, <2>3 DEF DiskKept
<1>4. ASSUME NEW i \in Ids, NEW c \in {None, Partial}, backup' = [backup EXCEPT ![i] = c],
             owed' => owed /\ dir[i] \in Loadable /\ (boot.at \in Restoring => c = None)
      PROVE  DiskKept' /\ StartKept'
  <2>1. \A j \in Ids : backup'[j] = IF j = i THEN c ELSE backup[j]
    BY <1>4 DEF InstallTypes, DiskTyped, Slots
  <2>2. owed' => owed /\ SomeLoads /\ SomeLoads'
    BY <1>2, <1>4 DEF SomeLoads
  <2>3. \A j \in Ids \ {i} : OnlyBackup(j) => OnlyBackup(j)'
    BY <2>1, Kinds DEF OnlyBackup
  <2>4. OnlyBackup(i) \/ ReadableBackups = {} => ReadableBackups' = {}
    BY <1>4, <2>1, Kinds DEF OnlyBackup, ReadableBackups
  <2>5. Kept'
    BY <2>2 DEF Kept
  <2>6. LoadedKept'
    BY <1>1, <1>2, <2>2, <2>3, <2>4 DEF DiskKept, LoadedKept
  <2>7. ASSUME boot.at \in Restoring, owed' PROVE RestoreKept'
    <3>1. c = None /\ dir[i] \in Loadable /\ owed /\ boot.restore \in Ids
      BY <1>4, <2>7 DEF InstallTypes, StartTyped
    <3>2. CASE backup[boot.restore] = None /\ dir[boot.restore] \in Loadable
      BY <1>1, <2>1, <3>1, <3>2 DEF RestoreKept
    <3>3. CASE OnlyBackup(boot.restore) /\ Candidates(boot.restore) \subseteq {boot.active}
      <4>1. CASE boot.restore = i
        BY <1>1, <2>1, <3>1, <4>1 DEF RestoreKept
      <4>2. CASE boot.restore # i
        <5>1. OnlyBackup(boot.restore)' /\ Candidates(boot.restore)' = Candidates(boot.restore)
          BY <1>1, <2>1, <3>1, <3>3, <4>2, Kinds DEF OnlyBackup, Candidates
        <5> QED
          BY <1>1, <3>3, <5>1 DEF RestoreKept
      <4> QED
        BY <4>1, <4>2
    <3> QED
      BY <2>7, <3>1, <3>2, <3>3 DEF DiskKept, RestoreKept
  <2>8. RestoreKept'
    BY <1>1, <2>7 DEF RestoreKept
  <2> QED
    BY <1>1, <2>5, <2>6, <2>8 DEF DiskKept
<1>5. CurrentId(t) \in Ids \/ UNCHANGED <<backup, owed>>
  BY HeadTailProperties DEF Clear, CurrentId, InstallTypes, InstallsTyped, InstallRecord
<1>6. CASE ~UNCHANGED <<backup, owed>>
  <2>1. PICK i \in Ids : i = CurrentId(t)
    BY <1>5, <1>6
  <2>2. \E c \in {None, Partial} :
          /\ backup' = [backup EXCEPT ![i] = c]
          /\ owed' => owed /\ dir[i] \in Loadable /\ (boot.at \in Restoring => c = None)
    <3>1. \/ backup' = [backup EXCEPT ![i] = None]
          \/ backup' = [backup EXCEPT ![i] = IF @ = None THEN None ELSE Partial]
      BY <1>6, <2>1 DEF Clear
    <3>2. PICK c \in {None, Partial} : backup' = [backup EXCEPT ![i] = c]
      BY <3>1
    <3>3. backup'[i] = c
      BY <3>2 DEF InstallTypes, DiskTyped, Slots
    <3>4. owed' = (owed /\ Loads(i, dir[i]) /\ (boot.at \in Restoring => backup'[i] # Partial))
      BY <1>6, <2>1 DEF Clear
    <3>5. owed' => owed /\ dir[i] \in Loadable /\ (boot.at \in Restoring => c = None)
      BY <3>3, <3>4 DEF Loads
    <3> QED
      BY <3>2, <3>5
  <2> QED
    BY <1>4, <2>2
<1> QED
  BY <1>3, <1>6

(* What loads becomes the only backup, and nothing is left that a start could   *)
(* take for its update.                                                         *)
LEMMA MoveAwayKeeps ==
  ASSUME ~Strict, InstallTypes, DiskKept, StartKept, NEW t \in Installers, MoveAway(t)
  PROVE  DiskKept' /\ StartKept'
<1>1. /\ boot'.at = boot.at /\ boot'.found = boot.found
      /\ boot'.restore = boot.restore /\ boot'.active = boot.active /\ StartKept'
  BY Disturbed DEF MoveAway
<1>2. PICK i \in Ids : i = CurrentId(t)
  BY HeadTailProperties DEF MoveAway, CurrentId, InstallTypes, InstallsTyped, InstallRecord
<1>3. CASE dir[i] # None /\ backup[i] = None
  <2>1. /\ backup' = [backup EXCEPT ![i] = dir[i]] /\ dir' = [dir EXCEPT ![i] = None]
        /\ owed' = (owed /\ Loads(i, dir[i])
                         /\ \A j \in Ids \ {i} : ~Whole(backup[j]) /\ ~Whole(dir[j]))
    BY <1>2, <1>3 DEF MoveAway
  <2>2. \A j \in Ids : /\ backup'[j] = IF j = i THEN dir[i] ELSE backup[j]
                       /\ dir'[j] = IF j = i THEN None ELSE dir[j]
    BY <2>1 DEF InstallTypes, DiskTyped, Slots
  <2>3. SUFFICES ASSUME owed' PROVE DiskKept'
    BY <1>1 DEF DiskKept, Kept, LoadedKept, RestoreKept
  <2>4. /\ owed /\ dir[i] \in Loadable
        /\ \A j \in Ids \ {i} : ~Whole(backup[j]) /\ ~Whole(dir[j])
    BY <2>1, <2>3 DEF Loads
  <2>5. OnlyBackup(i)' /\ Candidates(i)' = {}
    BY <2>2, <2>4, Kinds DEF OnlyBackup, Candidates
  <2>6. Kept' /\ LoadedKept'
    BY <2>5 DEF Kept, LoadedKept, Choosable
  <2>7. ASSUME boot.at \in Restoring PROVE boot.restore = i
    <3>1. boot.restore \in Ids
      BY <2>7 DEF InstallTypes, StartTyped
    <3>2. CASE OnlyBackup(boot.restore)
      BY <1>3, <2>4, <3>1, <3>2, Kinds DEF OnlyBackup
    <3>3. CASE dir[boot.restore] \in Loadable
      BY <2>4, <3>1, <3>3, Kinds
    <3> QED
      BY <2>4, <2>7, <3>2, <3>3 DEF DiskKept, RestoreKept
  <2>8. RestoreKept'
    BY <1>1, <2>5, <2>7 DEF RestoreKept
  <2> QED
    BY <2>6, <2>8 DEF DiskKept
<1>4. CASE ~(dir[i] # None /\ backup[i] = None)
  <2>1. UNCHANGED <<dir, backup, owed>>
    BY <1>2, <1>4 DEF MoveAway
  <2>2. /\ \A j \in Ids : Candidates(j)' = Candidates(j) /\ OnlyBackup(j)' = OnlyBackup(j)
        /\ SomeLoads' = SomeLoads /\ Working' = Working /\ ReadableBackups' = ReadableBackups
    BY <1>1, <2>1 DEF Candidates, OnlyBackup, SomeLoads, Working, ReadableBackups
  <2>3. Kept' /\ LoadedKept'
    BY <1>1, <2>1, <2>2 DEF DiskKept, Kept, LoadedKept, Choosable
  <2>4. RestoreKept'
    BY <1>1, <2>1 DEF DiskKept, RestoreKept, OnlyBackup, Candidates
  <2> QED
    BY <1>1, <2>3, <2>4 DEF DiskKept
<1> QED
  BY <1>1, <1>3, <1>4

(* The new version is the one directory that a backup could replace.            *)
LEMMA PlaceKeeps ==
  ASSUME ~Strict, InstallTypes, DiskKept, StartKept, NEW t \in Installers, Place(t)
  PROVE  DiskKept' /\ StartKept'
<1>1. /\ boot'.at = boot.at /\ boot'.found = boot.found /\ UNCHANGED backup
      /\ boot'.restore = boot.restore /\ boot'.active = boot.active /\ StartKept'
  BY Disturbed DEF Place
<1>2. PICK i \in Ids : i = IdOf[install[t].version]
  BY InstallConstants DEF Place, InstallTypes, InstallsTyped
<1>3. CASE dir[i] = None
  <2>1. /\ dir' = [dir EXCEPT ![i] = install[t].staged]
        /\ owed' = (owed /\ boot.at \notin Restoring
                         /\ \A j \in ReadableBackups : Candidates(j) = {})
    BY <1>2, <1>3 DEF Place
  <2>2. \A j \in Ids \ {i} : dir'[j] = dir[j]
    BY <2>1 DEF InstallTypes, DiskTyped, Slots
  <2>3. SUFFICES ASSUME owed' PROVE DiskKept'
    BY <1>1 DEF DiskKept, Kept, LoadedKept, RestoreKept
  <2>4. owed /\ boot.at \notin Restoring /\ \A j \in ReadableBackups : Candidates(j) = {}
    BY <2>1, <2>3
  <2>5. SomeLoads => SomeLoads'
    BY <1>3, <2>2, Kinds DEF SomeLoads
  <2>6. Working \subseteq Working'
    BY <1>1, <1>3, <2>2, Kinds DEF Working
  <2>7. /\ \A j \in Ids : OnlyBackup(j) => OnlyBackup(j)'
        /\ ReadableBackups' = ReadableBackups
    BY <1>1 DEF OnlyBackup, ReadableBackups
  <2>8. \A j \in Ids : OnlyBackup(j) => Choosable(j)'
    <3>1. SUFFICES ASSUME NEW j \in Ids, OnlyBackup(j) PROVE Candidates(j)' \subseteq {i}
      BY DEF Choosable
    <3>2. Candidates(j) = {}
      BY <2>4, <3>1, Kinds DEF OnlyBackup, ReadableBackups
    <3> QED
      BY <2>2, <3>2 DEF Candidates
  <2>9. Kept' /\ LoadedKept'
    BY <1>1, <2>4, <2>5, <2>6, <2>7, <2>8 DEF DiskKept, Kept, LoadedKept
  <2>10. RestoreKept'
    BY <1>1, <2>4 DEF RestoreKept
  <2> QED
    BY <2>9, <2>10 DEF DiskKept
<1>4. CASE dir[i] # None
  <2>1. UNCHANGED <<dir, backup, owed>>
    BY <1>1, <1>2, <1>4 DEF Place
  <2>2. /\ \A j \in Ids : Candidates(j)' = Candidates(j) /\ OnlyBackup(j)' = OnlyBackup(j)
        /\ SomeLoads' = SomeLoads /\ Working' = Working /\ ReadableBackups' = ReadableBackups
    BY <1>1, <2>1 DEF Candidates, OnlyBackup, SomeLoads, Working, ReadableBackups
  <2>3. Kept' /\ LoadedKept'
    BY <1>1, <2>1, <2>2 DEF DiskKept, Kept, LoadedKept, Choosable
  <2>4. RestoreKept'
    BY <1>1, <2>1 DEF DiskKept, RestoreKept, OnlyBackup, Candidates
  <2> QED
    BY <1>1, <2>3, <2>4 DEF DiskKept
<1> QED
  BY <1>1, <1>3, <1>4

(* What returns from its backup may be what loads.                              *)
LEMMA RollbackKeeps ==
  ASSUME ~Strict, InstallTypes, ControlInv, DiskKept, StartKept, NEW t \in Installers, Rollback(t)
  PROVE  DiskKept' /\ StartKept'
<1>1. UNCHANGED <<boot, owed>>
  BY DEF Rollback
<1>2. CASE UNCHANGED <<dir, backup>>
  BY <1>1, <1>2, SameDisk
<1>3. CASE ~UNCHANGED <<dir, backup>>
  <2>1. PICK i \in Ids : i = Last(install[t].moved)
    BY <1>3, Ends DEF Rollback, InstallTypes, InstallsTyped, InstallRecord
  <2>2. /\ install[t].moved # <<>> /\ backup[i] # None /\ dir[i] = None
        /\ dir' = [dir EXCEPT ![i] = backup[i]] /\ backup' = [backup EXCEPT ![i] = None]
    BY <1>3, <2>1 DEF Rollback
  <2>3. \A j \in Ids : /\ dir'[j] = IF j = i THEN backup[i] ELSE dir[j]
                       /\ backup'[j] = IF j = i THEN None ELSE backup[j]
    BY <2>2 DEF InstallTypes, DiskTyped, Slots
  <2>4. StartKept'
    BY <1>1, <2>2 DEF ControlInv, Calm, StartKept, Found, ReloadKept, StillWorks
  <2>5. SUFFICES ASSUME owed PROVE DiskKept'
    BY <1>1, <2>4 DEF DiskKept, Kept, LoadedKept, RestoreKept
  <2>6. (SomeLoads => SomeLoads') /\ Working \subseteq Working'
    BY <1>1, <2>2, <2>3, Kinds DEF SomeLoads, Working
  <2>7. ReadableBackups = {} => ReadableBackups' = {}
    BY <2>3, Kinds DEF ReadableBackups
  <2>8. OnlyBackup(i) => SomeLoads' /\ ReadableBackups' = {}
    BY <2>3, Kinds DEF OnlyBackup, SomeLoads, ReadableBackups
  <2>9. ASSUME NEW j \in Ids \ {i}, OnlyBackup(j)
        PROVE  OnlyBackup(j)' /\ Candidates(j)' = Candidates(j)
    BY <2>2, <2>3, <2>9, Kinds DEF OnlyBackup, Candidates
  <2>10. Kept'
    BY <2>5, <2>6, <2>8, <2>9 DEF DiskKept, Kept, Choosable
  <2>11. LoadedKept'
    BY <1>1, <2>5, <2>6, <2>7, <2>8, <2>9 DEF DiskKept, LoadedKept
  <2>12. ASSUME boot.at \in Restoring PROVE RestoreKept'
    <3>1. boot.restore \in Ids
      BY <2>12 DEF InstallTypes, StartTyped
    <3>2. CASE OnlyBackup(boot.restore) /\ Candidates(boot.restore) \subseteq {boot.active}
      <4>1. CASE boot.restore = i
        BY <1>1, <2>3, <3>2, <4>1 DEF RestoreKept, OnlyBackup
      <4>2. CASE boot.restore # i
        BY <1>1, <2>9, <3>1, <3>2, <4>2 DEF RestoreKept
      <4> QED
        BY <4>1, <4>2
    <3>3. CASE backup[boot.restore] = None /\ dir[boot.restore] \in Loadable
      BY <1>1, <2>2, <2>3, <3>1, <3>3 DEF RestoreKept
    <3> QED
      BY <2>5, <2>12, <3>2, <3>3 DEF DiskKept, RestoreKept
  <2>13. RestoreKept'
    BY <1>1, <2>12 DEF RestoreKept
  <2> QED
    BY <2>10, <2>11, <2>13 DEF DiskKept
<1> QED
  BY <1>2, <1>3

(* The other steps of an install touch no directory; a backup of another id     *)
(* that goes is excused.                                                        *)
LEMMA InstallDisk ==
  ASSUME ~Strict, InstallTypes, ControlInv, DiskKept, StartKept, NEW t \in Installers,
         \/ \E k \in Tokens : BeginInstall(t, k)
         \/ \E force \in BOOLEAN : Claim(t, force)
         \/ BeginCopy(t) \/ EndCopy(t) \/ Clear(t) \/ MoveAway(t) \/ Place(t)
         \/ MoveFails(t) \/ Rollback(t) \/ RollbackFails(t) \/ Prune(t) \/ RecordHashes(t)
  PROVE  DiskKept' /\ StartKept'
<1>1. CASE \/ (\E k \in Tokens : BeginInstall(t, k)) \/ (\E force \in BOOLEAN : Claim(t, force))
           \/ BeginCopy(t) \/ EndCopy(t)
  <2>1. PreviewsOnly
    BY <1>1 DEF BeginInstall, Claim, BeginCopy, EndCopy
  <2> QED
    BY <2>1, SameDisk DEF PreviewsOnly
<1>2. CASE MoveFails(t) \/ RollbackFails(t) \/ RecordHashes(t)
  <2>1. UNCHANGED <<dir, backup, boot, owed>>
    BY <1>2 DEF MoveFails, RollbackFails, RecordHashes
  <2> QED
    BY <2>1, SameDisk
<1>3. CASE Prune(t)
  <2>1. UNCHANGED <<dir, boot>> /\ (UNCHANGED <<backup, owed>> \/ ~owed')
    BY <1>3 DEF Prune
  <2>2. CASE ~owed'
    <3>1. StillWorks'
      BY <2>2 DEF StillWorks
    <3> QED
      BY <2>2, <3>1 DEF DiskKept, Kept, LoadedKept, RestoreKept, StartKept, Found, ReloadKept
  <2> QED
    BY <2>1, <2>2, SameDisk
<1> QED
  BY <1>1, <1>2, <1>3, ClearKeeps, MoveAwayKeeps, PlaceKeeps, RollbackKeeps

LEMMA UninstallDisk ==
  ASSUME ControlInv,
         (\E i \in Ids : BeginUninstall(i)) \/ RemovePlugin \/ RemoveBackup \/ ForgetHashes
  PROVE  DiskKept' /\ StartKept'
<1>1. ~owed'
  BY DEF BeginUninstall, RemovePlugin, RemoveBackup, ForgetHashes, ControlInv, UninstallExcused
<1> QED
  BY <1>1 DEF DiskKept, Kept, LoadedKept, RestoreKept, StartKept, Found, ReloadKept, StillWorks

----------------------------------------------------------------------------
(* A version that loads is a candidate of every backup: with one, nothing is    *)
(* restored.                                                                    *)
LEMMA NothingBroken == Working # {} => Broken = {}
<1> SUFFICES ASSUME NEW j \in Working PROVE \A i \in ReadableBackups : j \in Candidates(i)
  BY DEF Broken, Retained, Exact, Clearly
<1>1. j \in Ids /\ Whole(dir[j]) /\ dir[j] # None
  BY Kinds DEF Working
<1> QED
  BY <1>1 DEF Candidates

(* Where nothing works, the only backup is put back.                            *)
LEMMA OneBroken ==
  ASSUME Working = {}, NEW i \in Ids, OnlyBackup(i), Choosable(i)
  PROVE  Broken = {i}
<1>1. ReadableBackups = {i}
  BY Kinds DEF OnlyBackup, ReadableBackups
<1>2. PICK a \in Ids \cup {"none"} : Candidates(i) \subseteq {a}
  BY DEF Choosable
<1>3. Cardinality(Candidates(i)) <= 1
  <2>1. CASE Candidates(i) = {}
    BY <2>1, FS_EmptySet
  <2>2. CASE Candidates(i) = {a}
    <3>1. Cardinality(Candidates(i)) = 1
      BY <2>2, FS_Singleton
    <3> QED
      BY <3>1
  <2> QED
    BY <1>2, <2>1, <2>2
<1>4. Clearly = {i}
  BY <1>1, <1>3 DEF Clearly
<1>5. Cardinality(Clearly) = 1
  BY <1>4, FS_Singleton
<1>6. Retained = {i}
  BY <1>4, <1>5 DEF Retained
<1> QED
  BY <1>6 DEF Broken

(* A restore takes out of the way all that its backup could replace.            *)
LEMMA OneInTheWay ==
  ASSUME NEW i \in Retained
  PROVE  Candidates(i) \subseteq
           {IF Candidates(i) = {} THEN "none" ELSE CHOOSE j \in Candidates(i) : TRUE}
<1>1. Cardinality(Candidates(i)) <= 1
  BY DEF Retained, Exact, Clearly
<1>2. IsFiniteSet(Candidates(i))
  BY InstallConstants, FS_Subset DEF Candidates
<1>3. CASE Candidates(i) # {}
  <2>1. Cardinality(Candidates(i)) = 1
    BY <1>1, <1>2, <1>3, FS_EmptySet, FS_CardinalityType
  <2>2. PICK a : Candidates(i) = {a}
    BY <1>2, <2>1, FS_Singleton
  <2> QED
    BY <2>2
<1> QED
  BY <1>3

LEMMA StartPluginsKeeps ==
  ASSUME ~Strict, InstallTypes, DiskKept, StartPlugins
  PROVE  DiskKept' /\ StartKept'
<1>1. /\ UNCHANGED <<dir, backup, owed>> /\ boot'.at = "loaded"
      /\ \A i \in Ids : boot'.found[i] = IF Whole(dir[i]) THEN dir[i] ELSE None
  BY DEF StartPlugins, BootTo, Off, Allowed
<1>2. Kept'
  BY <1>1 DEF DiskKept, Kept, SomeLoads, OnlyBackup, Choosable, Candidates
<1>3. SomeLoads => Working' # {}
  BY <1>1, Kinds DEF SomeLoads, Working
<1>4. LoadedKept'
  BY <1>1, <1>3 DEF DiskKept, Kept, LoadedKept, OnlyBackup
<1>5. RestoreKept' /\ Found' /\ ReloadKept'
  BY <1>1 DEF RestoreKept, Restoring, Found, ReloadKept
<1>6. StillWorks'
  BY <1>1 DEF StillWorks
<1> QED
  BY <1>2, <1>4, <1>5, <1>6 DEF DiskKept, StartKept

LEMMA LookAtBackupsKeeps ==
  ASSUME InstallTypes, DiskKept, StartKept, LookAtBackups
  PROVE  DiskKept' /\ StartKept'
<1>1. boot.at = "loaded" /\ UNCHANGED <<dir, backup>> /\ boot \in BootRecord
  BY DEF LookAtBackups, InstallTypes, StartTyped
<1>2. ASSUME Broken = {} PROVE DiskKept' /\ StartKept'
  <2>1. /\ boot'.at = "started" /\ boot'.loaded = Working
        /\ boot'.undisturbed = boot.undisturbed
    BY <1>1, <1>2 DEF LookAtBackups, BootTo, BootRecord
  <2>2. owed' = (owed \/ (Working # {} /\ Quiet))
    BY <1>2 DEF LookAtBackups
  <2>3. Working # {} => SomeLoads
    BY DEF Working, SomeLoads
  <2>4. owed' => SomeLoads \/ \E i \in Ids : OnlyBackup(i) /\ Choosable(i)
    BY <2>2, <2>3 DEF DiskKept, Kept
  <2>5. Kept'
    BY <1>1, <2>4 DEF Kept, SomeLoads, OnlyBackup, Choosable, Candidates
  <2>6. LoadedKept' /\ RestoreKept' /\ Found' /\ ReloadKept'
    BY <2>1 DEF LoadedKept, RestoreKept, Restoring, Found, ReloadKept
  <2>7. ASSUME boot.undisturbed, owed PROVE Working # {}
    <3>1. CASE SomeLoads
      BY <1>1, <2>7, <3>1, Kinds DEF SomeLoads, StartKept, Found, Working
    <3>2. CASE \E i \in Ids : OnlyBackup(i) /\ Choosable(i)
      BY <1>2, <3>2, OneBroken
    <3> QED
      BY <2>7, <3>1, <3>2 DEF DiskKept, Kept
  <2>8. StillWorks'
    BY <2>1, <2>2, <2>7 DEF StillWorks
  <2> QED
    BY <2>5, <2>6, <2>8 DEF DiskKept, StartKept
<1>3. ASSUME NEW i \in Broken,
             boot' = [boot EXCEPT !.at = "set aside", !.restore = i,
                        !.active = IF Candidates(i) = {} THEN "none"
                                   ELSE CHOOSE j \in Candidates(i) : TRUE],
             UNCHANGED owed
      PROVE  DiskKept' /\ StartKept'
  <2>1. i \in Retained /\ i \in Ids /\ i \in ReadableBackups
    BY DEF Broken, Retained, Exact, Clearly, ReadableBackups
  <2>2. /\ boot'.at = "set aside" /\ boot'.restore = i
        /\ boot'.active = IF Candidates(i) = {} THEN "none" ELSE CHOOSE j \in Candidates(i) : TRUE
    BY <1>1, <1>3 DEF BootRecord
  <2>3. Kept'
    BY <1>1, <1>3 DEF DiskKept, Kept, SomeLoads, OnlyBackup, Choosable, Candidates
  <2>4. LoadedKept' /\ Found' /\ ReloadKept'
    BY <2>2 DEF LoadedKept, Found, ReloadKept
  <2>5. StillWorks'
    BY <2>2 DEF StillWorks
  <2>6. ASSUME owed PROVE OnlyBackup(i)
    <3>1. Working = {} /\ ReadableBackups # {}
      BY <2>1, NothingBroken
    <3>2. PICK j \in Ids : OnlyBackup(j)
      BY <1>1, <2>6, <3>1 DEF DiskKept, LoadedKept
    <3>3. j = i
      BY <2>1, <3>2 DEF OnlyBackup, ReadableBackups
    <3> QED
      BY <3>2, <3>3
  <2>7. Candidates(i) \subseteq {boot'.active}
    BY <2>1, <2>2, OneInTheWay
  <2>8. RestoreKept'
    BY <1>1, <1>3, <2>2, <2>6, <2>7 DEF RestoreKept, OnlyBackup, Candidates
  <2> QED
    BY <2>3, <2>4, <2>5, <2>8 DEF DiskKept, StartKept
<1>4. CASE Broken # {}
  <2>1. PICK i \in Broken :
           /\ boot' = [boot EXCEPT !.at = "set aside", !.restore = i,
                        !.active = IF Candidates(i) = {} THEN "none"
                                   ELSE CHOOSE j \in Candidates(i) : TRUE]
           /\ UNCHANGED owed
    BY <1>4 DEF LookAtBackups, BootTo
  <2> QED
    BY <1>3, <2>1
<1> QED
  BY <1>2, <1>4

LEMMA SetAsideKeeps ==
  ASSUME InstallTypes, DiskKept, StartKept, SetAside
  PROVE  DiskKept' /\ StartKept'
<1>1. /\ UNCHANGED <<backup, owed>> /\ boot \in BootRecord /\ boot.at \in Restoring
      /\ boot.restore \in Ids
  BY DEF SetAside, InstallTypes, StartTyped, Restoring
<1>2. /\ boot'.at \in {"put back", "reload"}
      /\ boot'.restore = boot.restore /\ boot'.active = boot.active
  BY <1>1 DEF SetAside, BootTo, BootRecord
<1>3. LoadedKept' /\ Found'
  BY <1>2 DEF LoadedKept, Found
<1>4. StillWorks'
  BY <1>2 DEF StillWorks
<1>5. SUFFICES ASSUME owed PROVE Kept' /\ RestoreKept' /\ ReloadKept'
  BY <1>1, <1>3, <1>4 DEF Kept, RestoreKept, ReloadKept, DiskKept, StartKept
<1>6. \/ OnlyBackup(boot.restore) /\ Candidates(boot.restore) \subseteq {boot.active}
      \/ backup[boot.restore] = None /\ dir[boot.restore] \in Loadable
  BY <1>1, <1>5 DEF DiskKept, RestoreKept
<1>7. CASE backup[boot.restore] = None
  <2>1. UNCHANGED dir /\ boot'.at = "reload" /\ dir[boot.restore] \in Loadable
    BY <1>1, <1>6, <1>7, Kinds DEF SetAside, BootTo, BootRecord, OnlyBackup
  <2>2. SomeLoads'
    BY <1>1, <2>1 DEF SomeLoads
  <2> QED
    BY <2>1, <2>2 DEF Kept, RestoreKept, Restoring, ReloadKept
<1>8. CASE backup[boot.restore] # None
  <2>1. OnlyBackup(boot.restore) /\ Candidates(boot.restore) \subseteq {boot.active}
    BY <1>6, <1>8
  <2>2. UNCHANGED dir \/ dir' = [dir EXCEPT ![boot.active] = None]
    BY <1>8 DEF SetAside
  <2>3. \A j \in Ids : dir'[j] \in {dir[j], None}
    BY <2>2 DEF InstallTypes, DiskTyped, Slots
  <2>4. PICK i \in Ids : i = boot.restore
    BY <1>1
  <2>5. OnlyBackup(i)'
    BY <1>1, <2>1, <2>4 DEF OnlyBackup
  <2>6. Candidates(i)' \subseteq {boot.active}
    BY <2>1, <2>3, <2>4, Kinds DEF Candidates
  <2>7. boot.active \in Ids \cup {"none"}
    BY <1>1 DEF BootRecord
  <2>8. Kept'
    BY <2>5, <2>6, <2>7 DEF Kept, Choosable
  <2>9. RestoreKept'
    BY <1>2, <2>4, <2>5, <2>6 DEF RestoreKept, OnlyBackup, Candidates
  <2>10. boot'.at = "reload" => ~boot'.undisturbed
    BY <1>1, <1>8 DEF SetAside, BootTo, BootRecord
  <2> QED
    BY <2>8, <2>9, <2>10 DEF ReloadKept
<1> QED
  BY <1>7, <1>8

LEMMA PutBackKeeps ==
  ASSUME InstallTypes, DiskKept, StartKept, PutBack
  PROVE  DiskKept' /\ StartKept'
<1>1. /\ UNCHANGED owed /\ boot \in BootRecord /\ boot.at \in Restoring
      /\ boot.restore \in Ids
  BY DEF PutBack, InstallTypes, StartTyped, Restoring
<1>2. boot'.at = "reload"
  BY <1>1 DEF PutBack, BootTo, BootRecord
<1>3. LoadedKept' /\ RestoreKept' /\ Found'
  BY <1>2 DEF LoadedKept, RestoreKept, Restoring, Found
<1>4. StillWorks'
  BY <1>2 DEF StillWorks
<1>5. SUFFICES ASSUME owed PROVE Kept' /\ ReloadKept'
  BY <1>1, <1>3, <1>4 DEF Kept, ReloadKept, DiskKept, StartKept
<1>6. \/ OnlyBackup(boot.restore) /\ Candidates(boot.restore) \subseteq {boot.active}
      \/ backup[boot.restore] = None /\ dir[boot.restore] \in Loadable
  BY <1>1, <1>5 DEF DiskKept, RestoreKept
<1>7. CASE /\ backup[boot.restore] # None
           /\ dir' = [dir EXCEPT ![boot.restore] = backup[boot.restore]]
  <2>1. dir'[boot.restore] \in Loadable
    BY <1>1, <1>6, <1>7 DEF OnlyBackup, InstallTypes, DiskTyped, Slots
  <2>2. SomeLoads'
    BY <1>1, <2>1 DEF SomeLoads
  <2> QED
    BY <2>2 DEF Kept, ReloadKept
<1>8. CASE /\ UNCHANGED backup /\ ~boot'.undisturbed
           /\ UNCHANGED dir \/ (/\ dir' = [dir EXCEPT ![boot.active] = brokenCopy]
                                /\ brokenCopy # None /\ InTheWay = None)
  <2>1. CASE UNCHANGED dir
    BY <1>5, <1>8, <2>1
    DEF DiskKept, Kept, ReloadKept, SomeLoads, OnlyBackup, Choosable, Candidates
  <2>2. CASE dir' = [dir EXCEPT ![boot.active] = brokenCopy] /\ brokenCopy # None /\ InTheWay = None
    <3>1. boot.active \in Ids /\ dir[boot.active] = None
      BY <2>2 DEF InstallTypes, StartTyped, InTheWay
    <3>2. \A j \in Ids \ {boot.active} : dir'[j] = dir[j]
      BY <2>2 DEF InstallTypes, DiskTyped, Slots
    <3>3. CASE dir[boot.restore] \in Loadable
      <4>1. dir'[boot.restore] \in Loadable
        BY <1>1, <3>1, <3>2, <3>3, Kinds
      <4>2. SomeLoads'
        BY <1>1, <4>1 DEF SomeLoads
      <4> QED
        BY <4>2, <1>8 DEF Kept, ReloadKept
    <3>4. CASE OnlyBackup(boot.restore) /\ Candidates(boot.restore) \subseteq {boot.active}
      <4>1. PICK i \in Ids : i = boot.restore
        BY <1>1
      <4>2. OnlyBackup(i)'
        BY <1>8, <3>4, <4>1 DEF OnlyBackup
      <4>3. Candidates(i)' \subseteq {boot.active}
        BY <3>2, <3>4, <4>1 DEF Candidates
      <4>4. Choosable(i)'
        BY <3>1, <4>3 DEF Choosable
      <4> QED
        BY <1>8, <4>2, <4>4 DEF Kept, ReloadKept
    <3> QED
      BY <1>6, <3>3, <3>4
  <2> QED
    BY <1>8, <2>1, <2>2
<1>9. ASSUME NEW fails \in {0, 1}, NEW failsBack \in {0, 1},
             IF failsBack = 0 /\ brokenCopy # None /\ InTheWay = None
             THEN dir' = [dir EXCEPT ![boot.active] = brokenCopy]
             ELSE UNCHANGED dir,
             boot' = [boot EXCEPT !.at = "reload", !.undisturbed = FALSE],
             UNCHANGED backup
      PROVE  Kept' /\ ReloadKept'
  <2>1. ~boot'.undisturbed
    BY <1>1, <1>9 DEF BootRecord
  <2> QED
    BY <1>8, <1>9, <2>1
<1> QED
  BY <1>7, <1>9 DEF PutBack, BootTo

LEMMA ReloadKeeps ==
  ASSUME ~Strict, InstallTypes, DiskKept, StartKept, Reload
  PROVE  DiskKept' /\ StartKept'
<1>1. /\ boot.at = "reload" /\ UNCHANGED <<dir, backup>> /\ boot \in BootRecord
      /\ boot' = [boot EXCEPT !.at = "started", !.found = Off.found,
                              !.loaded = {i \in Ids : Loads(i, dir[i])}]
      /\ owed' = (owed \/ ({i \in Ids : Loads(i, dir[i])} # {} /\ Quiet))
  BY DEF Reload, BootTo, InstallTypes, StartTyped
<1>2. /\ boot'.at = "started" /\ boot'.undisturbed = boot.undisturbed
      /\ boot'.loaded = {i \in Ids : dir[i] \in Loadable}
  BY <1>1 DEF BootRecord, Loads
<1>3. SomeLoads <=> {i \in Ids : Loads(i, dir[i])} # {}
  BY DEF SomeLoads, Loads
<1>4. owed' => SomeLoads \/ \E i \in Ids : OnlyBackup(i) /\ Choosable(i)
  BY <1>1, <1>3 DEF DiskKept, Kept
<1>5. Kept'
  BY <1>1, <1>4 DEF Kept, SomeLoads, OnlyBackup, Choosable, Candidates
<1>6. LoadedKept' /\ RestoreKept' /\ Found' /\ ReloadKept'
  BY <1>2 DEF LoadedKept, RestoreKept, Restoring, Found, ReloadKept
<1>7. boot.undisturbed /\ owed => SomeLoads
  BY <1>1 DEF StartKept, ReloadKept
<1>8. boot'.undisturbed /\ owed' => boot'.loaded # {}
  BY <1>1, <1>2, <1>3, <1>7 DEF SomeLoads
<1>9. StillWorks'
  BY <1>8 DEF StillWorks
<1> QED
  BY <1>5, <1>6, <1>9 DEF DiskKept, StartKept

LEMMA InstallCrashKeeps ==
  ASSUME DiskKept, InstallCrash
  PROVE  DiskKept' /\ StartKept'
<1>1. UNCHANGED <<dir, backup, owed>> /\ boot'.at = "off"
  BY DEF InstallCrash, Off
<1>2. Kept'
  BY <1>1 DEF DiskKept, Kept, SomeLoads, OnlyBackup, Choosable, Candidates
<1>3. LoadedKept' /\ RestoreKept' /\ Found' /\ ReloadKept'
  BY <1>1 DEF LoadedKept, RestoreKept, Restoring, Found, ReloadKept
<1>4. StillWorks'
  BY <1>1 DEF StillWorks
<1> QED
  BY <1>2, <1>3, <1>4 DEF DiskKept, StartKept

----------------------------------------------------------------------------
LEMMA InstallInvNext == ~Strict /\ InstallInv /\ [InstallNext]_installVars => InstallInv'
<1> SUFFICES ASSUME ~Strict, InstallInv, [InstallNext]_installVars PROVE InstallInv'
  OBVIOUS
<1> USE DEF InstallInv
<1>1. InstallTypes'
  BY InstallTypesNext
<1>2. CASE \/ (\E k \in Tokens, v \in Versions : Preview(k, v)) \/ UNCHANGED installVars
           \/ \E k \in Tokens : PurgeExpired(k)
  <2>1. UNCHANGED <<dir, backup, boot, owed, install, uninstall>>
    BY <1>2 DEF Preview, PurgeExpired, PreviewsOnly, installVars
  <2>2. ControlInv'
    BY <2>1 DEF ControlInv, Fresh, Calm, UninstallExcused
  <2> QED
    BY <1>1, <2>1, <2>2, SameDisk
<1>3. ASSUME NEW t \in Installers,
             \/ \E k \in Tokens : BeginInstall(t, k)
             \/ \E force \in BOOLEAN : Claim(t, force)
             \/ BeginCopy(t) \/ EndCopy(t) \/ Clear(t) \/ MoveAway(t) \/ Place(t)
             \/ MoveFails(t) \/ Rollback(t) \/ RollbackFails(t) \/ Prune(t) \/ RecordHashes(t)
      PROVE  InstallInv'
  BY <1>1, <1>3, InstallControl, InstallDisk
<1>4. CASE (\E i \in Ids : BeginUninstall(i)) \/ RemovePlugin \/ RemoveBackup \/ ForgetHashes
  BY <1>1, <1>4, OtherControl, UninstallDisk
<1>5. CASE StartPlugins \/ LookAtBackups \/ SetAside \/ PutBack \/ Reload \/ InstallCrash
  BY <1>1, <1>5, OtherControl, StartPluginsKeeps, LookAtBackupsKeeps, SetAsideKeeps, PutBackKeeps,
     ReloadKeeps, InstallCrashKeeps
<1> QED
  BY <1>2, <1>3, <1>4, <1>5 DEF InstallNext

(* Every record, slot and phase of the installs, the uninstall and the engine's *)
(* start keeps its kind, in a release as from a checkout.                       *)
THEOREM InstallTypesHold == InstallSpec => []InstallTypes
  BY InstallTypesInit, InstallTypesNext, PTL DEF InstallSpec

(* An update never costs the user a plug-in that worked, where no manifest      *)
(* binds a directory to the version installed last (host/app.py,                *)
(* host/api/plugin_installation.py). In a release it may: RecordHashes is a     *)
(* step of its own after the directories were replaced.                         *)
THEOREM UpdatesKeepWorking == ASSUME ~Strict PROVE InstallSpec => []StillWorks
<1>1. InstallInit => InstallInv
  BY InstallInvInit
<1>2. InstallInv /\ [InstallNext]_installVars => InstallInv'
  BY InstallInvNext
<1>3. InstallInv => StillWorks
  BY DEF InstallInv, StartKept
<1> QED
  BY <1>1, <1>2, <1>3, PTL DEF InstallSpec
=============================================================================
