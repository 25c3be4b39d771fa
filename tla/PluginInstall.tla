---------------------------- MODULE PluginInstall ----------------------------
(* Installing, updating and uninstalling the user plug-ins of one package     *)
(* (host/api/services/plugin_installation.py, host/api/plugin_installation.py)*)
(* and the recovery of failed updates when the engine starts (host/app.py).   *)
(* Installs run in worker threads, uninstalls on the API's event loop, the    *)
(* engine's start in a thread of its own. Directories are renamed and removed *)
(* one at a time; each step may fail, and the process may die between two.    *)
EXTENDS Integers, Sequences, FiniteSets, SequencesExt

CONSTANTS Ids,         \* plug-in ids the package has used: names of directories
          Versions,    \* version codes, 1..n
          IdOf,        \* the id each version carries
          Loadable,    \* versions that load
          Strict,      \* TRUE in a release: files must match plugin_manifest.json
          Installers,  \* installs that run at a time (install_slots)
          Tokens,      \* preview tokens
          MaxInstalls, MaxMishaps, MaxEngineStarts

ASSUME InstallConstants ==
  /\ Versions \subseteq Nat \ {0} /\ Loadable \subseteq Versions
  /\ IsFiniteSet(Ids) /\ "none" \notin Ids
  /\ IdOf \in [Versions -> Ids] /\ Strict \in BOOLEAN

VARIABLES dir,        \* contents of each id's directory
          backup,     \* contents of its .nmf-backup
          brokenCopy,     \* contents of the directory a restore has set aside
          record,     \* version whose hashes plugin_manifest.json holds
          preview,    \* version behind each token
          extracted,  \* whether the token's extracted files are there
          install,    \* the install of each worker thread
          uninstall,  \* the uninstall on the event loop
          boot,       \* the engine's start
          owed,       \* a version worked at the last start and nothing since excuses its loss
          installs, mishaps, boots

installVars == <<dir, backup, brokenCopy, record, preview, extracted, install, uninstall, boot,
                 owed, installs, mishaps, boots>>

None == 0
Partial == -1           \* a directory that lost some of its files
Whole(content) == content \in Versions
Holding(slot) == {i \in Ids : slot[i] # None}

(* plugin_loader.py: what the engine can load under an id.                    *)
Loads(id, content) == content \in Loadable /\ (Strict => record[id] \in {None, content})
Allowed(id, content) == Whole(content) /\ (Strict => record[id] \in {None, content})
Recorded == [i \in Ids |-> IF record[i] = None /\ Allowed(i, dir[i]) THEN dir[i] ELSE record[i]]

NoInstall == [at |-> "idle", version |-> None, token |-> "none", todo |-> <<>>, moved |-> <<>>,
         staged |-> None]
NoUninstall == [at |-> "idle", id |-> "none", backups |-> {}]
Off == [at |-> "off", found |-> [i \in Ids |-> None], loaded |-> {}, restore |-> "none",
        active |-> "none", undisturbed |-> TRUE]

InstallInit ==
  /\ dir \in {[i \in Ids |-> None]} \cup
             {[i \in Ids |-> IF i = IdOf[v] THEN v ELSE None] : v \in Loadable}
  /\ backup = [i \in Ids |-> None] /\ brokenCopy = None
  /\ record = dir
  /\ preview = [k \in Tokens |-> None] /\ extracted = [k \in Tokens |-> FALSE]
  /\ install = [t \in Installers |-> NoInstall]
  /\ uninstall = NoUninstall /\ boot = Off
  /\ owed = (Holding(dir) # {})
  /\ installs = 0 /\ mishaps = 0 /\ boots = 0

----------------------------------------------------------------------------
(* Previews: POST /api/plugins/preview, and the purge of expired ones.        *)
PreviewsOnly == UNCHANGED <<dir, backup, brokenCopy, record, uninstall, boot, owed, mishaps, boots>>

Preview(k, v) ==
  /\ preview[k] = None /\ ~extracted[k] /\ installs < MaxInstalls
  /\ \A t \in Installers : install[t].token # k
  /\ preview' = [preview EXCEPT ![k] = v] /\ extracted' = [extracted EXCEPT ![k] = TRUE]
  /\ UNCHANGED <<install, installs>> /\ PreviewsOnly
Discarded(k) == /\ preview' = [preview EXCEPT ![k] = None]
                /\ extracted' = [extracted EXCEPT ![k] = FALSE]
PurgeExpired(k) ==
  /\ preview[k] # None /\ Discarded(k)
  /\ UNCHANGED <<install, installs>> /\ PreviewsOnly

----------------------------------------------------------------------------
(* POST /api/plugins/install.                                                 *)
Step(t, r) == install' = [install EXCEPT ![t] = r]
Existing == {i \in Ids : Whole(dir[i])}

(* The preview is looked up, its files are compared and its risks confirmed.  *)
BeginInstall(t, k) ==
  /\ install[t].at = "idle" /\ installs < MaxInstalls /\ preview[k] # None
  /\ Step(t, [NoInstall EXCEPT !.at = "claim", !.version = preview[k], !.token = k])
  /\ installs' = installs + 1
  /\ UNCHANGED <<preview, extracted>> /\ PreviewsOnly

(* The token is taken: of two installs that looked it up one finds it gone,   *)
(* and removes the extracted files on its way out. A lower version than the   *)
(* installed one needs force; the directory of another id of the package      *)
(* becomes obsolete.                                                          *)
InstallFails(t) == /\ Step(t, NoInstall) /\ extracted' = [extracted EXCEPT ![install[t].token] = FALSE]
Claim(t, force) ==
  /\ install[t].at = "claim"
  /\ LET k == install[t].token
         v == install[t].version
     IN IF preview[k] = None THEN Discarded(k) /\ Step(t, NoInstall)
        ELSE /\ preview' = [preview EXCEPT ![k] = None]
             /\ IF \E i \in Existing : v < dir[i] /\ ~force THEN InstallFails(t)
                ELSE /\ \E obsolete \in IF Existing \subseteq {IdOf[v]} THEN {<<>>}
                                        ELSE {<<i>> : i \in Existing \ {IdOf[v]}} :
                          Step(t, [install[t] EXCEPT !.at = "copy", !.todo = obsolete \o <<IdOf[v]>>])
                     /\ UNCHANGED extracted
  /\ UNCHANGED installs /\ PreviewsOnly

(* The files are copied beside the destination and validated there; files     *)
(* that vanish while they are copied make it fail, or are missed.             *)
BeginCopy(t) ==
  /\ install[t].at = "copy"
  /\ IF extracted[install[t].token]
     THEN Step(t, [install[t] EXCEPT !.at = "copying"]) /\ UNCHANGED extracted
     ELSE InstallFails(t)
  /\ UNCHANGED <<preview, installs>> /\ PreviewsOnly
EndCopy(t) ==
  /\ install[t].at = "copying"
  /\ \/ /\ extracted[install[t].token]
        /\ Step(t, [install[t] EXCEPT !.at = "clear", !.staged = install[t].version])
        /\ UNCHANGED extracted
     \/ /\ ~extracted[install[t].token]
        /\ \/ InstallFails(t)
           \/ /\ ~Strict
              /\ Step(t, [install[t] EXCEPT !.at = "clear", !.staged = Partial])
              /\ UNCHANGED extracted
  /\ UNCHANGED <<preview, installs>> /\ PreviewsOnly

(* PluginBackupStore.retained: what each readable backup would replace.       *)
ReadableBackups == {i \in Ids : Whole(backup[i])}
Candidates(i) == {j \in Ids : dir[j] # None /\ (j = i \/ Whole(dir[j]))}
Clearly == {i \in ReadableBackups : Cardinality(Candidates(i)) <= 1}
Exact == {i \in Clearly : Candidates(i) = {i}}
Retained == IF Cardinality(Clearly) <= 1 THEN Clearly
            ELSE IF Cardinality(Exact) = 1 THEN Exact ELSE {}
(* Between the two renames of restore_backup, or right before them.           *)
Restoring == {"set aside", "put back"}

(* install_tree: each directory in the way becomes the backup of its id, in   *)
(* place of the backup that was there.                                        *)
OnDisk == UNCHANGED <<brokenCopy, record, preview, uninstall, installs, boots>>
Touched == boot' = [boot EXCEPT !.undisturbed = FALSE]
CurrentId(t) == Head(install[t].todo)

Clear(t) ==
  /\ install[t].at = "clear" /\ install[t].todo # <<>>
  /\ LET i == CurrentId(t) IN
     IF dir[i] = None
     THEN /\ Step(t, [install[t] EXCEPT !.todo = Tail(@)])
          /\ UNCHANGED <<backup, owed, mishaps>>
     ELSE /\ \/ /\ backup' = [backup EXCEPT ![i] = None]
                /\ Step(t, [install[t] EXCEPT !.at = "move"]) /\ UNCHANGED mishaps
             \/ /\ mishaps < MaxMishaps /\ mishaps' = mishaps + 1
                /\ backup' = [backup EXCEPT ![i] = IF @ = None THEN None ELSE Partial]
                /\ Step(t, [install[t] EXCEPT !.at = "rollback"])
          (* Updating what does not load may take the version that worked    *)
          (* out of its only backup; a restore may put half a backup back.   *)
          /\ owed' = (owed /\ Loads(i, dir[i])
                         /\ (boot.at \in Restoring => backup'[i] # Partial))
  /\ Touched /\ UNCHANGED <<dir, extracted>> /\ OnDisk

MoveAway(t) ==
  /\ install[t].at = "move"
  /\ LET i == CurrentId(t) IN
     IF dir[i] # None /\ backup[i] = None
     THEN /\ backup' = [backup EXCEPT ![i] = dir[i]]
          /\ dir' = [dir EXCEPT ![i] = None]
          /\ Step(t, [install[t] EXCEPT !.at = "clear", !.todo = Tail(@), !.moved = Append(@, i)])
          (* Something else is here by now; or another id of the package has *)
          (* a directory or a backup, and a recovery could not choose.       *)
          /\ owed' = (owed /\ Loads(i, dir[i])
                         /\ \A j \in Ids \ {i} : ~Whole(backup[j]) /\ ~Whole(dir[j]))
     ELSE /\ Step(t, [install[t] EXCEPT !.at = "rollback"])
          /\ UNCHANGED <<dir, backup, owed>>
  /\ Touched /\ UNCHANGED <<extracted, mishaps>> /\ OnDisk

Place(t) ==
  /\ install[t].at = "clear" /\ install[t].todo = <<>>
  /\ LET i == IdOf[install[t].version] IN
     IF dir[i] = None
     THEN /\ dir' = [dir EXCEPT ![i] = install[t].staged]
          /\ Step(t, [install[t] EXCEPT !.at = "prune"])
          (* Beside what another install has put there a recovery could not  *)
          (* choose; nor does a restore look again between its two renames.  *)
          /\ owed' = (owed /\ boot.at \notin Restoring
                         /\ \A j \in ReadableBackups : Candidates(j) = {})
     ELSE /\ Step(t, [install[t] EXCEPT !.at = "rollback"]) /\ UNCHANGED <<dir, owed>>
  /\ Touched /\ UNCHANGED <<backup, extracted, mishaps>> /\ OnDisk

(* A step that fails sends the install back: what was moved away returns, in  *)
(* reverse order.                                                             *)
MoveFails(t) ==
  /\ install[t].at \in {"clear", "move"} /\ mishaps < MaxMishaps
  /\ Step(t, [install[t] EXCEPT !.at = "rollback"])
  /\ mishaps' = mishaps + 1
  /\ UNCHANGED <<dir, backup, extracted, boot, owed>> /\ OnDisk

Rollback(t) ==
  /\ install[t].at = "rollback"
  /\ LET moved == install[t].moved IN
     IF moved = <<>>
     THEN InstallFails(t) /\ UNCHANGED <<dir, backup>>
     ELSE LET i == Last(moved) IN
          IF backup[i] = None
          THEN /\ Step(t, [install[t] EXCEPT !.moved = Front(@)])
               /\ UNCHANGED <<dir, backup, extracted>>
          ELSE IF dir[i] = None
          THEN /\ dir' = [dir EXCEPT ![i] = backup[i]] /\ backup' = [backup EXCEPT ![i] = None]
               /\ Step(t, [install[t] EXCEPT !.moved = Front(@)])
               /\ UNCHANGED extracted
          ELSE InstallFails(t) /\ UNCHANGED <<dir, backup>>
  /\ UNCHANGED <<boot, owed, mishaps>> /\ OnDisk
(* The way back fails as well, twice where install_tree tries twice: what is  *)
(* left stays in its backup.                                                  *)
RollbackFails(t) ==
  /\ install[t].at = "rollback" /\ install[t].moved # <<>> /\ mishaps < MaxMishaps
  /\ mishaps' = mishaps + 1
  /\ InstallFails(t) /\ UNCHANGED <<dir, backup, boot, owed>> /\ OnDisk

(* Backups of the package under other ids go; then the hashes are recorded    *)
(* and those of an obsolete id forgotten.                                     *)
Prune(t) ==
  /\ install[t].at = "prune"
  /\ LET others == {i \in Ids : Whole(backup[i])} \ ToSet(install[t].moved) IN
     IF others = {}
     THEN Step(t, [install[t] EXCEPT !.at = "record"]) /\ UNCHANGED <<backup, owed, mishaps>>
     ELSE \E i \in others :
            (* A crash, or another install, may have left only this one.      *)
            /\ owed' = FALSE
            /\ \/ /\ backup' = [backup EXCEPT ![i] = None] /\ UNCHANGED <<install, mishaps>>
               \/ /\ mishaps < MaxMishaps /\ mishaps' = mishaps + 1
                  /\ backup' = [backup EXCEPT ![i] = Partial]
                  /\ Step(t, NoInstall)
  /\ UNCHANGED <<dir, extracted, boot>> /\ OnDisk

RecordHashes(t) ==
  /\ install[t].at = "record"
  /\ LET i == IdOf[install[t].version]
         old == Range(install[t].moved) \ {i}
     IN record' = [j \in Ids |-> IF j = i /\ dir[i] # None THEN dir[i]
                                 ELSE IF j \in old THEN None ELSE record[j]]
  /\ Step(t, NoInstall)
  /\ extracted' = [extracted EXCEPT ![install[t].token] = FALSE]
  /\ UNCHANGED <<dir, backup, brokenCopy, preview, uninstall, boot, owed, installs, mishaps, boots>>

----------------------------------------------------------------------------
(* DELETE /api/plugins/...: the directory, its backups, its hashes.           *)
UninstallOnly == UNCHANGED <<brokenCopy, preview, extracted, install, boot, installs, boots>>
BeginUninstall(i) ==
  /\ uninstall.at = "idle" /\ Whole(dir[i])
  /\ uninstall' = [at |-> "remove", id |-> i,
                   backups |-> {i} \cup (IF record[i] = dir[i]
                                         THEN {j \in Ids : Whole(backup[j])} ELSE {})]
  /\ owed' = FALSE
  /\ UNCHANGED <<dir, backup, record, mishaps>> /\ UninstallOnly
RemovePlugin ==
  /\ uninstall.at = "remove"
  /\ \/ /\ dir' = [dir EXCEPT ![uninstall.id] = None]
        /\ uninstall' = [uninstall EXCEPT !.at = "backups"] /\ UNCHANGED mishaps
     \/ /\ mishaps < MaxMishaps /\ mishaps' = mishaps + 1
        /\ dir' = [dir EXCEPT ![uninstall.id] = IF @ = None THEN None ELSE Partial]
        /\ uninstall' = NoUninstall
  /\ UNCHANGED <<backup, record, owed>> /\ UninstallOnly
RemoveBackup ==
  /\ uninstall.at = "backups" /\ uninstall.backups # {}
  /\ \E i \in uninstall.backups :
       \/ /\ backup' = [backup EXCEPT ![i] = None]
          /\ uninstall' = [uninstall EXCEPT !.backups = @ \ {i}] /\ UNCHANGED mishaps
       \/ /\ mishaps < MaxMishaps /\ mishaps' = mishaps + 1
          /\ uninstall' = NoUninstall /\ UNCHANGED backup
  /\ UNCHANGED <<dir, record, owed>> /\ UninstallOnly
ForgetHashes ==
  /\ uninstall.at = "backups" /\ uninstall.backups = {}
  /\ record' = [record EXCEPT ![uninstall.id] = None]
  /\ uninstall' = NoUninstall
  /\ UNCHANGED <<dir, backup, owed, mishaps>> /\ UninstallOnly

----------------------------------------------------------------------------
(* create_engine: load, look through the retained backups, put back the ones  *)
(* whose update does not load, and load again.                                *)
BootOnly == UNCHANGED <<preview, extracted, install, uninstall, installs, boots>>
BootTo(r) == boot' = r

Quiet == /\ \A t \in Installers : install[t].at \in {"idle", "claim", "copy", "copying"}
         /\ uninstall.at = "idle"
StartPlugins ==
  /\ boot.at \in {"off", "started"} /\ boots < MaxEngineStarts
  /\ boots' = boots + 1
  /\ record' = Recorded
  /\ BootTo([Off EXCEPT !.at = "loaded", !.undisturbed = Quiet,
                        !.found = [i \in Ids |-> IF Allowed(i, dir[i]) THEN dir[i] ELSE None]])
  /\ UNCHANGED <<dir, backup, brokenCopy, preview, extracted, install, uninstall, owed, installs, mishaps>>

(* check_plugin_load: the directory holds what the engine found and it loads. *)
Working == {i \in Ids : boot.found[i] # None /\ boot.found[i] = dir[i] /\ dir[i] \in Loadable}
(* Mutant: only plug-ins that are there are checked.                          *)
BrokenIfThere == {i \in Retained : Candidates(i) # {} /\ Candidates(i) \cap Working = {}}

Broken == {i \in Retained : Candidates(i) \cap Working = {}}

LookAtBackups ==
  /\ boot.at = "loaded"
  /\ \/ /\ Broken = {}
        /\ BootTo([boot EXCEPT !.at = "started", !.found = Off.found, !.loaded = Working])
        /\ owed' = (owed \/ (Working # {} /\ Quiet))
     \/ \E i \in Broken :
          /\ BootTo([boot EXCEPT !.at = "set aside", !.restore = i,
                     !.active = IF Candidates(i) = {} THEN "none" ELSE CHOOSE j \in Candidates(i) : TRUE])
          /\ UNCHANGED owed
  /\ UNCHANGED <<dir, backup, brokenCopy, record, mishaps>> /\ BootOnly

(* restore_backup.                                                            *)
InTheWay == IF boot.active \in Ids THEN dir[boot.active] ELSE None
SetAside ==
  /\ boot.at = "set aside"
  /\ \/ /\ backup[boot.restore] = None
        /\ BootTo([boot EXCEPT !.at = "reload"]) /\ UNCHANGED <<dir, brokenCopy, mishaps>>
     \/ /\ backup[boot.restore] # None /\ InTheWay = None
        /\ BootTo([boot EXCEPT !.at = "put back"]) /\ UNCHANGED <<dir, brokenCopy, mishaps>>
     \/ /\ backup[boot.restore] # None /\ InTheWay # None
        /\ \/ /\ brokenCopy' = InTheWay /\ dir' = [dir EXCEPT ![boot.active] = None]
              /\ BootTo([boot EXCEPT !.at = "put back"]) /\ UNCHANGED mishaps
           \/ /\ mishaps < MaxMishaps /\ mishaps' = mishaps + 1
              /\ BootTo([boot EXCEPT !.at = "reload", !.undisturbed = FALSE])
              /\ UNCHANGED <<dir, brokenCopy>>
  /\ UNCHANGED <<backup, record, owed>> /\ BootOnly

PutBack ==
  /\ boot.at = "put back"
  /\ brokenCopy' = None
  /\ LET i == boot.restore IN
     \/ /\ dir[i] = None /\ backup[i] # None
        /\ dir' = [dir EXCEPT ![i] = backup[i]] /\ backup' = [backup EXCEPT ![i] = None]
        /\ BootTo([boot EXCEPT !.at = "reload"]) /\ UNCHANGED mishaps
     (* It fails, and so may the way back: the copy is left for good.         *)
     \/ \E fails, failsBack \in {0, 1} :
          /\ fails = 1 \/ dir[i] # None \/ backup[i] = None
          /\ mishaps + fails + failsBack <= MaxMishaps /\ mishaps' = mishaps + fails + failsBack
          /\ IF failsBack = 0 /\ brokenCopy # None /\ InTheWay = None
             THEN dir' = [dir EXCEPT ![boot.active] = brokenCopy]
             ELSE UNCHANGED dir
          /\ BootTo([boot EXCEPT !.at = "reload", !.undisturbed = FALSE])
          /\ UNCHANGED backup
  /\ UNCHANGED <<record, owed>> /\ BootOnly

Reload ==
  /\ boot.at = "reload"
  /\ record' = Recorded
  /\ LET loaded == {i \in Ids : Loads(i, dir[i])}
     IN /\ BootTo([boot EXCEPT !.at = "started", !.found = Off.found, !.loaded = loaded])
        /\ owed' = (owed \/ (loaded # {} /\ Quiet))
  /\ UNCHANGED <<dir, backup, brokenCopy, mishaps>> /\ BootOnly

----------------------------------------------------------------------------
(* The process dies. Previews and staging directories are left behind for good*)
InstallCrash ==
  /\ mishaps < MaxMishaps /\ mishaps' = mishaps + 1
  /\ preview' = [k \in Tokens |-> None] /\ extracted' = [k \in Tokens |-> FALSE]
  /\ install' = [t \in Installers |-> NoInstall]
  /\ uninstall' = NoUninstall /\ boot' = Off
  /\ brokenCopy' = None
  /\ UNCHANGED <<dir, backup, record, owed, installs, boots>>

InstallNext ==
  \/ \E k \in Tokens, v \in Versions : Preview(k, v)
  \/ \E k \in Tokens : PurgeExpired(k)
  \/ \E t \in Installers :
       \/ \E k \in Tokens : BeginInstall(t, k)
       \/ \E force \in BOOLEAN : Claim(t, force)
       \/ BeginCopy(t) \/ EndCopy(t) \/ Clear(t) \/ MoveAway(t) \/ Place(t)
       \/ MoveFails(t) \/ Rollback(t) \/ RollbackFails(t) \/ Prune(t) \/ RecordHashes(t)
  \/ \E i \in Ids : BeginUninstall(i)
  \/ RemovePlugin \/ RemoveBackup \/ ForgetHashes
  \/ StartPlugins \/ LookAtBackups \/ SetAside \/ PutBack \/ Reload
  \/ InstallCrash

InstallSpec == InstallInit /\ [][InstallNext]_installVars

----------------------------------------------------------------------------
(* Properties.                                                                *)

(* An update never costs the user a plug-in that worked: when a start is done *)
(* that nothing disturbed, a version of it is loaded, whichever was installed,*)
(* whatever step failed and wherever the process died. Excused are an         *)
(* uninstall, an update of what does not load, installs that leave a second   *)
(* directory or backup of the package or remove one they did not make, and an *)
(* install that steps between the two renames of a restore.                   *)
StillWorks == boot.at = "started" /\ boot.undisturbed /\ owed => boot.loaded # {}
=============================================================================
