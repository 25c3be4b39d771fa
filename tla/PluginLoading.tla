---------------------------- MODULE PluginLoading ----------------------------
(* How the folders that claim one plug-in id become a function that rules     *)
(* call: the engine scans and judges them once (PluginLoader.load), the first *)
(* caller imports the accepted one (materialize_entry), and an administrator  *)
(* plug-in is authorised for the engine's session (sudo.py). Callers race     *)
(* each other, edits of the folders, the end of the engine and the next one.  *)
EXTENDS Naturals, Sequences, FiniteSets

CONSTANTS Workers,       \* threads that run rules
          Api,           \* the API's thread, which opens editors
          Reloader,      \* the thread that prepares rules
          Unheld,
          MaxEdits       \* bound: times a folder changes while the engine lives

Threads == Workers \cup {Api, Reloader}

(* The folders that may claim the id, in the order of auto_load.              *)
Folders == <<"shipped action", "own trigger", "own action">>
FolderNames == {Folders[i] : i \in DOMAIN Folders}

ASSUME LoadingConstants ==
  /\ Unheld \notin Threads \cup FolderNames /\ MaxEdits \in Nat
KindOf(f) == IF f = "own trigger" THEN "trigger" ELSE "action"
Shipped(f) == f = "shipped action"

(* What a folder holds, as far as the loader tells it apart. A folder that is *)
(* switched off, or made for another platform, is passed over.                *)
Fine == [flaw |-> "none", sign |-> "release", admin |-> FALSE, runs |-> "well",
         commands |-> FALSE, build |-> 1]
Contents ==
  {[Fine EXCEPT !.commands = TRUE]}
    \cup {[Fine EXCEPT !.flaw = x] : x \in {"unreadable", "schema", "passed over", "forbidden",
                                          "undeclared"}}
    \cup [flaw : {"none"}, sign : {"release", "author", "none"}, admin : BOOLEAN,
          runs : {"well"}, commands : {FALSE}, build : {1}]
    \cup {[Fine EXCEPT !.runs = r] : r \in {"isolated", "import fails", "setup fails",
                                          "handlers fail"}}
Edited == {[Fine EXCEPT !.build = 2], [Fine EXCEPT !.sign = "none"],
           [Fine EXCEPT !.flaw = "unreadable"]}
NoFolder == [Fine EXCEPT !.flaw = "absent"]
Files(c) == [c EXCEPT !.sign = "any"]     \* a signature is not part of the snapshot
NoRun == [Fine EXCEPT !.flaw = "not loaded"]
NoFiles == Files(NoRun)

VARIABLES mode,          \* security_mode: "strict" or "normal"
          disk,          \* what each folder holds
          off,           \* the user disabled the id
          manifest,      \* the recorded hashes of the user's plug-in
          scanned,       \* folders scanned
          pending,       \* the folder and content accepted, not yet imported
          meta,          \* the folder whose metadata is published
          claim,         \* plugin_roots, plugin_kinds
          run,           \* the content whose function is registered
          handlers,      \* the content whose commands are registered
          holder,        \* _materialize_lock
          thread,        \* what each thread is doing
          diagnosed,     \* folders with a recorded error
          session,       \* "ours", "none", or "next": whose token sudo.py holds
          admins,        \* the modules authorised, by engine and content
          elevated,      \* commands run as administrator, by session and content
          engineLife,    \* "live", "closed", "cleared"
          edits

verdictVars == <<mode, off, manifest, scanned, diagnosed>>
registryVars == <<pending, meta, claim, run, handlers>>
adminVars == <<session, admins, elevated>>
loadingVars == <<verdictVars, registryVars, adminVars, disk, holder, thread, engineLife, edits>>

Idle == [doing |-> "free", folder |-> Unheld, content |-> NoRun]
NoEntry == [folder |-> Unheld, content |-> NoRun]

NothingScanned ==
  /\ scanned = 0 /\ pending = NoEntry /\ meta = Unheld /\ claim = Unheld
  /\ run = NoRun /\ handlers = NoRun /\ holder = Unheld
  /\ thread = [t \in Threads |-> Idle] /\ diagnosed = {}
  /\ session = "ours" /\ admins = {} /\ elevated = {} /\ engineLife = "live" /\ edits = 0

LoadingInit ==
  /\ mode \in {"strict", "normal"} /\ off \in BOOLEAN
  /\ disk \in [FolderNames -> Contents \cup {NoFolder}]
  /\ Cardinality({f \in FolderNames : disk[f] \notin {NoFolder, Fine}}) <= 1
  /\ manifest \in {NoFiles} \cup {Files(disk[f]) : f \in {g \in FolderNames : ~Shipped(g)}}
  /\ NothingScanned

----------------------------------------------------------------------------
(* The verdict on a folder: evaluate_plugin and validate_plugin_signature.    *)
SignatureKind(f, c) ==
  CASE c.sign = "release" -> IF Shipped(f) THEN "official" ELSE "official-legacy"
    [] c.sign = "author" -> IF Shipped(f) THEN "none" ELSE "author"
    [] OTHER -> "none"
Strictly(f, c) ==
  /\ SignatureKind(f, c) # "none" /\ c.flaw # "undeclared"
  /\ c.admin => SignatureKind(f, c) = "official"
Allowed(f, c) == c.flaw # "forbidden" /\ (mode = "strict" => Strictly(f, c))

(* verify_plugin_integrity_from_hashes: the first time is recorded, which     *)
(* may fail.                                                                  *)
Recorded(f, c, saved) == Shipped(f) \/ manifest = Files(c) \/ (manifest = NoFiles /\ saved)

CanRead(c) == c.flaw \notin {"absent", "unreadable"}
Considered(c) == CanRead(c) /\ c.flaw \notin {"schema", "passed over"} /\ ~off
Admitted(f, c, saved) ==
  /\ Considered(c) /\ Allowed(f, c) /\ (mode = "strict" => Recorded(f, c, saved))
  /\ claim = Unheld \/ KindOf(claim) = KindOf(f)
PassedOver(c) ==
  c.flaw \in {"absent", "passed over"} \/ (off /\ c.flaw \notin {"unreadable", "schema"})

(* PluginLoader.load on the next folder. A later folder of the same kind      *)
(* takes the id over; nothing is imported yet.                                *)
LoadFolder(saved) ==
  /\ scanned < Len(Folders) /\ scanned' = scanned + 1
  /\ LET f == Folders[scanned + 1]  c == disk[f]
         checked == Considered(c) /\ Allowed(f, c)
     IN /\ manifest' = IF checked /\ ~Shipped(f) /\ manifest = NoFiles /\ saved
                       THEN Files(c) ELSE manifest
        /\ IF Admitted(f, c, saved)
           THEN /\ pending' = [folder |-> f, content |-> c] /\ meta' = f /\ claim' = f
                /\ UNCHANGED diagnosed
           ELSE /\ diagnosed' = IF PassedOver(c) THEN diagnosed ELSE diagnosed \cup {f}
                /\ UNCHANGED <<pending, meta, claim>>
  /\ UNCHANGED <<mode, off, run, handlers, adminVars, disk, holder, thread, engineLife, edits>>

----------------------------------------------------------------------------
(* The callers.                                                               *)
ThreadDoes(t, doing) == thread' = [thread EXCEPT ![t].doing = doing]
ThreadLeaves(t, doing) == ThreadDoes(t, doing) /\ holder' = Unheld

(* resolve_action, resolve_trigger, and extension_handler, which looks for a  *)
(* command first. The function is looked up outside the lock.                 *)
Resolve(t) ==
  /\ scanned = Len(Folders) /\ thread[t].doing = "free"
  /\ meta # Unheld /\ (KindOf(meta) = "trigger" <=> t = Reloader)
  /\ thread' = [thread EXCEPT ![t] =
       CASE run # NoRun -> [doing |-> "done", folder |-> claim, content |-> run]
         [] run = NoRun /\ pending = NoEntry -> [Idle EXCEPT !.doing = "done"]
         [] OTHER -> [doing |-> "waiting", folder |-> pending.folder, content |-> pending.content]]
  /\ UNCHANGED <<verdictVars, registryVars, adminVars, disk, holder, engineLife, edits>>

(* materialize_entry, up to reading the folder again.                         *)
EnterLoading(t) ==
  /\ thread[t].doing = "waiting" /\ holder = Unheld
  /\ IF run # NoRun
     THEN /\ thread' = [thread EXCEPT ![t].doing = "done", ![t].content = run]
          /\ UNCHANGED <<holder, claim>>
     ELSE ThreadDoes(t, "reading") /\ holder' = t /\ claim' = thread[t].folder
  /\ UNCHANGED <<verdictVars, pending, meta, run, handlers, adminVars, disk, engineLife, edits>>

(* fail: nothing of the plug-in stays.                                        *)
FailLoading(t) ==
  /\ run' = NoRun /\ meta' = Unheld /\ claim' = Unheld /\ pending' = NoEntry
  /\ handlers' = NoRun /\ diagnosed' = diagnosed \cup {thread[t].folder}
  /\ thread' = [thread EXCEPT ![t].doing = "done", ![t].content = NoRun] /\ holder' = Unheld
  /\ UNCHANGED <<mode, off, manifest, scanned, adminVars, disk, engineLife, edits>>

RegisterRun(t) ==
  /\ run' = thread[t].content /\ meta' = thread[t].folder /\ claim' = thread[t].folder
  /\ pending' = NoEntry

(* Mutant: the signature alone is compared.                                   *)
UnchangedSignature(f, now, before) ==
  CanRead(now) /\ SignatureKind(f, now) = SignatureKind(f, before)

(* The same files and the same kind of signature as when they were judged.    *)
Unchanged(f, now, before) ==
  UnchangedSignature(f, now, before) /\ Files(now) = Files(before)

(* What is imported is what was read just now. An isolated action is not      *)
(* imported here.                                                             *)
ReadAgain(t) ==
  /\ thread[t].doing = "reading"
  /\ LET f == thread[t].folder  now == disk[f]
     IN /\ Unchanged(f, now, thread[t].content)
        /\ IF now.runs = "isolated" /\ KindOf(f) = "action"
           THEN /\ run' = now /\ meta' = f /\ claim' = f /\ pending' = NoEntry
                /\ thread' = [thread EXCEPT ![t].doing = "done", ![t].content = now]
                /\ holder' = Unheld
           ELSE /\ thread' = [thread EXCEPT ![t].doing = "importing", ![t].content = now]
                /\ UNCHANGED <<run, meta, claim, pending, holder>>
  /\ UNCHANGED <<verdictVars, handlers, adminVars, disk, engineLife, edits>>
RefuseChanged(t) ==
  /\ thread[t].doing = "reading"
  /\ ~Unchanged(thread[t].folder, disk[thread[t].folder], thread[t].content)
  /\ FailLoading(t)

(* The module runs; it is visible to others from here on.                     *)
Import(t) ==
  /\ thread[t].doing = "importing" /\ thread[t].content.runs # "import fails"
  /\ RegisterRun(t) /\ ThreadDoes(t, "setting up")
  /\ UNCHANGED <<verdictVars, handlers, adminVars, disk, holder, engineLife, edits>>
ImportFails(t) ==
  thread[t].doing = "importing" /\ thread[t].content.runs = "import fails" /\ FailLoading(t)

FailsSetup(t) ==
  KindOf(thread[t].folder) = "trigger" /\ thread[t].content.runs = "setup fails"
SetUp(t) ==
  /\ thread[t].doing = "setting up" /\ ~FailsSetup(t)
  /\ ThreadDoes(t, IF thread[t].content.admin THEN "authorising" ELSE "extending")
  /\ UNCHANGED <<verdictVars, registryVars, adminVars, disk, holder, engineLife, edits>>
SetUpFails(t) == thread[t].doing = "setting up" /\ FailsSetup(t) /\ FailLoading(t)

(* authorize_plugin: without a session the call fails and takes the whole     *)
(* import with it, another engine's session only refuses.                     *)
Authorise(t) ==
  /\ thread[t].doing = "authorising"
  /\ CASE session = "none" -> ThreadLeaves(t, "failed") /\ UNCHANGED admins
       [] session = "next" -> ThreadDoes(t, "extending") /\ UNCHANGED <<holder, admins>>
       [] OTHER -> /\ ThreadDoes(t, "extending") /\ UNCHANGED holder
                   /\ admins' = admins \cup {<<"ours", thread[t].content>>}
  /\ UNCHANGED <<verdictVars, registryVars, session, elevated, disk, engineLife, edits>>

(* _load_extensions.                                                          *)
LoadExtensions(t) ==
  /\ thread[t].doing = "extending" /\ ThreadLeaves(t, "done")
  /\ LET c == thread[t].content
     IN /\ handlers' = IF c.commands /\ c.runs # "handlers fail" THEN c ELSE handlers
        /\ diagnosed' = IF c.runs = "handlers fail" THEN diagnosed \cup {thread[t].folder}
                        ELSE diagnosed
  /\ UNCHANGED <<mode, off, manifest, scanned, pending, meta, claim, run, adminVars, disk,
                 engineLife, edits>>

(* run_as_admin, from the function the thread was given.                      *)
RunAsAdmin(t) ==
  /\ t \in Workers /\ thread[t].doing = "done" /\ <<"ours", thread[t].content>> \in admins
  /\ elevated' = elevated \cup {<<session, thread[t].content>>}
  /\ UNCHANGED <<verdictVars, registryVars, session, admins, disk, holder, thread, engineLife, edits>>

CallAgain(t) ==
  /\ thread[t].doing \in {"done", "failed"} /\ thread' = [thread EXCEPT ![t] = Idle]
  /\ UNCHANGED <<verdictVars, registryVars, adminVars, disk, holder, engineLife, edits>>

----------------------------------------------------------------------------
(* Around them.                                                               *)
(* The folder that has the id changes; one that does not is never read again. *)
EditFolder(f, c) ==
  /\ edits < MaxEdits /\ edits' = edits + 1
  /\ f = claim /\ scanned = Len(Folders) /\ c # disk[f] /\ disk' = [disk EXCEPT ![f] = c]
  /\ UNCHANGED <<verdictVars, registryVars, adminVars, holder, thread, engineLife>>

(* close, which shutdown repeats: end_engine_session refuses another token.   *)
EndsSession == session = "ours"

CloseEngine ==
  /\ scanned = Len(Folders) /\ engineLife' = "closed" /\ engineLife # "cleared"
  /\ session' = (IF EndsSession THEN "none" ELSE session)
  /\ admins' = (IF EndsSession THEN {} ELSE admins)
  /\ UNCHANGED <<verdictVars, registryVars, elevated, disk, holder, thread, edits>>

(* _shutdown_plugins, once the rules are over; the API's thread may be in the *)
(* middle of an import, whose lock is not taken.                              *)
ClearRegistry ==
  /\ engineLife = "closed" /\ engineLife' = "cleared"
  /\ \A t \in Workers \cup {Reloader} : thread[t].doing \in {"free", "done", "failed"}
  /\ run' = NoRun /\ meta' = Unheld /\ claim' = Unheld /\ pending' = NoEntry /\ handlers' = NoRun
  /\ UNCHANGED <<verdictVars, adminVars, disk, holder, thread, edits>>

(* create_engine of the next generation, and what it authorises.              *)
NextEngine ==
  /\ engineLife # "live" /\ session = "none"
  /\ session' = "next" /\ admins' = {<<"next", Fine>>}
  /\ UNCHANGED <<verdictVars, registryVars, elevated, disk, holder, thread, engineLife, edits>>

LoadingNext ==
  \/ \E saved \in BOOLEAN : LoadFolder(saved)
  \/ \E t \in Threads :
       \/ Resolve(t) \/ EnterLoading(t) \/ ReadAgain(t) \/ RefuseChanged(t)
       \/ Import(t) \/ ImportFails(t) \/ SetUp(t) \/ SetUpFails(t) \/ Authorise(t)
       \/ LoadExtensions(t) \/ RunAsAdmin(t) \/ CallAgain(t)
  \/ \E f \in FolderNames, c \in Edited : EditFolder(f, c)
  \/ CloseEngine \/ ClearRegistry \/ NextEngine

LoadingSpec == LoadingInit /\ [][LoadingNext]_loadingVars

----------------------------------------------------------------------------
(* Properties.                                                                *)
Importing(t) == thread[t].doing \in {"reading", "importing", "setting up", "authorising",
                                     "extending"}

(* A function that rules can call comes from files that were judged and       *)
(* accepted, unchanged since, and recorded in the manifest if they are the    *)
(* user's (in strict mode); its commands come from the same files.            *)
RunsAreVerified ==
  run # NoRun =>
    /\ claim # Unheld /\ Considered(run) /\ Allowed(claim, run)
    /\ mode = "strict" /\ ~Shipped(claim) => manifest = Files(run)
    /\ handlers \in {NoRun, run} /\ run.runs # "import fails"

(* An import that failed leaves nothing behind, one that succeeded is whole,  *)
(* and what was given up is explained.                                        *)
NothingHalfLoaded ==
  engineLife # "cleared" =>
    /\ run = NoRun /\ pending = NoEntry /\ (\A t \in Threads : ~Importing(t)) =>
         meta = Unheld /\ claim = Unheld /\ handlers = NoRun
    /\ run # NoRun => meta = claim /\ pending = NoEntry
    /\ run = NoRun /\ pending = NoEntry /\ scanned = Len(Folders) /\ claim = Unheld =>
         \A f \in FolderNames :
           PassedOver(disk[f]) \/ \E g \in diagnosed : g = f \/ KindOf(g) = KindOf(f)

(* Only modules of the engine whose session it is are authorised, and only    *)
(* an accepted administrator plug-in ever ran a command as administrator,     *)
(* while its engine's session lasted.                                         *)
AuthorisedForTheSession ==
  /\ \A a \in admins : a[1] = session
  /\ \A a \in admins : a[1] = "ours" => a[2].admin
  /\ session = "none" => admins = {}
  /\ session = "next" => \A e \in elevated : e[1] = "ours"
  /\ \A e \in elevated : e[1] = "ours" /\ e[2].admin

LoadedIsVerified == RunsAreVerified /\ NothingHalfLoaded /\ AuthorisedForTheSession
=============================================================================
