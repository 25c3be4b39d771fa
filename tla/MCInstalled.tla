------------------------------ MODULE MCInstalled ----------------------------
(* Small instances of ConfigStore and PluginInstall for TLC. The initial      *)
(* state chooses which of them moves.                                         *)
EXTENDS ConfigStore, PluginInstall, TLC

VARIABLE part

vars == <<part, storeVars, installVars>>

MCIdOf == <<"a", "b">>

MCInit ==
  /\ StoreInit /\ InstallInit
  /\ \/ part = "store" /\ Holding(dir) = {}
     \/ part = "install" /\ files = EmptyDisk

Store(A) == part = "store" /\ A /\ UNCHANGED <<part, installVars>>
Installing(A) == part = "install" /\ A /\ UNCHANGED <<part, storeVars>>

StoreSteps ==
  \/ \E t \in StoreThreads : Store(TakeLock(t)) \/ Store(CopyToBackup(t)) \/ Store(Replace(t))
                               \/ Store(WriteFails(t))
  \/ Store(StartEngine) \/ Store(LoadConfig) \/ Store(RecoverConfig)
  \/ Store(StripConfig) \/ Store(MigratePlugins) \/ Store(MigrateRules)
  \/ Store(LoadRules) \/ Store(StopEngine) \/ Store(ListRules)
  \/ \E rules \in SUBSET Rules, checked \in BOOLEAN : Store(SaveRules(rules, checked))
  \/ \E p \in Plugins : Store(Toggle(p))
  \/ Store(Approve) \/ Store(ApproveRules)
  \/ \E n \in FileNames : Store(Damage(n))
  \/ Store(LoseSecret) \/ Store(Crash)

InstallSteps ==
  \/ \E k \in Tokens, v \in Versions : Installing(Preview(k, v))
  \/ \E k \in Tokens : Installing(PurgeExpired(k))
  \/ \E t \in Installers, k \in Tokens : Installing(BeginInstall(t, k))
  \/ \E t \in Installers, force \in BOOLEAN : Installing(Claim(t, force))
  \/ \E t \in Installers :
       \/ Installing(BeginCopy(t)) \/ Installing(EndCopy(t)) \/ Installing(Clear(t))
       \/ Installing(MoveAway(t)) \/ Installing(Place(t)) \/ Installing(MoveFails(t))
       \/ Installing(Rollback(t)) \/ Installing(RollbackFails(t)) \/ Installing(Prune(t))
       \/ Installing(RecordHashes(t))
  \/ \E i \in Ids : Installing(BeginUninstall(i))
  \/ Installing(RemovePlugin) \/ Installing(RemoveBackup) \/ Installing(ForgetHashes)
  \/ Installing(StartPlugins) \/ Installing(LookAtBackups) \/ Installing(SetAside)
  \/ Installing(PutBack) \/ Installing(Reload) \/ Installing(InstallCrash)

MCNext == StoreSteps \/ InstallSteps
MCSpec == MCInit /\ [][MCNext]_vars

Alike == Permutations(Installers) \cup Permutations(Tokens)
=============================================================================
