--------------------------- MODULE MCRuleScheduler --------------------------
(* Small instances of RuleScheduler for TLC.                                *)
EXTENDS RuleScheduler, TLC

CONSTANTS k1, k2

Setting(mode, max, limit) ==
  [mode |-> mode, max_concurrency |-> max, queue_limit |-> limit]

(* Rule k1 is switched between replace and single by edits, which may also  *)
(* shorten the line of rule k2.                                             *)
TwoRules ==
  k1 :> {Setting("replace", 0, 0), Setting("single", 0, 0)}
  @@ k2 :> {Setting("queue", 0, 0), Setting("queue", 0, 1)}

(* A rule whose runs queue one behind the other.                            *)
OneRule == k1 :> {Setting("queue", 0, 0)}

(* One worker for a rule that queues and a rule that does not.              *)
OneWorker == k1 :> {Setting("queue", 0, 0)} @@ k2 :> {Setting("parallel", 0, 0)}

Symmetry == Permutations(Run)
=============================================================================
