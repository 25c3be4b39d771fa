----------------------------- MODULE MCHotReload -----------------------------
(* Small instances of HotReload for TLC.                                    *)
EXTENDS HotReload

CONSTANTS v1, v2, hotkey, timer, old, kept

(* Two versions of the rules: the timer is needed by both, with settings of *)
(* its own in each; the second one has a rule less.                         *)
Needs == [v \in Version |-> IF v = v1 THEN {hotkey, timer} ELSE {timer}]
Rules == [v \in Version |-> IF v = v1 THEN {old, kept} ELSE {kept}]
=============================================================================
