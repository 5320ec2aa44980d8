---------------------------- MODULE MCRunLifecycle ----------------------------
(* A run, the engine that starts it and one that takes it over.            *)
EXTENDS RunLifecycle, TLC

CONSTANTS engineA, engineB

MCEngines == {engineA, engineB}
MCSymmetry == Permutations(MCEngines)
==============================================================================
