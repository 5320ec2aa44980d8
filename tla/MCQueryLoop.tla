----------------------------- MODULE MCQueryLoop -----------------------------
(* Three tools: one not repeatable, two of a synchronous run.              *)
EXTENDS QueryLoop, TLC

CONSTANTS write, topicA, topicB, update

MCCalls == {write, topicA, topicB}
MCUnsafe == {write}
MCParallel == {topicA, topicB}
MCUpdates == {update}
MCSymmetry == Permutations(MCParallel)
==============================================================================
