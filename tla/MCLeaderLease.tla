---------------------------- MODULE MCLeaderLease ----------------------------
(* Three managers: an engine and its pool in one process, and an engine of *)
(* another process that competes for the run.                              *)
EXTENDS LeaderLease

CONSTANTS engineA, poolA, engineB, ownerA, ownerB

MCManagers == {engineA, poolA, engineB}
MCOwnerIds == {ownerA, ownerB}
MCOwnerOf == [m \in MCManagers |-> IF m = engineB THEN ownerB ELSE ownerA]
==============================================================================
