------------------------------ MODULE MCTaskPool ------------------------------
(* Instances of TaskPool for TLC. *)
EXTENDS TaskPool
===============================================================================
