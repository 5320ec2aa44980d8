--------------------------- MODULE MCSandboxWorkers ---------------------------
(* Instances of SandboxWorkers for TLC. *)
EXTENDS SandboxWorkers
===============================================================================
