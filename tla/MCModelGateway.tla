---------------------------- MODULE MCModelGateway ----------------------------
(* One logical operation, two invocations of it at a time.                 *)
EXTENDS ModelGateway

CONSTANTS report, h1, h2

MCOps == {report}
MCHandlers == {h1, h2}
===============================================================================
