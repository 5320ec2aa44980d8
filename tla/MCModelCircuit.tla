--------------------------- MODULE MCModelCircuit ---------------------------
(***************************************************************************)
(* Model checking of ModelCircuit: two models in one chain, two callers.   *)
(***************************************************************************)
EXTENDS ModelCircuit, TLC

CONSTANTS primary, secondary

MCChain == <<primary, secondary>>
MCModels == {primary, secondary}
MCMaxGeneration == [m \in MCModels |-> IF m = primary THEN 4 ELSE 2]
MCMaxSamples == [m \in MCModels |-> IF m = primary THEN 0 ELSE 1]
CallerSymmetry == Permutations(Callers)
=============================================================================
