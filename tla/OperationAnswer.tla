---------------------------- MODULE OperationAnswer ----------------------------
(***************************************************************************)
(* What the gateway promises of a logical operation, whatever is retried,  *)
(* lost, repeated or taken over: it is answered at most once, the answer   *)
(* stays, and whoever is told an answer is told that one.                  *)
(***************************************************************************)
CONSTANTS Ops

VARIABLES
  decided,  \* operation -> {} or the set of its one answer
  told      \* <<operation, answer>>: what callers were told

vars == <<decided, told>>

Init ==
  /\ decided = [op \in Ops |-> {}]
  /\ told = {}

Tells(op, a) == told' = told \cup {<<op, a>>}

\* The first answer, which the caller that caused it may not hear of.
Decide(op) ==
  /\ decided[op] = {}
  /\ \E a \in decided'[op] :
       /\ decided' = [decided EXCEPT ![op] = {a}]
       /\ Tells(op, a) \/ UNCHANGED told

Tell(op) ==
  /\ \E a \in decided[op] : Tells(op, a)
  /\ UNCHANGED decided

Next == \E op \in Ops : Decide(op) \/ Tell(op)
Spec == Init /\ [][Next]_vars
================================================================================
