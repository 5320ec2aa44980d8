--------------------------------- MODULE Outbox ---------------------------------
(***************************************************************************)
(* What the write-ahead event of a query loop promises to the outer state: *)
(* every event is applied once, in the order the loop produced them, and   *)
(* the next one is not produced before.  Once a write to the journal has   *)
(* failed, persistence is degraded and an event may be missed.             *)
(***************************************************************************)
EXTENDS Naturals, Sequences

\* waiting: the event not applied yet, 0 if there is none.
VARIABLES waiting, applied, degraded
vars == <<waiting, applied, degraded>>

Init == waiting = 0 /\ applied = <<>> /\ degraded = FALSE

Produce ==
  /\ waiting = 0
  /\ waiting' \in Nat \ {0}
  /\ \A i \in DOMAIN applied : applied[i] < waiting'
  /\ UNCHANGED <<applied, degraded>>

\* A write that failed may have reached the file all the same.
Apply ==
  /\ waiting # 0
  /\ applied' = Append(applied, waiting)
  /\ waiting' = 0
  /\ degraded' \in {degraded, TRUE}

Degrade == degraded' = TRUE /\ UNCHANGED <<waiting, applied>>

Miss == degraded /\ waiting # 0 /\ waiting' = 0 /\ UNCHANGED <<applied, degraded>>

Next == Produce \/ Apply \/ Degrade \/ Miss

Spec == Init /\ [][Next]_vars
===============================================================================
