------------------------------ MODULE EpochLock ------------------------------
(***************************************************************************)
(* What the run lease promises, with no file, no clock and no heartbeat: a *)
(* lock whose every grant opens a new epoch, which lapses for good, and    *)
(* under which only the holder of the present epoch commits.               *)
(***************************************************************************)
EXTENDS Naturals

CONSTANTS Owners, Nobody

VARIABLES
  epoch,      \* number of grants so far
  holder,     \* who holds the present epoch; Nobody once it has lapsed
  committed   \* owner and epoch of the latest commit

vars == <<epoch, holder, committed>>

Init ==
  /\ epoch = 0
  /\ holder = Nobody
  /\ committed = [owner |-> Nobody, token |-> 0]

\* Only a free lock is granted, and always as a new epoch.
Grant(o) ==
  /\ holder = Nobody
  /\ holder' = o
  /\ epoch' = epoch + 1
  /\ UNCHANGED committed

\* Release, or the lease running out.
Lapse ==
  /\ holder # Nobody
  /\ holder' = Nobody
  /\ UNCHANGED <<epoch, committed>>

Commit ==
  /\ holder # Nobody
  /\ committed' = [owner |-> holder, token |-> epoch]
  /\ UNCHANGED <<epoch, holder>>

Next == (\E o \in Owners : Grant(o)) \/ Lapse \/ Commit

Spec == Init /\ [][Next]_vars
==============================================================================
