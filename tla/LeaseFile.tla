------------------------------ MODULE LeaseFile ------------------------------
(***************************************************************************)
(* The lease file coordination/leader_lease.json of one run, and the       *)
(* operations LeaderLeaseManager performs on it while it holds             *)
(* leader_lease.lock (src/open_deep_research/tasks/lease.py).  Each        *)
(* operator is the result of one locked read-modify-write.                 *)
(*                                                                         *)
(* Only the comparison of lease_expires_at with time.time() is ever used,  *)
(* so a lease carries the time it has left, ttl, instead of two instants;  *)
(* the passage of time decreases ttl.  acquired_at, heartbeat_at and pid   *)
(* are reported and never read back: they are left out.                    *)
(***************************************************************************)
EXTENDS Naturals

CONSTANTS
  OwnerIds,      \* values of owner_instance_id
  NoOwner,       \* owner of a lease file that does not exist yet
  LeaseSeconds   \* lease_seconds

ASSUME LeaseFileAssumption ==
  /\ NoOwner \notin OwnerIds
  /\ LeaseSeconds \in Nat \ {0}

LeaderLease == [owner : OwnerIds \cup {NoOwner}, token : Nat, ttl : 0 .. LeaseSeconds]

\* No file: the first acquire counts its token from 0.
NoLease == [owner |-> NoOwner, token |-> 0, ttl |-> 0]

Live(l) == l.ttl > 0

\* acquire() raises LeaseConflictError.
Conflict(l, o) == Live(l) /\ l.owner # o

SameLiveEpoch(l, o) == Live(l) /\ l.owner = o

\* Mutant: an expired lease of the same owner keeps its epoch.
Acquired_KeepsOwnLapsedToken(l, o) ==
  [owner |-> o,
   token |-> IF l.owner = o THEN l.token ELSE l.token + 1,
   ttl   |-> LeaseSeconds]

\* Mutant: the token counts acquisitions by foreign owners only, from the
\* caller's point of view, so a takeover of an expired lease reuses it.
Acquired_TokenNotAdvanced(l, o) ==
  [owner |-> o,
   token |-> IF l.token = 0 THEN 1 ELSE l.token,
   ttl   |-> LeaseSeconds]

\* What acquire() writes: the live epoch of the same owner is refreshed, any
\* other acquisition opens a new epoch.
Acquired(l, o) ==
  [owner |-> o,
   token |-> IF SameLiveEpoch(l, o) THEN l.token ELSE l.token + 1,
   ttl   |-> LeaseSeconds]

\* Mutant: the tests are joined the wrong way round, so a token that has been
\* superseded passes.
HoldsEpoch_AnyOwner(l, o, t) == l.token >= t

\* The owner and token test of renew, run_fenced and release.
HoldsEpoch(l, o, t) == l.owner = o /\ l.token = t

\* Mutant: the expiry is not looked at.
FenceHolds_IgnoresExpiry(l, o, t) == HoldsEpoch(l, o, t)

\* Mutant: any live lease lets the commit through.
FenceHolds_AnyLiveLease(l, o, t) == Live(l) /\ t > 0

\* The test of renew, run_fenced, is_owner and of RunContextStore._fence_guard:
\* the exact epoch, and still unexpired.
FenceHolds(l, o, t) == HoldsEpoch(l, o, t) /\ Live(l)

\* Mutant: renewing extends the old deadline instead of starting a new one.
Renewed_Extends(l) == [l EXCEPT !.ttl = l.ttl + LeaseSeconds]

Renewed(l)  == [l EXCEPT !.ttl = LeaseSeconds]
Released(l) == [l EXCEPT !.ttl = 0]

\* One time unit passes.
Elapsed(l)  == [l EXCEPT !.ttl = l.ttl - 1]
==============================================================================
