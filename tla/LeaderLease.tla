----------------------------- MODULE LeaderLease -----------------------------
(***************************************************************************)
(* Ownership of one run: LeaderLeaseManager (tasks/lease.py) as used by    *)
(* QueryEngine (acquire_run_lease, _lease_heartbeat, release_run_lease)    *)
(* and by a TeammatePool that inherits the engine's epoch.                 *)
(*                                                                         *)
(* A manager belongs to one engine or pool.  The engine and its pool share *)
(* an owner id and die with the same process; every other engine, in this  *)
(* process or another, has an owner id of its own.  Every file operation   *)
(* is one step (it runs under the file lock, in a worker thread); what the *)
(* coroutine does before it and after it are separate steps, because the   *)
(* event loop runs other coroutines in between, and a cancelled coroutine  *)
(* does not stop the thread it was waiting for.                            *)
(*                                                                         *)
(* Every caller that acts on the lease passes the token it expects, so the *)
(* manager's own copy, LeaderLeaseManager.fence_token, is not modelled.    *)
(***************************************************************************)
EXTENDS LeaseFile, FiniteSets

CONSTANTS
  Managers,   \* LeaderLeaseManager instances
  OwnerOf,    \* the owner_id of each
  MaxToken,   \* bound on the epochs a behaviour opens
  MaxStrays   \* bound on the abandoned calls that are still to run

ASSUME LeaderLeaseAssumption ==
  /\ OwnerOf \in [Managers -> OwnerIds]
  /\ MaxToken \in Nat
  /\ MaxStrays \in Nat

VARIABLES
  lease,      \* leader_lease.json
  phase,      \* where the owner of the manager is in its life cycle
  held,       \* QueryEngine.run_fence_token / TeammatePool.fence_token (0: None)
  call,       \* the token an acquire returned, or a release asks for
  beat,       \* the heartbeat task and the renew call it waits for
  strays,     \* renew and release calls whose caller was cancelled while they ran
  committed   \* owner and epoch of the latest fenced write (history)

vars == <<lease, phase, held, call, beat, strays, committed>>

Phases == {"idle", "granted", "leased", "guest", "closing", "crashed"}
Stages == {"off", "wait", "sent"}

TypeOK ==
  /\ lease \in LeaderLease
  /\ phase \in [Managers -> Phases]
  /\ held \in [Managers -> Nat]
  /\ call \in [Managers -> Nat]
  /\ beat \in [Managers -> [stage : Stages, token : Nat]]
  /\ strays \subseteq [op : {"renew", "release"}, manager : Managers, token : Nat]
  /\ committed \in [owner : OwnerIds \cup {NoOwner}, token : Nat]

NoBeat == [stage |-> "off", token |-> 0]

Init ==
  /\ lease = NoLease
  /\ phase = [m \in Managers |-> "idle"]
  /\ held = [m \in Managers |-> 0]
  /\ call = [m \in Managers |-> 0]
  /\ beat = [m \in Managers |-> NoBeat]
  /\ strays = {}
  /\ committed = [owner |-> NoOwner, token |-> 0]

------------------------------------------------------------------------------
(* Acquiring an epoch                                                       *)

\* The locked write of acquire().  A conflict raises and changes nothing.
AcquireLocked(m) ==
  /\ phase[m] = "idle"
  /\ ~Conflict(lease, OwnerOf[m])
  /\ Acquired(lease, OwnerOf[m]).token <= MaxToken
  /\ lease' = Acquired(lease, OwnerOf[m])
  /\ call' = [call EXCEPT ![m] = lease'.token]
  /\ phase' = [phase EXCEPT ![m] = "granted"]
  /\ UNCHANGED <<held, beat, strays, committed>>

\* acquire_run_lease resumes: the epoch is noted and the heartbeat starts.
AcquireReturn(m) ==
  /\ phase[m] = "granted"
  /\ held' = [held EXCEPT ![m] = call[m]]
  /\ call' = [call EXCEPT ![m] = 0]
  /\ beat' = [beat EXCEPT ![m] = [stage |-> "wait", token |-> 0]]
  /\ phase' = [phase EXCEPT ![m] = "leased"]
  /\ UNCHANGED <<lease, strays, committed>>

\* The caller is cancelled while the thread writes: run_fence_token is still
\* None, so release_run_lease returns without releasing the epoch.
AcquireAbandoned(m) ==
  /\ phase[m] = "granted"
  /\ call' = [call EXCEPT ![m] = 0]
  /\ phase' = [phase EXCEPT ![m] = "idle"]
  /\ UNCHANGED <<lease, held, beat, strays, committed>>

\* A pool takes the epoch over from the engine of the same owner, after
\* is_owner confirmed it; it neither renews nor releases it.
Inherit(m) ==
  /\ phase[m] = "idle"
  /\ \E n \in Managers :
       /\ OwnerOf[n] = OwnerOf[m]
       /\ phase[n] = "leased"
       /\ FenceHolds(lease, OwnerOf[m], held[n])
       /\ held' = [held EXCEPT ![m] = held[n]]
  /\ phase' = [phase EXCEPT ![m] = "guest"]
  /\ UNCHANGED <<lease, call, beat, strays, committed>>

------------------------------------------------------------------------------
(* The heartbeat                                                            *)

\* The loop wakes up and calls renew with the engine's token.
BeatSend(m) ==
  /\ beat[m].stage = "wait"
  /\ held[m] # 0
  /\ beat' = [beat EXCEPT ![m] = [stage |-> "sent", token |-> held[m]]]
  /\ UNCHANGED <<lease, phase, held, call, strays, committed>>

\* renew: any failure ends the heartbeat and asks the run to cancel
\* ("lease_lost").
BeatLocked(m) ==
  /\ beat[m].stage = "sent"
  /\ IF FenceHolds(lease, OwnerOf[m], beat[m].token)
       THEN /\ lease' = Renewed(lease)
            /\ beat' = [beat EXCEPT ![m] = [stage |-> "wait", token |-> 0]]
       ELSE /\ beat' = [beat EXCEPT ![m] = NoBeat]
            /\ UNCHANGED lease
  /\ UNCHANGED <<phase, held, call, strays, committed>>

\* The lock times out, or the file cannot be read or written.
BeatError(m) ==
  /\ beat[m].stage = "sent"
  /\ beat' = [beat EXCEPT ![m] = NoBeat]
  /\ UNCHANGED <<lease, phase, held, call, strays, committed>>

\* The thread of a cancelled heartbeat gets the file lock at last.
StrayRenew(s) ==
  /\ s.op = "renew"
  /\ strays' = strays \ {s}
  /\ lease' = IF FenceHolds(lease, OwnerOf[s.manager], s.token)
                THEN Renewed(lease) ELSE lease
  /\ UNCHANGED <<phase, held, call, beat, committed>>

------------------------------------------------------------------------------
(* Writing and releasing                                                    *)

\* A write that is checked under the lease lock: run_fenced, and every write
\* of RunContextStore and RunEventStore behind _fence_guard.
Commit(m) ==
  /\ phase[m] \in {"leased", "guest"}
  /\ FenceHolds(lease, OwnerOf[m], held[m])
  /\ committed' = [owner |-> OwnerOf[m], token |-> held[m]]
  /\ UNCHANGED <<lease, phase, held, call, beat, strays>>

\* Mutant: the heartbeat is not cancelled and the token not forgotten.
Close_KeepsHeartbeat(m) ==
  /\ phase[m] = "leased"
  /\ call' = [call EXCEPT ![m] = held[m]]
  /\ phase' = [phase EXCEPT ![m] = "closing"]
  /\ UNCHANGED <<lease, held, beat, strays, committed>>

\* release_run_lease up to its release() call, at the end of the run however it
\* ended: the heartbeat is cancelled and the token forgotten first.
Close(m) ==
  /\ phase[m] = "leased"
  /\ call' = [call EXCEPT ![m] = held[m]]
  /\ held' = [held EXCEPT ![m] = 0]
  /\ beat' = [beat EXCEPT ![m] = NoBeat]
  /\ strays' = IF beat[m].stage = "sent"
                 THEN strays \cup {[op |-> "renew", manager |-> m, token |-> beat[m].token]}
                 ELSE strays
  /\ Cardinality(strays') <= MaxStrays
  /\ phase' = [phase EXCEPT ![m] = "closing"]
  /\ UNCHANGED <<lease, committed>>

\* The locked part of release(); FenceLostError leaves the file alone and is
\* swallowed by release_run_lease.
ReleaseLocked(m) ==
  /\ phase[m] = "closing"
  /\ IF HoldsEpoch(lease, OwnerOf[m], call[m])
       THEN /\ lease' = Released(lease)
       ELSE UNCHANGED lease
  /\ call' = [call EXCEPT ![m] = 0]
  /\ phase' = [phase EXCEPT ![m] = "idle"]
  /\ UNCHANGED <<held, beat, strays, committed>>

\* release_run_lease is cancelled; the thread it waited for still releases.
ReleaseAbandoned(m) ==
  /\ phase[m] = "closing"
  /\ strays' = strays \cup {[op |-> "release", manager |-> m, token |-> call[m]]}
  /\ Cardinality(strays') <= MaxStrays
  /\ call' = [call EXCEPT ![m] = 0]
  /\ phase' = [phase EXCEPT ![m] = "idle"]
  /\ UNCHANGED <<lease, held, beat, committed>>

StrayRelease(s) ==
  /\ s.op = "release"
  /\ strays' = strays \ {s}
  /\ lease' = IF HoldsEpoch(lease, OwnerOf[s.manager], s.token)
                THEN Released(lease) ELSE lease
  /\ UNCHANGED <<phase, held, call, beat, committed>>

\* The file lock times out: the epoch is left to run out.
ReleaseError(m) ==
  /\ phase[m] = "closing"
  /\ call' = [call EXCEPT ![m] = 0]
  /\ phase' = [phase EXCEPT ![m] = "idle"]
  /\ UNCHANGED <<lease, held, beat, strays, committed>>

\* A pool that only inherited the epoch forgets it.
GuestClose(m) ==
  /\ phase[m] = "guest"
  /\ held' = [held EXCEPT ![m] = 0]
  /\ phase' = [phase EXCEPT ![m] = "idle"]
  /\ UNCHANGED <<lease, call, beat, strays, committed>>

------------------------------------------------------------------------------
(* The environment                                                          *)

\* The process of an owner dies with everything it had in memory.
Crash(o) ==
  LET dies(m) == OwnerOf[m] = o
      wiped(f) == [m \in Managers |-> IF dies(m) THEN 0 ELSE f[m]]
  IN /\ \E m \in Managers : dies(m) /\ phase[m] # "crashed"
     /\ phase' = [m \in Managers |-> IF dies(m) THEN "crashed" ELSE phase[m]]
     /\ held' = wiped(held)
     /\ call' = wiped(call)
     /\ beat' = [m \in Managers |-> IF dies(m) THEN NoBeat ELSE beat[m]]
     /\ strays' = {s \in strays : ~dies(s.manager)}
     /\ UNCHANGED <<lease, committed>>

Elapse ==
  /\ Live(lease)
  /\ lease' = Elapsed(lease)
  /\ UNCHANGED <<phase, held, call, beat, strays, committed>>

Next ==
  \/ \E m \in Managers :
       \/ AcquireLocked(m) \/ AcquireReturn(m) \/ AcquireAbandoned(m)
       \/ Inherit(m) \/ GuestClose(m)
       \/ BeatSend(m) \/ BeatLocked(m) \/ BeatError(m)
       \/ Commit(m) \/ Close(m) \/ ReleaseLocked(m)
       \/ ReleaseAbandoned(m) \/ ReleaseError(m)
  \/ \E s \in strays : StrayRenew(s) \/ StrayRelease(s)
  \/ \E o \in OwnerIds : Crash(o)
  \/ Elapse

Spec == Init /\ [][Next]_vars

\* Time passes, and a thread that was started runs.  Nothing else is owed:
\* runs may last for ever, and any process may stop.
Fairness ==
  /\ WF_vars(Elapse)
  /\ WF_vars(\E s \in strays : StrayRenew(s) \/ StrayRelease(s))

FairSpec == Spec /\ Fairness

------------------------------------------------------------------------------
(* Properties                                                               *)

\* Two engines that believe they own the run never believe in the same epoch
\* (LeaderLeaseManager.acquire counts fence tokens): a token names one owner.
EpochHasOneOwner ==
  \A m, n \in Managers :
    held[m] # 0 /\ held[m] = held[n] => OwnerOf[m] = OwnerOf[n]

\* An epoch that lapsed, by time or by release, is never live again, however
\* late a renew arrives (the expiry test of LeaderLeaseManager.renew).
EpochNeverRevived ==
  [][lease'.token = lease.token /\ Live(lease') => Live(lease)]_vars

\* Writes checked by the lease reach the disk in the order of their epochs: no
\* engine commits after a successor has (run_fenced, _fence_guard).
CommitsInEpochOrder ==
  [][/\ committed'.token >= committed.token
     /\ committed'.token = committed.token => committed'.owner = committed.owner
        ]_committed

\* A live epoch ends early only at its own owner's hand; closing an engine that
\* was superseded leaves its successor alone (release compares the exact epoch).
OnlyOwnerEndsLiveEpoch ==
  [][lease.ttl > 1 /\ lease'.ttl = 0 =>
       \E m \in Managers :
         /\ OwnerOf[m] = lease.owner
         /\ \/ phase[m] = "closing" /\ call[m] = lease.token
            \/ [op |-> "release", manager |-> m, token |-> lease.token] \in strays]_vars

\* Once the engines of an owner are closed or crashed, its epoch lapses and the
\* run can be taken over, even if the release failed ("the lease will expire
\* after heartbeat stops", release_run_lease).
Deserted(o) ==
  \A m \in Managers : OwnerOf[m] = o => phase[m] \in {"idle", "closing", "crashed"}

DesertedEpochLapses ==
  \A o \in OwnerIds :
    []<>(Deserted(o) => ~(Live(lease) /\ lease.owner = o))

\* The lease implements the lock with epochs.
Lock == INSTANCE EpochLock WITH
  Owners <- OwnerIds,
  Nobody <- NoOwner,
  epoch  <- lease.token,
  holder <- IF Live(lease) THEN lease.owner ELSE NoOwner

ImplementsEpochLock == Lock!Spec
==============================================================================
