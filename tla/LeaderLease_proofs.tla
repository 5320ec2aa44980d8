-------------------------- MODULE LeaderLease_proofs --------------------------
(***************************************************************************)
(* What the run lease guarantees for any number of engines, pools, owners  *)
(* and seconds.  The inductive invariant follows every token a manager may *)
(* still present to the lease file, also in calls nobody waits for.        *)
(***************************************************************************)
EXTENDS LeaderLease, TLAPS

\* The tokens manager m may still present: its own, the one an acquire returned
\* or a release asks for, the one its renew carries, those of abandoned calls.
Tokens(m) ==
  {held[m], call[m], beat[m].token} \cup {s.token : s \in {r \in strays : r.manager = m}}

\* Token t, held by owner o, is not ahead of the file, and names the present
\* epoch only if the file names o.
Behind(o, t) ==
  /\ t <= lease.token
  /\ t = lease.token => lease.owner = o

LiveIsGranted == Live(lease) => lease.token # 0 /\ lease.owner # NoOwner

TokensBehind ==
  \A m \in Managers : \A t \in Tokens(m) : t # 0 => Behind(OwnerOf[m], t)

TokenNamesOwner ==
  \A m, n \in Managers : \A t \in Tokens(m) \cap Tokens(n) :
    t # 0 => OwnerOf[m] = OwnerOf[n]

CommitBehind ==
  committed.token # 0 => Behind(committed.owner, committed.token)

IInv ==
  /\ TypeOK
  /\ LiveIsGranted
  /\ TokensBehind
  /\ TokenNamesOwner
  /\ CommitBehind

------------------------------------------------------------------------------
(* Type correctness                                                         *)

\* Acquired, Renewed, Released and Elapsed (the four writes of
\* LeaderLeaseManager and time) leave a well-formed lease file.
LEMMA LeaseOps ==
  ASSUME NEW l \in LeaderLease
  PROVE  /\ \A o \in OwnerIds : Acquired(l, o) \in LeaderLease
         /\ Renewed(l) \in LeaderLease
         /\ Released(l) \in LeaderLease
         /\ Live(l) => Elapsed(l) \in LeaderLease
  BY LeaseFileAssumption
     DEF LeaderLease, Acquired, SameLiveEpoch, Renewed, Released, Elapsed, Live

\* Initially no file, no engine with the run, and no call under way.
LEMMA InitTypeOK == Init => TypeOK
  BY LeaseFileAssumption, LeaderLeaseAssumption
     DEF Init, TypeOK, NoLease, LeaderLease, NoBeat, Phases, Stages

\* Every operation of the manager, the engine and the pool, and the environment,
\* keeps the types of the variables.
LEMMA NextTypeOK == TypeOK /\ [Next]_vars => TypeOK'
<1> SUFFICES ASSUME TypeOK, [Next]_vars PROVE TypeOK'
  OBVIOUS
<1> USE LeaderLeaseAssumption, LeaseOps DEF TypeOK
<1>1. ASSUME NEW m \in Managers, AcquireLocked(m) PROVE TypeOK'
  <2>1. OwnerOf[m] \in OwnerIds
    OBVIOUS
  <2>2. lease' \in LeaderLease
    BY <1>1, <2>1 DEF AcquireLocked
  <2>3. lease'.token \in Nat
    BY <2>2 DEF LeaderLease
  <2> QED
    BY <1>1, <2>2, <2>3 DEF AcquireLocked, Phases
<1>2. ASSUME NEW m \in Managers, AcquireReturn(m) PROVE TypeOK'
  BY <1>2 DEF AcquireReturn, Phases, Stages
<1>3. ASSUME NEW m \in Managers, AcquireAbandoned(m) PROVE TypeOK'
  BY <1>3 DEF AcquireAbandoned, Phases
<1>4. ASSUME NEW m \in Managers, Inherit(m) PROVE TypeOK'
  BY <1>4 DEF Inherit, Phases
<1>5. ASSUME NEW m \in Managers, GuestClose(m) PROVE TypeOK'
  BY <1>5 DEF GuestClose, Phases
<1>6. ASSUME NEW m \in Managers, BeatSend(m) PROVE TypeOK'
  BY <1>6 DEF BeatSend, Stages
<1>7. ASSUME NEW m \in Managers, BeatLocked(m) PROVE TypeOK'
  <2>1. CASE FenceHolds(lease, OwnerOf[m], beat[m].token)
    BY <1>7, <2>1 DEF BeatLocked, Stages
  <2>2. CASE ~FenceHolds(lease, OwnerOf[m], beat[m].token)
    BY <1>7, <2>2 DEF BeatLocked, Stages, NoBeat
  <2> QED
    BY <2>1, <2>2
<1>8. ASSUME NEW m \in Managers, BeatError(m) PROVE TypeOK'
  BY <1>8 DEF BeatError, Stages, NoBeat
<1>9. ASSUME NEW m \in Managers, Commit(m) PROVE TypeOK'
  BY <1>9 DEF Commit
<1>10. ASSUME NEW m \in Managers, Close(m) PROVE TypeOK'
  BY <1>10 DEF Close, Phases, Stages, NoBeat
<1>11. ASSUME NEW m \in Managers, ReleaseLocked(m) PROVE TypeOK'
  BY <1>11 DEF ReleaseLocked, Phases
<1>12. ASSUME NEW m \in Managers, ReleaseAbandoned(m) PROVE TypeOK'
  BY <1>12 DEF ReleaseAbandoned, Phases
<1>13. ASSUME NEW m \in Managers, ReleaseError(m) PROVE TypeOK'
  BY <1>13 DEF ReleaseError, Phases
<1>14. ASSUME NEW s \in strays, StrayRenew(s) PROVE TypeOK'
  BY <1>14 DEF StrayRenew
<1>15. ASSUME NEW s \in strays, StrayRelease(s) PROVE TypeOK'
  BY <1>15 DEF StrayRelease
<1>16. ASSUME NEW o \in OwnerIds, Crash(o) PROVE TypeOK'
  BY <1>16 DEF Crash, Phases, Stages, NoBeat
<1>17. CASE Elapse
  BY <1>17 DEF Elapse
<1>18. CASE UNCHANGED vars
  BY <1>18 DEF vars
<1> QED
  BY <1>1, <1>2, <1>3, <1>4, <1>5, <1>6, <1>7, <1>8, <1>9, <1>10, <1>11, <1>12,
     <1>13, <1>14, <1>15, <1>16, <1>17, <1>18 DEF Next

\* The lease file and what the engines remember of it stay well formed.
THEOREM TypeCorrect == Spec => []TypeOK
<1>1. QED
  BY InitTypeOK, NextTypeOK, PTL DEF Spec

------------------------------------------------------------------------------
(* The inductive invariant                                                  *)

\* A step that hands out no token and leaves owner and token of the file alone
\* (all but acquire, inheriting a token and a commit) keeps the token facts.
LEMMA NoNewToken ==
  ASSUME IInv,
         lease'.owner = lease.owner, lease'.token = lease.token,
         committed' = committed,
         \A m \in Managers : Tokens(m)' \subseteq Tokens(m) \cup {0}
  PROVE  TokensBehind' /\ TokenNamesOwner' /\ CommitBehind'
<1>1. TokensBehind'
  BY DEF IInv, TokensBehind, Behind
<1>2. TokenNamesOwner'
  BY DEF IInv, TokenNamesOwner
<1>3. CommitBehind'
  BY DEF IInv, CommitBehind, Behind
<1> QED
  BY <1>1, <1>2, <1>3

\* acquire() returns the live epoch to the owner it names, and otherwise a token
\* no engine has ever held: either way the token names one owner.
LEMMA AcquireKeepsIInv ==
  ASSUME IInv, TypeOK', NEW m \in Managers, AcquireLocked(m)
  PROVE  IInv'
<1> USE LeaseFileAssumption, LeaderLeaseAssumption
<1> DEFINE o == OwnerOf[m]
<1>0. lease \in LeaderLease /\ lease' \in LeaderLease /\ o \in OwnerIds
  BY DEF IInv, TypeOK
<1> PICK t \in Nat : t = lease'.token
  BY <1>0 DEF LeaderLease
<1>1. /\ lease.token \in Nat
      /\ lease'.owner = o /\ o # NoOwner
      /\ t # 0
  BY <1>0 DEF LeaderLease, IInv, LiveIsGranted, AcquireLocked, Acquired, SameLiveEpoch
<1>2. \/ Live(lease) /\ lease.owner = o /\ t = lease.token
      \/ t = lease.token + 1
  BY DEF AcquireLocked, Acquired, SameLiveEpoch
<1>3. /\ Tokens(m)' \subseteq Tokens(m) \cup {t}
      /\ \A n \in Managers \ {m} : Tokens(n)' = Tokens(n)
  <2>1. /\ call' = [call EXCEPT ![m] = t] /\ call \in [Managers -> Nat]
        /\ held' = held /\ beat' = beat /\ strays' = strays
    BY DEF AcquireLocked, IInv, TypeOK
  <2>2. call'[m] = t /\ \A n \in Managers \ {m} : call'[n] = call[n]
    BY <2>1
  <2> QED
    BY <2>1, <2>2 DEF Tokens
<1>4. \A n \in Managers : Tokens(n) \subseteq Nat
  BY DEF IInv, TypeOK, Tokens
<1>5. LiveIsGranted'
  BY <1>1 DEF LiveIsGranted
<1>6. TokensBehind'
  <2>1. \A n \in Managers, u \in Nat : u # 0 /\ Behind(OwnerOf[n], u) => Behind(OwnerOf[n], u)'
    BY <1>1, <1>2 DEF Behind
  <2>2. Behind(o, t)'
    BY <1>1 DEF Behind
  <2> QED
    BY <1>3, <1>4, <2>1, <2>2 DEF IInv, TokensBehind
<1>7. TokenNamesOwner'
  <2>1. \A n \in Managers : t \in Tokens(n) => OwnerOf[n] = o
    BY <1>1, <1>2 DEF IInv, TokensBehind, Behind
  <2> QED
    BY <1>3, <2>1 DEF IInv, TokenNamesOwner
<1>8. CommitBehind'
  BY <1>1, <1>2 DEF AcquireLocked, IInv, TypeOK, CommitBehind, Behind
<1> QED
  BY <1>5, <1>6, <1>7, <1>8 DEF IInv

\* Initially no token has been handed out.
LEMMA InitIInv == Init => IInv
<1> SUFFICES ASSUME Init PROVE IInv
  OBVIOUS
<1>1. TypeOK
  BY InitTypeOK
<1>2. \A m \in Managers : Tokens(m) = {0}
  BY DEF Init, Tokens, NoBeat
<1> QED
  BY <1>1, <1>2
     DEF Init, IInv, LiveIsGranted, Live, NoLease, TokensBehind, TokenNamesOwner, CommitBehind

\* A pool inherits the token of an engine with its own owner id.
LEMMA InheritKeepsIInv ==
  ASSUME IInv, TypeOK', NEW m \in Managers, Inherit(m)
  PROVE  IInv'
<1>1. PICK n \in Managers :
        /\ OwnerOf[n] = OwnerOf[m]
        /\ held' = [held EXCEPT ![m] = held[n]]
  BY DEF Inherit
<1>2. UNCHANGED <<lease, call, beat, strays, committed>>
  BY DEF Inherit
<1>3. /\ Tokens(m)' \subseteq Tokens(m) \cup Tokens(n)
      /\ \A k \in Managers \ {m} : Tokens(k)' = Tokens(k)
  <2>1. held'[m] = held[n] /\ \A k \in Managers \ {m} : held'[k] = held[k]
    BY <1>1 DEF IInv, TypeOK
  <2> QED
    BY <1>2, <2>1 DEF Tokens
<1>4. TokensBehind'
  BY <1>1, <1>2, <1>3 DEF IInv, TokensBehind, Behind
<1>5. TokenNamesOwner'
  BY <1>1, <1>3 DEF IInv, TokenNamesOwner
<1> QED
  BY <1>2, <1>4, <1>5 DEF IInv, LiveIsGranted, Live, CommitBehind, Behind

\* Every other step of an engine, a pool, an abandoned call or the environment
\* takes tokens away or moves them, and writes owner and token back unchanged.
LEMMA OthersHandOutNoToken ==
  ASSUME TypeOK, Next,
         \A m \in Managers : ~AcquireLocked(m) /\ ~Inherit(m)
  PROVE  /\ lease'.owner = lease.owner /\ lease'.token = lease.token
         /\ \A m \in Managers : Tokens(m)' \subseteq Tokens(m) \cup {0}
         /\ Live(lease') => Live(lease)
<1> DEFINE
  Kept == /\ lease'.owner = lease.owner /\ lease'.token = lease.token
          /\ Live(lease') => Live(lease)
  Fewer == \A k \in Managers : Tokens(k)' \subseteq Tokens(k) \cup {0}
  Moved == \A k \in Managers :
             /\ held'[k] \in Tokens(k) \cup {0}
             /\ call'[k] \in Tokens(k) \cup {0}
             /\ beat'[k].token \in Tokens(k) \cup {0}
             /\ \A r \in strays' : r.manager = k => r.token \in Tokens(k) \cup {0}
<1> USE LeaderLeaseAssumption
<1>0. Moved => Fewer
  BY DEF Tokens
<1>1. \A k \in Managers :
        /\ held[k] \in Tokens(k) /\ call[k] \in Tokens(k) /\ beat[k].token \in Tokens(k)
        /\ \A r \in strays : r.manager = k => r.token \in Tokens(k)
  BY DEF Tokens
<1> HIDE DEF Kept, Fewer, Moved
<1>2. lease' = lease => Kept
  BY DEF Kept
<1>3. Live(lease) /\ lease' = Renewed(lease) => Kept
  BY DEF Kept, Renewed, TypeOK, LeaderLease
<1>4. lease' = Released(lease) => Kept
  BY DEF Kept, Released, Live, TypeOK, LeaderLease
<1>5. ASSUME NEW m \in Managers, AcquireReturn(m) PROVE Kept /\ Moved
  BY <1>1, <1>2, <1>5 DEF AcquireReturn, Moved, TypeOK
<1>6. ASSUME NEW m \in Managers, AcquireAbandoned(m) PROVE Kept /\ Moved
  BY <1>1, <1>2, <1>6 DEF AcquireAbandoned, Moved, TypeOK
<1>7. ASSUME NEW m \in Managers, GuestClose(m) PROVE Kept /\ Moved
  BY <1>1, <1>2, <1>7 DEF GuestClose, Moved, TypeOK
<1>8. ASSUME NEW m \in Managers, BeatSend(m) PROVE Kept /\ Moved
  BY <1>1, <1>2, <1>8 DEF BeatSend, Moved, TypeOK
<1>9. ASSUME NEW m \in Managers, BeatLocked(m) PROVE Kept /\ Moved
  <2>1. CASE FenceHolds(lease, OwnerOf[m], beat[m].token)
    BY <1>1, <1>3, <1>9, <2>1 DEF BeatLocked, FenceHolds, Moved, TypeOK
  <2>2. CASE ~FenceHolds(lease, OwnerOf[m], beat[m].token)
    BY <1>1, <1>2, <1>9, <2>2 DEF BeatLocked, NoBeat, Moved, TypeOK
  <2> QED
    BY <2>1, <2>2
<1>10. ASSUME NEW m \in Managers, BeatError(m) PROVE Kept /\ Moved
  BY <1>1, <1>2, <1>10 DEF BeatError, NoBeat, Moved, TypeOK
<1>11. ASSUME NEW m \in Managers, Commit(m) PROVE Kept /\ Moved
  BY <1>1, <1>2, <1>11 DEF Commit, Moved, TypeOK
<1>12. ASSUME NEW m \in Managers, Close(m) PROVE Kept /\ Moved
  BY <1>1, <1>2, <1>12 DEF Close, NoBeat, Moved, TypeOK
<1>13. ASSUME NEW m \in Managers, ReleaseLocked(m) PROVE Kept /\ Moved
  BY <1>1, <1>2, <1>4, <1>13 DEF ReleaseLocked, Moved, TypeOK
<1>14. ASSUME NEW m \in Managers, ReleaseAbandoned(m) PROVE Kept /\ Moved
  BY <1>1, <1>2, <1>14 DEF ReleaseAbandoned, Moved, TypeOK
<1>15. ASSUME NEW m \in Managers, ReleaseError(m) PROVE Kept /\ Moved
  BY <1>1, <1>2, <1>15 DEF ReleaseError, Moved, TypeOK
<1>16. ASSUME NEW s \in strays, StrayRenew(s) PROVE Kept /\ Moved
  BY <1>1, <1>2, <1>3, <1>16 DEF StrayRenew, FenceHolds, Moved
<1>17. ASSUME NEW s \in strays, StrayRelease(s) PROVE Kept /\ Moved
  BY <1>1, <1>2, <1>4, <1>17 DEF StrayRelease, Moved
<1>18. ASSUME NEW o \in OwnerIds, Crash(o) PROVE Kept /\ Moved
  BY <1>1, <1>2, <1>18 DEF Crash, NoBeat, Moved, TypeOK
<1>19. ASSUME Elapse PROVE Kept /\ Moved
  BY <1>1, <1>19 DEF Elapse, Elapsed, Kept, Live, Moved, TypeOK, LeaderLease
<1> QED
  BY <1>0, <1>5, <1>6, <1>7, <1>8, <1>9, <1>10, <1>11, <1>12, <1>13, <1>14, <1>15,
     <1>16, <1>17, <1>18, <1>19 DEF Next, Kept, Fewer

\* Only a fenced write changes the latest commit, and it leaves the rest alone.
LEMMA OnlyCommitCommits ==
  ASSUME Next, \A m \in Managers : ~Commit(m)
  PROVE  committed' = committed
  BY DEF Next, AcquireLocked, AcquireReturn, AcquireAbandoned, Inherit, GuestClose,
         BeatSend, BeatLocked, BeatError, Close, ReleaseLocked, ReleaseAbandoned,
         ReleaseError, StrayRenew, StrayRelease, Crash, Elapse

\* Every step keeps the inductive invariant: acquire and Inherit hand out tokens,
\* Commit records one, all others hand out none.
LEMMA NextIInv == IInv /\ [Next]_vars => IInv'
<1> SUFFICES ASSUME IInv, [Next]_vars PROVE IInv'
  OBVIOUS
<1>1. TypeOK'
  BY NextTypeOK DEF IInv
<1>2. ASSUME NEW m \in Managers, AcquireLocked(m) PROVE IInv'
  BY <1>1, <1>2, AcquireKeepsIInv
<1>3. ASSUME NEW m \in Managers, Inherit(m) PROVE IInv'
  BY <1>1, <1>3, InheritKeepsIInv
<1>4. ASSUME NEW m \in Managers, Commit(m) PROVE IInv'
  <2>1. /\ UNCHANGED <<lease, held, call, beat, strays>>
        /\ committed' = [owner |-> OwnerOf[m], token |-> held[m]]
        /\ lease.token = held[m] /\ lease.owner = OwnerOf[m]
    BY <1>4 DEF Commit, FenceHolds, HoldsEpoch
  <2>2. \A n \in Managers : Tokens(n)' = Tokens(n)
    BY <2>1 DEF Tokens
  <2>3. TokensBehind' /\ TokenNamesOwner'
    BY <2>1, <2>2 DEF IInv, TokensBehind, Behind, TokenNamesOwner
  <2>4. CommitBehind' /\ LiveIsGranted'
    BY <2>1 DEF IInv, TypeOK, LeaderLease, CommitBehind, Behind, LiveIsGranted, Live
  <2> QED
    BY <1>1, <2>3, <2>4 DEF IInv
<1>5. ASSUME Next, \A m \in Managers : ~AcquireLocked(m) /\ ~Inherit(m) /\ ~Commit(m)
      PROVE  IInv'
  <2>1. TypeOK
    BY DEF IInv
  <2>2. /\ lease'.owner = lease.owner /\ lease'.token = lease.token
        /\ \A m \in Managers : Tokens(m)' \subseteq Tokens(m) \cup {0}
        /\ Live(lease') => Live(lease)
        /\ committed' = committed
    BY <1>5, <2>1, OthersHandOutNoToken, OnlyCommitCommits
  <2>3. TokensBehind' /\ TokenNamesOwner' /\ CommitBehind'
    BY <2>2, NoNewToken
  <2> QED
    BY <1>1, <2>2, <2>3 DEF IInv, LiveIsGranted
<1>6. CASE UNCHANGED vars
  BY <1>1, <1>6 DEF vars, IInv, LiveIsGranted, Live, TokensBehind, TokenNamesOwner,
     CommitBehind, Tokens, Behind
<1> QED
  BY <1>2, <1>3, <1>4, <1>5, <1>6

\* So the lease file, the tokens engines hold and the latest fenced write always
\* agree as IInv says.
LEMMA InvariantIInv == Spec => []IInv
  BY InitIInv, NextIInv, PTL DEF Spec

------------------------------------------------------------------------------
(* What follows from it                                                     *)

\* A fence token names one owner: two engines that both believe they hold the
\* run never do so in the same epoch.
THEOREM OneOwnerPerEpoch == Spec => []EpochHasOneOwner
<1>1. IInv => EpochHasOneOwner
  BY DEF IInv, TokenNamesOwner, EpochHasOneOwner, Tokens
<1> QED
  BY <1>1, InvariantIInv, PTL

\* An epoch that ran out or was released is never live again, however late a
\* renew arrives.
THEOREM LapsedForGood == Spec => EpochNeverRevived
<1>1. IInv /\ [Next]_vars => (lease'.token = lease.token /\ Live(lease') => Live(lease))
  <2> SUFFICES ASSUME IInv, [Next]_vars, lease'.token = lease.token, Live(lease')
               PROVE  Live(lease)
    OBVIOUS
  <2> USE DEF IInv
  <2>1. ASSUME NEW m \in Managers, AcquireLocked(m) PROVE Live(lease)
    <3>1. lease.token \in Nat
      BY DEF TypeOK, LeaderLease
    <3> QED
      BY <2>1, <3>1 DEF AcquireLocked, Acquired, SameLiveEpoch
  <2>2. ASSUME NEW m \in Managers, Inherit(m) PROVE Live(lease)
    BY <2>2 DEF Inherit
  <2>3. ASSUME Next, \A m \in Managers : ~AcquireLocked(m) /\ ~Inherit(m) PROVE Live(lease)
    BY <2>3, OthersHandOutNoToken
  <2>4. CASE UNCHANGED vars
    BY <2>4 DEF vars
  <2> QED
    BY <2>1, <2>2, <2>3, <2>4
<1> QED
  BY <1>1, InvariantIInv, PTL DEF Spec, EpochNeverRevived

\* No engine commits after a successor has: fenced writes reach the disk in the
\* order of their epochs.
THEOREM FencedWritesInOrder == Spec => CommitsInEpochOrder
<1> DEFINE
  InOrder == /\ committed'.token >= committed.token
             /\ committed'.token = committed.token => committed'.owner = committed.owner
<1>1. IInv /\ [Next]_vars => InOrder \/ UNCHANGED committed
  <2> SUFFICES ASSUME IInv, [Next]_vars PROVE InOrder \/ UNCHANGED committed
    OBVIOUS
  <2>1. ASSUME NEW m \in Managers, Commit(m) PROVE InOrder
    <3>1. /\ committed' = [owner |-> OwnerOf[m], token |-> held[m]]
          /\ lease.token = held[m] /\ lease.owner = OwnerOf[m] /\ Live(lease)
      BY <2>1 DEF Commit, FenceHolds, HoldsEpoch
    <3>2. committed.token \in Nat /\ lease.token \in Nat /\ lease.token # 0
      BY <3>1 DEF IInv, TypeOK, LeaderLease, LiveIsGranted
    <3> QED
      BY <3>1, <3>2 DEF IInv, CommitBehind, Behind
  <2>2. ASSUME Next, \A m \in Managers : ~Commit(m) PROVE UNCHANGED committed
    BY <2>2, OnlyCommitCommits
  <2>3. CASE UNCHANGED vars
    BY <2>3 DEF vars
  <2> QED
    BY <2>1, <2>2, <2>3
<1> QED
  BY <1>1, InvariantIInv, PTL DEF Spec, CommitsInEpochOrder

\* A live epoch with time left ends only by a release its own owner asked for.
THEOREM OwnersEndTheirEpochs == Spec => OnlyOwnerEndsLiveEpoch
<1> DEFINE
  Asked == \E m \in Managers :
             /\ OwnerOf[m] = lease.owner
             /\ \/ phase[m] = "closing" /\ call[m] = lease.token
                \/ [op |-> "release", manager |-> m, token |-> lease.token] \in strays
<1>1. TypeOK /\ [Next]_vars => (lease.ttl > 1 /\ lease'.ttl = 0 => Asked)
  <2> SUFFICES ASSUME TypeOK, [Next]_vars, lease.ttl > 1, lease'.ttl = 0 PROVE Asked
    OBVIOUS
  <2> USE LeaseFileAssumption
  <2>1. lease \in LeaderLease /\ lease.ttl \in Nat
    BY DEF TypeOK, LeaderLease
  <2>2. lease' # lease /\ lease' # Renewed(lease) /\ lease' # Elapsed(lease)
    BY <2>1 DEF Renewed, Elapsed, LeaderLease
  <2>3. ASSUME NEW m \in Managers PROVE ~AcquireLocked(m)
    BY DEF AcquireLocked, Acquired
  <2>4. ASSUME NEW m \in Managers, ReleaseLocked(m) PROVE Asked
    BY <2>2, <2>4 DEF ReleaseLocked, HoldsEpoch
  <2>5. ASSUME NEW s \in strays, StrayRelease(s) PROVE Asked
    <3>1. HoldsEpoch(lease, OwnerOf[s.manager], s.token)
      BY <2>2, <2>5 DEF StrayRelease
    <3>2. s = [op |-> "release", manager |-> s.manager, token |-> lease.token]
          /\ s.manager \in Managers
      BY <2>5, <3>1 DEF StrayRelease, HoldsEpoch, TypeOK
    <3> QED
      BY <3>1, <3>2 DEF HoldsEpoch
  <2>6. Next
    BY <2>2 DEF vars
  <2> QED
    BY <2>2, <2>3, <2>4, <2>5, <2>6
    DEF Next, AcquireReturn, AcquireAbandoned, Inherit, GuestClose, BeatSend, BeatLocked,
        BeatError, Commit, Close, ReleaseAbandoned, ReleaseError, StrayRenew, Crash, Elapse
<1> QED
  BY <1>1, TypeCorrect, PTL DEF Spec, OnlyOwnerEndsLiveEpoch

------------------------------------------------------------------------------
(* Refinement                                                               *)

\* The lease file with its engines, pools, heartbeats and abandoned calls behaves
\* as a lock whose every grant is a new epoch.
THEOREM LeaseImplementsLock == Spec => ImplementsEpochLock
<1>1. Init => Lock!Init
  BY DEF Init, Lock!Init, NoLease, Live
<1>2. IInv /\ [Next]_vars => [Lock!Next]_(Lock!vars)
  <2> SUFFICES ASSUME IInv, [Next]_vars PROVE Lock!Next \/ UNCHANGED Lock!vars
    OBVIOUS
  <2> USE LeaderLeaseAssumption, LeaseFileAssumption
  <2>1. /\ lease \in LeaderLease
        /\ Live(lease) => lease.owner # NoOwner
    BY DEF IInv, TypeOK, LiveIsGranted
  <2>2. ASSUME NEW m \in Managers, AcquireLocked(m) PROVE Lock!Next \/ UNCHANGED Lock!vars
    <3>1. OwnerOf[m] \in OwnerIds
      OBVIOUS
    <3>2. CASE SameLiveEpoch(lease, OwnerOf[m])
      BY <2>2, <3>2 DEF AcquireLocked, Acquired, SameLiveEpoch, Live, Lock!vars
    <3>3. CASE ~SameLiveEpoch(lease, OwnerOf[m])
      <4>1. ~Live(lease)
        BY <2>2, <3>3 DEF AcquireLocked, Conflict, SameLiveEpoch
      <4>2. Lock!Grant(OwnerOf[m])
        BY <2>2, <3>1, <3>3, <4>1 DEF AcquireLocked, Acquired, Live, Lock!Grant
      <4> QED
        BY <3>1, <4>2 DEF Lock!Next
    <3> QED
      BY <3>2, <3>3
  <2>3. ASSUME NEW m \in Managers, Commit(m) PROVE Lock!Next
    BY <2>1, <2>3 DEF Commit, FenceHolds, HoldsEpoch, Lock!Next, Lock!Commit
  <2>4. ASSUME lease' = Released(lease), UNCHANGED committed
        PROVE  Lock!Next \/ UNCHANGED Lock!vars
    BY <2>1, <2>4 DEF Released, Live, LeaderLease, Lock!Next, Lock!Lapse, Lock!vars
  <2>5. ASSUME Elapse PROVE Lock!Next \/ UNCHANGED Lock!vars
    BY <2>1, <2>5 DEF Elapse, Elapsed, Live, LeaderLease, Lock!Next, Lock!Lapse, Lock!vars
  <2>6. ASSUME Live(lease), lease' = Renewed(lease), UNCHANGED committed
        PROVE  UNCHANGED Lock!vars
    BY <2>1, <2>6 DEF Renewed, Live, LeaderLease, Lock!vars
  <2>7. ASSUME UNCHANGED <<lease, committed>> PROVE UNCHANGED Lock!vars
    BY <2>7 DEF Live, Lock!vars
  <2> QED
    BY <2>2, <2>3, <2>4, <2>5, <2>6, <2>7
    DEF Next, vars, AcquireReturn, AcquireAbandoned, Inherit, GuestClose, BeatSend,
        BeatLocked, FenceHolds, BeatError, Close, ReleaseLocked, ReleaseAbandoned,
        ReleaseError, StrayRenew, StrayRelease, Crash
<1> QED
  BY <1>1, <1>2, InvariantIInv, PTL DEF Spec, ImplementsEpochLock, Lock!Spec
==============================================================================
