-------------------------- MODULE RunLifecycle_proofs --------------------------
(***************************************************************************)
(* Proofs about the life of a run, for any number of engines, epochs and   *)
(* I/O errors: types, the order of the owners in journal and event stream, *)
(* the sequence numbers of the journal, the epoch in the manifest.         *)
(***************************************************************************)
EXTENDS RunLifecycle, FiniteSetTheorems, WellFoundedInduction, TLAPS

(***************************************************************************)
(* Types                                                                   *)
(***************************************************************************)

EngineRecord ==
  [pc : PCs, token : Nat, stage : NextStages \cup {"received"},
   scope : {"open", "cancelled", "claimed"}, outcome : Outcomes,
   resumed : BOOLEAN, hosted : BOOLEAN, drain : {"no", "marked", "told"}]

\* What the place of an engine says about its stage and outcome.
Coherent(x) ==
  /\ x.pc = "init" => x.stage = "received"
  /\ x.pc \in {"append", "update"} /\ x.outcome = "running" => x.stage \in DOMAIN Following
  /\ x.pc = "confirm" => x.outcome \in {"completed", "terminated"}
  /\ x.pc = "finale" => x.outcome \in {"completed", "cancelled", "terminated"}

Engs == {x \in EngineRecord : Coherent(x)}

TypeInv ==
  /\ lease \in L!LeaderLease
  /\ manifest \in Manifest
  /\ journal \in Seq(JournalRecord)
  /\ events \in Seq(PublicEvent)
  /\ eng \in [Engines -> Engs]
  /\ control \in {"none", "pending", "processed"}
  /\ sweep \in [pc : {"idle", "listed", "held", "bound", "marked", "told"}, token : Nat]
  /\ faults \in 0 .. MaxFaults

LEMMA TypeInvImplies == TypeInv => TypeOK
  BY DEF TypeInv, TypeOK, Engs, EngineRecord

LEMMA TypeInit == Init => TypeInv
  BY RunLifecycleAssumption
  DEF Init, TypeInv, L!NoLease, L!LeaderLease, NoManifest, Manifest, NoEngine, Engs,
      EngineRecord, Coherent, NoSweep, PCs, Outcomes, NextStages, WorkStages, Statuses

\* What a lease operation leaves behind is a lease.
LEMMA LeaseType ==
  ASSUME lease \in L!LeaderLease, NEW o \in Engines \cup {Sweeper}
  PROVE  /\ L!Acquired(lease, o) \in L!LeaderLease
         /\ L!Acquired(lease, o).token >= lease.token
         /\ L!Acquired(lease, o).owner = o
         /\ L!Released(lease) \in L!LeaderLease
         /\ L!Released(lease).token = lease.token
         /\ L!Live(lease) => /\ L!Elapsed(lease) \in L!LeaderLease
                             /\ L!Elapsed(lease).token = lease.token
  BY DEF L!LeaderLease, L!Acquired, L!Released, L!Elapsed, L!SameLiveEpoch, L!Live

\* The fence lets a write through only with the epoch of the lease.
LEMMA FenceToken ==
  ASSUME NEW o, NEW t, Fenced(o, t)
  PROVE  lease.token = t /\ lease.owner = o
  BY DEF Fenced, L!FenceHolds, L!HoldsEpoch

LEMMA StatusType ==
  ASSUME NEW m \in Manifest, NEW s \in Statuses, NEW b \in BOOLEAN
  PROVE  /\ StatusAfter(m.status, s, b) \in Statuses
         /\ WithStatus(m, s) \in Manifest
         /\ WithStatus(m, s).seq = m.seq
         /\ WithStatus(m, s).token = m.token
         /\ WithStatus(m, s).next = m.next
         /\ Marked(m) \in Manifest
         /\ Marked(m).seq = m.seq
         /\ Marked(m).token = m.token
         /\ Marked(m).next = m.next
<1>1. /\ StatusAfter(m.status, s, b) \in Statuses
      /\ WithStatus(m, s) \in Manifest
      BY DEF StatusAfter, WithStatus, Manifest
<1>2. Marked(m) \in Manifest
      BY DEF Marked, Degraded, StatusAfter, WithStatus, Manifest, Statuses
<1>. QED BY <1>1, <1>2 DEF Marked, Degraded, WithStatus, Manifest

LEMMA RepairedType ==
  ASSUME NEW j \in Seq(JournalRecord)
  PROVE  /\ Repaired(j) \in Seq(JournalRecord)
         /\ Len(Repaired(j)) <= Len(j)
         /\ \A i \in 1..Len(Repaired(j)) : Repaired(j)[i] = j[i]
  BY DEF Repaired

\* A set of line numbers has a last one.
LEMMA LastOf ==
  ASSUME NEW n \in Nat, NEW T \in SUBSET (1..n), T # {}
  PROVE  \E i \in T : \A k \in T : k <= i
<1>. DEFINE D == {n - i : i \in T}
            R == OpToRel(<, Nat)
<1>1. D \subseteq Nat /\ D # {}
  <2>1. \A i \in T : n - i \in Nat
        OBVIOUS
  <2>2. PICK i \in T : TRUE
        OBVIOUS
  <2>3. n - i \in D
        BY <2>2
  <2>. QED BY <2>1, <2>3
<1>2. PICK d \in D : \A x \in D : ~(<<x, d>> \in R)
  <2>1. IsWellFoundedOn(R, Nat)
        BY NatLessThanWellFounded
  <2>. QED BY <1>1, <2>1, WFMin
<1>3. \A x \in D : ~(x < d)
      BY <1>1, <1>2 DEF OpToRel
<1>. QED BY <1>3

\* Where a run is resumed is a stage, or an end.
LEMMA ReplayType ==
  ASSUME NEW m \in Manifest, NEW j \in Seq(JournalRecord)
  PROVE  ReplayNext(m, j) \in NextStages
<1>. DEFINE cs == Checkpoints(Repaired(j))
            last == CHOOSE i \in cs : \A k \in cs : k <= i
<1>1. CASE cs = {}
      BY <1>1 DEF ReplayNext, Manifest
<1>2. CASE cs # {}
  <2>1. cs \in SUBSET (1..Len(Repaired(j)))
        BY RepairedType DEF Checkpoints
  <2>2. \E i \in cs : \A k \in cs : k <= i
    <3>1. Len(Repaired(j)) \in Nat
          BY RepairedType
    <3>. HIDE DEF cs
    <3>. QED BY <1>2, <2>1, <3>1, LastOf
  <2>3. last \in cs
        BY <2>2
  <2>4. last \in 1..Len(j) /\ j[last].next # "none"
        BY <2>1, <2>3, RepairedType DEF Checkpoints
  <2>5. ReplayNext(m, j) = j[last].next
        BY <1>2 DEF ReplayNext
  <2>6. j[last] \in JournalRecord
        BY <2>4
  <2>. HIDE DEF last
  <2>. QED BY <2>4, <2>5, <2>6 DEF JournalRecord
<1>. QED BY <1>1, <1>2

\* A line of an engine is a record, put after the repaired journal.
LEMMA LineType ==
  ASSUME TypeInv, NEW e \in Engines, eng[e].pc \in {"append", "update"}
  PROVE  /\ Due(e).stage \in NextStages \cup {"received", "failed"}
         /\ Due(e).next \in NextStages \cup {"none"}
         /\ Due(e).status \in Statuses
         /\ Line(e) \in Seq(JournalRecord)
<1>1. eng[e] \in Engs
      BY DEF TypeInv
<1>2. /\ Due(e).stage \in NextStages \cup {"received", "failed"}
      /\ Due(e).next \in NextStages \cup {"none"}
      /\ Due(e).status \in Statuses
  <2>1. PICK x \in Engs : x = eng[e]
        BY <1>1
  <2>2. CASE x.outcome = "running"
    <3>1. x.stage \in {"received", "research", "report"}
          BY <2>1, <2>2 DEF Engs, Coherent, Following
    <3>2. /\ Following[x.stage] \in {"research", "report", "completed"}
          BY <3>1 DEF Following
    <3>. QED BY <2>1, <2>2, <3>1, <3>2 DEF Due, NextStages, WorkStages, Statuses
  <2>3. CASE x.outcome = "failed"
        BY <2>1, <2>3 DEF Due, Statuses
  <2>4. CASE x.outcome \in {"completed", "cancelled", "terminated"}
        BY <2>1, <2>4 DEF Due, Statuses, NextStages
  <2>5. x.outcome \in Outcomes
        BY DEF Engs, EngineRecord
  <2>. QED BY <2>2, <2>3, <2>4, <2>5 DEF Outcomes
<1>3. Repaired(journal) \in Seq(JournalRecord)
      BY RepairedType DEF TypeInv
<1>4. [seq |-> NextSeq(manifest, Repaired(journal)), stage |-> Due(e).stage,
       next |-> Due(e).next, writer |-> eng[e].token] \in JournalRecord
      BY <1>1, <1>2, <1>3 DEF NextSeq, JournalRecord, TypeInv, Manifest, Engs, EngineRecord
<1>. QED
  BY <1>2, <1>3, <1>4 DEF Line, Appended

LEMMA WriteType ==
  ASSUME TypeInv, NEW e \in Engines, WriteDone(e) \/ WriteFailed(e)
  PROVE  faults' \in 0 .. MaxFaults
  BY RunLifecycleAssumption DEF TypeInv, WriteDone, WriteFailed

EventTypes == TerminalEvents \cup {"run.created", "run.started", "run.resumed", "run.interrupted"}

\* The stream stays one when an event is put after the others.
LEMMA PublishedType ==
  ASSUME TypeInv, NEW type \in EventTypes, NEW name \in KeyNames, NEW n \in Nat, NEW w \in Nat
  PROVE  Published(events, type, Key(name, n), w) \in Seq(PublicEvent)
<1>1. [type |-> type, key |-> Key(name, n), writer |-> w] \in PublicEvent
      BY DEF PublicEvent, EventTypes, Key
<1>. QED BY <1>1 DEF Published, TypeInv

LEMMA PublishType ==
  ASSUME TypeInv, NEW e \in Engines,
         NEW type \in EventTypes, NEW name \in KeyNames, NEW n \in Nat,
         PublishDone(e, type, Key(name, n)) \/ PublishFailed(e, type, Key(name, n))
  PROVE  /\ events' \in Seq(PublicEvent)
         /\ manifest' \in Manifest
         /\ faults' \in 0 .. MaxFaults
<1>1. eng[e].token \in Nat
      BY DEF TypeInv, Engs, EngineRecord
<1>2. CASE PublishDone(e, type, Key(name, n))
      BY <1>1, <1>2, PublishedType, WriteType DEF PublishDone, TypeInv
<1>3. CASE PublishFailed(e, type, Key(name, n))
  <2>1. events' \in Seq(PublicEvent)
        BY <1>3 DEF PublishFailed, TypeInv
  <2>2. CASE UNCHANGED <<faults, manifest>>
        BY <2>1, <2>2 DEF TypeInv
  <2>3. CASE WriteFailed(e) /\ manifest' = Marked(manifest)
    <3>1. Marked(manifest) \in Manifest
          BY StatusType DEF TypeInv, Statuses
    <3>. QED BY <2>1, <2>3, <3>1, WriteType
  <2>. QED BY <1>3, <2>2, <2>3 DEF PublishFailed
<1>. QED BY <1>2, <1>3

(***************************************************************************)
(* One lemma for each group of actions: they keep the types.               *)
(***************************************************************************)

\* Places that say nothing about stage and outcome.
Plain == PCs \ {"init", "append", "update", "confirm", "finale"}

LEMMA MovedRecord ==
  ASSUME NEW x \in Engs, NEW p \in Plain, NEW t \in Nat, NEW s \in NextStages \cup {"received"}
  PROVE  /\ [x EXCEPT !.pc = p] \in Engs
         /\ [x EXCEPT !.pc = p, !.token = t] \in Engs
         /\ [x EXCEPT !.pc = p, !.stage = s] \in Engs
         /\ [x EXCEPT !.pc = p, !.hosted = TRUE] \in Engs
         /\ [x EXCEPT !.pc = "init", !.stage = "received"] \in Engs
<1>1. x \in EngineRecord /\ p \in PCs /\ "init" \in PCs
      BY DEF Engs, Plain, PCs
<1>2. p \notin {"init", "append", "update", "confirm", "finale"}
      BY DEF Plain
<1>. USE <1>1, <1>2 DEF Engs, EngineRecord, Coherent
<1>3. [x EXCEPT !.pc = p] \in Engs
      OBVIOUS
<1>4. [x EXCEPT !.pc = p, !.token = t] \in Engs
      OBVIOUS
<1>5. [x EXCEPT !.pc = p, !.stage = s] \in Engs
      OBVIOUS
<1>6. [x EXCEPT !.pc = p, !.hosted = TRUE] \in Engs
      OBVIOUS
<1>7. [x EXCEPT !.pc = "init", !.stage = "received"] \in Engs
      OBVIOUS
<1>. QED BY <1>3, <1>4, <1>5, <1>6, <1>7

LEMMA MovedType ==
  ASSUME TypeInv, NEW e \in Engines
  PROVE  /\ eng[e] \in Engs
         /\ NoEngine \in Engs
         /\ \A x \in Engs : [eng EXCEPT ![e] = x] \in [Engines -> Engs]
<1>1. NoEngine \in Engs
      BY DEF NoEngine, Engs, EngineRecord, Coherent, PCs, Outcomes, NextStages, WorkStages
<1>. QED BY <1>1 DEF TypeInv

LEMMA StepType ==
  ASSUME TypeInv, NEW e \in Engines, NEW p \in Plain, Step(e, p)
  PROVE  eng' \in [Engines -> Engs]
<1>1. [eng[e] EXCEPT !.pc = p] \in Engs
      BY MovedType, MovedRecord DEF NextStages
<1>. QED BY <1>1, MovedType DEF Step

LEMMA TypeStarting ==
  ASSUME TypeInv, NEW e \in Engines,
         Create(e) \/ CreateEmbedded(e) \/ ResumeCheck(e) \/ Acquire(e) \/ Bind(e)
  PROVE  TypeInv'
<1>0. eng[e] \in Engs /\ NoEngine \in Engs
      BY MovedType
<1>p. {"posted", "acquired", "bound", "closing"} \subseteq Plain
      BY DEF Plain, PCs
<1>1. CASE Create(e)
  <2>1. eng' \in [Engines -> Engs]
        BY <1>0, <1>1, <1>p, MovedType, MovedRecord DEF Create, NextStages
  <2>2. manifest' \in Manifest
        BY <1>1 DEF Create, NoManifest, Manifest, Statuses, NextStages, WorkStages
  <2>. QED BY <1>1, <2>1, <2>2 DEF Create, TypeInv
<1>2. CASE CreateEmbedded(e)
      BY <1>2, <1>p, StepType DEF CreateEmbedded, TypeInv
<1>3. CASE ResumeCheck(e)
  <2>1. [NoEngine EXCEPT !.pc = "checked", !.resumed = TRUE, !.hosted = TRUE] \in Engs
        BY DEF NoEngine, Engs, EngineRecord, Coherent, PCs, Outcomes, NextStages, WorkStages
  <2>. QED BY <1>3, <2>1, MovedType DEF ResumeCheck, TypeInv
<1>4. CASE Acquire(e)
  <2>1. /\ L!Acquired(lease, e) \in L!LeaderLease
        /\ L!Acquired(lease, e).token \in Nat
        BY LeaseType DEF L!LeaderLease, TypeInv
  <2>2. CASE eng' = [eng EXCEPT ![e] = NoEngine] /\ UNCHANGED lease
        BY <1>4, <2>2, MovedType DEF Acquire, TypeInv
  <2>3. CASE /\ lease' = L!Acquired(lease, e)
             /\ eng' = [eng EXCEPT ![e].pc = "acquired", ![e].token = lease'.token]
    <3>1. [eng[e] EXCEPT !.pc = "acquired", !.token = lease'.token] \in Engs
          BY <1>0, <1>p, <2>1, <2>3, MovedRecord DEF NextStages
    <3>2. eng' \in [Engines -> Engs]
          BY <2>3, <3>1, MovedType
    <3>. QED BY <1>4, <2>1, <2>3, <3>2 DEF Acquire, TypeInv
  <2>. QED BY <1>4, <2>2, <2>3 DEF Acquire
<1>5. CASE Bind(e)
  <2>1. manifest' \in Manifest
        BY <1>5, <1>0 DEF Bind, Manifest, Engs, EngineRecord, TypeInv
  <2>2. /\ Step(e, "bound") => eng' \in [Engines -> Engs]
        /\ [eng[e] EXCEPT !.pc = "closing"] \in Engs
        BY <1>p, <1>0, StepType, MovedRecord DEF NextStages
  <2>3. eng' \in [Engines -> Engs]
        BY <1>5, <2>2, MovedType DEF Bind
  <2>. QED BY <1>5, <2>1, <2>3 DEF Bind, TypeInv
<1>. QED BY <1>1, <1>2, <1>3, <1>4, <1>5

LEMMA TypeNewRun ==
  ASSUME TypeInv, NEW e \in Engines, NewRun(e) \/ Initialize(e)
  PROVE  TypeInv'
<1>0. eng[e] \in Engs
      BY MovedType
<1>p. {"start", "closing"} \subseteq Plain
      BY DEF Plain, PCs
<1>1. CASE NewRun(e)
  <2>1. [eng[e] EXCEPT !.pc = "init", !.stage = "received"] \in Engs
        BY <1>0, <1>p, MovedRecord DEF NextStages
  <2>2. eng' \in [Engines -> Engs]
        BY <1>1, <1>p, <2>1, MovedType, StepType DEF NewRun
  <2>3. "run.created" \in EventTypes /\ "run:created" \in KeyNames
        BY DEF EventTypes, KeyNames
  <2>4. events' \in Seq(PublicEvent) /\ manifest' \in Manifest /\ faults' \in 0 .. MaxFaults
        BY <1>1, <2>3, PublishType DEF NewRun
  <2>. QED BY <1>1, <2>2, <2>4 DEF NewRun, TypeInv
<1>2. CASE Initialize(e)
  <2>1. manifest' \in Manifest
        BY <1>2, <1>0 DEF Initialize, TypeInv, NoManifest, Manifest, Statuses, NextStages, WorkStages,
                          Engs, EngineRecord
  <2>2. eng[e].pc = "init"
        BY <1>2 DEF Initialize
  <2>3. [eng[e] EXCEPT !.pc = "append"] \in Engs
        BY <2>2, <1>0 DEF Engs, EngineRecord, Coherent, PCs, Following
  <2>4. [eng[e] EXCEPT !.pc = "start", !.stage = "research"] \in Engs
        BY <1>0, <1>p, MovedRecord DEF NextStages, WorkStages
  <2>5. eng' \in [Engines -> Engs]
        BY <1>2, <2>3, <2>4, MovedType DEF Initialize
  <2>. QED BY <1>2, <2>1, <2>5 DEF Initialize, TypeInv
<1>. QED BY <1>1, <1>2

\* An exception of the execution, and what follows a checkpoint.
LEMMA ExceptedType ==
  ASSUME TypeInv, NEW e \in Engines
  PROVE  Excepted(e) \in [Engines -> Engs]
<1>1. PICK x \in Engs : x = eng[e]
      BY MovedType
<1>2. [x EXCEPT !.pc = "append", !.outcome = "cancelled"] \in Engs
      BY DEF Engs, EngineRecord, Coherent, PCs, Outcomes
<1>3. [x EXCEPT !.pc = "failing"] \in Engs
      BY DEF Engs, EngineRecord, Coherent, PCs
<1>. QED BY <1>1, <1>2, <1>3, MovedType DEF Excepted

LEMMA OnwardType ==
  ASSUME TypeInv, NEW e \in Engines, eng[e].pc \in {"append", "update"}
  PROVE  Onward(e) \in [Engines -> Engs]
<1>1. PICK x \in Engs : x = eng[e]
      BY MovedType
<1>2. /\ x.outcome \in Outcomes
      /\ x.outcome = "running" => x.stage \in {"received", "research", "report"}
      BY <1>1 DEF Engs, EngineRecord, Coherent, Following
<1>3. /\ [x EXCEPT !.pc = "closing"] \in Engs
      /\ x.outcome \in {"completed", "cancelled", "terminated"} => [x EXCEPT !.pc = "finale"] \in Engs
      /\ x.outcome \in {"completed", "terminated"} => [x EXCEPT !.pc = "confirm"] \in Engs
      BY DEF Engs, EngineRecord, Coherent, PCs
<1>4. x.outcome = "running" =>
        /\ Following[x.stage] \in NextStages
        /\ [x EXCEPT !.pc = "start", !.stage = Following[x.stage]] \in Engs
        /\ [x EXCEPT !.pc = "announce", !.stage = Following[x.stage]] \in Engs
  <2>1. x.outcome = "running" => Following[x.stage] \in NextStages
        BY <1>2 DEF Following, NextStages, WorkStages
  <2>. QED BY <2>1, MovedRecord DEF Plain, PCs
<1>5. CASE x.outcome = "failed"
      BY <1>1, <1>3, <1>5, MovedType DEF Onward
<1>6. CASE x.outcome = "cancelled"
      BY <1>1, <1>3, <1>6, MovedType DEF Onward
<1>7. CASE x.outcome \in {"completed", "terminated"}
      BY <1>1, <1>3, <1>7, MovedType DEF Onward
<1>8. CASE x.outcome = "running"
      BY <1>1, <1>4, <1>8, MovedType DEF Onward
<1>. QED BY <1>2, <1>5, <1>6, <1>7, <1>8 DEF Outcomes

LEMMA ResumesType == TypeInv => Resumes(events) + 1 \in Nat
<1>. SUFFICES ASSUME TypeInv PROVE Resumes(events) + 1 \in Nat
     OBVIOUS
<1>1. IsFiniteSet({i \in DOMAIN events : events[i].type = "run.resumed"})
  <2>1. IsFiniteSet(1 .. Len(events))
        BY FS_Interval DEF TypeInv
  <2>. QED BY <2>1, FS_Subset DEF TypeInv
<1>. QED BY <1>1, FS_CardinalityType DEF Resumes

LEMMA TypeResuming ==
  ASSUME TypeInv, NEW e \in Engines, Replay(e) \/ SetRunning(e) \/ Start(e)
  PROVE  TypeInv'
<1>0. eng[e] \in Engs
      BY MovedType
<1>p. {"leaked", "closing", "replayed", "start", "work"} \subseteq Plain
      BY DEF Plain, PCs
<1>k. /\ {"run.failed", "run.started", "run.resumed"} \subseteq EventTypes
      /\ {"run:terminal", "run:started", "run:resumed"} \subseteq KeyNames
      BY DEF EventTypes, TerminalEvents, KeyNames
<1>1. CASE Replay(e)
  <2>1. [eng[e] EXCEPT !.pc = "replayed", !.stage = ReplayNext(manifest, journal)] \in Engs
        BY <1>0, <1>p, MovedRecord, ReplayType DEF TypeInv
  <2>2. CASE ResumeRefused(manifest, manifest.next)
    <3>1. events' \in Seq(PublicEvent) /\ manifest' \in Manifest /\ faults' \in 0 .. MaxFaults
          BY <1>1, <1>k, <2>2, PublishType DEF Replay
    <3>2. eng' \in [Engines -> Engs]
          BY <1>1, <1>p, <2>2, StepType DEF Replay
    <3>. QED BY <1>1, <3>1, <3>2 DEF Replay, TypeInv
  <2>3. CASE ~ResumeRefused(manifest, manifest.next)
    <3>1. eng' \in [Engines -> Engs]
          BY <1>1, <1>p, <2>1, <2>3, StepType, MovedType DEF Replay
    <3>. QED BY <1>1, <2>3, <3>1 DEF Replay, TypeInv
  <2>. QED BY <2>2, <2>3
<1>2. CASE SetRunning(e)
  <2>1. manifest' \in Manifest
    <3>1. StatusAfter(manifest.status, "running", TRUE) \in Statuses
          BY StatusType DEF TypeInv, Statuses
    <3>. QED BY <1>2, <3>1 DEF SetRunning, TypeInv, Manifest
  <2>2. eng' \in [Engines -> Engs] /\ faults' \in 0 .. MaxFaults
        BY <1>2, <1>p, StepType, WriteType DEF SetRunning
  <2>. QED BY <1>2, <2>1, <2>2 DEF SetRunning, TypeInv
<1>3. CASE Start(e)
  <2>1. PICK type \in EventTypes, name \in KeyNames, n \in Nat :
          \/ PublishDone(e, type, Key(name, n)) /\ Step(e, "work")
          \/ PublishFailed(e, type, Key(name, n)) /\ Step(e, "closing")
    <3>1. CASE eng[e].resumed
      <4>1. Resumes(events) + 1 \in Nat
            BY ResumesType
      <4>. QED BY <1>3, <1>k, <3>1, <4>1 DEF Start
    <3>2. CASE ~eng[e].resumed
          BY <1>3, <1>k, <3>2 DEF Start
    <3>. QED BY <3>1, <3>2
  <2>2. events' \in Seq(PublicEvent) /\ manifest' \in Manifest /\ faults' \in 0 .. MaxFaults
        BY <2>1, PublishType
  <2>3. eng' \in [Engines -> Engs]
        BY <1>p, <2>1, StepType
  <2>. QED BY <1>3, <2>2, <2>3 DEF Start, TypeInv
<1>. QED BY <1>1, <1>2, <1>3

LEMMA TypeWorking ==
  ASSUME TypeInv, NEW e \in Engines, Work(e) \/ StageCancelled(e)
  PROVE  TypeInv'
<1>1. PICK x \in Engs : x = eng[e]
      BY MovedType
<1>2. CASE StageDone(e)
  <2>1. x.stage \in WorkStages
        BY <1>1, <1>2 DEF StageDone
  <2>2. [x EXCEPT !.pc = "append"] \in Engs
        BY <2>1 DEF Engs, EngineRecord, Coherent, PCs, WorkStages, Following
  <2>. QED BY <1>1, <1>2, <2>2, MovedType DEF StageDone, Step, TypeInv
<1>3. CASE StageFails(e) \/ StageCancelled(e)
      BY <1>3, ExceptedType DEF StageFails, StageCancelled, TypeInv
<1>4. CASE Terminate(e)
  <2>1. [x EXCEPT !.pc = "append", !.outcome = "terminated"] \in Engs
        BY DEF Engs, EngineRecord, Coherent, PCs, Outcomes
  <2>. QED BY <1>1, <1>4, <2>1, MovedType DEF Terminate, TypeInv
<1>5. CASE Claim(e)
  <2>0. "append" \in PCs /\ "completed" \in Outcomes /\ x \in EngineRecord
        BY DEF PCs, Outcomes, Engs
  <2>1. [x EXCEPT !.pc = "append", !.scope = "claimed", !.outcome = "completed"] \in Engs
        BY <2>0 DEF Engs, EngineRecord, Coherent
  <2>. QED BY <1>1, <1>5, <2>1, MovedType DEF Claim, TypeInv
<1>. QED BY <1>2, <1>3, <1>4, <1>5 DEF Work

LEMMA TypeCheckpoint ==
  ASSUME TypeInv, NEW e \in Engines, AppendRecord(e) \/ UpdateManifest(e) \/ Confirm(e)
  PROVE  TypeInv'
<1>1. PICK x \in Engs : x = eng[e]
      BY MovedType
<1>2. CASE AppendRecord(e)
  <2>1. eng[e].pc = "append"
        BY <1>2 DEF AppendRecord
  <2>2. faults' \in 0 .. MaxFaults
        BY <1>2, WriteType DEF AppendRecord
  <2>3. CASE WriteDone(e) /\ journal' = Line(e) /\ manifest' = [manifest EXCEPT !.seq = Len(journal')] /\ Step(e, "update")
    <3>1. journal' \in Seq(JournalRecord)
          BY <2>1, <2>3, LineType
    <3>2. [x EXCEPT !.pc = "update"] \in Engs
          BY <1>1, <2>1 DEF Engs, EngineRecord, Coherent, PCs
    <3>3. eng' \in [Engines -> Engs]
          BY <1>1, <2>3, <3>2, MovedType DEF Step
    <3>4. manifest' \in Manifest
          BY <2>3, <3>1 DEF TypeInv, Manifest
    <3>. QED BY <1>2, <2>2, <3>1, <3>3, <3>4 DEF AppendRecord, TypeInv
  <2>4. CASE WriteFailed(e) /\ eng' = Onward(e) /\ UNCHANGED <<journal, manifest>>
        BY <1>2, <2>1, <2>2, <2>4, OnwardType DEF AppendRecord, TypeInv
  <2>. QED BY <1>2, <2>3, <2>4 DEF AppendRecord
<1>3. CASE UpdateManifest(e)
  <2>1. eng[e].pc = "update"
        BY <1>3 DEF UpdateManifest
  <2>2. eng' \in [Engines -> Engs] /\ faults' \in 0 .. MaxFaults
        BY <1>3, <2>1, OnwardType, WriteType DEF UpdateManifest
  <2>3. WithStatus(manifest, Due(e).status) \in Manifest
        BY <2>1, LineType, StatusType DEF TypeInv
  <2>4. manifest' \in Manifest
        BY <1>3, <2>1, <2>3, LineType DEF UpdateManifest, TypeInv, Manifest
  <2>. QED BY <1>3, <2>2, <2>4 DEF UpdateManifest, TypeInv
<1>4. CASE Confirm(e)
  <2>1. x.pc = "confirm" /\ x.outcome \in {"completed", "terminated"}
        BY <1>1, <1>4 DEF Confirm, Engs, Coherent
  <2>2. Due(e).status \in Statuses
        BY <1>1, <2>1 DEF Due, Statuses
  <2>3. manifest' \in Manifest
        BY <1>4, <2>2, StatusType DEF Confirm, TypeInv
  <2>4. [x EXCEPT !.pc = "finale"] \in Engs
        BY <2>1 DEF Engs, EngineRecord, Coherent, PCs
  <2>5. eng' \in [Engines -> Engs] /\ faults' \in 0 .. MaxFaults
        BY <1>1, <1>4, <2>4, MovedType, ExceptedType, WriteType DEF Confirm, Step
  <2>. QED BY <1>4, <2>3, <2>5 DEF Confirm, TypeInv
<1>. QED BY <1>2, <1>3, <1>4

LEMMA TypeEnding ==
  ASSUME TypeInv, NEW e \in Engines, Announce(e) \/ Finale(e) \/ Fail(e) \/ Close(e)
  PROVE  TypeInv'
<1>1. PICK x \in Engs : x = eng[e]
      BY MovedType
<1>p. {"work", "closing"} \subseteq Plain
      BY DEF Plain, PCs
<1>2. CASE Announce(e)
  <2>1. eng' \in [Engines -> Engs]
        BY <1>2, <1>p, StepType, ExceptedType DEF Announce
  <2>2. faults' \in 0 .. MaxFaults
        BY <1>2, WriteType DEF Announce, TypeInv
  <2>. QED BY <1>2, <2>1, <2>2 DEF Announce, TypeInv
<1>3. CASE Finale(e)
  <2>1. x.outcome \in {"completed", "cancelled", "terminated"}
        BY <1>1, <1>3 DEF Finale, Engs, Coherent
  <2>2. PICK type \in EventTypes :
          \/ PublishDone(e, type, Key("run:terminal", 0)) /\ Step(e, "closing")
          \/ /\ PublishFailed(e, type, Key("run:terminal", 0))
             /\ IF eng[e].outcome = "cancelled" THEN Step(e, "closing") ELSE eng' = Excepted(e)
        BY <1>1, <1>3, <2>1 DEF Finale, EventTypes, TerminalEvents
  <2>3. "run:terminal" \in KeyNames
        BY DEF KeyNames
  <2>4. events' \in Seq(PublicEvent) /\ manifest' \in Manifest /\ faults' \in 0 .. MaxFaults
        BY <2>2, <2>3, PublishType
  <2>5. eng' \in [Engines -> Engs]
        BY <1>p, <2>2, StepType, ExceptedType
  <2>. QED BY <1>3, <2>4, <2>5 DEF Finale, TypeInv
<1>4. CASE Fail(e)
  <2>1. "run.interrupted" \in EventTypes /\ "run:interrupted" \in KeyNames
        BY DEF EventTypes, KeyNames
  <2>2. events' \in Seq(PublicEvent) /\ manifest' \in Manifest /\ faults' \in 0 .. MaxFaults
        BY <1>4, <2>1, PublishType DEF Fail
  <2>3. [x EXCEPT !.pc = "append", !.outcome = "failed"] \in Engs
        BY DEF Engs, EngineRecord, Coherent, PCs, Outcomes
  <2>4. eng' \in [Engines -> Engs]
        BY <1>1, <1>4, <2>3, MovedType DEF Fail
  <2>. QED BY <1>4, <2>2, <2>4 DEF Fail, TypeInv
<1>5. CASE Close(e)
  <2>1. lease' \in L!LeaderLease
        BY <1>5, LeaseType DEF Close, TypeInv
  <2>. QED BY <1>5, <2>1, MovedType DEF Close, TypeInv
<1>. QED BY <1>2, <1>3, <1>4, <1>5

LEMMA TypeDisturbed ==
  ASSUME TypeInv, NEW e \in Engines,
         \/ HeartbeatLost(e) \/ CancelLocal(e) \/ ConsumeCancel(e)
         \/ Crash(e) \/ CrashInAppend(e)
  PROVE  TypeInv'
<1>1. PICK x \in Engs : x = eng[e]
      BY MovedType
<1>2. Requested(e) \in [Engines -> Engs]
  <2>1. [x EXCEPT !.scope = IF x.scope = "open" THEN "cancelled" ELSE x.scope] \in Engs
        BY DEF Engs, EngineRecord, Coherent
  <2>. QED BY <1>1, <2>1, MovedType DEF Requested
<1>3. CASE HeartbeatLost(e)
      BY <1>2, <1>3, WriteType DEF HeartbeatLost, TypeInv
<1>4. CASE CancelLocal(e)
      BY <1>2, <1>4 DEF CancelLocal, TypeInv
<1>5. CASE ConsumeCancel(e)
      BY <1>2, <1>5 DEF ConsumeCancel, TypeInv
<1>6. CASE Crash(e)
      BY <1>6, MovedType DEF Crash, TypeInv
<1>7. CASE CrashInAppend(e)
  <2>1. Line(e) \in Seq(JournalRecord)
        BY <1>7, LineType DEF CrashInAppend
  <2>2. Append(Repaired(journal), TornLine) \in Seq(JournalRecord)
    <3>1. TornLine \in JournalRecord
          BY DEF TornLine, JournalRecord
    <3>. QED BY <3>1, RepairedType DEF TypeInv
  <2>3. journal' \in Seq(JournalRecord)
        BY <1>7, <2>1, <2>2 DEF CrashInAppend
  <2>. QED BY <1>7, <2>3, MovedType DEF CrashInAppend, TypeInv
<1>. QED BY <1>3, <1>4, <1>5, <1>6, <1>7

LEMMA TypeDrain ==
  ASSUME TypeInv, NEW e \in Engines, DrainMark(e) \/ DrainPublish(e) \/ DrainKill(e)
  PROVE  TypeInv'
<1>1. PICK x \in Engs : x = eng[e]
      BY MovedType
<1>2. /\ [x EXCEPT !.drain = "marked"] \in Engs
      /\ [x EXCEPT !.drain = "told"] \in Engs
      BY DEF Engs, EngineRecord, Coherent
<1>3. CASE DrainMark(e)
  <2>1. manifest' \in Manifest
    <3>1. manifest \in Manifest /\ "interrupted" \in Statuses
          BY DEF TypeInv, Statuses
    <3>2. WithStatus(manifest, "interrupted") \in Manifest
          BY <3>1, StatusType
    <3>. QED BY <1>3, <3>1, <3>2 DEF DrainMark
  <2>2. faults' \in 0 .. MaxFaults
        BY <1>3, WriteType DEF DrainMark, TypeInv
  <2>3. eng' \in [Engines -> Engs]
        BY <1>1, <1>2, <1>3, MovedType DEF DrainMark
  <2>. QED BY <1>3, <2>1, <2>2, <2>3 DEF DrainMark, TypeInv
<1>4. CASE DrainPublish(e)
  <2>1. "run.interrupted" \in EventTypes /\ "run:interrupted:shutdown" \in KeyNames
        BY DEF EventTypes, KeyNames
  <2>2. eng' \in [Engines -> Engs]
        BY <1>1, <1>2, <1>4, MovedType DEF DrainPublish
  <2>3. CASE Bound(e)
    <3>1. events' \in Seq(PublicEvent) /\ manifest' \in Manifest /\ faults' \in 0 .. MaxFaults
          BY <1>4, <2>1, <2>3, PublishType DEF DrainPublish
    <3>. QED BY <1>4, <2>2, <3>1 DEF DrainPublish, TypeInv
  <2>4. CASE ~Bound(e)
    <3>0. /\ Published(events, "run.interrupted", Key("run:interrupted:shutdown", 0), 0) \in Seq(PublicEvent)
          /\ events \in Seq(PublicEvent)
          BY <2>1, PublishedType DEF TypeInv
    <3>1. events' \in Seq(PublicEvent)
          BY <1>4, <2>4, <3>0 DEF DrainPublish
    <3>. QED BY <1>4, <2>2, <2>4, <3>1 DEF DrainPublish, TypeInv
  <2>. QED BY <2>3, <2>4
<1>5. CASE DrainKill(e)
  <2>1. "closing" \in Plain
        BY DEF Plain, PCs
  <2>2. eng' \in [Engines -> Engs]
        BY <1>5, <2>1, StepType, MovedType DEF DrainKill
  <2>. QED BY <1>5, <2>2 DEF DrainKill, TypeInv
<1>. QED BY <1>3, <1>4, <1>5

LEMMA TypeSweep ==
  ASSUME TypeInv, Sweep
  PROVE  TypeInv'
<1>. USE DEF TypeInv
<1>1. CASE SweepList
      BY <1>1 DEF SweepList, SweepStep
<1>2. CASE SweepAcquire
  <2>1. /\ L!Acquired(lease, Sweeper) \in L!LeaderLease
        /\ L!Acquired(lease, Sweeper).token \in Nat
        BY LeaseType DEF L!LeaderLease
  <2>. QED BY <1>2, <2>1 DEF SweepAcquire, NoSweep
<1>3. CASE SweepBind
      BY <1>3 DEF SweepBind, SweepStep, Manifest
<1>4. CASE SweepMark
  <2>1. "interrupted" \in Statuses
        BY DEF Statuses
  <2>2. WithStatus(manifest, "interrupted") \in Manifest
        BY <2>1, StatusType
  <2>. QED BY <1>4, <2>2 DEF SweepMark, SweepStep
<1>5. CASE SweepPublish
  <2>1. "run.interrupted" \in EventTypes /\ "run:interrupted:startup" \in KeyNames
        BY DEF EventTypes, KeyNames
  <2>2. events' \in Seq(PublicEvent)
        BY <1>5, <2>1, PublishedType DEF SweepPublish
  <2>. QED BY <1>5, <2>2 DEF SweepPublish, SweepStep
<1>6. CASE SweepRelease
      BY <1>6, LeaseType DEF SweepRelease, NoSweep
<1>7. CASE SweepCrash
      BY <1>7 DEF SweepCrash, NoSweep
<1>. QED BY <1>1, <1>2, <1>3, <1>4, <1>5, <1>6, <1>7 DEF Sweep

LEMMA TypeNext == TypeInv /\ [Next]_vars => TypeInv'
<1>. SUFFICES ASSUME TypeInv, [Next]_vars PROVE TypeInv'
     OBVIOUS
<1>1. ASSUME NEW e \in Engines, Engine(e) PROVE TypeInv'
      BY <1>1, TypeStarting, TypeNewRun, TypeResuming, TypeWorking, TypeCheckpoint, TypeEnding
      DEF Engine
<1>2. ASSUME NEW e \in Engines, Work(e) PROVE TypeInv'
      BY <1>2, TypeWorking
<1>3. ASSUME NEW e \in Engines, Environment(e) PROVE TypeInv'
      BY <1>3, TypeStarting, TypeDisturbed, TypeDrain DEF Environment
<1>4. CASE CancelRemote
      BY <1>4 DEF CancelRemote, TypeInv
<1>5. CASE Elapse
      BY <1>5, LeaseType DEF Elapse, TypeInv
<1>6. CASE UNCHANGED vars
      BY <1>6 DEF vars, TypeInv
<1>. QED BY <1>1, <1>2, <1>3, <1>4, <1>5, <1>6, TypeSweep DEF Next

LEMMA TypeAlways == Spec => []TypeInv
<1>1. Init => TypeInv
      BY TypeInit
<1>2. TypeInv /\ [Next]_vars => TypeInv'
      BY TypeNext
<1>. QED BY <1>1, <1>2, PTL DEF Spec

\* Lease, manifest, journal, event stream and engines keep their types, however
\* many engines and epochs there are.
THEOREM TypeCorrect == Spec => []TypeOK
  BY TypeAlways, TypeInvImplies, PTL

(***************************************************************************)
(* What a step may do to the files of the run: epochs only grow, and a     *)
(* line is written with the epoch of the lease, or with none.              *)
(***************************************************************************)

JournalWritten(e) ==
  /\ eng[e].pc = "append" /\ Owns(e) /\ UNCHANGED <<lease, events>>
  /\ \/ journal' = Line(e) /\ manifest'.seq \in {manifest.seq, Len(journal')}
     \/ journal' = Append(Repaired(journal), TornLine) /\ manifest' = manifest

EventWritten ==
  /\ UNCHANGED <<lease, journal>>
  /\ \E v \in PublicEvent : v.writer \in {0, lease.token} /\ events' = Append(events, v)

FileStep ==
  /\ lease'.token >= lease.token
  /\ \/ UNCHANGED <<journal, events>> /\ manifest'.seq \in {0, manifest.seq}
     \/ EventWritten /\ manifest'.seq = manifest.seq
     \/ \E e \in Engines : JournalWritten(e)

\* A step that leaves journal and stream alone, and the manifest's sequence number.
LEMMA QuietStep ==
  ASSUME TypeInv, UNCHANGED <<journal, events>>, lease'.token >= lease.token,
         manifest'.seq \in {0, manifest.seq}
  PROVE  FileStep
  BY DEF FileStep

LEMMA SameLease ==
  ASSUME TypeInv, UNCHANGED lease \/ lease' = L!Released(lease)
  PROVE  lease'.token >= lease.token
<1>1. lease.token \in Nat /\ lease'.token = lease.token
      BY DEF TypeInv, L!LeaderLease, L!Released
<1>. QED BY <1>1

\* An event published is put at the end, or the stream is left alone.
LEMMA PublishedOnce ==
  ASSUME TypeInv, NEW type \in EventTypes, NEW name \in KeyNames, NEW n \in Nat, NEW w \in Nat,
         events' = Published(events, type, Key(name, n), w)
  PROVE  \/ UNCHANGED events
         \/ \E v \in PublicEvent : v.writer = w /\ events' = Append(events, v)
<1>. DEFINE v == [type |-> type, key |-> Key(name, n), writer |-> w]
<1>1. v \in PublicEvent /\ v.writer = w
      BY DEF PublicEvent, EventTypes, Key
<1>2. events' \in {events, Append(events, v)}
      BY DEF Published
<1>. HIDE DEF v
<1>. QED BY <1>1, <1>2

\* The publication of an event is such a step.
LEMMA PublishWrites ==
  ASSUME TypeInv, NEW e \in Engines, UNCHANGED <<lease, journal>>,
         NEW type \in EventTypes, NEW name \in KeyNames, NEW n \in Nat,
         PublishDone(e, type, Key(name, n)) \/ PublishFailed(e, type, Key(name, n))
  PROVE  FileStep
<1>1. lease'.token >= lease.token
      BY SameLease
<1>2. CASE PublishDone(e, type, Key(name, n))
  <2>1. eng[e].token = lease.token /\ eng[e].token \in Nat
        BY <1>2, FenceToken DEF PublishDone, WriteDone, Owns, TypeInv, Engs, EngineRecord
  <2>2. \/ UNCHANGED events
        \/ \E v \in PublicEvent : v.writer = lease.token /\ events' = Append(events, v)
    <3>1. events' = Published(events, type, Key(name, n), lease.token)
          BY <1>2, <2>1 DEF PublishDone
    <3>. QED BY <2>1, <3>1, PublishedOnce
  <2>3. UNCHANGED manifest
        BY <1>2 DEF PublishDone
  <2>. QED BY <1>1, <2>2, <2>3 DEF FileStep, EventWritten
<1>3. CASE PublishFailed(e, type, Key(name, n))
  <2>1. manifest'.seq = manifest.seq
    <3>1. manifest \in Manifest /\ "failed" \in Statuses
          BY DEF TypeInv, Statuses
    <3>2. Marked(manifest).seq = manifest.seq
          BY <3>1, StatusType
    <3>. QED BY <1>3, <3>2 DEF PublishFailed
  <2>2. UNCHANGED events
        BY <1>3 DEF PublishFailed
  <2>. QED BY <1>1, <2>1, <2>2, QuietStep
<1>. QED BY <1>2, <1>3

LEMMA WithStatusSeq ==
  ASSUME TypeInv, NEW s \in Statuses
  PROVE  /\ WithStatus(manifest, s).seq = manifest.seq
         /\ WithStatus(manifest, s).token = manifest.token
         /\ WithStatus(manifest, s).next = manifest.next
  BY StatusType DEF TypeInv

LEMMA FilesStarting ==
  ASSUME TypeInv, NEW e \in Engines,
         Create(e) \/ CreateEmbedded(e) \/ ResumeCheck(e) \/ Acquire(e) \/ Bind(e)
  PROVE  FileStep
<1>1. CASE Create(e)
      BY <1>1, QuietStep, SameLease DEF Create, NoManifest
<1>2. CASE CreateEmbedded(e) \/ ResumeCheck(e)
      BY <1>2, QuietStep, SameLease DEF CreateEmbedded, ResumeCheck
<1>3. CASE Acquire(e)
      BY <1>3, QuietStep, SameLease, LeaseType DEF Acquire, TypeInv
<1>4. CASE Bind(e)
  <2>1. manifest'.seq = manifest.seq
        BY <1>4 DEF Bind, TypeInv, Manifest
  <2>. QED BY <1>4, <2>1, QuietStep, SameLease DEF Bind
<1>. QED BY <1>1, <1>2, <1>3, <1>4

LEMMA FilesRunning ==
  ASSUME TypeInv, NEW e \in Engines,
         NewRun(e) \/ Initialize(e) \/ Replay(e) \/ SetRunning(e) \/ Start(e)
  PROVE  FileStep
<1>k. /\ {"run.created", "run.failed", "run.started", "run.resumed"} \subseteq EventTypes
      /\ {"run:created", "run:terminal", "run:started", "run:resumed"} \subseteq KeyNames
      BY DEF EventTypes, TerminalEvents, KeyNames
<1>1. CASE NewRun(e)
      BY <1>1, <1>k, PublishWrites DEF NewRun
<1>2. CASE Initialize(e)
  <2>1. manifest'.seq \in {0, manifest.seq}
        BY <1>2 DEF Initialize, NoManifest
  <2>. QED BY <1>2, <2>1, QuietStep, SameLease DEF Initialize
<1>3. CASE Replay(e)
  <2>1. CASE ResumeRefused(manifest, manifest.next)
        BY <1>3, <1>k, <2>1, PublishWrites DEF Replay
  <2>2. CASE ~ResumeRefused(manifest, manifest.next)
        BY <1>3, <2>2, QuietStep, SameLease DEF Replay
  <2>. QED BY <2>1, <2>2
<1>4. CASE SetRunning(e)
  <2>1. manifest'.seq = manifest.seq
        BY <1>4 DEF SetRunning, TypeInv, Manifest
  <2>. QED BY <1>4, <2>1, QuietStep, SameLease DEF SetRunning
<1>5. CASE Start(e)
  <2>1. Resumes(events) + 1 \in Nat
        BY ResumesType
  <2>2. CASE eng[e].resumed
        BY <1>5, <1>k, <2>1, <2>2, PublishWrites DEF Start
  <2>3. CASE ~eng[e].resumed
        BY <1>5, <1>k, <2>3, PublishWrites DEF Start
  <2>. QED BY <2>2, <2>3
<1>. QED BY <1>1, <1>2, <1>3, <1>4, <1>5

LEMMA FilesWorking ==
  ASSUME TypeInv, NEW e \in Engines,
         \/ Work(e) \/ StageCancelled(e)
         \/ AppendRecord(e) \/ UpdateManifest(e) \/ Confirm(e)
  PROVE  FileStep
<1>1. CASE Work(e) \/ StageCancelled(e)
      BY <1>1, QuietStep, SameLease
      DEF Work, StageDone, StageFails, StageCancelled, Terminate, Claim
<1>2. CASE AppendRecord(e)
  <2>1. CASE WriteDone(e) /\ journal' = Line(e) /\ manifest' = [manifest EXCEPT !.seq = Len(journal')]
    <3>1. manifest'.seq = Len(journal')
          BY <2>1 DEF TypeInv, Manifest
    <3>2. JournalWritten(e)
          BY <1>2, <2>1, <3>1 DEF AppendRecord, JournalWritten, WriteDone
    <3>. QED BY <1>2, <3>2, SameLease DEF FileStep, AppendRecord
  <2>2. CASE UNCHANGED <<journal, manifest>>
        BY <1>2, <2>2, QuietStep, SameLease DEF AppendRecord
  <2>. QED BY <1>2, <2>1, <2>2 DEF AppendRecord
<1>3. CASE UpdateManifest(e)
  <2>1. Due(e).status \in Statuses
        BY <1>3, LineType DEF UpdateManifest
  <2>2. manifest'.seq = manifest.seq
    <3>1. /\ WithStatus(manifest, Due(e).status) \in Manifest
          /\ WithStatus(manifest, Due(e).status).seq = manifest.seq
          BY <2>1, WithStatusSeq, StatusType DEF TypeInv
    <3>2. PICK m \in Manifest : m = WithStatus(manifest, Due(e).status)
          BY <3>1
    <3>3. \/ UNCHANGED manifest
          \/ manifest' = [m EXCEPT !.next = IF Due(e).next = "none" THEN @ ELSE Due(e).next]
          BY <1>3, <3>2 DEF UpdateManifest
    <3>. QED BY <3>1, <3>2, <3>3 DEF Manifest
  <2>. QED BY <1>3, <2>2, QuietStep, SameLease DEF UpdateManifest
<1>4. CASE Confirm(e)
  <2>1. eng[e].outcome \in {"completed", "terminated"}
        BY <1>4, MovedType DEF Confirm, Engs, Coherent
  <2>2. Due(e).status \in Statuses
        BY <2>1 DEF Due, Statuses
  <2>3. manifest'.seq = manifest.seq
        BY <1>4, <2>2, WithStatusSeq DEF Confirm
  <2>. QED BY <1>4, <2>3, QuietStep, SameLease DEF Confirm
<1>. QED BY <1>1, <1>2, <1>3, <1>4

LEMMA FilesEnding ==
  ASSUME TypeInv, NEW e \in Engines, Announce(e) \/ Finale(e) \/ Fail(e) \/ Close(e)
  PROVE  FileStep
<1>k. /\ EventTypes = {"run.completed", "run.failed", "run.cancelled", "run.created",
                       "run.started", "run.resumed", "run.interrupted"}
      /\ {"run:terminal", "run:interrupted"} \subseteq KeyNames
      BY DEF EventTypes, TerminalEvents, KeyNames
<1>1. CASE Announce(e)
      BY <1>1, QuietStep, SameLease DEF Announce
<1>2. CASE Finale(e)
  <2>1. eng[e].outcome \in {"completed", "cancelled", "terminated"}
        BY <1>2, MovedType DEF Finale, Engs, Coherent
  <2>2. PICK type \in EventTypes :
          PublishDone(e, type, Key("run:terminal", 0)) \/ PublishFailed(e, type, Key("run:terminal", 0))
        BY <1>2, <1>k, <2>1 DEF Finale
  <2>. QED BY <1>2, <1>k, <2>2, PublishWrites DEF Finale
<1>3. CASE Fail(e)
      BY <1>3, <1>k, PublishWrites DEF Fail
<1>4. CASE Close(e)
      BY <1>4, QuietStep, SameLease DEF Close
<1>. QED BY <1>1, <1>2, <1>3, <1>4

LEMMA FilesDisturbed ==
  ASSUME TypeInv, NEW e \in Engines,
         \/ HeartbeatLost(e) \/ CancelLocal(e) \/ ConsumeCancel(e)
         \/ Crash(e) \/ CrashInAppend(e)
         \/ DrainMark(e) \/ DrainPublish(e) \/ DrainKill(e)
  PROVE  FileStep
<1>1. CASE HeartbeatLost(e) \/ CancelLocal(e) \/ ConsumeCancel(e) \/ Crash(e) \/ DrainKill(e)
      BY <1>1, QuietStep, SameLease DEF HeartbeatLost, CancelLocal, ConsumeCancel, Crash, DrainKill
<1>2. CASE CrashInAppend(e)
  <2>1. JournalWritten(e)
        BY <1>2 DEF CrashInAppend, JournalWritten
  <2>. QED BY <1>2, <2>1, SameLease DEF CrashInAppend, FileStep
<1>3. CASE DrainMark(e)
  <2>1. "interrupted" \in Statuses
        BY DEF Statuses
  <2>2. manifest'.seq = manifest.seq
        BY <1>3, <2>1, WithStatusSeq DEF DrainMark
  <2>. QED BY <1>3, <2>2, QuietStep, SameLease DEF DrainMark
<1>4. CASE DrainPublish(e)
  <2>1. "run.interrupted" \in EventTypes /\ "run:interrupted:shutdown" \in KeyNames
        BY DEF EventTypes, KeyNames
  <2>2. CASE Bound(e)
        BY <1>4, <2>1, <2>2, PublishWrites DEF DrainPublish
  <2>3. CASE ~Bound(e)
    <3>1. \/ UNCHANGED events
          \/ events' = Published(events, "run.interrupted", Key("run:interrupted:shutdown", 0), 0)
          BY <1>4, <2>3 DEF DrainPublish
    <3>2. \/ UNCHANGED events
          \/ \E v \in PublicEvent : v.writer = 0 /\ events' = Append(events, v)
      <4>1. CASE UNCHANGED events
            BY <4>1
      <4>2. CASE events' = Published(events, "run.interrupted", Key("run:interrupted:shutdown", 0), 0)
            BY <2>1, <4>2, PublishedOnce
      <4>. QED BY <3>1, <4>1, <4>2
    <3>. QED BY <1>4, <2>3, <3>2, SameLease DEF DrainPublish, FileStep, EventWritten
  <2>. QED BY <2>2, <2>3
<1>. QED BY <1>1, <1>2, <1>3, <1>4

LEMMA FilesSweep ==
  ASSUME TypeInv, Sweep
  PROVE  FileStep
<1>1. CASE SweepList \/ SweepCrash
      BY <1>1, QuietStep, SameLease DEF SweepList, SweepCrash
<1>2. CASE SweepAcquire
      BY <1>2, QuietStep, SameLease, LeaseType DEF SweepAcquire, TypeInv
<1>3. CASE SweepBind
  <2>1. manifest'.seq = manifest.seq
        BY <1>3 DEF SweepBind, TypeInv, Manifest
  <2>. QED BY <1>3, <2>1, QuietStep, SameLease DEF SweepBind
<1>4. CASE SweepMark
  <2>1. "interrupted" \in Statuses
        BY DEF Statuses
  <2>2. manifest'.seq = manifest.seq
        BY <1>4, <2>1, WithStatusSeq DEF SweepMark
  <2>. QED BY <1>4, <2>2, QuietStep, SameLease DEF SweepMark
<1>5. CASE SweepPublish
  <2>1. /\ "run.interrupted" \in EventTypes /\ "run:interrupted:startup" \in KeyNames
        /\ sweep.token \in Nat
        BY DEF EventTypes, KeyNames, TypeInv
  <2>2. \/ UNCHANGED events
        \/ /\ SweepOwns
           /\ events' = Published(events, "run.interrupted", Key("run:interrupted:startup", 0), sweep.token)
        BY <1>5 DEF SweepPublish
  <2>3. \/ UNCHANGED events
        \/ \E v \in PublicEvent : v.writer = lease.token /\ events' = Append(events, v)
    <3>1. CASE UNCHANGED events
          BY <3>1
    <3>2. CASE /\ SweepOwns
               /\ events' = Published(events, "run.interrupted", Key("run:interrupted:startup", 0), sweep.token)
      <4>1. lease.token = sweep.token
            BY <3>2, FenceToken DEF SweepOwns
      <4>. QED BY <2>1, <3>2, <4>1, PublishedOnce
    <3>. QED BY <2>2, <3>1, <3>2
  <2>. QED BY <1>5, <2>3, SameLease DEF SweepPublish, FileStep, EventWritten
<1>6. CASE SweepRelease
      BY <1>6, QuietStep, SameLease DEF SweepRelease
<1>. QED BY <1>1, <1>2, <1>3, <1>4, <1>5, <1>6 DEF Sweep

LEMMA FilesNext == TypeInv /\ Next => FileStep
<1>. SUFFICES ASSUME TypeInv, Next PROVE FileStep
     OBVIOUS
<1>1. ASSUME NEW e \in Engines, Engine(e) \/ Work(e) PROVE FileStep
      BY <1>1, FilesStarting, FilesRunning, FilesWorking, FilesEnding DEF Engine
<1>2. ASSUME NEW e \in Engines, Environment(e) PROVE FileStep
      BY <1>2, FilesStarting, FilesDisturbed DEF Environment
<1>3. CASE CancelRemote
      BY <1>3, QuietStep, SameLease DEF CancelRemote
<1>4. CASE Elapse
  <2>1. lease.token \in Nat /\ lease'.token = lease.token
        BY <1>4, LeaseType DEF Elapse, TypeInv, L!LeaderLease
  <2>. QED BY <1>4, <2>1, QuietStep DEF Elapse
<1>. QED BY <1>1, <1>2, <1>3, <1>4, FilesSweep DEF Next

(***************************************************************************)
(* Owners write one after the other.                                       *)
(***************************************************************************)

\* Nobody has written with an epoch that is still to come.
Written(f) == \A i \in DOMAIN f : f[i].writer <= lease.token

OwnersInv == Written(journal) /\ Written(events) /\ OwnersInOrder

\* The record at the end of a line written by an engine.
LEMMA LineShape ==
  ASSUME TypeInv, NEW e \in Engines, eng[e].pc = "append"
  PROVE  \E r \in JournalRecord :
           /\ Line(e) = Append(Repaired(journal), r)
           /\ r.writer = eng[e].token
           /\ r.seq = NextSeq(manifest, Repaired(journal))
           /\ r.stage = Due(e).stage
           /\ r.next = Due(e).next
<1>. DEFINE r == [seq |-> NextSeq(manifest, Repaired(journal)), stage |-> Due(e).stage,
                  next |-> Due(e).next, writer |-> eng[e].token]
<1>1. /\ Due(e).stage \in NextStages \cup {"received", "failed"}
      /\ Due(e).next \in NextStages \cup {"none"}
      BY LineType
<1>2. /\ NextSeq(manifest, Repaired(journal)) \in Nat
      /\ eng[e].token \in Nat
      BY RepairedType DEF NextSeq, TypeInv, Manifest, Engs, EngineRecord
<1>3. r \in JournalRecord
      BY <1>1, <1>2 DEF JournalRecord
<1>4. Line(e) = Append(Repaired(journal), r)
      BY DEF Line, Appended
<1>. QED BY <1>3, <1>4

\* A line put at the end keeps the order if its writer is nobody, or no older
\* than those before.
LEMMA OrderKept ==
  ASSUME NEW S, \A x \in S : x.writer \in Nat, NEW f \in Seq(S), NEW r \in S, NEW bound \in Nat,
         \A i \in DOMAIN f : f[i].writer <= bound, InOrder(f), r.writer \in {0, bound}
  PROVE  /\ \A i \in DOMAIN Append(f, r) : Append(f, r)[i].writer <= bound
         /\ InOrder(Append(f, r))
<1>. DEFINE g == Append(f, r)
<1>1. /\ DOMAIN g = 1 .. Len(f) + 1 /\ DOMAIN f = 1 .. Len(f) /\ Len(f) \in Nat
      /\ \A i \in 1 .. Len(f) : g[i] = f[i] /\ f[i] \in S
      /\ g[Len(f) + 1] = r
      OBVIOUS
<1>. HIDE DEF g
<1>2. \A i \in DOMAIN g : g[i].writer <= bound
      BY <1>1
<1>3. InOrder(g)
  <2>. SUFFICES ASSUME NEW i \in DOMAIN g, NEW k \in DOMAIN g, i < k, g[i].writer # 0, g[k].writer # 0
                PROVE  g[i].writer <= g[k].writer
       BY DEF InOrder
  <2>1. i \in 1 .. Len(f)
        BY <1>1
  <2>2. CASE k = Len(f) + 1
        BY <1>1, <2>1, <2>2
  <2>3. CASE k \in 1 .. Len(f)
        BY <1>1, <2>1, <2>3 DEF InOrder
  <2>. QED BY <1>1, <2>2, <2>3
<1>. QED BY <1>2, <1>3 DEF g

LEMMA OwnersNext == TypeInv /\ OwnersInv /\ [Next]_vars => OwnersInv'
<1>. SUFFICES ASSUME TypeInv, OwnersInv, [Next]_vars PROVE OwnersInv'
     OBVIOUS
<1>. USE DEF Written
<1>0. /\ lease.token \in Nat /\ lease'.token \in Nat
      /\ journal \in Seq(JournalRecord) /\ events \in Seq(PublicEvent)
      /\ \A x \in JournalRecord : x.writer \in Nat
      /\ \A x \in PublicEvent : x.writer \in Nat
      BY TypeNext DEF TypeInv, L!LeaderLease, JournalRecord, PublicEvent
<1>1. CASE UNCHANGED vars
      BY <1>1 DEF vars, OwnersInv, OwnersInOrder, InOrder
<1>2. CASE Next
  <2>1. FileStep
        BY <1>2, FilesNext
  <2>2. CASE UNCHANGED <<journal, events>> /\ lease'.token >= lease.token
    <3>1. \A i \in DOMAIN journal : journal[i].writer \in Nat
          BY <1>0
    <3>2. \A i \in DOMAIN events : events[i].writer \in Nat
          BY <1>0
    <3>3. Written(journal)' /\ Written(events)'
          BY <1>0, <2>2, <3>1, <3>2 DEF OwnersInv
    <3>. QED BY <2>2, <3>3 DEF OwnersInv, OwnersInOrder, InOrder
  <2>3. CASE EventWritten
    <3>1. PICK v \in PublicEvent : v.writer \in {0, lease.token} /\ events' = Append(events, v)
          BY <2>3 DEF EventWritten
    <3>2. Written(events)' /\ InOrder(events')
          BY <1>0, <2>3, <3>1, OrderKept DEF EventWritten, OwnersInv, OwnersInOrder
    <3>. QED BY <2>3, <3>2 DEF EventWritten, OwnersInv, OwnersInOrder, InOrder
  <2>4. ASSUME NEW e \in Engines, JournalWritten(e) PROVE OwnersInv'
    <3>1. /\ UNCHANGED <<lease, events>> /\ eng[e].pc = "append"
          /\ eng[e].token = lease.token
          BY <2>4, FenceToken DEF JournalWritten, Owns
    <3>2. /\ Repaired(journal) \in Seq(JournalRecord)
          /\ \A i \in DOMAIN Repaired(journal) : Repaired(journal)[i].writer <= lease.token
          /\ InOrder(Repaired(journal))
      <4>1. /\ Repaired(journal) \in Seq(JournalRecord)
            /\ DOMAIN Repaired(journal) \subseteq DOMAIN journal
            /\ \A i \in DOMAIN Repaired(journal) : Repaired(journal)[i] = journal[i]
            BY <1>0, RepairedType
      <4>. QED BY <4>1 DEF OwnersInv, OwnersInOrder, InOrder
    <3>3. PICK r \in JournalRecord : r.writer \in {0, lease.token} /\ journal' = Append(Repaired(journal), r)
      <4>1. TornLine \in JournalRecord /\ TornLine.writer = 0
            BY DEF TornLine, JournalRecord
      <4>2. CASE journal' = Line(e)
            BY <3>1, <4>2, LineShape
      <4>3. CASE journal' = Append(Repaired(journal), TornLine)
            BY <4>1, <4>3
      <4>. QED BY <2>4, <4>2, <4>3 DEF JournalWritten
    <3>4. Written(journal)' /\ InOrder(journal')
          BY <1>0, <3>1, <3>2, <3>3, OrderKept
    <3>. QED BY <3>1, <3>4 DEF OwnersInv, OwnersInOrder, InOrder
  <2>. QED BY <2>1, <2>2, <2>3, <2>4 DEF FileStep
<1>. QED BY <1>1, <1>2

\* Journal and public stream are written by one owner after the other: an engine
\* that lost its lease adds nothing after a line of its successor (_fence_guard).
THEOREM OwnersInOrderAlways == Spec => []OwnersInOrder
<1>1. Init => OwnersInv
      BY DEF Init, OwnersInv, OwnersInOrder, InOrder, Written
<1>2. TypeInv /\ OwnersInv /\ [Next]_vars => OwnersInv'
      BY OwnersNext
<1>3. OwnersInv => OwnersInOrder
      BY DEF OwnersInv
<1>. QED BY <1>1, <1>2, <1>3, TypeAlways, PTL DEF Spec

(***************************************************************************)
(* The journal has no gap.                                                 *)
(***************************************************************************)

JournalInv ==
  /\ JournalReadable
  /\ manifest.seq <= Len(Repaired(journal))

\* Only a torn line is cut off.
LEMMA RepairedAppend ==
  ASSUME NEW j \in Seq(JournalRecord), NEW r \in JournalRecord
  PROVE  /\ r.seq # 0 => Repaired(Append(j, r)) = Append(j, r)
         /\ r.seq = 0 => Repaired(Append(j, r)) = j
<1>1. /\ Append(j, r) \in Seq(JournalRecord) /\ Append(j, r) # <<>>
      /\ Len(Append(j, r)) = Len(j) + 1 /\ Len(j) \in Nat
      /\ Append(j, r)[Len(j) + 1] = r
      /\ \A i \in 1 .. Len(j) : Append(j, r)[i] = j[i]
      OBVIOUS
<1>2. SubSeq(Append(j, r), 1, Len(j)) = j
      BY <1>1
<1>3. PICK g \in Seq(JournalRecord) : g = Append(j, r)
      BY <1>1
<1>4. Len(g) - 1 = Len(j) /\ g # <<>> /\ g[Len(g)] = r
      BY <1>1, <1>3
<1>5. Repaired(g) = IF r.seq = 0 THEN SubSeq(g, 1, Len(j)) ELSE g
      BY <1>4 DEF Repaired
<1>. QED BY <1>2, <1>3, <1>5

LEMMA JournalNext == TypeInv /\ JournalInv /\ [Next]_vars => JournalInv'
<1>. SUFFICES ASSUME TypeInv, JournalInv, [Next]_vars PROVE JournalInv'
     OBVIOUS
<1>0. /\ journal \in Seq(JournalRecord) /\ Repaired(journal) \in Seq(JournalRecord)
      /\ Len(Repaired(journal)) \in Nat /\ manifest.seq \in Nat
      BY RepairedType DEF TypeInv, Manifest
<1>1. CASE UNCHANGED vars
      BY <1>1 DEF vars, JournalInv, JournalReadable, Readable, Repaired
<1>2. CASE Next
  <2>1. FileStep
        BY <1>2, FilesNext
  <2>2. CASE UNCHANGED journal /\ manifest'.seq \in {0, manifest.seq}
        BY <1>0, <2>2 DEF JournalInv, JournalReadable, Readable, Repaired
  <2>3. ASSUME NEW e \in Engines, JournalWritten(e) PROVE JournalInv'
    <3>1. CASE journal' = Append(Repaired(journal), TornLine) /\ manifest' = manifest
      <4>1. TornLine \in JournalRecord /\ TornLine.seq = 0
            BY DEF TornLine, JournalRecord
      <4>2. Repaired(journal') = Repaired(journal)
            BY <1>0, <3>1, <4>1, RepairedAppend
      <4>. QED BY <3>1, <4>2 DEF JournalInv, JournalReadable, Readable
    <3>2. CASE journal' = Line(e) /\ manifest'.seq \in {manifest.seq, Len(journal')}
      <4>. DEFINE whole == Repaired(journal)
      <4>1. PICK r \in JournalRecord : Line(e) = Append(whole, r) /\ r.seq = NextSeq(manifest, whole)
            BY <2>3, LineShape DEF JournalWritten
      <4>2. r.seq = Len(whole) + 1
            BY <1>0, <4>1 DEF JournalInv, NextSeq
      <4>3. Repaired(journal') = Append(whole, r) /\ journal' = Append(whole, r)
            BY <1>0, <3>2, <4>1, <4>2, RepairedAppend
      <4>4. /\ Len(Append(whole, r)) = Len(whole) + 1
            /\ \A i \in 1 .. Len(whole) : Append(whole, r)[i] = whole[i] /\ whole[i].seq = i
            /\ Append(whole, r)[Len(whole) + 1] = r
            /\ DOMAIN Append(whole, r) = 1 .. Len(whole) + 1
            BY <1>0 DEF JournalInv, JournalReadable, Readable
      <4>. HIDE DEF whole
      <4>5. JournalReadable'
            BY <1>0, <4>2, <4>3, <4>4 DEF JournalReadable, Readable
      <4>6. manifest'.seq <= Len(Repaired(journal'))
            BY <1>0, <3>2, <4>3, <4>4 DEF JournalInv, whole
      <4>. QED BY <4>5, <4>6 DEF JournalInv
    <3>. QED BY <2>3, <3>1, <3>2 DEF JournalWritten
  <2>. QED BY <2>1, <2>2, <2>3 DEF FileStep, EventWritten
<1>. QED BY <1>1, <1>2

\* However crashes, torn lines and takeovers fall between the journal line and the
\* manifest, replay() finds the sequence numbers it expects (append, replay).
THEOREM JournalReadableAlways == Spec => []JournalReadable
<1>1. Init => JournalInv
      BY DEF Init, JournalInv, JournalReadable, Readable, Repaired, NoManifest
<1>2. TypeInv /\ JournalInv /\ [Next]_vars => JournalInv'
      BY JournalNext
<1>3. JournalInv => JournalReadable
      BY DEF JournalInv
<1>. QED BY <1>1, <1>2, <1>3, TypeAlways, PTL DEF Spec

(***************************************************************************)
(* The manifest names the epoch of the owner.  A run without manifest has  *)
(* only engines outside the server, and its owner has not written yet.     *)
(***************************************************************************)

Unbound == {"none", "posted", "checked", "acquired"}

Unwritten ==
  manifest.status = "absent" =>
    /\ sweep.pc = "idle"
    /\ \A e \in Engines :
         /\ ~eng[e].resumed /\ ~eng[e].hosted
         /\ Owns(e) => eng[e].pc \in Unbound \cup {"bound", "init", "closing"}

FollowInv ==
  /\ manifest.token <= lease.token
  /\ ManifestFollowsOwner
  /\ Unwritten

\* Only engine f changes, and it keeps its epoch unless it ends.
EngineKept(f) ==
  /\ \A g \in Engines \ {f} : eng'[g] = eng[g]
  /\ \/ eng'[f].pc \in Unbound
     \/ eng[f].pc \notin Unbound /\ eng'[f].token = eng[f].token
  /\ manifest.status # "absent" \/ (~eng'[f].resumed /\ ~eng'[f].hosted)

ManifestKept ==
  /\ manifest'.token = manifest.token
  /\ manifest'.status = "absent" <=> manifest.status = "absent"

LeaseKept ==
  /\ lease'.owner = lease.owner /\ lease'.token = lease.token
  /\ L!Live(lease') => L!Live(lease)

SweepKept == sweep'.pc = "idle" \/ manifest.status # "absent" \/ UNCHANGED sweep

\* A step of engine f that keeps the epoch of lease and manifest.
LEMMA KeptFollows ==
  ASSUME TypeInv, FollowInv, NEW f \in Engines,
         EngineKept(f), ManifestKept, LeaseKept, SweepKept,
         manifest.status = "absent" /\ Owns(f) => eng'[f].pc \in Unbound \cup {"bound", "init", "closing"}
  PROVE  FollowInv'
<1>1. ASSUME NEW e \in Engines, eng'[e].pc \notin Unbound, Owns(e)'
      PROVE  Owns(e) /\ eng[e].pc \notin Unbound /\ eng'[e].token = eng[e].token
      BY <1>1 DEF EngineKept, LeaseKept, Owns, Fenced, L!FenceHolds, L!HoldsEpoch
<1>2. manifest'.token <= lease'.token
      BY DEF FollowInv, ManifestKept, LeaseKept
<1>3. ManifestFollowsOwner'
      BY <1>1 DEF FollowInv, ManifestKept, ManifestFollowsOwner, Bound, Unbound
<1>4. Unwritten'
  <2>. SUFFICES ASSUME manifest.status = "absent"
                PROVE  /\ sweep'.pc = "idle"
                       /\ \A e \in Engines :
                            /\ ~eng'[e].resumed /\ ~eng'[e].hosted
                            /\ Owns(e)' => eng'[e].pc \in Unbound \cup {"bound", "init", "closing"}
       BY DEF Unwritten, ManifestKept
  <2>1. sweep'.pc = "idle"
        BY DEF FollowInv, Unwritten, SweepKept
  <2>2. ASSUME NEW e \in Engines PROVE ~eng'[e].resumed /\ ~eng'[e].hosted
        BY DEF FollowInv, Unwritten, EngineKept
  <2>3. ASSUME NEW e \in Engines, Owns(e)'
        PROVE  eng'[e].pc \in Unbound \cup {"bound", "init", "closing"}
        BY <1>1, <2>3 DEF FollowInv, Unwritten, EngineKept
  <2>. QED BY <2>1, <2>2, <2>3
<1>. QED BY <1>2, <1>3, <1>4 DEF FollowInv

LEMMA OwnerHasManifest ==
  ASSUME FollowInv, NEW e \in Engines, Owns(e),
         eng[e].pc \notin Unbound \cup {"bound", "init", "closing"}
  PROVE  manifest.status # "absent"
  BY DEF FollowInv, Unwritten

\* A status is written by an engine that owns the run, so where there is a manifest.
LEMMA StatusKept ==
  ASSUME TypeInv, NEW s \in Statuses \ {"absent"}
  PROVE  /\ WithStatus(manifest, s).status # "absent"
         /\ WithStatus(manifest, s).token = manifest.token
         /\ (manifest' = WithStatus(manifest, s) /\ manifest.status # "absent") => ManifestKept
<1>1. WithStatus(manifest, s).status # "absent"
      BY DEF WithStatus, StatusAfter, TypeInv, Manifest
<1>. QED BY <1>1, WithStatusSeq DEF ManifestKept

LEMMA MarkedKept ==
  ASSUME TypeInv, manifest' = Marked(manifest) \/ UNCHANGED manifest
  PROVE  ManifestKept
<1>1. "failed" \in Statuses \ {"absent"}
      BY DEF Statuses
<1>. QED BY <1>1, StatusKept DEF Marked, Degraded, ManifestKept

LEMMA SameLeaseKept ==
  ASSUME TypeInv, lease' = lease \/ lease' = L!Released(lease) \/ (L!Live(lease) /\ lease' = L!Elapsed(lease))
  PROVE  LeaseKept
  BY DEF TypeInv, LeaseKept, L!LeaderLease, L!Released, L!Elapsed, L!Live

\* The ways in which an engine goes on.
LEMMA EngineMoves ==
  ASSUME TypeInv, FollowInv, NEW e \in Engines
  PROVE  /\ eng' = [eng EXCEPT ![e] = NoEngine] => EngineKept(e) /\ eng'[e].pc = "none"
         /\ eng[e].pc \notin Unbound =>
              /\ \A p \in PCs : Step(e, p) => EngineKept(e) /\ eng'[e].pc = p
              /\ eng' = Excepted(e) => EngineKept(e)
              /\ eng' = Requested(e) => EngineKept(e) /\ eng'[e].pc = eng[e].pc
<1>1. (~eng[e].resumed /\ ~eng[e].hosted) \/ manifest.status # "absent"
      BY DEF FollowInv, Unwritten
<1>2. eng' = [eng EXCEPT ![e] = NoEngine] => EngineKept(e) /\ eng'[e].pc = "none"
      BY DEF TypeInv, NoEngine, EngineKept, Unbound
<1>. USE DEF TypeInv, Engs, EngineRecord
<1>3. ASSUME eng[e].pc \notin Unbound, NEW p \in PCs, Step(e, p)
      PROVE  EngineKept(e) /\ eng'[e].pc = p
      BY <1>1, <1>3 DEF Step, EngineKept
<1>4. ASSUME eng[e].pc \notin Unbound, eng' = Excepted(e) PROVE EngineKept(e)
      BY <1>1, <1>4 DEF Excepted, EngineKept
<1>5. ASSUME eng[e].pc \notin Unbound, eng' = Requested(e)
      PROVE  EngineKept(e) /\ eng'[e].pc = eng[e].pc
      BY <1>1, <1>5 DEF Requested, EngineKept
<1>. QED BY <1>2, <1>3, <1>4, <1>5

LEMMA OnwardKept ==
  ASSUME TypeInv, FollowInv, NEW e \in Engines, eng[e].pc \in {"append", "update"}, eng' = Onward(e)
  PROVE  EngineKept(e)
<1>1. (~eng[e].resumed /\ ~eng[e].hosted) \/ manifest.status # "absent"
      BY DEF FollowInv, Unwritten
<1>2. PICK x \in Engs : x = eng[e]
      BY MovedType
<1>3. \E y : /\ eng' = [eng EXCEPT ![e] = y]
            /\ y.token = x.token /\ y.resumed = x.resumed /\ y.hosted = x.hosted
  <2>1. x.outcome \in Outcomes
        BY DEF Engs, EngineRecord
  <2>2. \A p \in PCs :
          LET y == [x EXCEPT !.pc = p]
          IN  y.token = x.token /\ y.resumed = x.resumed /\ y.hosted = x.hosted
        BY DEF Engs, EngineRecord
  <2>3. \A p \in PCs, s \in NextStages :
          LET y == [x EXCEPT !.pc = p, !.stage = s]
          IN  y.token = x.token /\ y.resumed = x.resumed /\ y.hosted = x.hosted
        BY DEF Engs, EngineRecord
  <2>4. {"closing", "finale", "confirm", "start", "announce"} \subseteq PCs
        BY DEF PCs
  <2>5. CASE x.outcome = "failed"
        BY <1>2, <2>2, <2>4, <2>5 DEF Onward
  <2>6. CASE x.outcome = "cancelled"
        BY <1>2, <2>2, <2>4, <2>6 DEF Onward
  <2>7. CASE x.outcome \in {"completed", "terminated"}
        BY <1>2, <2>2, <2>4, <2>7 DEF Onward
  <2>8. CASE x.outcome = "running"
    <3>1. x.stage \in {"received", "research", "report"}
          BY <1>2, <2>8 DEF Engs, Coherent, Following
    <3>2. Following[x.stage] \in NextStages
          BY <3>1 DEF Following, NextStages, WorkStages
    <3>3. PICK p \in {"start", "announce"} :
            eng' = [eng EXCEPT ![e] = [x EXCEPT !.pc = p, !.stage = Following[x.stage]]]
          BY <1>2, <2>8 DEF Onward
    <3>. DEFINE y == [x EXCEPT !.pc = p, !.stage = Following[x.stage]]
    <3>4. y.token = x.token /\ y.resumed = x.resumed /\ y.hosted = x.hosted
          BY <2>3, <2>4, <3>2
    <3>5. eng' = [eng EXCEPT ![e] = y]
          BY <3>3
    <3>. HIDE DEF y
    <3>. QED BY <3>4, <3>5
  <2>. QED BY <2>1, <2>5, <2>6, <2>7, <2>8 DEF Outcomes
<1>. QED BY <1>1, <1>2, <1>3 DEF EngineKept, Unbound, TypeInv

\* An owner that writes the epoch of the lease into the manifest.
LEMMA TokenFollows ==
  ASSUME TypeInv, FollowInv, NEW f \in Engines, Owns(f),
         UNCHANGED <<lease, sweep>>, manifest'.token = eng[f].token,
         manifest'.status # "absent",
         \A g \in Engines \ {f} : eng'[g] = eng[g],
         eng'[f].token = eng[f].token
  PROVE  FollowInv'
<1>1. eng[f].token = lease.token /\ lease.token \in Nat /\ lease.owner = f
      BY FenceToken DEF Owns, TypeInv, L!LeaderLease
<1>2. ASSUME NEW e \in Engines, Owns(e)' PROVE e = f
      BY <1>1, <1>2 DEF Owns, Fenced, L!FenceHolds, L!HoldsEpoch
<1>3. manifest'.token <= lease'.token
      BY <1>1
<1>. QED BY <1>2, <1>3 DEF FollowInv, ManifestFollowsOwner, Unwritten

LEMMA FollowStarting ==
  ASSUME TypeInv, FollowInv, NEW e \in Engines,
         Create(e) \/ CreateEmbedded(e) \/ ResumeCheck(e) \/ Acquire(e) \/ Bind(e)
  PROVE  FollowInv'
<1>0. eng \in [Engines -> Engs] /\ lease.token \in Nat /\ manifest.token \in Nat
      BY DEF TypeInv, L!LeaderLease, Manifest
<1>1. CASE Create(e)
  <2>1. /\ lease.token = 0 /\ UNCHANGED lease /\ UNCHANGED sweep
        /\ manifest'.token = 0 /\ manifest'.status = "running"
        BY <1>1 DEF Create, Fresh, NoManifest
  <2>2. \A g \in Engines : eng'[g].pc \in Unbound
        BY <1>0, <1>1 DEF Create, Fresh, Unbound, Engs, EngineRecord
  <2>. QED BY <2>1, <2>2 DEF FollowInv, ManifestFollowsOwner, Unwritten, Bound, Unbound
<1>2. CASE CreateEmbedded(e)
  <2>1. EngineKept(e) /\ eng'[e].pc \in Unbound
        BY <1>0, <1>2 DEF CreateEmbedded, Step, EngineKept, Unbound, Engs, EngineRecord, FollowInv, Unwritten
  <2>. QED BY <1>2, <2>1, KeptFollows, SameLeaseKept DEF CreateEmbedded, ManifestKept, SweepKept
<1>3. CASE ResumeCheck(e)
  <2>1. EngineKept(e) /\ eng'[e].pc \in Unbound
        BY <1>0, <1>3 DEF ResumeCheck, Recoverable, NoEngine, EngineKept, Unbound
  <2>. QED BY <1>3, <2>1, KeptFollows, SameLeaseKept DEF ResumeCheck, ManifestKept, SweepKept
<1>4. CASE Acquire(e)
  <2>1. CASE eng' = [eng EXCEPT ![e] = NoEngine] /\ UNCHANGED lease
        BY <1>4, <2>1, EngineMoves, KeptFollows, SameLeaseKept DEF Acquire, ManifestKept, SweepKept, Unbound
  <2>2. CASE /\ lease' = L!Acquired(lease, e)
             /\ eng' = [eng EXCEPT ![e].pc = "acquired", ![e].token = lease'.token]
    <3>1. /\ lease'.owner = e /\ lease'.token >= lease.token /\ lease'.token \in Nat
          BY <2>2, LeaseType DEF TypeInv, L!LeaderLease
    <3>2. /\ \A g \in Engines \ {e} : eng'[g] = eng[g]
          /\ eng'[e].pc = "acquired" /\ eng'[e].resumed = eng[e].resumed /\ eng'[e].hosted = eng[e].hosted
          BY <1>0, <2>2 DEF Engs, EngineRecord
    <3>3. ASSUME NEW g \in Engines, Owns(g)' PROVE g = e
          BY <3>1, <3>3 DEF Owns, Fenced, L!FenceHolds, L!HoldsEpoch
    <3>4. UNCHANGED <<manifest, sweep>>
          BY <1>4 DEF Acquire
    <3>5. manifest'.token <= lease'.token
          BY <1>0, <3>1, <3>4 DEF FollowInv
    <3>6. ManifestFollowsOwner'
          BY <3>2, <3>3 DEF ManifestFollowsOwner, Bound
    <3>7. Unwritten'
          BY <3>2, <3>3, <3>4 DEF FollowInv, Unwritten, Unbound
    <3>. QED BY <3>5, <3>6, <3>7 DEF FollowInv
  <2>. QED BY <1>4, <2>1, <2>2 DEF Acquire
<1>5. CASE Bind(e)
  <2>1. eng[e].pc = "acquired" /\ UNCHANGED <<lease, sweep>>
        BY <1>5 DEF Bind
  <2>2. CASE Owns(e) /\ manifest.token <= eng[e].token
    <3>1. CASE manifest.status = "absent"
      <4>1. UNCHANGED manifest /\ Step(e, "bound")
            BY <1>5, <2>2, <3>1 DEF Bind
      <4>2. /\ \A g \in Engines \ {e} : eng'[g] = eng[g]
            /\ eng'[e].pc = "bound" /\ eng'[e].resumed = eng[e].resumed /\ eng'[e].hosted = eng[e].hosted
            /\ eng'[e].token = eng[e].token
            BY <1>0, <4>1 DEF Step, Engs, EngineRecord
      <4>3. Unwritten'
        <5>1. \A g \in Engines : (Owns(g))' <=> Owns(g)
              BY <2>1, <4>2 DEF Owns, Fenced
        <5>. QED BY <2>1, <4>1, <4>2, <5>1 DEF FollowInv, Unwritten
      <4>. QED BY <2>1, <3>1, <4>1, <4>3 DEF FollowInv, ManifestFollowsOwner
    <3>2. CASE manifest.status # "absent"
      <4>1. /\ manifest' = [manifest EXCEPT !.token = eng[e].token] /\ Step(e, "bound")
            BY <1>5, <2>2, <3>2 DEF Bind
      <4>2. manifest'.token = eng[e].token /\ manifest'.status # "absent"
            BY <3>2, <4>1 DEF TypeInv, Manifest
      <4>3. /\ \A g \in Engines \ {e} : eng'[g] = eng[g]
            /\ eng'[e].token = eng[e].token
            BY <1>0, <4>1 DEF Step, Engs, EngineRecord
      <4>. QED BY <2>1, <2>2, <4>2, <4>3, TokenFollows
    <3>. QED BY <3>1, <3>2
  <2>3. CASE ~(Owns(e) /\ manifest.token <= eng[e].token)
    <3>0. UNCHANGED manifest
          BY <1>5, <2>3 DEF Bind
    <3>1. CASE eng[e].resumed
      <4>1. eng' = [eng EXCEPT ![e] = NoEngine]
            BY <1>5, <2>3, <3>1 DEF Bind
      <4>. QED BY <2>1, <3>0, <4>1, EngineMoves, KeptFollows, SameLeaseKept
               DEF ManifestKept, SweepKept, Unbound
    <3>2. CASE ~eng[e].resumed
      <4>0. eng' = [eng EXCEPT ![e].pc = "closing"]
            BY <1>5, <2>3, <3>2 DEF Bind
      <4>1. /\ \A g \in Engines \ {e} : eng'[g] = eng[g]
            /\ eng'[e].pc = "closing" /\ eng'[e].resumed = eng[e].resumed /\ eng'[e].hosted = eng[e].hosted
            /\ eng'[e].token = eng[e].token
            BY <1>0, <4>0 DEF Engs, EngineRecord
      <4>2. ~Owns(e)
        <5>1. ASSUME Owns(e) PROVE manifest.token <= eng[e].token
              BY <5>1, FenceToken DEF Owns, FollowInv
        <5>. QED BY <2>3, <5>1
      <4>3. ~Owns(e)'
            BY <2>1, <4>1, <4>2 DEF Owns, Fenced
      <4>4. \A g \in Engines \ {e} : (Owns(g))' <=> Owns(g)
            BY <2>1, <4>1 DEF Owns, Fenced
      <4>5. ManifestFollowsOwner'
            BY <3>0, <4>1, <4>3, <4>4 DEF FollowInv, ManifestFollowsOwner, Bound
      <4>6. Unwritten'
            BY <2>1, <3>0, <4>1, <4>3, <4>4 DEF FollowInv, Unwritten
      <4>. QED BY <2>1, <3>0, <4>5, <4>6 DEF FollowInv
    <3>. QED BY <3>1, <3>2
  <2>. QED BY <2>2, <2>3
<1>. QED BY <1>1, <1>2, <1>3, <1>4, <1>5

LEMMA FollowRunning ==
  ASSUME TypeInv, FollowInv, NEW e \in Engines,
         NewRun(e) \/ Initialize(e) \/ Replay(e) \/ SetRunning(e) \/ Start(e)
  PROVE  FollowInv'
<1>0. eng \in [Engines -> Engs] /\ eng[e] \in Engs
      BY DEF TypeInv
<1>p. {"init", "closing", "leaked", "start", "work"} \subseteq PCs
      BY DEF PCs
<1>1. CASE NewRun(e)
  <2>1. eng[e].pc = "bound" /\ UNCHANGED <<lease, sweep>>
        BY <1>1 DEF NewRun
  <2>2. manifest' = Marked(manifest) \/ UNCHANGED manifest
        BY <1>1 DEF NewRun, PublishDone, PublishFailed
  <2>3. /\ \A g \in Engines \ {e} : eng'[g] = eng[g]
        /\ eng'[e].pc \in {"init", "closing"} /\ eng'[e].token = eng[e].token
        /\ eng'[e].resumed = eng[e].resumed /\ eng'[e].hosted = eng[e].hosted
        BY <1>0, <1>1 DEF NewRun, Step, Engs, EngineRecord
  <2>4. EngineKept(e)
        BY <2>1, <2>3 DEF EngineKept, Unbound, FollowInv, Unwritten
  <2>. QED BY <2>1, <2>2, <2>3, <2>4, KeptFollows, SameLeaseKept, MarkedKept DEF SweepKept
<1>2. CASE Initialize(e)
  <2>1. eng[e].pc = "init" /\ UNCHANGED <<lease, sweep>>
        BY <1>2 DEF Initialize
  <2>2. /\ \A g \in Engines \ {e} : eng'[g] = eng[g]
        /\ eng'[e].token = eng[e].token
        /\ eng'[e].resumed = eng[e].resumed /\ eng'[e].hosted = eng[e].hosted
        BY <1>0, <1>2 DEF Initialize, Engs, EngineRecord
  <2>3. EngineKept(e)
        BY <2>1, <2>2 DEF EngineKept, Unbound, FollowInv, Unwritten
  <2>4. CASE manifest.status = "absent" /\ Owns(e)
    <3>1. manifest'.token = eng[e].token /\ manifest'.status # "absent"
          BY <1>2, <2>4 DEF Initialize, NoManifest
    <3>. QED BY <2>1, <2>2, <2>4, <3>1, TokenFollows
  <2>5. CASE ~(manifest.status = "absent" /\ Owns(e))
    <3>1. UNCHANGED manifest
          BY <1>2, <2>5 DEF Initialize
    <3>. QED BY <2>1, <2>3, <2>5, <3>1, KeptFollows, SameLeaseKept DEF SweepKept, ManifestKept
  <2>. QED BY <2>4, <2>5
<1>3. CASE Replay(e)
  <2>1. eng[e].pc = "bound" /\ eng[e].resumed /\ UNCHANGED <<lease, sweep>>
        BY <1>3 DEF Replay
  <2>2. manifest.status # "absent"
        BY <2>1 DEF FollowInv, Unwritten
  <2>3. manifest' = Marked(manifest) \/ UNCHANGED manifest
        BY <1>3 DEF Replay, PublishDone, PublishFailed
  <2>4. /\ \A g \in Engines \ {e} : eng'[g] = eng[g]
        /\ eng'[e].token = eng[e].token
        BY <1>0, <1>3 DEF Replay, Step, Engs, EngineRecord
  <2>5. EngineKept(e)
        BY <2>1, <2>2, <2>4 DEF EngineKept, Unbound
  <2>. QED BY <2>1, <2>2, <2>3, <2>5, KeptFollows, SameLeaseKept, MarkedKept DEF SweepKept
<1>4. CASE SetRunning(e)
  <2>1. eng[e].pc = "replayed" /\ UNCHANGED <<lease, sweep>> /\ Step(e, "start")
        BY <1>4 DEF SetRunning
  <2>2. EngineKept(e)
        BY <1>p, <2>1, EngineMoves DEF Unbound
  <2>3. Owns(e) => manifest.status # "absent"
        BY <2>1, OwnerHasManifest DEF Unbound
  <2>4. ManifestKept
    <3>1. CASE UNCHANGED manifest
          BY <3>1 DEF ManifestKept
    <3>2. CASE /\ WriteDone(e)
               /\ manifest' = [manifest EXCEPT !.status = StatusAfter(@, "running", TRUE)]
      <4>1. StatusAfter(manifest.status, "running", TRUE) # "absent"
            BY <2>3, <3>2 DEF WriteDone, StatusAfter
      <4>. QED BY <2>3, <3>2, <4>1 DEF ManifestKept, WriteDone, TypeInv, Manifest
    <3>. QED BY <1>4, <3>1, <3>2 DEF SetRunning
  <2>. QED BY <2>1, <2>2, <2>3, <2>4, KeptFollows, SameLeaseKept DEF SweepKept
<1>5. CASE Start(e)
  <2>1. eng[e].pc = "start" /\ UNCHANGED <<lease, sweep>> /\ (Step(e, "work") \/ Step(e, "closing"))
        BY <1>5 DEF Start
  <2>2. manifest' = Marked(manifest) \/ UNCHANGED manifest
        BY <1>5 DEF Start, PublishDone, PublishFailed
  <2>3. EngineKept(e)
        BY <1>p, <2>1, EngineMoves DEF Unbound
  <2>4. Owns(e) => manifest.status # "absent"
        BY <2>1, OwnerHasManifest DEF Unbound
  <2>. QED BY <2>1, <2>2, <2>3, <2>4, KeptFollows, SameLeaseKept, MarkedKept DEF SweepKept
<1>. QED BY <1>1, <1>2, <1>3, <1>4, <1>5

\* The status of a checkpoint is one of an existing manifest.
LEMMA DuePresent ==
  ASSUME TypeInv, NEW e \in Engines
  PROVE  Due(e).status # "absent"
  BY DEF Due, TypeInv, Engs, EngineRecord, Outcomes

LEMMA FollowWorking ==
  ASSUME TypeInv, FollowInv, NEW e \in Engines,
         \/ Work(e) \/ StageCancelled(e)
         \/ AppendRecord(e) \/ UpdateManifest(e) \/ Confirm(e)
         \/ Announce(e) \/ Finale(e) \/ Fail(e)
  PROVE  FollowInv'
<1>0. eng \in [Engines -> Engs] /\ eng[e] \in Engs
      BY DEF TypeInv
<1>1. /\ eng[e].pc \in {"work", "append", "update", "confirm", "announce", "finale", "failing"}
      /\ UNCHANGED <<lease, sweep>>
      BY DEF Work, StageDone, StageFails, StageCancelled, Terminate, Claim, Working,
             AppendRecord, UpdateManifest, Confirm, Announce, Finale, Fail
<1>2. Owns(e) => manifest.status # "absent"
      BY <1>1, OwnerHasManifest DEF Unbound
<1>3. EngineKept(e)
  <2>p. {"append", "update", "finale", "work", "closing"} \subseteq PCs
        BY DEF PCs
  <2>1. eng[e].pc \notin Unbound
        BY <1>1 DEF Unbound
  <2>2. CASE \/ \E p \in {"append", "update", "finale", "work", "closing"} : Step(e, p)
             \/ eng' = Excepted(e)
        BY <2>p, <2>1, <2>2, EngineMoves
  <2>3. CASE eng' = Onward(e) /\ eng[e].pc \in {"append", "update"}
        BY <2>3, OnwardKept
  <2>4. CASE \/ eng' = [eng EXCEPT ![e].pc = "append", ![e].outcome = "terminated"]
             \/ eng' = [eng EXCEPT ![e].pc = "append", ![e].scope = "claimed", ![e].outcome = "completed"]
             \/ eng' = [eng EXCEPT ![e].pc = "append", ![e].outcome = "failed"]
    <3>1. /\ \A g \in Engines \ {e} : eng'[g] = eng[g]
          /\ eng'[e].token = eng[e].token
          /\ eng'[e].resumed = eng[e].resumed /\ eng'[e].hosted = eng[e].hosted
          BY <1>0, <2>4 DEF Engs, EngineRecord
    <3>. QED BY <2>1, <3>1 DEF EngineKept, FollowInv, Unwritten
  <2>. QED BY <2>2, <2>3, <2>4
           DEF Work, StageDone, StageFails, StageCancelled, Terminate, Claim,
               AppendRecord, UpdateManifest, Confirm, Announce, Finale, Fail
<1>4. ManifestKept
  <2>1. CASE manifest' = Marked(manifest) \/ UNCHANGED manifest
        BY <2>1, MarkedKept
  <2>2. CASE AppendRecord(e)
        BY <2>2 DEF AppendRecord, ManifestKept, TypeInv, Manifest
  <2>3. CASE UpdateManifest(e) /\ ~UNCHANGED manifest
    <3>1. eng[e].pc = "update" /\ Owns(e)
          BY <2>3 DEF UpdateManifest, WriteDone
    <3>2. Due(e).status \in Statuses \ {"absent"}
          BY <3>1, LineType, DuePresent
    <3>3. /\ WithStatus(manifest, Due(e).status) \in Manifest
          /\ WithStatus(manifest, Due(e).status).status # "absent"
          /\ WithStatus(manifest, Due(e).status).token = manifest.token
          BY <3>2, StatusKept, StatusType DEF TypeInv
    <3>4. PICK m \in Manifest : m = WithStatus(manifest, Due(e).status)
          BY <3>3
    <3>5. manifest' = [m EXCEPT !.next = IF Due(e).next = "none" THEN @ ELSE Due(e).next]
          BY <2>3, <3>4 DEF UpdateManifest
    <3>. QED BY <1>2, <3>1, <3>3, <3>4, <3>5 DEF ManifestKept, Manifest
  <2>4. CASE Confirm(e) /\ ~UNCHANGED manifest
    <3>1. Owns(e) /\ manifest' = WithStatus(manifest, Due(e).status)
          BY <2>4 DEF Confirm, WriteDone
    <3>2. eng[e].outcome \in {"completed", "terminated"}
          BY <1>0, <2>4 DEF Confirm, Engs, Coherent
    <3>3. Due(e).status \in Statuses \ {"absent"}
          BY <3>2 DEF Due, Statuses
    <3>. QED BY <1>2, <3>1, <3>3, StatusKept
  <2>5. \/ manifest' = Marked(manifest) \/ UNCHANGED manifest
        \/ AppendRecord(e) \/ UpdateManifest(e) \/ Confirm(e)
        BY DEF Work, StageDone, StageFails, StageCancelled, Terminate, Claim,
               Announce, Finale, Fail, PublishDone, PublishFailed
  <2>. QED BY <2>1, <2>2, <2>3, <2>4, <2>5
<1>. QED BY <1>1, <1>2, <1>3, <1>4, KeptFollows, SameLeaseKept DEF SweepKept

LEMMA FollowDisturbed ==
  ASSUME TypeInv, FollowInv, NEW e \in Engines,
         \/ Close(e) \/ Crash(e) \/ CrashInAppend(e)
         \/ HeartbeatLost(e) \/ CancelLocal(e) \/ ConsumeCancel(e)
         \/ DrainMark(e) \/ DrainPublish(e) \/ DrainKill(e)
  PROVE  FollowInv'
<1>0. eng \in [Engines -> Engs] /\ eng[e] \in Engs
      BY DEF TypeInv
<1>a. (~eng[e].resumed /\ ~eng[e].hosted) \/ manifest.status # "absent"
      BY DEF FollowInv, Unwritten
<1>1. CASE Close(e) \/ Crash(e) \/ CrashInAppend(e)
  <2>1. /\ eng' = [eng EXCEPT ![e] = NoEngine] /\ UNCHANGED <<manifest, sweep>>
        /\ lease' = lease \/ lease' = L!Released(lease)
        BY <1>1 DEF Close, Crash, CrashInAppend
  <2>. QED BY <2>1, EngineMoves, KeptFollows, SameLeaseKept DEF ManifestKept, SweepKept, Unbound
<1>2. CASE HeartbeatLost(e) \/ CancelLocal(e) \/ ConsumeCancel(e)
  <2>1. eng' = Requested(e) /\ UNCHANGED <<manifest, sweep, lease>>
        BY <1>2 DEF HeartbeatLost, CancelLocal, ConsumeCancel
  <2>2. /\ \A g \in Engines \ {e} : eng'[g] = eng[g]
        /\ eng'[e].token = eng[e].token /\ eng'[e].pc = eng[e].pc
        /\ eng'[e].resumed = eng[e].resumed /\ eng'[e].hosted = eng[e].hosted
        BY <1>0, <2>1 DEF Requested, Engs, EngineRecord
  <2>3. EngineKept(e)
        BY <1>a, <2>2 DEF EngineKept
  <2>4. manifest.status = "absent" /\ Owns(e) => eng'[e].pc \in Unbound \cup {"bound", "init", "closing"}
        BY <2>2 DEF FollowInv, Unwritten
  <2>. QED BY <2>1, <2>3, <2>4, KeptFollows, SameLeaseKept DEF ManifestKept, SweepKept
<1>3. CASE DrainMark(e) \/ DrainPublish(e)
  <2>1. /\ \A g \in Engines \ {e} : eng'[g] = eng[g]
        /\ eng'[e].token = eng[e].token /\ eng'[e].pc = eng[e].pc
        /\ eng'[e].resumed = eng[e].resumed /\ eng'[e].hosted = eng[e].hosted
        BY <1>0, <1>3 DEF DrainMark, DrainPublish, Engs, EngineRecord
  <2>2. EngineKept(e)
        BY <1>a, <2>1 DEF EngineKept
  <2>3. manifest.status = "absent" /\ Owns(e) => eng'[e].pc \in Unbound \cup {"bound", "init", "closing"}
        BY <2>1 DEF FollowInv, Unwritten
  <2>4. ManifestKept
    <3>1. CASE DrainMark(e)
      <4>1. manifest.status # "absent"
            BY <1>a, <3>1 DEF DrainMark, Hosted
      <4>2. "interrupted" \in Statuses \ {"absent"}
            BY DEF Statuses
      <4>3. manifest' = WithStatus(manifest, "interrupted") \/ UNCHANGED manifest
            BY <3>1 DEF DrainMark
      <4>4. UNCHANGED manifest => ManifestKept
            BY DEF ManifestKept
      <4>. QED BY <4>1, <4>2, <4>3, <4>4, StatusKept
    <3>2. CASE DrainPublish(e)
      <4>1. manifest' = Marked(manifest) \/ UNCHANGED manifest
            BY <3>2 DEF DrainPublish, PublishDone, PublishFailed
      <4>. QED BY <4>1, MarkedKept
    <3>. QED BY <1>3, <3>1, <3>2
  <2>5. UNCHANGED <<lease, sweep>>
        BY <1>3 DEF DrainMark, DrainPublish
  <2>. QED BY <2>2, <2>3, <2>4, <2>5, KeptFollows, SameLeaseKept DEF SweepKept
<1>4. CASE DrainKill(e)
  <2>1. UNCHANGED <<lease, sweep, manifest>>
        BY <1>4 DEF DrainKill
  <2>2. EngineKept(e) /\ eng'[e].pc \in {"closing", "none"}
    <3>1. CASE Bound(e)
      <4>1. eng[e].pc \notin Unbound /\ Step(e, "closing") /\ "closing" \in PCs
            BY <1>4, <3>1 DEF DrainKill, Bound, Unbound, PCs
      <4>. QED BY <4>1, EngineMoves
    <3>2. CASE ~Bound(e)
          BY <1>4, <3>2, EngineMoves DEF DrainKill
    <3>. QED BY <3>1, <3>2
  <2>. QED BY <2>1, <2>2, KeptFollows, SameLeaseKept DEF ManifestKept, SweepKept, Unbound
<1>. QED BY <1>1, <1>2, <1>3, <1>4

\* A step that leaves the engines alone.
LEMMA QuietFollows ==
  ASSUME TypeInv, FollowInv, UNCHANGED eng, ManifestKept, LeaseKept, SweepKept
  PROVE  FollowInv'
<1>1. ASSUME NEW e \in Engines, Owns(e)' PROVE Owns(e)
      BY <1>1 DEF LeaseKept, Owns, Fenced, L!FenceHolds, L!HoldsEpoch
<1>2. manifest'.token <= lease'.token
      BY DEF FollowInv, ManifestKept, LeaseKept
<1>3. ManifestFollowsOwner'
      BY <1>1 DEF FollowInv, ManifestKept, ManifestFollowsOwner, Bound
<1>4. Unwritten'
  <2>1. manifest'.status = "absent" => sweep'.pc = "idle"
        BY DEF FollowInv, Unwritten, ManifestKept, SweepKept
  <2>. QED BY <1>1, <2>1 DEF FollowInv, Unwritten, ManifestKept
<1>. QED BY <1>2, <1>3, <1>4 DEF FollowInv

\* The sweep takes the epoch and the manifest from every engine.
LEMMA FollowSweep ==
  ASSUME TypeInv, FollowInv, Sweep
  PROVE  FollowInv'
<1>0. lease.token \in Nat /\ manifest.token \in Nat /\ Sweeper \notin Engines
      BY RunLifecycleAssumption DEF TypeInv, L!LeaderLease, Manifest
<1>a. sweep.pc # "idle" => manifest.status # "absent"
      BY DEF FollowInv, Unwritten
<1>1. CASE SweepList \/ SweepCrash \/ SweepRelease \/ SweepPublish
  <2>1. /\ UNCHANGED <<eng, manifest>> /\ (lease' = lease \/ lease' = L!Released(lease))
        /\ manifest.status # "absent" \/ sweep'.pc = "idle"
        BY <1>1, <1>a DEF SweepList, SweepCrash, SweepRelease, SweepPublish, NoSweep
  <2>. QED BY <2>1, QuietFollows, SameLeaseKept DEF ManifestKept, SweepKept
<1>2. CASE SweepAcquire
  <2>1. manifest.status # "absent" /\ UNCHANGED <<manifest, eng>>
        BY <1>2, <1>a DEF SweepAcquire
  <2>2. CASE UNCHANGED lease
        BY <2>1, <2>2, QuietFollows, SameLeaseKept DEF ManifestKept, SweepKept
  <2>3. CASE lease' = L!Acquired(lease, Sweeper)
    <3>1. /\ lease'.owner = Sweeper /\ lease'.token >= lease.token /\ lease'.token \in Nat
          BY <2>3, LeaseType DEF TypeInv, L!LeaderLease
    <3>2. \A e \in Engines : ~Owns(e)'
          BY <1>0, <3>1 DEF Owns, Fenced, L!FenceHolds, L!HoldsEpoch
    <3>3. manifest'.token <= lease'.token
          BY <1>0, <2>1, <3>1 DEF FollowInv
    <3>. QED BY <2>1, <3>2, <3>3 DEF FollowInv, ManifestFollowsOwner, Unwritten
  <2>. QED BY <1>2, <2>2, <2>3 DEF SweepAcquire
<1>3. CASE SweepBind
  <2>1. manifest.status # "absent" /\ UNCHANGED <<lease, eng>>
        BY <1>3, <1>a DEF SweepBind
  <2>2. CASE UNCHANGED manifest
        BY <2>1, <2>2, QuietFollows, SameLeaseKept DEF ManifestKept, SweepKept
  <2>3. CASE SweepOwns /\ manifest' = [manifest EXCEPT !.token = sweep.token]
    <3>1. lease.token = sweep.token /\ lease.owner = Sweeper
          BY <2>3, FenceToken DEF SweepOwns
    <3>2. manifest'.token = lease'.token /\ manifest'.status # "absent"
          BY <2>1, <2>3, <3>1 DEF TypeInv, Manifest
    <3>3. \A e \in Engines : ~Owns(e)'
          BY <1>0, <2>1, <3>1 DEF Owns, Fenced, L!FenceHolds, L!HoldsEpoch
    <3>4. manifest'.token <= lease'.token
          BY <1>0, <2>1, <3>2
    <3>. QED BY <3>2, <3>3, <3>4 DEF FollowInv, ManifestFollowsOwner, Unwritten
  <2>. QED BY <1>3, <2>2, <2>3 DEF SweepBind
<1>4. CASE SweepMark
  <2>1. manifest.status # "absent" /\ UNCHANGED <<lease, eng>>
        BY <1>4, <1>a DEF SweepMark
  <2>2. "interrupted" \in Statuses \ {"absent"}
        BY DEF Statuses
  <2>3. manifest' = WithStatus(manifest, "interrupted") \/ UNCHANGED manifest
        BY <1>4 DEF SweepMark
  <2>4. UNCHANGED manifest => ManifestKept
        BY DEF ManifestKept
  <2>5. ManifestKept
        BY <2>1, <2>2, <2>3, <2>4, StatusKept
  <2>. QED BY <2>1, <2>5, QuietFollows, SameLeaseKept DEF SweepKept
<1>. QED BY <1>1, <1>2, <1>3, <1>4 DEF Sweep

LEMMA FollowNext == TypeInv /\ FollowInv /\ [Next]_vars => FollowInv'
<1>. SUFFICES ASSUME TypeInv, FollowInv, [Next]_vars PROVE FollowInv'
     OBVIOUS
<1>1. ASSUME NEW e \in Engines, Engine(e) \/ Work(e) PROVE FollowInv'
      BY <1>1, FollowStarting, FollowRunning, FollowWorking, FollowDisturbed DEF Engine
<1>2. ASSUME NEW e \in Engines, Environment(e) PROVE FollowInv'
      BY <1>2, FollowStarting, FollowDisturbed DEF Environment
<1>3. CASE CancelRemote \/ Elapse \/ UNCHANGED vars
  <2>1. /\ UNCHANGED <<eng, manifest, sweep>>
        /\ lease' = lease \/ (L!Live(lease) /\ lease' = L!Elapsed(lease))
        BY <1>3 DEF CancelRemote, Elapse, vars
  <2>. QED BY <2>1, QuietFollows, SameLeaseKept DEF ManifestKept, SweepKept
<1>. QED BY <1>1, <1>2, <1>3, FollowSweep DEF Next

\* The manifest of a run bears the epoch of the engine that owns it, so the second
\* fence check never refuses the owner (bind_fence_token, _update_manifest).
THEOREM ManifestFollowsOwnerAlways == Spec => []ManifestFollowsOwner
<1>1. Init => FollowInv
  <2>1. Init => manifest.token <= lease.token
        BY DEF Init, NoManifest, L!NoLease
  <2>. QED BY <2>1 DEF Init, FollowInv, ManifestFollowsOwner, Unwritten, NoManifest, NoSweep, NoEngine, Unbound
<1>2. TypeInv /\ FollowInv /\ [Next]_vars => FollowInv'
      BY FollowNext
<1>3. FollowInv => ManifestFollowsOwner
      BY DEF FollowInv
<1>. QED BY <1>1, <1>2, <1>3, TypeAlways, PTL DEF Spec

(***************************************************************************)
(* No stage is done twice.  The stages have a place in the pipeline; the   *)
(* checkpoints of the journal climb it, and so does the owner of the run,  *)
(* which is always beyond what the journal holds.                          *)
(***************************************************************************)

Place == [received |-> 0, research |-> 1, report |-> 2,
          completed |-> 3, cancelled |-> 3, terminated |-> 3]

\* Every stage in the journal comes before stage s.
Below(s) == \A i \in DOMAIN journal :
              journal[i].stage \in WorkStages => Place[journal[i].stage] < Place[s]

JournalClimbs ==
  \A i \in DOMAIN journal :
    /\ journal[i].next # "none" => journal[i].seq # 0
    /\ journal[i].stage \in WorkStages =>
         /\ journal[i].next # "none"
         /\ \A k \in DOMAIN journal :
              /\ i < k /\ journal[k].stage \in WorkStages
                   => Place[journal[i].stage] < Place[journal[k].stage]
              /\ i <= k /\ journal[k].next # "none"
                   => Place[journal[i].stage] < Place[journal[k].next]

\* Where an engine may still append the checkpoint of a stage.
Active == {"init", "replayed", "start", "work", "append", "announce", "update"}

\* The next stage an engine does or records.
Ahead(x) == IF x.pc = "update" THEN Following[x.stage] ELSE x.stage

OwnerClimbs ==
  \A e \in Engines :
    Owns(e) /\ eng[e].outcome = "running" /\ eng[e].pc \in Active => Below(Ahead(eng[e]))

\* A new run: nothing has been written, and nobody else can take it up.
NewPCs == {"posted", "checked", "acquired", "bound", "init"}
NewRunAlone ==
  \A f \in Engines :
    ~eng[f].resumed /\ eng[f].pc \in NewPCs =>
      /\ journal = <<>> /\ ~manifest.frozen
      /\ \A g \in Engines \ {f} : eng[g].pc = "none"

ResumedFrozen ==
  /\ manifest.status = "absent" => ~manifest.frozen
  /\ \A e \in Engines : eng[e].resumed => manifest.frozen

NothingYet == lease.token = 0 => ~L!Live(lease) /\ journal = <<>>

StageInv == JournalClimbs /\ OwnerClimbs /\ NewRunAlone /\ ResumedFrozen /\ NothingYet

LEMMA PlaceType ==
  /\ \A s \in NextStages \cup {"received"} : Place[s] \in Nat
  /\ \A s \in DOMAIN Following : /\ s \in NextStages \cup {"received"}
                                 /\ Following[s] \in NextStages
                                 /\ Place[s] < Place[Following[s]]
  /\ WorkStages \subseteq NextStages
<1>1. DOMAIN Following = {"received", "research", "report"}
      BY DEF Following
<1>. QED BY <1>1 DEF Place, Following, NextStages, WorkStages

LEMMA AheadType ==
  ASSUME NEW x \in Engs, x.outcome = "running"
  PROVE  /\ Ahead(x) \in NextStages \cup {"received"}
         /\ x.pc \in {"append", "update"} => x.stage \in DOMAIN Following
<1>1. x.pc \in {"append", "update"} => x.stage \in DOMAIN Following
      BY DEF Engs, Coherent
<1>2. x.stage \in NextStages \cup {"received"}
      BY DEF Engs, EngineRecord
<1>. QED BY <1>1, <1>2, PlaceType DEF Ahead

\* A later place is beyond the journal as well.
LEMMA BelowLater ==
  ASSUME TypeInv, NEW s \in NextStages \cup {"received"}, NEW u \in NextStages \cup {"received"},
         Below(s), Place[s] <= Place[u]
  PROVE  Below(u)
<1>1. \A i \in DOMAIN journal : journal[i].stage \in WorkStages => Place[journal[i].stage] \in Nat
      BY PlaceType
<1>2. Place[s] \in Nat /\ Place[u] \in Nat
      BY PlaceType
<1>. QED BY <1>1, <1>2 DEF Below

\* What replay() answers is beyond the journal.
LEMMA ReplayBelow ==
  ASSUME TypeInv, JournalClimbs
  PROVE  Below(ReplayNext(manifest, journal))
<1>. DEFINE cs == Checkpoints(Repaired(journal))
            last == CHOOSE i \in cs : \A k \in cs : k <= i
<1>0. /\ journal \in Seq(JournalRecord) /\ Repaired(journal) \in Seq(JournalRecord)
      /\ \A i \in 1 .. Len(Repaired(journal)) : Repaired(journal)[i] = journal[i]
      /\ Len(Repaired(journal)) \in Nat
      BY RepairedType DEF TypeInv
<1>1. ASSUME NEW i \in DOMAIN journal, journal[i].next # "none" PROVE i \in cs
  <2>1. journal[i].seq # 0
        BY <1>1 DEF JournalClimbs
  <2>2. i \in 1 .. Len(Repaired(journal))
        BY <1>0, <1>1, <2>1 DEF Repaired
  <2>. QED BY <1>0, <1>1, <2>2 DEF Checkpoints
<1>2. CASE cs = {}
      BY <1>1, <1>2 DEF Below, JournalClimbs
<1>3. CASE cs # {}
  <2>1. cs \in SUBSET (1 .. Len(Repaired(journal)))
        BY <1>0 DEF Checkpoints
  <2>2. \E i \in cs : \A k \in cs : k <= i
    <3>. HIDE DEF cs
    <3>. QED BY <1>0, <1>3, <2>1, LastOf
  <2>3. last \in cs /\ \A k \in cs : k <= last
        BY <2>2
  <2>4. ReplayNext(manifest, journal) = journal[last].next
        BY <1>3 DEF ReplayNext
  <2>5. last \in DOMAIN journal /\ journal[last].next # "none"
        BY <1>0, <2>1, <2>3, RepairedType DEF Checkpoints, TypeInv
  <2>6. ASSUME NEW i \in DOMAIN journal, journal[i].stage \in WorkStages
        PROVE  Place[journal[i].stage] < Place[journal[last].next]
    <3>1. journal[i].next # "none"
          BY <2>6 DEF JournalClimbs
    <3>2. i <= last
          BY <1>1, <2>3, <3>1
    <3>. HIDE DEF last
    <3>. QED BY <2>5, <2>6, <3>2 DEF JournalClimbs
  <2>. HIDE DEF last
  <2>. QED BY <2>4, <2>6 DEF Below
<1>. QED BY <1>2, <1>3

\* A manifest is not frozen after it was written, and does not go away.
ManifestStays ==
  /\ manifest'.frozen = manifest.frozen
  /\ manifest'.status = "absent" => manifest.status = "absent"

\* A step of engine f that writes no journal line.
LEMMA KeptStages ==
  ASSUME TypeInv, TypeInv', StageInv, NEW f \in Engines,
         UNCHANGED journal, LeaseKept, ManifestStays,
         \A g \in Engines \ {f} : eng'[g] = eng[g],
         eng'[f].pc \in Active /\ eng'[f].outcome = "running" =>
           /\ eng'[f].token = eng[f].token
           /\ \/ /\ eng[f].pc \in Active /\ eng[f].outcome = "running"
                 /\ Place[Ahead(eng[f])] <= Place[Ahead(eng'[f])]
              \/ Below(Ahead(eng'[f])),
         eng'[f].resumed => eng[f].resumed \/ manifest.frozen,
         ~eng'[f].resumed /\ eng'[f].pc \in NewPCs => ~eng[f].resumed /\ eng[f].pc \in NewPCs,
         eng'[f].pc # "none" => eng[f].pc # "none" \/ manifest.frozen
  PROVE  StageInv'
<1>1. JournalClimbs'
      BY DEF StageInv, JournalClimbs
<1>2. NothingYet'
      BY DEF StageInv, NothingYet, LeaseKept
<1>3. ResumedFrozen'
      BY DEF StageInv, ResumedFrozen, ManifestStays
<1>4. NewRunAlone'
  <2>. SUFFICES ASSUME NEW h \in Engines, ~eng'[h].resumed, eng'[h].pc \in NewPCs
                PROVE  /\ journal' = <<>> /\ ~manifest'.frozen
                       /\ \A g \in Engines \ {h} : eng'[g].pc = "none"
       BY DEF NewRunAlone
  <2>1. ~eng[h].resumed /\ eng[h].pc \in NewPCs
        OBVIOUS
  <2>2. /\ journal = <<>> /\ ~manifest.frozen
        /\ \A g \in Engines \ {h} : eng[g].pc = "none"
        BY <2>1 DEF StageInv, NewRunAlone
  <2>. QED BY <2>2 DEF ManifestStays
<1>5. OwnerClimbs'
  <2>. SUFFICES ASSUME NEW h \in Engines, Owns(h)', eng'[h].outcome = "running", eng'[h].pc \in Active
                PROVE  Below(Ahead(eng[h]))'
       BY DEF OwnerClimbs
  <2>1. Owns(h)
        BY DEF LeaseKept, Owns, Fenced, L!FenceHolds, L!HoldsEpoch
  <2>2. Below(Ahead(eng'[h]))
    <3>1. CASE h # f
          BY <2>1, <3>1 DEF StageInv, OwnerClimbs
    <3>2. CASE h = f
      <4>1. CASE Below(Ahead(eng'[f]))
            BY <3>2, <4>1
      <4>2. CASE /\ eng[f].pc \in Active /\ eng[f].outcome = "running"
                 /\ Place[Ahead(eng[f])] <= Place[Ahead(eng'[f])]
        <5>1. Below(Ahead(eng[f]))
              BY <2>1, <3>2, <4>2 DEF StageInv, OwnerClimbs
        <5>2. /\ Ahead(eng[f]) \in NextStages \cup {"received"}
              /\ Ahead(eng'[f]) \in NextStages \cup {"received"}
              BY <3>2, <4>2, AheadType, PlaceType DEF TypeInv
        <5>. QED BY <3>2, <4>2, <5>1, <5>2, BelowLater
      <4>. QED BY <3>2, <4>1, <4>2
    <3>. QED BY <3>1, <3>2
  <2>. QED BY <2>2 DEF Below
<1>. QED BY <1>1, <1>2, <1>3, <1>4, <1>5 DEF StageInv

LEMMA StatusStays ==
  ASSUME TypeInv, NEW s \in Statuses \ {"absent"},
         manifest' \in {manifest, Marked(manifest), WithStatus(manifest, s)}
  PROVE  ManifestStays
  BY DEF ManifestStays, Marked, Degraded, WithStatus, StatusAfter, TypeInv, Manifest

\* The stages when a run is created, taken up or bound.
LEMMA StagesStarting ==
  ASSUME TypeInv, TypeInv', StageInv, NEW e \in Engines,
         Create(e) \/ CreateEmbedded(e) \/ ResumeCheck(e) \/ Acquire(e) \/ Bind(e)
  PROVE  StageInv'
<1>0. /\ eng \in [Engines -> Engs] /\ eng' \in [Engines -> Engs]
      /\ lease.token \in Nat
      BY DEF TypeInv, L!LeaderLease
<1>1. CASE Create(e) \/ CreateEmbedded(e)
  <2>1. /\ manifest.status = "absent" /\ lease.token = 0 /\ UNCHANGED <<lease, journal>>
        /\ \A g \in Engines : eng[g].pc = "none"
        BY <1>1 DEF Create, CreateEmbedded, Fresh
  <2>2. journal = <<>>
        BY <2>1 DEF StageInv, NothingYet
  <2>3. /\ \A g \in Engines \ {e} : eng'[g] = eng[g]
        /\ eng'[e].pc = "posted" /\ eng'[e].resumed = eng[e].resumed
        BY <1>0, <1>1 DEF Create, CreateEmbedded, Step, Engs, EngineRecord
  <2>4. ~manifest'.frozen
        BY <1>1, <2>1 DEF Create, CreateEmbedded, NoManifest, StageInv, ResumedFrozen
  <2>5. \A g \in Engines : ~eng[g].resumed
        BY <2>1 DEF StageInv, ResumedFrozen
  <2>6. ResumedFrozen'
        BY <2>3, <2>4, <2>5 DEF ResumedFrozen
  <2>7. NewRunAlone'
        BY <2>1, <2>2, <2>3, <2>4 DEF NewRunAlone, NewPCs
  <2>8. OwnerClimbs' /\ JournalClimbs' /\ NothingYet'
        BY <2>1, <2>2 DEF OwnerClimbs, JournalClimbs, StageInv, NothingYet, Below
  <2>. QED BY <2>6, <2>7, <2>8 DEF StageInv
<1>2. CASE ResumeCheck(e)
  <2>1. /\ manifest.frozen /\ UNCHANGED <<lease, journal, manifest>>
        /\ eng'[e].pc = "checked" /\ eng'[e].resumed
        /\ \A g \in Engines \ {e} : eng'[g] = eng[g]
        BY <1>0, <1>2 DEF ResumeCheck, Recoverable, NoEngine
  <2>2. ManifestStays /\ LeaseKept
        BY <2>1, SameLeaseKept DEF ManifestStays
  <2>. QED BY <2>1, <2>2, KeptStages DEF Active
<1>3. CASE Acquire(e)
  <2>1. CASE eng' = [eng EXCEPT ![e] = NoEngine] /\ UNCHANGED lease
    <3>1. /\ UNCHANGED <<lease, journal, manifest>>
          /\ eng'[e].pc = "none" /\ ~eng'[e].resumed
          /\ \A g \in Engines \ {e} : eng'[g] = eng[g]
          BY <1>0, <1>3, <2>1 DEF Acquire, NoEngine
    <3>2. ManifestStays /\ LeaseKept
          BY <3>1, SameLeaseKept DEF ManifestStays
    <3>. QED BY <3>1, <3>2, KeptStages DEF Active, NewPCs
  <2>2. CASE /\ lease' = L!Acquired(lease, e)
             /\ eng' = [eng EXCEPT ![e].pc = "acquired", ![e].token = lease'.token]
    <3>1. /\ lease'.owner = e /\ UNCHANGED <<journal, manifest>>
          /\ eng[e].pc \in {"posted", "checked"}
          BY <1>3, <2>2, LeaseType DEF Acquire, TypeInv
    <3>2. /\ \A g \in Engines \ {e} : eng'[g] = eng[g]
          /\ eng'[e].pc = "acquired" /\ eng'[e].resumed = eng[e].resumed
          BY <1>0, <2>2 DEF Engs, EngineRecord
    <3>3. lease'.token # 0
          BY <1>0, <2>2 DEF L!Acquired, L!SameLiveEpoch, StageInv, NothingYet
    <3>4. OwnerClimbs'
          BY <3>1, <3>2 DEF OwnerClimbs, Owns, Fenced, L!FenceHolds, L!HoldsEpoch, Active
    <3>5. NewRunAlone'
          BY <3>1, <3>2 DEF StageInv, NewRunAlone, NewPCs
    <3>6. JournalClimbs' /\ ResumedFrozen' /\ NothingYet'
          BY <3>1, <3>2, <3>3 DEF StageInv, JournalClimbs, ResumedFrozen, NothingYet
    <3>. QED BY <3>4, <3>5, <3>6 DEF StageInv
  <2>. QED BY <1>3, <2>1, <2>2 DEF Acquire
<1>4. CASE Bind(e)
  <2>1. UNCHANGED <<lease, journal>> /\ eng[e].pc = "acquired"
        BY <1>4 DEF Bind
  <2>2. /\ \A g \in Engines \ {e} : eng'[g] = eng[g]
        /\ \/ eng'[e].pc \in {"bound", "closing"} /\ eng'[e].resumed = eng[e].resumed
           \/ eng'[e].pc = "none" /\ ~eng'[e].resumed
        BY <1>0, <1>4 DEF Bind, Step, NoEngine, Engs, EngineRecord
  <2>3. ManifestStays /\ LeaseKept
        BY <1>4, <2>1, SameLeaseKept DEF Bind, ManifestStays, TypeInv, Manifest
  <2>. QED BY <2>1, <2>2, <2>3, KeptStages DEF Active, NewPCs
<1>. QED BY <1>1, <1>2, <1>3, <1>4

LEMMA StagesRunning ==
  ASSUME TypeInv, TypeInv', StageInv, NEW e \in Engines,
         NewRun(e) \/ Initialize(e) \/ Replay(e) \/ SetRunning(e) \/ Start(e)
  PROVE  StageInv'
<1>0. /\ eng \in [Engines -> Engs] /\ eng' \in [Engines -> Engs]
      /\ "failed" \in Statuses \ {"absent"}
      BY DEF TypeInv, Statuses
<1>1. CASE NewRun(e)
  <2>1. UNCHANGED <<lease, journal>> /\ eng[e].pc = "bound" /\ ~eng[e].resumed
        BY <1>1 DEF NewRun
  <2>2. /\ \A g \in Engines \ {e} : eng'[g] = eng[g]
        /\ eng'[e].pc \in {"init", "closing"} /\ eng'[e].resumed = eng[e].resumed
        /\ eng'[e].token = eng[e].token
        /\ eng'[e].pc = "init" => eng'[e].stage = "received"
        BY <1>0, <1>1 DEF NewRun, Step, Engs, EngineRecord
  <2>3. ManifestStays /\ LeaseKept
        BY <1>0, <1>1, <2>1, SameLeaseKept, StatusStays DEF NewRun, PublishDone, PublishFailed
  <2>4. Below("received")
        BY <2>1 DEF StageInv, NewRunAlone, NewPCs, Below
  <2>. QED BY <2>1, <2>2, <2>3, <2>4, KeptStages DEF Active, NewPCs, Ahead
<1>2. CASE Initialize(e)
  <2>1. UNCHANGED <<lease, journal>> /\ eng[e].pc = "init" /\ eng[e].stage = "received"
        BY <1>0, <1>2 DEF Initialize, Engs, Coherent
  <2>2. /\ \A g \in Engines \ {e} : eng'[g] = eng[g]
        /\ eng'[e].resumed = eng[e].resumed /\ eng'[e].token = eng[e].token
        /\ eng'[e].outcome = eng[e].outcome
        /\ \/ eng'[e].pc = "append" /\ eng'[e].stage = "received"
           \/ eng'[e].pc = "start" /\ eng'[e].stage = "research"
        BY <1>0, <1>2, <2>1 DEF Initialize, Engs, EngineRecord
  <2>3. CASE manifest.status = "absent" /\ Owns(e)
    <3>1. manifest'.status = "running" /\ manifest'.frozen
          BY <1>2, <2>3 DEF Initialize, NoManifest
    <3>2. /\ ResumedFrozen' /\ JournalClimbs' /\ NothingYet'
          BY <2>1, <3>1 DEF ResumedFrozen, StageInv, JournalClimbs, NothingYet
    <3>3. \A h \in Engines \ {e} : ~Owns(h)'
          BY <2>1, <2>3 DEF Owns, Fenced, L!FenceHolds, L!HoldsEpoch
    <3>4. Owns(e) /\ eng[e].outcome = "running" => Below("received")
          BY <2>1 DEF StageInv, OwnerClimbs, Active, Ahead
    <3>5. Below("received") => Below("research")
          BY BelowLater DEF NextStages, WorkStages, Place
    <3>6. OwnerClimbs'
          BY <2>1, <2>2, <2>3, <3>3, <3>4, <3>5 DEF OwnerClimbs, Ahead, Below
    <3>7. NewRunAlone'
      <4>1. ASSUME NEW h \in Engines, ~eng'[h].resumed, eng'[h].pc \in NewPCs PROVE FALSE
        <5>1. h # e
              BY <2>2, <4>1 DEF NewPCs
        <5>2. eng[e].pc = "none"
              BY <2>2, <4>1, <5>1 DEF StageInv, NewRunAlone
        <5>. QED BY <2>1, <5>2
      <4>. QED BY <4>1 DEF NewRunAlone
    <3>. QED BY <3>2, <3>6, <3>7 DEF StageInv
  <2>4. CASE ~(manifest.status = "absent" /\ Owns(e))
    <3>1. UNCHANGED manifest
          BY <1>2, <2>4 DEF Initialize
    <3>2. ManifestStays /\ LeaseKept
          BY <2>1, <3>1, SameLeaseKept DEF ManifestStays
    <3>3. /\ eng'[e].pc \in Active /\ eng[e].pc \in Active
          /\ Place[Ahead(eng[e])] <= Place[Ahead(eng'[e])]
          BY <2>1, <2>2 DEF Active, Ahead, Place
    <3>. QED BY <2>1, <2>2, <3>2, <3>3, KeptStages DEF NewPCs
  <2>. QED BY <2>3, <2>4
<1>3. CASE Replay(e)
  <2>1. UNCHANGED <<lease, journal>> /\ eng[e].pc = "bound" /\ eng[e].resumed
        BY <1>3 DEF Replay
  <2>2. /\ \A g \in Engines \ {e} : eng'[g] = eng[g]
        /\ eng'[e].pc \in {"leaked", "closing", "replayed"} /\ eng'[e].resumed = eng[e].resumed
        /\ eng'[e].token = eng[e].token
        /\ eng'[e].pc = "replayed" => eng'[e].stage = ReplayNext(manifest, journal)
    <3>1. \/ eng' = [eng EXCEPT ![e].pc = "leaked"]
          \/ eng' = [eng EXCEPT ![e].pc = "closing"]
          \/ eng' = [eng EXCEPT ![e].pc = "replayed", ![e].stage = ReplayNext(manifest, journal)]
          BY <1>3 DEF Replay, Step
    <3>. QED BY <1>0, <3>1 DEF Engs, EngineRecord
  <2>3. ManifestStays /\ LeaseKept
        BY <1>0, <1>3, <2>1, SameLeaseKept, StatusStays DEF Replay, PublishDone, PublishFailed
  <2>4. Below(ReplayNext(manifest, journal))
        BY ReplayBelow DEF StageInv
  <2>. QED BY <2>1, <2>2, <2>3, <2>4, KeptStages DEF Active, NewPCs, Ahead
<1>4. CASE SetRunning(e) \/ Start(e)
  <2>1. UNCHANGED <<lease, journal>> /\ eng[e].pc \in {"replayed", "start"}
        BY <1>4 DEF SetRunning, Start
  <2>2. /\ \A g \in Engines \ {e} : eng'[g] = eng[g]
        /\ eng'[e].pc \in {"start", "work", "closing"} /\ eng'[e].resumed = eng[e].resumed
        /\ eng'[e].token = eng[e].token /\ eng'[e].stage = eng[e].stage
        /\ eng'[e].outcome = eng[e].outcome
    <3>1. \E p \in {"start", "work", "closing"} : eng' = [eng EXCEPT ![e].pc = p]
          BY <1>4 DEF SetRunning, Start, Step
    <3>. QED BY <1>0, <3>1 DEF Engs, EngineRecord
  <2>3. ManifestStays
    <3>1. CASE SetRunning(e)
          BY <3>1 DEF SetRunning, ManifestStays, StatusAfter, TypeInv, Manifest
    <3>2. CASE Start(e)
          BY <1>0, <3>2, StatusStays DEF Start, PublishDone, PublishFailed
    <3>. QED BY <1>4, <3>1, <3>2
  <2>4. Place[eng[e].stage] \in Nat
        BY <1>0, PlaceType DEF Engs, EngineRecord
  <2>5. Place[Ahead(eng[e])] <= Place[Ahead(eng'[e])]
        BY <2>1, <2>2, <2>4 DEF Ahead
  <2>. QED BY <2>1, <2>2, <2>3, <2>5, SameLeaseKept, KeptStages DEF Active, NewPCs
<1>. QED BY <1>1, <1>2, <1>3, <1>4

\* A checkpoint leads on to the stage after the one it was of.
LEMMA OnwardShape ==
  ASSUME TypeInv, NEW e \in Engines, eng[e].pc \in {"append", "update"}, eng' = Onward(e)
  PROVE  /\ \A g \in Engines \ {e} : eng'[g] = eng[g]
         /\ eng'[e].token = eng[e].token /\ eng'[e].resumed = eng[e].resumed
         /\ eng'[e].pc \notin NewPCs \cup {"none", "update"}
         /\ eng'[e].pc \in Active => /\ eng[e].outcome = "running"
                                     /\ eng'[e].stage = Following[eng[e].stage]
<1>1. PICK x \in Engs : x = eng[e]
      BY MovedType
<1>2. eng \in [Engines -> Engs] /\ x.outcome \in Outcomes
      BY DEF TypeInv, Engs, EngineRecord
<1>3. CASE x.outcome # "running"
  <2>1. PICK p \in {"closing", "finale", "confirm"} : eng' = [eng EXCEPT ![e].pc = p]
    <3>1. CASE x.outcome = "failed"
          BY <1>1, <3>1 DEF Onward
    <3>2. CASE x.outcome = "cancelled"
          BY <1>1, <3>2 DEF Onward
    <3>3. CASE x.outcome \in {"completed", "terminated"}
          BY <1>1, <3>3 DEF Onward
    <3>. QED BY <1>2, <1>3, <3>1, <3>2, <3>3 DEF Outcomes
  <2>. QED BY <1>2, <2>1 DEF Engs, EngineRecord, NewPCs, Active
<1>4. CASE x.outcome = "running"
  <2>1. PICK p \in {"start", "announce"} :
          eng' = [eng EXCEPT ![e].pc = p, ![e].stage = Following[eng[e].stage]]
        BY <1>1, <1>4 DEF Onward
  <2>. QED BY <1>1, <1>2, <1>4, <2>1 DEF Engs, EngineRecord, NewPCs, Active
<1>. QED BY <1>3, <1>4

\* So an engine past its checkpoint is not behind where it was.
LEMMA OnwardStages ==
  ASSUME TypeInv, TypeInv', StageInv, NEW e \in Engines, eng[e].pc \in {"append", "update"},
         eng' = Onward(e), UNCHANGED <<journal, lease>>, ManifestStays
  PROVE  StageInv'
<1>1. /\ \A g \in Engines \ {e} : eng'[g] = eng[g]
      /\ eng'[e].token = eng[e].token /\ eng'[e].resumed = eng[e].resumed
      /\ eng'[e].pc \notin NewPCs \cup {"none", "update"}
      /\ eng'[e].pc \in Active => /\ eng[e].outcome = "running"
                                  /\ eng'[e].stage = Following[eng[e].stage]
      BY OnwardShape
<1>2. ASSUME eng'[e].pc \in Active
      PROVE  Place[Ahead(eng[e])] <= Place[Ahead(eng'[e])]
  <2>1. eng[e].stage \in DOMAIN Following
        BY <1>1, <1>2, MovedType, AheadType
  <2>2. /\ Place[eng[e].stage] \in Nat /\ Place[Following[eng[e].stage]] \in Nat
        /\ Place[eng[e].stage] < Place[Following[eng[e].stage]]
        BY <2>1, PlaceType
  <2>3. Ahead(eng'[e]) = Following[eng[e].stage]
        BY <1>1, <1>2 DEF Ahead
  <2>. QED BY <2>2, <2>3 DEF Ahead
<1>. QED BY <1>1, <1>2, KeptStages, SameLeaseKept DEF Active

\* A record at the end of a climbing journal.
LEMMA ClimbsOn ==
  ASSUME TypeInv, JournalClimbs, NEW r \in JournalRecord, journal' = Append(Repaired(journal), r),
         r.next # "none" => r.seq # 0 /\ Below(r.next),
         r.stage \in WorkStages => /\ r.next # "none" /\ Below(r.stage)
                                   /\ Place[r.stage] < Place[r.next]
  PROVE  JournalClimbs'
<1>. DEFINE w == Repaired(journal)
            n == Len(w) + 1
<1>1. /\ w \in Seq(JournalRecord) /\ Len(w) \in Nat
      /\ \A i \in 1 .. Len(w) : i \in DOMAIN journal /\ w[i] = journal[i]
      BY RepairedType DEF TypeInv
<1>2. /\ DOMAIN journal' = 1 .. n
      /\ \A i \in 1 .. Len(w) : journal'[i] = journal[i] /\ i \in DOMAIN journal
      /\ journal'[n] = r
      BY <1>1
<1>. HIDE DEF w
<1>3. ASSUME NEW i \in 1 .. Len(w)
      PROVE  /\ journal'[i].next # "none" => journal'[i].seq # 0
             /\ journal'[i].stage \in WorkStages =>
                  /\ journal'[i].next # "none"
                  /\ \A k \in 1 .. n :
                       /\ i < k /\ journal'[k].stage \in WorkStages
                            => Place[journal'[i].stage] < Place[journal'[k].stage]
                       /\ i <= k /\ journal'[k].next # "none"
                            => Place[journal'[i].stage] < Place[journal'[k].next]
  <2>1. ASSUME NEW k \in 1 .. Len(w), journal'[i].stage \in WorkStages
        PROVE  /\ i < k /\ journal'[k].stage \in WorkStages
                    => Place[journal'[i].stage] < Place[journal'[k].stage]
               /\ i <= k /\ journal'[k].next # "none"
                    => Place[journal'[i].stage] < Place[journal'[k].next]
        BY <1>2, <2>1 DEF JournalClimbs
  <2>2. ASSUME journal'[i].stage \in WorkStages
        PROVE  /\ r.stage \in WorkStages => Place[journal'[i].stage] < Place[r.stage]
               /\ r.next # "none" => Place[journal'[i].stage] < Place[r.next]
        BY <1>2, <2>2 DEF Below
  <2>3. /\ journal'[i].next # "none" => journal'[i].seq # 0
        /\ journal'[i].stage \in WorkStages => journal'[i].next # "none"
        BY <1>2 DEF JournalClimbs
  <2>4. \A k \in 1 .. n : k \in 1 .. Len(w) \/ k = n
        BY <1>1
  <2>. QED BY <1>2, <2>1, <2>2, <2>3, <2>4
<1>4. \A i \in 1 .. n : i \in 1 .. Len(w) \/ (i = n /\ \A k \in 1 .. n : ~(n < k) /\ (n <= k => k = n))
      BY <1>1
<1>. QED BY <1>2, <1>3, <1>4 DEF JournalClimbs

\* The owner's record climbs, and then the owner is beyond its own record.
LEMMA LineClimbs ==
  ASSUME TypeInv, StageInv, NEW e \in Engines, eng[e].pc = "append", Owns(e), journal' = Line(e)
  PROVE  /\ JournalClimbs'
         /\ eng[e].outcome = "running" => (\A i \in DOMAIN journal' : journal'[i].stage \in WorkStages
              => Place[journal'[i].stage] < Place[Following[eng[e].stage]])
<1>1. PICK r \in JournalRecord :
        /\ Line(e) = Append(Repaired(journal), r)
        /\ r.seq = NextSeq(manifest, Repaired(journal))
        /\ r.stage = Due(e).stage /\ r.next = Due(e).next
      BY LineShape
<1>2. r.seq # 0
  <2>1. manifest.seq \in Nat /\ Len(Repaired(journal)) \in Nat
        BY RepairedType DEF TypeInv, Manifest
  <2>. QED BY <1>1, <2>1 DEF NextSeq
<1>3. eng[e] \in Engs /\ eng[e].outcome \in Outcomes
      BY MovedType DEF Engs, EngineRecord
<1>4. CASE eng[e].outcome = "running"
  <2>1. /\ eng[e].stage \in DOMAIN Following
        /\ Below(eng[e].stage)
    <3>1. Below(Ahead(eng[e]))
          BY <1>4 DEF StageInv, OwnerClimbs, Active
    <3>. QED BY <1>3, <1>4, <3>1, AheadType DEF Ahead
  <2>2. r.stage = eng[e].stage /\ r.next = Following[eng[e].stage]
        BY <1>1, <1>4 DEF Due
  <2>3. /\ eng[e].stage \in NextStages \cup {"received"}
        /\ Following[eng[e].stage] \in NextStages
        /\ Place[eng[e].stage] < Place[Following[eng[e].stage]]
        /\ Place[eng[e].stage] \in Nat /\ Place[Following[eng[e].stage]] \in Nat
        BY <2>1, PlaceType
  <2>4. Below(Following[eng[e].stage])
        BY <2>1, <2>3, BelowLater
  <2>5. r.next # "none"
        BY <2>2, <2>3 DEF NextStages, WorkStages
  <2>6. JournalClimbs'
        BY <1>1, <1>2, <2>1, <2>2, <2>3, <2>4, <2>5, ClimbsOn DEF StageInv
  <2>7. ASSUME NEW i \in DOMAIN journal', journal'[i].stage \in WorkStages
        PROVE  Place[journal'[i].stage] < Place[Following[eng[e].stage]]
    <3>1. Repaired(journal) \in Seq(JournalRecord)
          BY RepairedType DEF TypeInv
    <3>2. PICK w \in Seq(JournalRecord) : w = Repaired(journal)
          BY <3>1
    <3>3. journal' = Append(w, r)
          BY <1>1, <3>2
    <3>4. CASE i \in 1 .. Len(w)
      <4>1. i \in DOMAIN journal /\ journal'[i] = journal[i]
            BY <3>2, <3>3, <3>4, RepairedType DEF TypeInv
      <4>. QED BY <2>4, <2>7, <4>1 DEF Below
    <3>5. CASE i = Len(w) + 1
          BY <2>2, <2>3, <3>3, <3>5
    <3>. QED BY <3>3, <3>4, <3>5
  <2>. QED BY <2>6, <2>7
<1>5. CASE eng[e].outcome = "failed"
  <2>1. r.stage = "failed" /\ r.next = "none"
        BY <1>1, <1>5 DEF Due
  <2>. QED BY <1>1, <1>5, <2>1, ClimbsOn DEF StageInv, WorkStages
<1>6. CASE eng[e].outcome \in {"completed", "cancelled", "terminated"}
  <2>1. r.stage = eng[e].outcome /\ r.next = eng[e].outcome
        BY <1>1, <1>6 DEF Due
  <2>2. Below(eng[e].outcome)
        BY <1>6 DEF Below, WorkStages, Place
  <2>. QED BY <1>1, <1>2, <1>6, <2>1, <2>2, ClimbsOn DEF StageInv, WorkStages
<1>. QED BY <1>3, <1>4, <1>5, <1>6 DEF Outcomes

LEMMA StagesWritten ==
  ASSUME TypeInv, TypeInv', StageInv, NEW e \in Engines, AppendRecord(e) \/ CrashInAppend(e)
  PROVE  StageInv'
<1>0. /\ eng \in [Engines -> Engs] /\ lease.token \in Nat
      /\ UNCHANGED lease /\ eng[e].pc = "append"
      BY DEF TypeInv, L!LeaderLease, AppendRecord, CrashInAppend
<1>1. ManifestStays
      BY DEF AppendRecord, CrashInAppend, ManifestStays, TypeInv, Manifest
<1>2. CASE WriteFailed(e) /\ AppendRecord(e) /\ eng' = Onward(e) /\ UNCHANGED journal
      BY <1>0, <1>1, <1>2, OnwardStages
<1>3. CASE /\ Owns(e) /\ journal' \in {Line(e), Append(Repaired(journal), TornLine)}
           /\ \/ journal' = Line(e) /\ Step(e, "update")
              \/ eng' = [eng EXCEPT ![e] = NoEngine]
  <2>1. /\ \A g \in Engines \ {e} : eng'[g] = eng[g] /\ ~Owns(g)'
        /\ lease.token # 0
    <3>1. \A g \in Engines \ {e} : eng'[g] = eng[g]
          BY <1>0, <1>3 DEF Step
    <3>2. lease.owner = e /\ L!Live(lease)
          BY <1>3 DEF Owns, Fenced, L!FenceHolds, L!HoldsEpoch
    <3>. QED BY <1>0, <3>1, <3>2 DEF StageInv, NothingYet, Owns, Fenced, L!FenceHolds, L!HoldsEpoch
  <2>2. JournalClimbs'
    <3>1. CASE journal' = Line(e)
          BY <1>0, <1>3, <3>1, LineClimbs
    <3>2. CASE journal' = Append(Repaired(journal), TornLine)
      <4>1. TornLine \in JournalRecord /\ TornLine.next = "none" /\ TornLine.stage \notin WorkStages
            BY DEF TornLine, JournalRecord, WorkStages
      <4>. QED BY <3>2, <4>1, ClimbsOn DEF StageInv
    <3>. QED BY <1>3, <3>1, <3>2
  <2>3. \/ eng'[e].pc = "none" /\ ~eng'[e].resumed
        \/ /\ journal' = Line(e)
           /\ eng'[e] = [eng[e] EXCEPT !.pc = "update"]
        BY <1>0, <1>3 DEF Step, NoEngine
  <2>4. OwnerClimbs'
    <3>1. CASE eng'[e].pc = "none"
          BY <2>1, <3>1 DEF OwnerClimbs, Active
    <3>2. CASE journal' = Line(e) /\ eng'[e] = [eng[e] EXCEPT !.pc = "update"]
      <4>1. eng'[e].pc = "update" /\ eng'[e].outcome = eng[e].outcome /\ eng'[e].stage = eng[e].stage
            BY <1>0, <3>2 DEF Engs, EngineRecord
      <4>2. ASSUME eng[e].outcome = "running"
            PROVE  \A i \in DOMAIN journal' : journal'[i].stage \in WorkStages
                     => Place[journal'[i].stage] < Place[Following[eng[e].stage]]
            BY <1>0, <1>3, <3>2, <4>2, LineClimbs
      <4>. QED BY <2>1, <4>1, <4>2 DEF OwnerClimbs, Below, Ahead
    <3>. QED BY <2>3, <3>1, <3>2
  <2>5. eng'[e].pc \in {"none", "update"} /\ (eng'[e].resumed => eng[e].resumed)
        BY <1>0, <2>3 DEF Engs, EngineRecord
  <2>6. ResumedFrozen'
        BY <1>1, <2>1, <2>5 DEF StageInv, ResumedFrozen, ManifestStays
  <2>7. NewRunAlone'
    <3>1. ASSUME NEW h \in Engines, ~eng'[h].resumed, eng'[h].pc \in NewPCs PROVE FALSE
      <4>1. h # e
            BY <2>5, <3>1 DEF NewPCs
      <4>2. eng[e].pc = "none"
            BY <2>1, <3>1, <4>1 DEF StageInv, NewRunAlone
      <4>. QED BY <1>0, <4>2
    <3>. QED BY <3>1 DEF NewRunAlone
  <2>8. NothingYet'
        BY <1>0, <2>1 DEF NothingYet
  <2>. QED BY <2>2, <2>4, <2>6, <2>7, <2>8 DEF StageInv
<1>. QED BY <1>2, <1>3 DEF AppendRecord, CrashInAppend, WriteDone

LEMMA StagesWorking ==
  ASSUME TypeInv, TypeInv', StageInv, NEW e \in Engines,
         \/ Work(e) \/ StageCancelled(e) \/ UpdateManifest(e) \/ Confirm(e)
         \/ Announce(e) \/ Finale(e) \/ Fail(e)
  PROVE  StageInv'
<1>0. /\ eng \in [Engines -> Engs] /\ eng[e] \in Engs
      /\ "failed" \in Statuses \ {"absent"}
      BY DEF TypeInv, Statuses
<1>1. CASE UpdateManifest(e)
  <2>1. eng[e].pc = "update" /\ eng' = Onward(e) /\ UNCHANGED <<journal, lease>>
        BY <1>1 DEF UpdateManifest
  <2>2. Due(e).status \in Statuses \ {"absent"} /\ Due(e).next \in NextStages \cup {"none"}
        BY <2>1, LineType, DuePresent
  <2>3. PICK m \in Manifest : m = WithStatus(manifest, Due(e).status)
        BY <2>2, StatusType DEF TypeInv
  <2>4. m.status # "absent" /\ m.frozen = manifest.frozen
        BY <2>2, <2>3, StatusKept DEF WithStatus, TypeInv, Manifest
  <2>5. \/ UNCHANGED manifest
        \/ manifest' = [m EXCEPT !.next = IF Due(e).next = "none" THEN @ ELSE Due(e).next]
        BY <1>1, <2>3 DEF UpdateManifest
  <2>6. ManifestStays
        BY <2>4, <2>5 DEF ManifestStays, Manifest
  <2>. QED BY <2>1, <2>6, OnwardStages
<1>2. CASE ~UpdateManifest(e)
  <2>1. /\ eng[e].pc \in {"work", "confirm", "announce", "finale", "failing"}
        /\ UNCHANGED <<journal, lease>>
        BY <1>2 DEF Work, StageDone, StageFails, StageCancelled, Terminate, Claim, Working,
                    Confirm, Announce, Finale, Fail
  <2>2. ManifestStays
    <3>1. CASE Confirm(e)
      <4>1. eng[e].outcome \in {"completed", "terminated"}
            BY <1>0, <3>1 DEF Confirm, Engs, Coherent
      <4>2. Due(e).status \in Statuses \ {"absent"}
            BY <4>1 DEF Due, Statuses
      <4>. QED BY <3>1, <4>2, StatusStays DEF Confirm
    <3>2. CASE ~Confirm(e)
      <4>1. manifest' = Marked(manifest) \/ UNCHANGED manifest
            BY <1>2, <3>2 DEF Work, StageDone, StageFails, StageCancelled, Terminate, Claim,
                   Announce, Finale, Fail, PublishDone, PublishFailed
      <4>. QED BY <1>0, <4>1, StatusStays
    <3>. QED BY <3>1, <3>2
  <2>3. \/ \E p \in {"append", "work", "finale", "closing", "failing"} :
             /\ eng' = [eng EXCEPT ![e].pc = p]
             /\ p \in {"append", "work"} => eng[e].pc \in {"work", "announce"}
        \/ eng' = [eng EXCEPT ![e].pc = "append", ![e].outcome = "cancelled"]
        \/ eng' = [eng EXCEPT ![e].pc = "append", ![e].outcome = "terminated"]
        \/ eng' = [eng EXCEPT ![e].pc = "append", ![e].scope = "claimed", ![e].outcome = "completed"]
        \/ eng' = [eng EXCEPT ![e].pc = "append", ![e].outcome = "failed"]
        BY <1>2 DEF Work, StageDone, StageFails, StageCancelled, Terminate, Claim, Working,
                    Confirm, Announce, Finale, Fail, Excepted, Step
  <2>4. /\ \A g \in Engines \ {e} : eng'[g] = eng[g]
        /\ eng'[e].pc \in {"append", "work", "finale", "closing", "failing"}
        /\ eng'[e].resumed = eng[e].resumed /\ eng'[e].token = eng[e].token
        /\ eng'[e].stage = eng[e].stage
        /\ eng'[e].outcome = "running" /\ eng'[e].pc \in {"append", "work"} =>
             eng[e].outcome = "running" /\ eng[e].pc \in {"work", "announce"}
        BY <1>0, <2>3 DEF Engs, EngineRecord
  <2>5. Place[eng[e].stage] \in Nat
        BY <1>0, PlaceType DEF Engs, EngineRecord
  <2>6. eng'[e].outcome = "running" /\ eng'[e].pc \in Active =>
          /\ eng[e].outcome = "running" /\ eng[e].pc \in Active
          /\ Place[Ahead(eng[e])] <= Place[Ahead(eng'[e])]
        BY <2>4, <2>5 DEF Active, Ahead
  <2>. QED BY <2>1, <2>2, <2>4, <2>6, KeptStages, SameLeaseKept DEF NewPCs
<1>. QED BY <1>1, <1>2

\* Engines that end, are cancelled, or are interrupted by a shutdown.
LEMMA StagesDisturbed ==
  ASSUME TypeInv, TypeInv', StageInv, NEW e \in Engines,
         \/ Close(e) \/ Crash(e)
         \/ HeartbeatLost(e) \/ CancelLocal(e) \/ ConsumeCancel(e)
         \/ DrainMark(e) \/ DrainPublish(e) \/ DrainKill(e)
  PROVE  StageInv'
<1>0. /\ eng \in [Engines -> Engs] /\ eng[e] \in Engs
      /\ {"failed", "interrupted"} \subseteq Statuses \ {"absent"}
      BY DEF TypeInv, Statuses
<1>1. CASE Close(e) \/ Crash(e) \/ DrainKill(e)
  <2>1. /\ UNCHANGED <<journal, manifest>>
        /\ lease' = lease \/ lease' = L!Released(lease)
        BY <1>1 DEF Close, Crash, DrainKill
  <2>2. \/ eng' = [eng EXCEPT ![e] = NoEngine]
        \/ eng' = [eng EXCEPT ![e].pc = "closing"] /\ eng[e].pc # "none"
        BY <1>1 DEF Close, Crash, DrainKill, Step, Bound
  <2>3. /\ \A g \in Engines \ {e} : eng'[g] = eng[g]
        /\ \/ eng'[e].pc = "none" /\ ~eng'[e].resumed
           \/ eng'[e].pc = "closing" /\ eng'[e].resumed = eng[e].resumed /\ eng[e].pc # "none"
        BY <1>0, <2>2 DEF NoEngine, Engs, EngineRecord
  <2>4. ManifestStays /\ LeaseKept
        BY <2>1, SameLeaseKept DEF ManifestStays
  <2>. QED BY <2>1, <2>3, <2>4, KeptStages DEF Active, NewPCs
<1>2. CASE HeartbeatLost(e) \/ CancelLocal(e) \/ ConsumeCancel(e) \/ DrainMark(e) \/ DrainPublish(e)
  <2>1. UNCHANGED <<journal, lease>>
        BY <1>2 DEF HeartbeatLost, CancelLocal, ConsumeCancel, DrainMark, DrainPublish
  <2>2. /\ \A g \in Engines \ {e} : eng'[g] = eng[g]
        /\ eng'[e].pc = eng[e].pc /\ eng'[e].token = eng[e].token
        /\ eng'[e].stage = eng[e].stage /\ eng'[e].outcome = eng[e].outcome
        /\ eng'[e].resumed = eng[e].resumed
    <3>1. CASE HeartbeatLost(e) \/ CancelLocal(e) \/ ConsumeCancel(e)
          BY <1>0, <3>1 DEF HeartbeatLost, CancelLocal, ConsumeCancel, Requested, Engs, EngineRecord
    <3>2. CASE DrainMark(e) \/ DrainPublish(e)
          BY <1>0, <3>2 DEF DrainMark, DrainPublish, Engs, EngineRecord
    <3>. QED BY <1>2, <3>1, <3>2
  <2>3. manifest' \in {manifest, Marked(manifest), WithStatus(manifest, "interrupted")}
        BY <1>2 DEF HeartbeatLost, CancelLocal, ConsumeCancel, DrainMark, DrainPublish,
                    PublishDone, PublishFailed
  <2>4. ManifestStays /\ LeaseKept
        BY <1>0, <2>1, <2>3, StatusStays, SameLeaseKept
  <2>5. Ahead(eng'[e]) = Ahead(eng[e])
        BY <2>2 DEF Ahead
  <2>6. eng[e].pc \in Active /\ eng[e].outcome = "running" => Place[Ahead(eng[e])] \in Nat
        BY <1>0, AheadType, PlaceType
  <2>. QED BY <2>1, <2>2, <2>4, <2>5, <2>6, KeptStages
<1>. QED BY <1>1, <1>2

\* A step that leaves the engines alone, and takes no epoch for one of them.
LEMMA QuietStages ==
  ASSUME TypeInv, StageInv, UNCHANGED <<eng, journal>>, ManifestStays,
         lease'.token # 0 \/ UNCHANGED lease \/ LeaseKept,
         \A e \in Engines : Owns(e)' => Owns(e)
  PROVE  StageInv'
<1>1. JournalClimbs' /\ NothingYet' /\ ResumedFrozen' /\ NewRunAlone'
      BY DEF StageInv, JournalClimbs, NothingYet, ResumedFrozen, NewRunAlone, ManifestStays, LeaseKept
<1>2. OwnerClimbs'
      BY DEF StageInv, OwnerClimbs, Below
<1>. QED BY <1>1, <1>2 DEF StageInv

LEMMA StagesSweep ==
  ASSUME TypeInv, StageInv, Sweep
  PROVE  StageInv'
<1>0. lease.token \in Nat /\ Sweeper \notin Engines /\ "interrupted" \in Statuses \ {"absent"}
      BY RunLifecycleAssumption DEF TypeInv, L!LeaderLease, Statuses
<1>1. CASE SweepAcquire /\ lease' = L!Acquired(lease, Sweeper)
  <2>1. UNCHANGED <<eng, journal>> /\ ManifestStays
        BY <1>1 DEF SweepAcquire, ManifestStays
  <2>2. lease'.owner = Sweeper
        BY <1>1, LeaseType DEF TypeInv
  <2>3. lease'.token # 0
        BY <1>0, <1>1 DEF L!Acquired, L!SameLiveEpoch, StageInv, NothingYet
  <2>4. \A e \in Engines : ~Owns(e)'
        BY <1>0, <2>2 DEF Owns, Fenced, L!FenceHolds, L!HoldsEpoch
  <2>. QED BY <2>1, <2>3, <2>4, QuietStages
<1>2. CASE ~(SweepAcquire /\ lease' = L!Acquired(lease, Sweeper))
  <2>1. UNCHANGED <<eng, journal>> /\ (lease' = lease \/ lease' = L!Released(lease))
        BY <1>2 DEF Sweep, SweepList, SweepAcquire, SweepBind, SweepMark, SweepPublish,
                    SweepRelease, SweepCrash
  <2>2. LeaseKept
        BY <2>1, SameLeaseKept
  <2>3. ManifestStays
    <3>1. CASE SweepBind
          BY <3>1 DEF SweepBind, ManifestStays, TypeInv, Manifest
    <3>2. CASE SweepMark
          BY <1>0, <3>2, StatusStays DEF SweepMark
    <3>3. CASE ~SweepBind /\ ~SweepMark
          BY <3>3 DEF Sweep, SweepList, SweepAcquire, SweepPublish, SweepRelease, SweepCrash,
                      ManifestStays
    <3>. QED BY <3>1, <3>2, <3>3
  <2>4. \A e \in Engines : Owns(e)' => Owns(e)
        BY <2>1, <2>2 DEF LeaseKept, Owns, Fenced, L!FenceHolds, L!HoldsEpoch
  <2>. QED BY <2>1, <2>2, <2>3, <2>4, QuietStages
<1>. QED BY <1>1, <1>2

LEMMA StagesNext == TypeInv /\ TypeInv' /\ StageInv /\ [Next]_vars => StageInv'
<1>. SUFFICES ASSUME TypeInv, TypeInv', StageInv, [Next]_vars PROVE StageInv'
     OBVIOUS
<1>1. ASSUME NEW e \in Engines, Engine(e) \/ Work(e) PROVE StageInv'
      BY <1>1, StagesStarting, StagesRunning, StagesWritten, StagesWorking, StagesDisturbed
         DEF Engine
<1>2. ASSUME NEW e \in Engines, Environment(e) PROVE StageInv'
      BY <1>2, StagesStarting, StagesWritten, StagesDisturbed DEF Environment
<1>3. CASE CancelRemote \/ Elapse \/ UNCHANGED vars
  <2>1. /\ UNCHANGED <<eng, manifest, journal>>
        /\ lease' = lease \/ (L!Live(lease) /\ lease' = L!Elapsed(lease))
        BY <1>3 DEF CancelRemote, Elapse, vars
  <2>2. LeaseKept /\ ManifestStays
        BY <2>1, SameLeaseKept DEF ManifestStays
  <2>3. \A e \in Engines : Owns(e)' => Owns(e)
        BY <2>1, <2>2 DEF LeaseKept, Owns, Fenced, L!FenceHolds, L!HoldsEpoch
  <2>. QED BY <2>1, <2>2, <2>3, QuietStages
<1>. QED BY <1>1, <1>2, <1>3, StagesSweep DEF Next

\* No checkpoint of a stage is taken twice, by however many engines the run is taken
\* up again (replay, stream_resume, _stream_execution).
THEOREM StageOnceAlways == Spec => []StageOnce
<1>1. Init => StageInv
  <2>. SUFFICES ASSUME Init PROVE StageInv
       OBVIOUS
  <2>1. \A e \in Engines : eng[e].pc = "none" /\ ~eng[e].resumed
        BY DEF Init, NoEngine
  <2>2. journal = <<>> /\ ~manifest.frozen /\ ~L!Live(lease)
        BY DEF Init, NoManifest, L!NoLease, L!Live
  <2>. QED BY <2>1, <2>2 DEF StageInv, JournalClimbs, OwnerClimbs, NewRunAlone, ResumedFrozen,
                             NothingYet, Active, NewPCs
<1>2. TypeInv /\ StageInv /\ [Next]_vars => StageInv'
      BY StagesNext, TypeNext
<1>3. TypeInv /\ StageInv => StageOnce
  <2>. SUFFICES ASSUME TypeInv, StageInv, NEW s \in WorkStages
                PROVE  Cardinality({i \in DOMAIN journal : journal[i].stage = s}) <= 1
       BY DEF StageOnce
  <2>. DEFINE of == {i \in DOMAIN journal : journal[i].stage = s}
  <2>1. Place[s] \in Nat /\ DOMAIN journal \subseteq Nat
        BY PlaceType DEF TypeInv, NextStages
  <2>2. ASSUME NEW i \in of, NEW k \in of PROVE ~(i < k)
        BY <2>1, <2>2 DEF StageInv, JournalClimbs
  <2>3. \A i, k \in of : i = k
        BY <2>1, <2>2
  <2>. HIDE DEF of
  <2>4. Cardinality(of) <= 1
    <3>1. CASE of = {}
          BY <3>1, FS_EmptySet
    <3>2. CASE of # {}
      <4>1. PICK i \in of : of = {i}
            BY <2>3, <3>2
      <4>2. Cardinality({i}) = 1
            BY FS_Singleton
      <4>. QED BY <4>1, <4>2
    <3>. QED BY <3>1, <3>2
  <2>. QED BY <2>4 DEF of
<1>. QED BY <1>1, <1>2, <1>3, TypeAlways, PTL DEF Spec
================================================================================
