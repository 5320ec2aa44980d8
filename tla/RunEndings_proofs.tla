--------------------------- MODULE RunEndings_proofs ---------------------------
(***************************************************************************)
(* Proofs about how a run ends, for any number of engines, epochs and I/O  *)
(* errors: manifest and event stream tell one ending, and a run that has   *)
(* ended is not worked on again.                                           *)
(***************************************************************************)
EXTENDS RunLifecycle_proofs

Over == {"completed", "cancelled"}
Ending == {"append", "update", "confirm", "finale"}

(***************************************************************************)
(* The event stream: what is told under which key.                         *)
(***************************************************************************)

KeysSay ==
  \A i \in DOMAIN events :
    /\ events[i].key.name = "run:terminal" => events[i].type \in TerminalEvents
    /\ events[i].key.name = "run:resumed" => events[i].key.n <= Resumes(events)

NoneStarted == \A i \in DOMAIN events : events[i].key.name # "run:started"

\* An event the code publishes, by type, name and count of its key.
Tellable(type, name, n) ==
  /\ type \in EventTypes /\ name \in KeyNames /\ n \in Nat
  /\ name = "run:terminal" <=> type \in TerminalEvents
  /\ name = "run:resumed" => type = "run.resumed" /\ n = Resumes(events) + 1

Told1(type, name, n) ==
  UNCHANGED events \/ \E w \in Nat : events' = Published(events, type, Key(name, n), w)

\* What is told is new, or was in the stream before.
LEMMA Growth ==
  ASSUME TypeInv, NEW type, NEW name, NEW n, Tellable(type, name, n), Told1(type, name, n)
  PROVE  /\ \A i \in DOMAIN events : i \in DOMAIN events' /\ events'[i] = events[i]
         /\ \A i \in DOMAIN events' : \/ i \in DOMAIN events
                                      \/ /\ events'[i].type = type
                                         /\ events'[i].key = Key(name, n)
<1>1. events \in Seq(PublicEvent) /\ Len(events) \in Nat
      BY DEF TypeInv
<1>2. CASE UNCHANGED events
      BY <1>2
<1>3. CASE ~UNCHANGED events
  <2>1. PICK v : /\ v \in PublicEvent /\ v.type = type /\ v.key = Key(name, n)
                 /\ events' = Append(events, v)
    <3>1. PICK w \in Nat : events' = Published(events, type, Key(name, n), w)
          BY <1>3 DEF Told1
    <3>. DEFINE v == [type |-> type, key |-> Key(name, n), writer |-> w]
    <3>2. v \in PublicEvent /\ v.type = type /\ v.key = Key(name, n)
          BY DEF PublicEvent, EventTypes, Key, Tellable
    <3>3. events' = Append(events, v)
          BY <1>3, <3>1 DEF Published
    <3>. HIDE DEF v
    <3>. QED BY <3>2, <3>3
  <2>2. /\ DOMAIN events' = 1 .. Len(events) + 1
        /\ \A i \in 1 .. Len(events) : events'[i] = events[i]
        /\ events'[Len(events) + 1] = v
        BY <1>1, <2>1
  <2>. QED BY <1>1, <2>1, <2>2
<1>. QED BY <1>2, <1>3

\* The count of run.resumed never falls, and rises with one more.
LEMMA ResumesGrow ==
  ASSUME TypeInv, NEW type, NEW name, NEW n, Tellable(type, name, n), Told1(type, name, n)
  PROVE  /\ Resumes(events) \in Nat /\ Resumes(events)' \in Nat
         /\ Resumes(events) <= Resumes(events)'
         /\ type = "run.resumed" /\ ~UNCHANGED events => Resumes(events)' = Resumes(events) + 1
<1>. DEFINE A == {i \in DOMAIN events : events[i].type = "run.resumed"}
            B == {i \in DOMAIN events' : events'[i].type = "run.resumed"}
<1>0. events \in Seq(PublicEvent) /\ Len(events) \in Nat
      BY DEF TypeInv
<1>1. IsFiniteSet(A) /\ A \subseteq 1 .. Len(events)
  <2>1. A \subseteq 1 .. Len(events)
        BY <1>0
  <2>2. IsFiniteSet(1 .. Len(events))
        BY <1>0, FS_Interval
  <2>. QED BY <2>1, <2>2, FS_Subset
<1>2. Cardinality(A) \in Nat
      BY <1>1, FS_CardinalityType
<1>3. B = A \/ B = A \cup {Len(events) + 1}
  <2>1. \A i \in A : i \in B
        BY Growth
  <2>2. \A i \in B : i \in A \/ i = Len(events) + 1
    <3>1. \A i \in DOMAIN events' : i \in DOMAIN events \/ i = Len(events) + 1
      <4>1. CASE UNCHANGED events
            BY <4>1
      <4>2. CASE \E v : events' = Append(events, v)
            BY <1>0, <4>2
      <4>. QED BY <4>1, <4>2 DEF Told1, Published
    <3>. QED BY <3>1, Growth
  <2>. QED BY <2>1, <2>2
<1>4. Len(events) + 1 \notin A
      BY <1>0, <1>1
<1>5. Cardinality(A \cup {Len(events) + 1}) = Cardinality(A) + 1
  <2>. HIDE DEF A
  <2>. QED BY <1>1, <1>4, FS_AddElement
<1>6. type = "run.resumed" /\ ~UNCHANGED events => B = A \cup {Len(events) + 1}
  <2>1. ASSUME type = "run.resumed", ~UNCHANGED events PROVE Len(events) + 1 \in B
    <3>1. PICK w : events' = Append(events, [type |-> type, key |-> Key(name, n), writer |-> w])
          BY <2>1 DEF Told1, Published
    <3>2. /\ Len(events) + 1 \in DOMAIN events'
          /\ events'[Len(events) + 1] = [type |-> type, key |-> Key(name, n), writer |-> w]
          BY <1>0, <3>1
    <3>. QED BY <2>1, <3>2
  <2>. QED BY <1>3, <1>4, <2>1
<1>7. Resumes(events) = Cardinality(A) /\ Resumes(events)' = Cardinality(B)
      BY DEF Resumes
<1>8. Cardinality(B) \in {Cardinality(A), Cardinality(A) + 1}
      BY <1>3, <1>5
<1>9. type = "run.resumed" /\ ~UNCHANGED events => Cardinality(B) = Cardinality(A) + 1
      BY <1>5, <1>6
<1>. HIDE DEF A, B
<1>. QED BY <1>2, <1>7, <1>8, <1>9

LEMMA KeysKept ==
  ASSUME TypeInv, KeysSay, NEW type, NEW name, NEW n, Tellable(type, name, n), Told1(type, name, n)
  PROVE  KeysSay'
<1>. SUFFICES ASSUME NEW i \in DOMAIN events'
              PROVE  /\ events'[i].key.name = "run:terminal" => events'[i].type \in TerminalEvents
                     /\ events'[i].key.name = "run:resumed" => events'[i].key.n <= Resumes(events)'
     BY DEF KeysSay
<1>0. /\ Resumes(events) \in Nat /\ Resumes(events)' \in Nat
      /\ Resumes(events) <= Resumes(events)'
      /\ type = "run.resumed" /\ ~UNCHANGED events => Resumes(events)' = Resumes(events) + 1
      BY ResumesGrow
<1>1. CASE i \in DOMAIN events
  <2>1. events'[i] = events[i] /\ events[i].key.n \in Nat
    <3>1. events[i] \in PublicEvent
          BY <1>1 DEF TypeInv
    <3>2. events[i].key \in [name : KeyNames, n : Nat]
          BY <3>1 DEF PublicEvent
    <3>. QED BY <1>1, <3>2, Growth
  <2>. QED BY <1>0, <1>1, <2>1 DEF KeysSay
<1>2. CASE i \notin DOMAIN events
  <2>1. events'[i].type = type /\ events'[i].key = Key(name, n) /\ ~UNCHANGED events
        BY <1>2, Growth
  <2>2. events'[i].key.name = name /\ events'[i].key.n = n
        BY <2>1 DEF Key
  <2>. QED BY <1>0, <2>1, <2>2 DEF Tellable
<1>. QED BY <1>1, <1>2

\* The publications of an engine, and of the sweep.
LEMMA EngineTells ==
  ASSUME TypeInv, NEW e \in Engines
  PROVE  /\ NewRun(e) => Told1("run.created", "run:created", 0)
         /\ Replay(e) => Told1("run.failed", "run:terminal", 0)
         /\ Start(e) /\ eng[e].resumed => Told1("run.resumed", "run:resumed", Resumes(events) + 1)
         /\ Start(e) /\ ~eng[e].resumed => Told1("run.started", "run:started", 0)
         /\ Fail(e) => Told1("run.interrupted", "run:interrupted", 0)
         /\ DrainPublish(e) => Told1("run.interrupted", "run:interrupted:shutdown", 0)
         /\ Finale(e) => \/ /\ eng[e].outcome = "completed"
                            /\ Told1("run.completed", "run:terminal", 0)
                         \/ /\ eng[e].outcome = "cancelled"
                            /\ Told1("run.cancelled", "run:terminal", 0)
                         \/ /\ eng[e].outcome = "terminated"
                            /\ Told1("run.failed", "run:terminal", 0)
<1>0. eng[e].token \in Nat /\ eng[e] \in Engs
      BY DEF TypeInv, Engs, EngineRecord
<1>. USE DEF Told1, PublishDone, PublishFailed
<1>1. NewRun(e) => Told1("run.created", "run:created", 0)
      BY <1>0 DEF NewRun
<1>2. Replay(e) => Told1("run.failed", "run:terminal", 0)
      BY <1>0 DEF Replay
<1>3. Start(e) /\ eng[e].resumed => Told1("run.resumed", "run:resumed", Resumes(events) + 1)
      BY <1>0 DEF Start
<1>4. Start(e) /\ ~eng[e].resumed => Told1("run.started", "run:started", 0)
      BY <1>0 DEF Start
<1>5. Fail(e) => Told1("run.interrupted", "run:interrupted", 0)
      BY <1>0 DEF Fail
<1>6. DrainPublish(e) => Told1("run.interrupted", "run:interrupted:shutdown", 0)
      BY <1>0 DEF DrainPublish
<1>7. ASSUME Finale(e)
      PROVE  \/ eng[e].outcome = "completed" /\ Told1("run.completed", "run:terminal", 0)
             \/ eng[e].outcome = "cancelled" /\ Told1("run.cancelled", "run:terminal", 0)
             \/ eng[e].outcome = "terminated" /\ Told1("run.failed", "run:terminal", 0)
  <2>1. eng[e].outcome \in {"completed", "cancelled", "terminated"}
        BY <1>0, <1>7 DEF Finale, Engs, Coherent
  <2>. QED BY <1>0, <1>7, <2>1 DEF Finale
<1>. QED BY <1>1, <1>2, <1>3, <1>4, <1>5, <1>6, <1>7

LEMMA TellableOnes ==
  ASSUME TypeInv
  PROVE  /\ Tellable("run.created", "run:created", 0)
         /\ Tellable("run.started", "run:started", 0)
         /\ Tellable("run.resumed", "run:resumed", Resumes(events) + 1)
         /\ Tellable("run.interrupted", "run:interrupted", 0)
         /\ Tellable("run.interrupted", "run:interrupted:shutdown", 0)
         /\ Tellable("run.interrupted", "run:interrupted:startup", 0)
         /\ \A t \in TerminalEvents : Tellable(t, "run:terminal", 0)
  BY ResumesType DEF Tellable, EventTypes, TerminalEvents, KeyNames

\* Every other step leaves the stream alone.
LEMMA OtherwiseSilent ==
  ASSUME NEW e \in Engines,
         Engine(e) \/ Work(e) \/ Environment(e),
         ~NewRun(e), ~Replay(e), ~Start(e), ~Fail(e), ~DrainPublish(e), ~Finale(e)
  PROVE  UNCHANGED events
  BY DEF Engine, Work, Environment, Acquire, Bind, Initialize, SetRunning, StageDone, StageFails,
         StageCancelled, Terminate, Claim, AppendRecord, UpdateManifest, Confirm, Announce, Close,
         Create, CreateEmbedded, ResumeCheck, HeartbeatLost, CancelLocal, ConsumeCancel,
         Crash, CrashInAppend, DrainMark, DrainKill

LEMMA SweepTells ==
  ASSUME TypeInv, Sweep
  PROVE  Told1("run.interrupted", "run:interrupted:startup", 0)
  BY DEF Sweep, SweepList, SweepAcquire, SweepBind, SweepMark, SweepPublish, SweepRelease,
         SweepCrash, Told1, TypeInv

LEMMA KeysNext == TypeInv /\ KeysSay /\ [Next]_vars => KeysSay'
<1>. SUFFICES ASSUME TypeInv, KeysSay, [Next]_vars PROVE KeysSay'
     OBVIOUS
<1>1. UNCHANGED events => KeysSay'
      BY DEF KeysSay
<1>2. ASSUME NEW e \in Engines, Engine(e) \/ Work(e) \/ Environment(e) PROVE KeysSay'
  <2>1. CASE NewRun(e) \/ Start(e) \/ Fail(e) \/ DrainPublish(e)
        BY <2>1, EngineTells, TellableOnes, KeysKept
  <2>2. CASE Replay(e) \/ Finale(e)
    <3>1. \E t \in TerminalEvents : Told1(t, "run:terminal", 0)
          BY <2>2, EngineTells DEF TerminalEvents
    <3>. QED BY <3>1, TellableOnes, KeysKept
  <2>. QED BY <1>1, <1>2, <2>1, <2>2, OtherwiseSilent
<1>3. CASE CancelRemote \/ Elapse \/ UNCHANGED vars
      BY <1>1, <1>3 DEF CancelRemote, Elapse, vars
<1>4. CASE Sweep
      BY <1>4, SweepTells, TellableOnes, KeysKept
<1>. QED BY <1>2, <1>3, <1>4 DEF Next

(***************************************************************************)
(* The owner of the run, the status in the manifest and the stream.        *)
(***************************************************************************)

NothingTold == lease.token = 0 /\ manifest.status = "absent" => events = <<>>

\* A run is new once.
Newcomer(x) == ~x.resumed /\ x.pc # "none"
OneNewRun == \A f, g \in Engines : Newcomer(eng[f]) /\ Newcomer(eng[g]) => f = g

\* Before run.started.
Unstarted(x) ==
  /\ ~x.resumed
  /\ \/ x.pc \in NewPCs \cup {"start"}
     \/ x.pc \in {"append", "update"} /\ x.outcome = "running" /\ x.stage = "received"

NotYetStarted == \A e \in Engines : Unstarted(eng[e]) => NoneStarted

NewRunOpen ==
  \A e \in Engines : ~eng[e].resumed /\ eng[e].pc \in NewPCs => manifest.status \notin Over

\* What an owner at its place rules out for the status of the run.
Agrees(x, status) ==
  /\ x.outcome = "running" /\ x.pc \in Active => status \notin Over
  /\ x.outcome = "terminated" /\ x.pc \in Ending => status \notin Over
  /\ x.outcome = "cancelled" /\ x.pc \in Ending => status # "completed"
  /\ x.outcome = "completed" /\ x.pc \in Ending => status # "cancelled"

OwnerAgrees == \A e \in Engines : Owns(e) => Agrees(eng[e], manifest.status)

\* From run.started or run.resumed to the owner's own ending, the stream is open.
Unended(x) ==
  \/ x.pc \in {"work", "announce", "confirm", "finale"}
  \/ /\ x.pc \in {"append", "update"} /\ x.outcome # "failed"
     /\ x.outcome = "running" => x.stage # "received"

OwnerUnended == \A e \in Engines : Owns(e) /\ Unended(eng[e]) => ~Ended(events)

\* A completion is claimed, a run's outcome is open until it ends, and only a
\* resumed run is replayed.
Sound(x) ==
  /\ x.outcome = "completed" => x.scope = "claimed"
  /\ x.pc \notin Ending \cup {"failing", "closing", "leaked"} => x.outcome = "running"
  /\ x.pc = "replayed" => x.resumed

EndInv ==
  /\ OneNewRun /\ NotYetStarted /\ NewRunOpen
  /\ OwnerAgrees /\ OwnerUnended
  /\ \A e \in Engines : Sound(eng[e])
  /\ OneEnding

\* A step that ends the run neither in the manifest nor in the stream.
StatusOpen == manifest'.status \in Over => manifest'.status = manifest.status
StreamOpen ==
  /\ Ended(events)' => Ended(events)
  /\ \A t \in TerminalEvents : Told(t)' => Told(t)

LEMMA StillOneEnding == OneEnding /\ StatusOpen /\ StreamOpen => OneEnding'
  BY DEF OneEnding, StatusOpen, StreamOpen, Over, TerminalEvents

LEMMA Open ==
  ASSUME TypeInv, NEW type, NEW name, NEW n, Tellable(type, name, n), Told1(type, name, n)
  PROVE  /\ type \notin TerminalEvents => StreamOpen
         /\ name # "run:started" /\ NoneStarted => NoneStarted'
         /\ \A t \in TerminalEvents : t # type => (Told(t)' => Told(t))
<1>1. \A i \in DOMAIN events' : \/ i \in DOMAIN events /\ events'[i] = events[i]
                                \/ events'[i].type = type /\ events'[i].key = Key(name, n)
      BY Growth
<1>2. Key(name, n).name = name
      BY DEF Key
<1>. QED BY <1>1, <1>2 DEF StreamOpen, NoneStarted, Ended, Told

LEMMA Silent == UNCHANGED events => StreamOpen /\ (NoneStarted => NoneStarted')
  BY DEF StreamOpen, NoneStarted, Ended, Told

LEMMA StatusStaysOpen ==
  ASSUME TypeInv, NEW s \in Statuses \ {"absent", "completed", "cancelled"},
         manifest' \in {manifest, Marked(manifest), WithStatus(manifest, s)}
  PROVE  StatusOpen
  BY DEF StatusOpen, Marked, Degraded, WithStatus, StatusAfter, TypeInv, Manifest, Over

\* Only engine f changes, and no other comes to own the run.
OnlyMoves(f) ==
  \A g \in Engines \ {f} : eng'[g] = eng[g] /\ (Owns(g)' => Owns(g))

\* A newcomer stays one, or is done with the beginning.
BeginsWell(x, y) ==
  /\ Newcomer(y) => Newcomer(x)
  /\ Unstarted(y) => Unstarted(x)
  /\ ~y.resumed /\ y.pc \in NewPCs => ~x.resumed /\ x.pc \in NewPCs

\* A step of engine f that agrees with the invariant at its new place.
LEMMA KeptEnds ==
  ASSUME TypeInv, StageInv, EndInv, NEW f \in Engines, OnlyMoves(f),
         (Owns(f) /\ eng[f].pc # "none") \/ (StatusOpen /\ StreamOpen),
         StatusOpen \/ eng'[f].pc \notin NewPCs,
         NoneStarted => NoneStarted' \/ (Unstarted(eng[f]) /\ ~Unstarted(eng'[f])),
         BeginsWell(eng[f], eng'[f]),
         Owns(f)' => Agrees(eng'[f], manifest'.status) /\ (Unended(eng'[f]) => ~Ended(events)'),
         Sound(eng'[f]), OneEnding'
  PROVE  EndInv'
<1>1. OneNewRun'
      BY DEF EndInv, OneNewRun, OnlyMoves, BeginsWell
<1>2. NotYetStarted'
  <2>. SUFFICES ASSUME NEW g \in Engines, Unstarted(eng'[g]) PROVE NoneStarted'
       BY DEF NotYetStarted
  <2>1. Unstarted(eng[g])
        BY DEF OnlyMoves, BeginsWell
  <2>2. NoneStarted
        BY <2>1 DEF EndInv, NotYetStarted
  <2>3. Unstarted(eng[f]) => g = f
    <3>1. \A x : Unstarted(x) => Newcomer(x)
          BY DEF Unstarted, Newcomer, NewPCs
    <3>. QED BY <2>1, <3>1 DEF EndInv, OneNewRun
  <2>. QED BY <2>2, <2>3
<1>3. NewRunOpen'
  <2>. SUFFICES ASSUME NEW g \in Engines, ~eng'[g].resumed, eng'[g].pc \in NewPCs
                PROVE  manifest'.status \notin Over
       BY DEF NewRunOpen
  <2>1. ~eng[g].resumed /\ eng[g].pc \in NewPCs
        BY DEF OnlyMoves, BeginsWell
  <2>2. manifest.status \notin Over
        BY <2>1 DEF EndInv, NewRunOpen
  <2>3. StatusOpen
    <3>1. CASE g = f
          BY <3>1
    <3>2. CASE g # f
          BY <2>1, <3>2 DEF StageInv, NewRunAlone
    <3>. QED BY <3>1, <3>2
  <2>. QED BY <2>2, <2>3 DEF StatusOpen
<1>4. ASSUME NEW g \in Engines \ {f}, Owns(g)' PROVE Owns(g) /\ StatusOpen /\ StreamOpen
  <2>1. Owns(g)
        BY <1>4 DEF OnlyMoves
  <2>2. ~Owns(f)
        BY <2>1 DEF Owns, Fenced, L!FenceHolds, L!HoldsEpoch
  <2>. QED BY <2>1, <2>2
<1>5. OwnerAgrees'
  <2>. SUFFICES ASSUME NEW g \in Engines, Owns(g)' PROVE Agrees(eng'[g], manifest'.status)
       BY DEF OwnerAgrees
  <2>1. CASE g = f
        BY <2>1
  <2>2. CASE g # f
    <3>1. Agrees(eng[g], manifest.status) /\ eng'[g] = eng[g] /\ StatusOpen
          BY <1>4, <2>2 DEF EndInv, OwnerAgrees, OnlyMoves
    <3>. QED BY <3>1 DEF Agrees, StatusOpen, Over
  <2>. QED BY <2>1, <2>2
<1>6. OwnerUnended'
  <2>. SUFFICES ASSUME NEW g \in Engines, Owns(g)', Unended(eng'[g]) PROVE ~Ended(events)'
       BY DEF OwnerUnended, Ended
  <2>1. CASE g = f
        BY <2>1
  <2>2. CASE g # f
        BY <1>4, <2>2 DEF EndInv, OwnerUnended, OnlyMoves, StreamOpen
  <2>. QED BY <2>1, <2>2
<1>7. \A g \in Engines : Sound(eng'[g])
      BY DEF EndInv, OnlyMoves
<1>. QED BY <1>1, <1>2, <1>3, <1>5, <1>6, <1>7 DEF EndInv

LEMMA MovesOnly ==
  ASSUME NEW f \in Engines, \A g \in Engines \ {f} : eng'[g] = eng[g], LeaseKept
  PROVE  OnlyMoves(f) /\ (eng'[f].token = eng[f].token /\ Owns(f)' => Owns(f))
  BY DEF OnlyMoves, LeaseKept, Owns, Fenced, L!FenceHolds, L!HoldsEpoch

LEMMA OwnerFacts ==
  ASSUME EndInv, NEW e \in Engines
  PROVE  /\ Owns(e) => Agrees(eng[e], manifest.status)
         /\ Owns(e) /\ Unended(eng[e]) => ~Ended(events)
         /\ Sound(eng[e])
  BY DEF EndInv, OwnerAgrees, OwnerUnended

\* An engine that comes to a place where it records no ending.
LEMMA HarmlessEnds ==
  ASSUME TypeInv, StageInv, EndInv, NEW f \in Engines, OnlyMoves(f), StatusOpen, StreamOpen,
         NoneStarted => NoneStarted', BeginsWell(eng[f], eng'[f]),
         eng'[f].pc \notin Active \cup Ending, Sound(eng'[f])
  PROVE  EndInv'
<1>1. Agrees(eng'[f], manifest'.status) /\ ~Unended(eng'[f])
      BY DEF Agrees, Unended, Active, Ending
<1>2. OneEnding'
      BY StillOneEnding DEF EndInv
<1>. QED BY <1>1, <1>2, KeptEnds

\* An engine that stays where it is.
LEMMA SteadyEnds ==
  ASSUME TypeInv, StageInv, EndInv, NEW f \in Engines,
         \A g \in Engines \ {f} : eng'[g] = eng[g], LeaseKept, StatusOpen, StreamOpen,
         NoneStarted => NoneStarted',
         eng'[f].pc = eng[f].pc, eng'[f].token = eng[f].token, eng'[f].stage = eng[f].stage,
         eng'[f].outcome = eng[f].outcome, eng'[f].resumed = eng[f].resumed,
         eng[f].scope = "claimed" => eng'[f].scope = "claimed"
  PROVE  EndInv'
<1>1. OnlyMoves(f) /\ (Owns(f)' => Owns(f))
      BY MovesOnly
<1>2. BeginsWell(eng[f], eng'[f]) /\ Sound(eng'[f])
      BY OwnerFacts DEF BeginsWell, Newcomer, Unstarted, Sound
<1>3. Owns(f) => Agrees(eng'[f], manifest'.status)
      BY OwnerFacts DEF Agrees, StatusOpen, Over
<1>4. Owns(f) /\ Unended(eng'[f]) => ~Ended(events)'
      BY OwnerFacts DEF Unended, StreamOpen
<1>5. OneEnding'
      BY StillOneEnding DEF EndInv
<1>. QED BY <1>1, <1>2, <1>3, <1>4, <1>5, KeptEnds

LEMMA EndsStarting ==
  ASSUME TypeInv, StageInv, NothingTold, EndInv, NEW e \in Engines,
         Create(e) \/ CreateEmbedded(e) \/ ResumeCheck(e) \/ Acquire(e) \/ Bind(e)
  PROVE  EndInv'
<1>0. eng \in [Engines -> Engs] /\ UNCHANGED events /\ StreamOpen /\ (NoneStarted => NoneStarted')
  <2>1. UNCHANGED events
        BY DEF Create, CreateEmbedded, ResumeCheck, Acquire, Bind
  <2>. QED BY <2>1, Silent DEF TypeInv
<1>1. CASE Create(e) \/ CreateEmbedded(e)
  <2>1. /\ manifest.status = "absent" /\ lease.token = 0 /\ events = <<>>
        /\ \A g \in Engines : eng[g].pc = "none"
        BY <1>1 DEF Create, CreateEmbedded, Fresh, NothingTold
  <2>2. /\ \A g \in Engines \ {e} : eng'[g] = eng[g]
        /\ eng'[e].pc = "posted" /\ eng'[e].resumed = eng[e].resumed
        /\ eng'[e].outcome = eng[e].outcome /\ eng'[e].scope = eng[e].scope
        BY <1>0, <1>1 DEF Create, CreateEmbedded, Step, Engs, EngineRecord
  <2>3. manifest'.status \in {"absent", "running"}
        BY <1>1, <2>1 DEF Create, CreateEmbedded, NoManifest
  <2>4. events' = <<>>
        BY <1>0, <2>1
  <2>5. OneNewRun' /\ NotYetStarted' /\ NewRunOpen'
        BY <2>1, <2>2, <2>3, <2>4 DEF OneNewRun, Newcomer, NotYetStarted, NoneStarted, NewRunOpen, Over
  <2>6. OwnerAgrees' /\ OwnerUnended'
        BY <2>1, <2>2, <2>4 DEF OwnerAgrees, OwnerUnended, Agrees, Active, Ending, Ended
  <2>7. \A g \in Engines : Sound(eng'[g])
        BY <2>1, <2>2, OwnerFacts DEF Sound, Ending
  <2>8. OneEnding'
        BY <2>4 DEF OneEnding, Told
  <2>. QED BY <2>5, <2>6, <2>7, <2>8 DEF EndInv
<1>2. CASE ResumeCheck(e) \/ Acquire(e) \/ Bind(e)
  <2>1. /\ \A g \in Engines \ {e} : eng'[g] = eng[g]
        /\ eng'[e].pc \in {"none", "checked", "acquired", "bound", "closing"}
        /\ Sound(eng'[e])
        /\ BeginsWell(eng[e], eng'[e])
    <3>1. CASE \/ eng' = [eng EXCEPT ![e] = NoEngine]
               \/ eng' = [eng EXCEPT ![e] =
                    [NoEngine EXCEPT !.pc = "checked", !.resumed = TRUE, !.hosted = TRUE]]
      <4>1. /\ \A g \in Engines \ {e} : eng'[g] = eng[g]
            /\ eng'[e].outcome = "running"
            /\ \/ eng'[e].pc = "none" /\ ~eng'[e].resumed
               \/ eng'[e].pc = "checked" /\ eng'[e].resumed
        <5>1. CASE eng' = [eng EXCEPT ![e] = NoEngine]
              BY <1>0, <5>1 DEF NoEngine
        <5>2. CASE eng' = [eng EXCEPT ![e] =
                     [NoEngine EXCEPT !.pc = "checked", !.resumed = TRUE, !.hosted = TRUE]]
              BY <1>0, <5>2 DEF NoEngine
        <5>. QED BY <3>1, <5>1, <5>2
      <4>. QED BY <4>1 DEF Sound, Ending, BeginsWell, Newcomer, Unstarted, NewPCs
    <3>2. CASE \/ Step(e, "bound") /\ eng[e].pc = "acquired"
               \/ Step(e, "closing") /\ eng[e].pc = "acquired"
               \/ /\ eng' = [eng EXCEPT ![e].pc = "acquired", ![e].token = lease'.token]
                  /\ eng[e].pc \in {"posted", "checked"}
      <4>1. /\ \A g \in Engines \ {e} : eng'[g] = eng[g]
            /\ eng'[e].pc \in {"acquired", "bound", "closing"} /\ eng'[e].resumed = eng[e].resumed
            /\ eng'[e].outcome = eng[e].outcome /\ eng'[e].scope = eng[e].scope
            /\ eng'[e].pc # "closing" => eng[e].pc \in {"posted", "checked", "acquired"}
            /\ eng[e].pc # "none"
            /\ eng'[e].pc \in NewPCs => eng[e].pc \in NewPCs
            BY <1>0, <3>2 DEF Step, Engs, EngineRecord, NewPCs
      <4>2. BeginsWell(eng[e], eng'[e])
            BY <4>1 DEF BeginsWell, Newcomer, Unstarted, NewPCs
      <4>3. Sound(eng'[e])
            BY <4>1, OwnerFacts DEF Sound, Ending
      <4>. QED BY <4>1, <4>2, <4>3
    <3>. QED BY <1>2, <3>1, <3>2 DEF ResumeCheck, Acquire, Bind, Step
  <2>2. StatusOpen
        BY <1>2 DEF ResumeCheck, Acquire, Bind, StatusOpen, TypeInv, Manifest
  <2>3. OnlyMoves(e)
    <3>1. CASE Acquire(e) /\ lease' = L!Acquired(lease, e)
      <4>1. lease'.owner = e
            BY <3>1, LeaseType DEF TypeInv
      <4>. QED BY <2>1, <4>1 DEF OnlyMoves, Owns, Fenced, L!FenceHolds, L!HoldsEpoch
    <3>2. CASE UNCHANGED lease
          BY <2>1, <3>2, MovesOnly, SameLeaseKept
    <3>. QED BY <1>2, <3>1, <3>2 DEF ResumeCheck, Acquire, Bind
  <2>. QED BY <1>0, <2>1, <2>2, <2>3, HarmlessEnds DEF Active, Ending
<1>. QED BY <1>1, <1>2

\* The stream is open where run.started or run.resumed is accepted.
LEMMA FreshKey ==
  ASSUME TypeInv, KeysSay, EndInv, NEW e \in Engines
  PROVE  /\ Accepts(events, "run.resumed", Key("run:resumed", Resumes(events) + 1)) => ~Ended(events)
         /\ Unstarted(eng[e]) /\ Accepts(events, "run.started", Key("run:started", 0)) => ~Ended(events)
<1>1. WithKey(events, Key("run:resumed", Resumes(events) + 1)) = {}
  <2>1. Resumes(events) \in Nat
    <3>. DEFINE A == {i \in DOMAIN events : events[i].type = "run.resumed"}
    <3>1. A \subseteq 1 .. Len(events) /\ Len(events) \in Nat
          BY DEF TypeInv
    <3>2. IsFiniteSet(A)
          BY <3>1, FS_Interval, FS_Subset
    <3>3. Cardinality(A) \in Nat
          BY <3>2, FS_CardinalityType
    <3>. QED BY <3>3 DEF Resumes
  <2>2. ASSUME NEW i \in DOMAIN events, events[i].key = Key("run:resumed", Resumes(events) + 1)
        PROVE  FALSE
    <3>1. events[i].key.name = "run:resumed" /\ events[i].key.n = Resumes(events) + 1
          BY <2>2 DEF Key
    <3>2. events[i].key.n <= Resumes(events)
          BY <3>1 DEF KeysSay
    <3>. QED BY <2>1, <3>1, <3>2
  <2>. QED BY <2>2 DEF WithKey
<1>2. Unstarted(eng[e]) => WithKey(events, Key("run:started", 0)) = {}
  <2>1. \A i \in DOMAIN events : events[i].key = Key("run:started", 0) => events[i].key.name = "run:started"
        BY DEF Key
  <2>. QED BY <2>1 DEF EndInv, NotYetStarted, NoneStarted, WithKey
<1>. QED BY <1>1, <1>2 DEF Accepts

LEMMA EndsRunning ==
  ASSUME TypeInv, KeysSay, StageInv, EndInv, NEW e \in Engines,
         NewRun(e) \/ Initialize(e) \/ Replay(e) \/ SetRunning(e) \/ Start(e)
  PROVE  EndInv'
<1>0. /\ eng \in [Engines -> Engs] /\ eng[e] \in Engs
      /\ "failed" \in Statuses \ {"absent", "completed", "cancelled"}
      /\ UNCHANGED lease /\ LeaseKept
  <2>1. UNCHANGED lease
        BY DEF NewRun, Initialize, Replay, SetRunning, Start
  <2>. QED BY <2>1, SameLeaseKept DEF TypeInv, Statuses
<1>1. CASE NewRun(e)
  <2>1. eng[e].pc = "bound" /\ ~eng[e].resumed /\ eng[e].outcome = "running"
        BY <1>1, OwnerFacts DEF NewRun, Sound, Ending
  <2>2. /\ \A g \in Engines \ {e} : eng'[g] = eng[g]
        /\ eng'[e].pc \in {"init", "closing"} /\ ~eng'[e].resumed
        /\ eng'[e].outcome = "running"
        BY <1>0, <1>1, <2>1 DEF NewRun, Step, Engs, EngineRecord
  <2>3. StatusOpen
        BY <1>0, <1>1, StatusStaysOpen DEF NewRun, PublishDone, PublishFailed
  <2>4. StreamOpen /\ (NoneStarted => NoneStarted')
        BY <1>1, EngineTells, TellableOnes, Open DEF TerminalEvents
  <2>5. OnlyMoves(e) /\ Sound(eng'[e]) /\ BeginsWell(eng[e], eng'[e])
        BY <1>0, <2>1, <2>2, MovesOnly DEF Sound, BeginsWell, Newcomer, Unstarted, NewPCs
  <2>6. manifest'.status \notin Over
        BY <2>1, <2>3 DEF EndInv, NewRunOpen, NewPCs, StatusOpen
  <2>7. Agrees(eng'[e], manifest'.status) /\ ~Unended(eng'[e])
        BY <2>2, <2>6 DEF Agrees, Unended
  <2>8. OneEnding'
        BY <2>3, <2>4, StillOneEnding DEF EndInv
  <2>. QED BY <2>3, <2>4, <2>5, <2>7, <2>8, KeptEnds
<1>2. CASE Initialize(e)
  <2>1. eng[e].pc = "init" /\ eng[e].stage = "received" /\ eng[e].outcome = "running" /\ UNCHANGED events
        BY <1>0, <1>2, OwnerFacts DEF Initialize, Engs, Coherent, Sound, Ending
  <2>2. /\ \A g \in Engines \ {e} : eng'[g] = eng[g]
        /\ eng'[e].resumed = eng[e].resumed /\ eng'[e].token = eng[e].token
        /\ eng'[e].outcome = "running"
        /\ \/ eng'[e].pc = "append" /\ eng'[e].stage = "received"
           \/ eng'[e].pc = "start"
        BY <1>0, <1>2, <2>1 DEF Initialize, Engs, EngineRecord
  <2>3. StatusOpen
        BY <1>2 DEF Initialize, StatusOpen, NoManifest, Over
  <2>4. StreamOpen /\ (NoneStarted => NoneStarted')
        BY <2>1, Silent
  <2>5. OnlyMoves(e) /\ (Owns(e)' => Owns(e)) /\ Sound(eng'[e]) /\ BeginsWell(eng[e], eng'[e])
        BY <1>0, <2>1, <2>2, MovesOnly DEF Sound, BeginsWell, Newcomer, Unstarted, NewPCs
  <2>6. Owns(e) => manifest'.status \notin Over
        BY <2>1, <2>3, OwnerFacts DEF Agrees, Active, StatusOpen
  <2>7. Owns(e) => Agrees(eng'[e], manifest'.status) /\ ~Unended(eng'[e])
        BY <2>2, <2>6 DEF Agrees, Unended
  <2>8. OneEnding'
        BY <2>3, <2>4, StillOneEnding DEF EndInv
  <2>. QED BY <2>3, <2>4, <2>5, <2>7, <2>8, KeptEnds
<1>3. CASE Replay(e)
  <2>1. eng[e].pc = "bound" /\ eng[e].resumed /\ eng[e].outcome = "running"
        BY <1>3, OwnerFacts DEF Replay, Sound, Ending
  <2>2. CASE ResumeRefused(manifest, manifest.next)
    <3>1. /\ \A g \in Engines \ {e} : eng'[g] = eng[g]
          /\ eng'[e].pc = "leaked" /\ eng'[e].resumed /\ eng'[e].outcome = "running"
          BY <1>0, <1>3, <2>1, <2>2 DEF Replay, Step, Engs, EngineRecord
    <3>2. OnlyMoves(e) /\ Sound(eng'[e]) /\ BeginsWell(eng[e], eng'[e])
          BY <1>0, <3>1, MovesOnly DEF Sound, BeginsWell, Newcomer, Unstarted, NewPCs
    <3>3. StatusOpen
          BY <1>0, <1>3, <2>2, StatusStaysOpen DEF Replay, PublishDone, PublishFailed
    <3>4. /\ NoneStarted => NoneStarted'
          /\ Told("run.completed")' => Told("run.completed")
          /\ Told("run.cancelled")' => Told("run.cancelled")
          BY <1>3, EngineTells, TellableOnes, Open DEF TerminalEvents
    <3>5. OneEnding'
          BY <3>3, <3>4 DEF EndInv, OneEnding, StatusOpen, Over
    <3>6. Owns(e) \/ StreamOpen
      <4>1. CASE UNCHANGED events
            BY <4>1, Silent
      <4>2. CASE ~UNCHANGED events
            BY <1>3, <2>2, <4>2 DEF Replay, PublishDone, PublishFailed, WriteDone
      <4>. QED BY <4>1, <4>2
    <3>7. Agrees(eng'[e], manifest'.status) /\ ~Unended(eng'[e])
          BY <3>1 DEF Agrees, Unended, Active
    <3>. QED BY <2>1, <3>2, <3>3, <3>4, <3>5, <3>6, <3>7, KeptEnds
  <2>3. CASE ~ResumeRefused(manifest, manifest.next)
    <3>1. manifest.status \notin Over /\ UNCHANGED <<manifest, events>>
          BY <1>3, <2>3 DEF Replay, ResumeRefused, Over
    <3>2. /\ \A g \in Engines \ {e} : eng'[g] = eng[g]
          /\ eng'[e].pc \in {"closing", "replayed"} /\ eng'[e].resumed /\ eng'[e].outcome = "running"
      <4>1. \/ eng' = [eng EXCEPT ![e].pc = "closing"]
            \/ eng' = [eng EXCEPT ![e].pc = "replayed", ![e].stage = ReplayNext(manifest, journal)]
            BY <1>3, <2>3 DEF Replay, Step
      <4>. QED BY <1>0, <2>1, <4>1 DEF Engs, EngineRecord
    <3>3. OnlyMoves(e) /\ Sound(eng'[e]) /\ BeginsWell(eng[e], eng'[e])
          BY <1>0, <3>2, MovesOnly DEF Sound, BeginsWell, Newcomer, Unstarted, NewPCs
    <3>4. StatusOpen /\ StreamOpen /\ (NoneStarted => NoneStarted')
          BY <3>1, Silent DEF StatusOpen
    <3>5. Agrees(eng'[e], manifest'.status) /\ ~Unended(eng'[e])
          BY <3>1, <3>2 DEF Agrees, Unended
    <3>6. OneEnding'
          BY <3>4, StillOneEnding DEF EndInv
    <3>. QED BY <3>3, <3>4, <3>5, <3>6, KeptEnds
  <2>. QED BY <2>2, <2>3
<1>4. CASE SetRunning(e)
  <2>1. eng[e].pc = "replayed" /\ eng[e].outcome = "running" /\ UNCHANGED events
        BY <1>4, OwnerFacts DEF SetRunning, Sound, Ending
  <2>2. /\ \A g \in Engines \ {e} : eng'[g] = eng[g]
        /\ eng'[e].pc = "start" /\ eng'[e].resumed = eng[e].resumed
        /\ eng'[e].token = eng[e].token /\ eng'[e].outcome = "running"
        BY <1>0, <1>4, <2>1 DEF SetRunning, Step, Engs, EngineRecord
  <2>3. StatusOpen
        BY <1>4 DEF SetRunning, StatusOpen, StatusAfter, TypeInv, Manifest, Over
  <2>4. StreamOpen /\ (NoneStarted => NoneStarted')
        BY <2>1, Silent
  <2>5. eng[e].resumed
        BY <2>1, OwnerFacts DEF Sound
  <2>6. OnlyMoves(e) /\ (Owns(e)' => Owns(e)) /\ Sound(eng'[e]) /\ BeginsWell(eng[e], eng'[e])
        BY <1>0, <2>1, <2>2, <2>5, MovesOnly DEF Sound, BeginsWell, Newcomer, Unstarted, NewPCs
  <2>7. Owns(e) => manifest'.status \notin Over
        BY <2>1, <2>3, OwnerFacts DEF Agrees, Active, StatusOpen
  <2>8. Owns(e) => Agrees(eng'[e], manifest'.status) /\ ~Unended(eng'[e])
        BY <2>2, <2>7 DEF Agrees, Unended
  <2>9. OneEnding'
        BY <2>3, <2>4, StillOneEnding DEF EndInv
  <2>. QED BY <2>3, <2>4, <2>6, <2>8, <2>9, KeptEnds
<1>5. CASE Start(e)
  <2>1. eng[e].pc = "start" /\ eng[e].outcome = "running"
        BY <1>5, OwnerFacts DEF Start, Sound, Ending
  <2>2. /\ \A g \in Engines \ {e} : eng'[g] = eng[g]
        /\ eng'[e].pc \in {"work", "closing"} /\ eng'[e].resumed = eng[e].resumed
        /\ eng'[e].token = eng[e].token /\ eng'[e].outcome = "running"
        BY <1>0, <1>5, <2>1 DEF Start, Step, Engs, EngineRecord
  <2>3. StatusOpen
        BY <1>0, <1>5, StatusStaysOpen DEF Start, PublishDone, PublishFailed
  <2>4. StreamOpen
        BY <1>5, EngineTells, TellableOnes, Open DEF TerminalEvents
  <2>5. OnlyMoves(e) /\ (Owns(e)' => Owns(e)) /\ Sound(eng'[e]) /\ BeginsWell(eng[e], eng'[e])
        BY <1>0, <2>1, <2>2, MovesOnly DEF Sound, BeginsWell, Newcomer, Unstarted, NewPCs
  <2>6. NoneStarted => NoneStarted' \/ (Unstarted(eng[e]) /\ ~Unstarted(eng'[e]))
    <3>1. CASE eng[e].resumed
          BY <1>5, <3>1, EngineTells, TellableOnes, Open
    <3>2. CASE ~eng[e].resumed
          BY <2>1, <2>2, <3>2 DEF Unstarted, NewPCs
    <3>. QED BY <3>1, <3>2
  <2>7. eng'[e].pc = "work" => ~Ended(events)'
    <3>. SUFFICES ASSUME eng'[e].pc = "work" PROVE ~Ended(events)'
         OBVIOUS
    <3>1. \/ eng[e].resumed /\ Accepts(events, "run.resumed", Key("run:resumed", Resumes(events) + 1))
          \/ ~eng[e].resumed /\ Accepts(events, "run.started", Key("run:started", 0))
      <4>1. CASE Step(e, "closing")
            BY <1>0, <4>1 DEF Step, Engs, EngineRecord
      <4>2. CASE ~Step(e, "closing")
            BY <1>5, <4>2 DEF Start, PublishDone
      <4>. QED BY <4>1, <4>2
    <3>2. ~eng[e].resumed => Unstarted(eng[e])
          BY <2>1 DEF Unstarted
    <3>3. ~Ended(events)
          BY <3>1, <3>2, FreshKey
    <3>. QED BY <2>4, <3>3 DEF StreamOpen
  <2>8. Owns(e) => manifest'.status \notin Over
        BY <2>1, <2>3, OwnerFacts DEF Agrees, Active, StatusOpen
  <2>9. Owns(e) => Agrees(eng'[e], manifest'.status) /\ (Unended(eng'[e]) => ~Ended(events)')
        BY <2>2, <2>7, <2>8 DEF Agrees, Unended
  <2>10. OneEnding'
        BY <2>3, <2>4, StillOneEnding DEF EndInv
  <2>. QED BY <2>2, <2>3, <2>4, <2>5, <2>6, <2>9, <2>10, KeptEnds
<1>. QED BY <1>1, <1>2, <1>3, <1>4, <1>5

\* An engine at work comes to a place on the way to an ending, or to a harmless one.
LEMMA WayOn ==
  ASSUME TypeInv, StageInv, EndInv, NEW e \in Engines,
         eng[e].pc \in Active \cup Ending \cup {"failing"},
         \A g \in Engines \ {e} : eng'[g] = eng[g],
         eng'[e].resumed = eng[e].resumed, eng'[e].token = eng[e].token,
         eng'[e].pc # "none" /\ eng'[e].pc \notin NewPCs,
         Unstarted(eng'[e]) => Unstarted(eng[e]), Sound(eng'[e]),
         LeaseKept, StatusOpen, StreamOpen, NoneStarted => NoneStarted',
         Owns(e) => Agrees(eng'[e], manifest'.status),
         Unended(eng'[e]) => Unended(eng[e])
  PROVE  EndInv'
<1>1. OnlyMoves(e) /\ (Owns(e)' => Owns(e))
      BY MovesOnly
<1>2. BeginsWell(eng[e], eng'[e])
      BY DEF BeginsWell, Newcomer, Active, Ending
<1>3. Owns(e) /\ Unended(eng'[e]) => ~Ended(events)'
      BY OwnerFacts DEF StreamOpen
<1>4. OneEnding'
      BY StillOneEnding DEF EndInv
<1>. QED BY <1>1, <1>2, <1>3, <1>4, KeptEnds

\* The work of a stage, its end and its interruption.
LEMMA EndsWorking ==
  ASSUME TypeInv, StageInv, EndInv, NEW e \in Engines,
         Work(e) \/ StageCancelled(e) \/ Announce(e) \/ Fail(e)
  PROVE  EndInv'
<1>0. /\ eng \in [Engines -> Engs] /\ eng[e] \in Engs
      /\ "failed" \in Statuses \ {"absent", "completed", "cancelled"}
      /\ UNCHANGED lease /\ LeaseKept
  <2>1. UNCHANGED lease
        BY DEF Work, StageDone, StageFails, StageCancelled, Terminate, Claim, Announce, Fail
  <2>. QED BY <2>1, SameLeaseKept DEF TypeInv, Statuses
<1>1. StatusOpen
      BY <1>0, StatusStaysOpen DEF Work, StageDone, StageFails, StageCancelled, Terminate, Claim,
                                    Announce, Fail, PublishDone, PublishFailed
<1>2. StreamOpen /\ (NoneStarted => NoneStarted')
  <2>1. CASE Fail(e)
        BY <2>1, EngineTells, TellableOnes, Open DEF TerminalEvents
  <2>2. CASE ~Fail(e)
        BY <2>2, Silent DEF Work, StageDone, StageFails, StageCancelled, Terminate, Claim, Announce
  <2>. QED BY <2>1, <2>2
<1>3. CASE Fail(e)
  <2>1. /\ \A g \in Engines \ {e} : eng'[g] = eng[g]
        /\ eng[e].pc = "failing" /\ eng'[e].pc = "append" /\ eng'[e].outcome = "failed"
        /\ eng'[e].resumed = eng[e].resumed /\ eng'[e].token = eng[e].token
        BY <1>0, <1>3 DEF Fail, Engs, EngineRecord
  <2>2. Sound(eng'[e]) /\ ~Unstarted(eng'[e]) /\ ~Unended(eng'[e]) /\ Agrees(eng'[e], manifest'.status)
        BY <2>1 DEF Sound, Unstarted, Unended, Agrees, Ending, NewPCs
  <2>. QED BY <1>0, <1>1, <1>2, <2>1, <2>2, WayOn DEF NewPCs
<1>4. CASE ~Fail(e)
  <2>1. eng[e].pc \in {"work", "announce"} /\ eng[e].outcome = "running" /\ UNCHANGED manifest
    <3>1. eng[e].pc \in {"work", "announce"} /\ UNCHANGED manifest
          BY <1>4 DEF Work, StageDone, StageFails, StageCancelled, Terminate, Claim, Working, Announce
    <3>. QED BY <3>1, OwnerFacts DEF Sound, Ending
  <2>2. Owns(e) => manifest.status \notin Over
        BY <2>1, OwnerFacts DEF Agrees, Active
  <2>3. \/ eng' = [eng EXCEPT ![e].pc = "work"]
        \/ eng' = [eng EXCEPT ![e].pc = "failing"]
        \/ eng' = [eng EXCEPT ![e].pc = "append"] /\ eng[e].stage \in WorkStages
        \/ eng' = [eng EXCEPT ![e].pc = "append", ![e].outcome = "cancelled"]
        \/ eng' = [eng EXCEPT ![e].pc = "append", ![e].outcome = "terminated"]
        \/ eng' = [eng EXCEPT ![e].pc = "append", ![e].scope = "claimed", ![e].outcome = "completed"]
        BY <1>4 DEF Work, StageDone, StageFails, StageCancelled, Terminate, Claim, Announce, Excepted, Step
  <2>4. /\ \A g \in Engines \ {e} : eng'[g] = eng[g]
        /\ eng'[e].resumed = eng[e].resumed /\ eng'[e].token = eng[e].token
        /\ \/ eng'[e].pc \in {"work", "failing"} /\ eng'[e].outcome = "running"
           \/ /\ eng'[e].pc = "append"
              /\ \/ eng'[e].outcome = "running" /\ eng'[e].stage # "received"
                 \/ eng'[e].outcome \in {"cancelled", "terminated"}
                 \/ eng'[e].outcome = "completed" /\ eng'[e].scope = "claimed"
        BY <1>0, <2>1, <2>3 DEF Engs, EngineRecord, WorkStages
  <2>5. Sound(eng'[e]) /\ ~Unstarted(eng'[e]) /\ Unended(eng[e])
        BY <2>1, <2>4 DEF Sound, Unstarted, Unended, Ending, NewPCs
  <2>6. Owns(e) => Agrees(eng'[e], manifest'.status)
        BY <2>1, <2>2 DEF Agrees, Over
  <2>. QED BY <1>0, <1>1, <1>2, <2>1, <2>4, <2>5, <2>6, WayOn DEF NewPCs, Active
<1>. QED BY <1>3, <1>4

\* What comes after a checkpoint.
LEMMA OnwardEnds ==
  ASSUME TypeInv, EndInv, NEW e \in Engines, eng[e].pc \in {"append", "update"}, eng' = Onward(e)
  PROVE  /\ \A g \in Engines \ {e} : eng'[g] = eng[g]
         /\ eng'[e].resumed = eng[e].resumed /\ eng'[e].token = eng[e].token
         /\ eng'[e].pc # "none" /\ eng'[e].pc \notin NewPCs
         /\ Unstarted(eng'[e]) => Unstarted(eng[e])
         /\ Sound(eng'[e])
         /\ Unended(eng'[e]) => Unended(eng[e])
         /\ \A s : Agrees(eng[e], s) => Agrees(eng'[e], s)
<1>1. PICK x \in Engs : x = eng[e]
      BY MovedType
<1>2. eng \in [Engines -> Engs] /\ x.outcome \in Outcomes /\ Sound(x)
      BY <1>1, OwnerFacts DEF TypeInv, Engs, EngineRecord
<1>3. CASE x.outcome # "running"
  <2>1. PICK p \in {"closing", "finale", "confirm"} :
           /\ eng' = [eng EXCEPT ![e].pc = p]
           /\ p \in {"finale", "confirm"} => x.outcome # "failed"
           /\ p = "confirm" => x.outcome # "cancelled"
    <3>1. CASE x.outcome = "failed"
          BY <1>1, <3>1 DEF Onward
    <3>2. CASE x.outcome = "cancelled"
          BY <1>1, <3>2 DEF Onward
    <3>3. CASE x.outcome \in {"completed", "terminated"}
          BY <1>1, <3>3 DEF Onward
    <3>. QED BY <1>2, <1>3, <3>1, <3>2, <3>3 DEF Outcomes
  <2>2. /\ \A g \in Engines \ {e} : eng'[g] = eng[g]
        /\ eng'[e].resumed = x.resumed /\ eng'[e].token = x.token /\ eng'[e].scope = x.scope
        /\ eng'[e].pc = p /\ eng'[e].outcome = x.outcome
        BY <1>1, <1>2, <2>1 DEF Engs, EngineRecord
  <2>. QED BY <1>1, <1>2, <1>3, <2>1, <2>2
           DEF NewPCs, Unstarted, Sound, Unended, Agrees, Active, Ending
<1>4. CASE x.outcome = "running"
  <2>1. /\ \A g \in Engines \ {e} : eng'[g] = eng[g]
        /\ eng'[e].resumed = x.resumed /\ eng'[e].token = x.token
        /\ eng'[e].outcome = "running"
        /\ eng'[e].pc = IF x.stage = "received" THEN "start" ELSE "announce"
    <3>1. PICK p \in {"start", "announce"} :
            /\ eng' = [eng EXCEPT ![e].pc = p, ![e].stage = Following[eng[e].stage]]
            /\ p = IF x.stage = "received" THEN "start" ELSE "announce"
          BY <1>1, <1>4 DEF Onward
    <3>. QED BY <1>1, <1>2, <1>4, <3>1 DEF Engs, EngineRecord
  <2>. QED BY <1>1, <1>2, <1>4, <2>1 DEF NewPCs, Unstarted, Sound, Unended, Agrees, Active, Ending
<1>. QED BY <1>3, <1>4

\* The two writes of a checkpoint.
LEMMA EndsCheckpoint ==
  ASSUME TypeInv, StageInv, EndInv, NEW e \in Engines, AppendRecord(e) \/ UpdateManifest(e)
  PROVE  EndInv'
<1>0. /\ eng \in [Engines -> Engs] /\ eng[e] \in Engs
      /\ eng[e].pc \in {"append", "update"} /\ UNCHANGED events
      /\ UNCHANGED lease /\ LeaseKept
  <2>1. UNCHANGED lease
        BY DEF AppendRecord, UpdateManifest
  <2>. QED BY <2>1, SameLeaseKept DEF TypeInv, AppendRecord, UpdateManifest
<1>1. StreamOpen /\ (NoneStarted => NoneStarted')
      BY <1>0, Silent
<1>2. CASE AppendRecord(e)
  <2>1. StatusOpen /\ manifest'.status = manifest.status
        BY <1>2 DEF AppendRecord, StatusOpen, TypeInv, Manifest
  <2>2. CASE Step(e, "update")
    <3>1. eng[e].pc = "append"
          BY <1>2 DEF AppendRecord
    <3>2. /\ \A g \in Engines \ {e} : eng'[g] = eng[g]
          /\ eng'[e].resumed = eng[e].resumed /\ eng'[e].token = eng[e].token
          /\ eng'[e].pc = "update" /\ eng'[e].outcome = eng[e].outcome
          /\ eng'[e].stage = eng[e].stage /\ eng'[e].scope = eng[e].scope
          BY <1>0, <2>2 DEF Step, Engs, EngineRecord
    <3>3. Sound(eng'[e])
          BY <3>2, OwnerFacts DEF Sound, Ending
    <3>4. /\ Unstarted(eng'[e]) => Unstarted(eng[e])
          /\ Unended(eng'[e]) => Unended(eng[e])
          BY <3>1, <3>2 DEF Unstarted, Unended, NewPCs
    <3>5. Owns(e) => Agrees(eng'[e], manifest'.status)
          BY <2>1, <3>1, <3>2, OwnerFacts DEF Agrees, Active, Ending
    <3>. QED BY <1>0, <1>1, <2>1, <3>2, <3>3, <3>4, <3>5, WayOn DEF NewPCs, Ending
  <2>3. CASE eng' = Onward(e)
    <3>1. Owns(e) => Agrees(eng'[e], manifest'.status)
          BY <1>0, <2>1, <2>3, OnwardEnds, OwnerFacts
    <3>. QED BY <1>0, <1>1, <2>1, <2>3, <3>1, OnwardEnds, WayOn DEF Ending
  <2>. QED BY <1>2, <2>2, <2>3 DEF AppendRecord
<1>3. CASE UpdateManifest(e)
  <2>1. eng[e].pc = "update" /\ eng' = Onward(e)
        BY <1>3 DEF UpdateManifest
  <2>2. CASE UNCHANGED manifest
    <3>1. Owns(e) => Agrees(eng'[e], manifest'.status)
          BY <1>0, <2>1, <2>2, OnwardEnds, OwnerFacts
    <3>. QED BY <1>0, <1>1, <2>1, <2>2, <3>1, OnwardEnds, WayOn DEF Ending, StatusOpen
  <2>3. CASE ~UNCHANGED manifest
    <3>1. Due(e).status \in Statuses \ {"absent"} /\ Due(e).next \in NextStages \cup {"none"}
          BY <2>1, LineType, DuePresent
    <3>2. PICK m \in Manifest : m = WithStatus(manifest, Due(e).status)
          BY <3>1, StatusType DEF TypeInv
    <3>3. Owns(e) /\ manifest' = [m EXCEPT !.next = IF Due(e).next = "none" THEN @ ELSE Due(e).next]
          BY <1>3, <2>3, <3>2 DEF UpdateManifest, WriteDone
    <3>4. manifest'.status = StatusAfter(manifest.status, Due(e).status, FALSE)
          BY <3>2, <3>3 DEF Manifest, WithStatus, TypeInv
    <3>5. Agrees(eng[e], manifest.status) /\ (Unended(eng[e]) => ~Ended(events)) /\ Sound(eng[e])
          BY <3>3, OwnerFacts
    <3>6. eng[e].outcome \in Outcomes
          BY <1>0 DEF Engs, EngineRecord
    <3>7. Agrees(eng[e], manifest'.status)
      <4>1. CASE eng[e].outcome \in {"running", "terminated", "failed"}
            BY <2>1, <3>4, <3>5, <4>1 DEF Agrees, Due, StatusAfter, Over, Active, Ending
      <4>2. CASE eng[e].outcome \in {"completed", "cancelled"}
            BY <2>1, <3>4, <3>5, <4>2 DEF Agrees, Due, StatusAfter, Over, Ending
      <4>. QED BY <3>6, <4>1, <4>2 DEF Outcomes
    <3>8. OneEnding'
      <4>1. CASE StatusOpen
            BY <1>1, <4>1, StillOneEnding DEF EndInv
      <4>2. CASE ~StatusOpen
        <5>1. eng[e].outcome \in {"completed", "cancelled"}
              BY <3>4, <3>6, <4>2 DEF StatusOpen, StatusAfter, Due, Outcomes, Over
        <5>2. ~Ended(events)
              BY <2>1, <3>5, <5>1 DEF Unended
        <5>3. ~Told("run.completed")' /\ ~Told("run.cancelled")'
              BY <1>0, <5>2 DEF Told, Ended, TerminalEvents
        <5>. QED BY <5>3 DEF OneEnding
      <4>. QED BY <4>1, <4>2
    <3>9. OnlyMoves(e) /\ BeginsWell(eng[e], eng'[e])
      <4>1. \A g \in Engines \ {e} : eng'[g] = eng[g]
            BY <1>0, <2>1, OnwardEnds
      <4>. QED BY <1>0, <2>1, <4>1, OnwardEnds, MovesOnly DEF BeginsWell, Newcomer
    <3>10. /\ eng'[e].pc \notin NewPCs /\ Sound(eng'[e]) /\ Agrees(eng'[e], manifest'.status)
           /\ Unended(eng'[e]) => ~Ended(events)'
           BY <1>0, <1>1, <2>1, <3>5, <3>7, OnwardEnds DEF StreamOpen
    <3>. QED BY <1>1, <2>1, <3>3, <3>8, <3>9, <3>10, KeptEnds
  <2>. QED BY <2>2, <2>3
<1>. QED BY <1>2, <1>3

\* Where an exception leads once the run has come to an outcome.
LEMMA ExceptedEnds ==
  ASSUME TypeInv, EndInv, NEW e \in Engines, eng[e].pc \in {"confirm", "finale"},
         eng[e].outcome \in {"completed", "terminated"}, eng' = Excepted(e)
  PROVE  /\ \A g \in Engines \ {e} : eng'[g] = eng[g]
         /\ eng'[e].resumed = eng[e].resumed /\ eng'[e].token = eng[e].token
         /\ eng'[e].pc \in {"failing", "append"}
         /\ ~Unstarted(eng'[e]) /\ Sound(eng'[e])
         /\ \A s : Agrees(eng[e], s) => Agrees(eng'[e], s)
<1>1. eng \in [Engines -> Engs] /\ Sound(eng[e])
      BY OwnerFacts DEF TypeInv
<1>2. \/ eng' = [eng EXCEPT ![e].pc = "failing"]
      \/ /\ eng' = [eng EXCEPT ![e].pc = "append", ![e].outcome = "cancelled"]
         /\ eng[e].outcome = "terminated"
      BY <1>1 DEF Excepted, Sound
<1>3. /\ \A g \in Engines \ {e} : eng'[g] = eng[g]
      /\ eng'[e].resumed = eng[e].resumed /\ eng'[e].token = eng[e].token
      /\ eng'[e].scope = eng[e].scope
      /\ \/ eng'[e].pc = "failing" /\ eng'[e].outcome = eng[e].outcome
         \/ /\ eng'[e].pc = "append" /\ eng'[e].outcome = "cancelled"
            /\ eng[e].outcome = "terminated"
      BY <1>1, <1>2 DEF Engs, EngineRecord
<1>. QED BY <1>1, <1>3 DEF Unstarted, Sound, Agrees, Active, Ending, NewPCs, Over

LEMMA EndsConfirm ==
  ASSUME TypeInv, StageInv, EndInv, NEW e \in Engines, Confirm(e)
  PROVE  EndInv'
<1>0. /\ eng \in [Engines -> Engs] /\ eng[e] \in Engs
      /\ eng[e].pc = "confirm" /\ eng[e].outcome \in {"completed", "terminated"}
      /\ UNCHANGED <<lease, events>> /\ LeaseKept
  <2>1. UNCHANGED lease
        BY DEF Confirm
  <2>. QED BY <2>1, SameLeaseKept DEF TypeInv, Confirm, Engs, Coherent
<1>1. StreamOpen /\ (NoneStarted => NoneStarted')
      BY <1>0, Silent
<1>2. ASSUME Step(e, "finale")
      PROVE  /\ \A g \in Engines \ {e} : eng'[g] = eng[g]
             /\ eng'[e].resumed = eng[e].resumed /\ eng'[e].token = eng[e].token
             /\ eng'[e].pc = "finale" /\ eng'[e].outcome = eng[e].outcome
             /\ Sound(eng'[e]) /\ ~Unstarted(eng'[e]) /\ Unended(eng[e])
             /\ Agrees(eng'[e], "absent")
  <2>1. /\ \A g \in Engines \ {e} : eng'[g] = eng[g]
        /\ eng'[e].resumed = eng[e].resumed /\ eng'[e].token = eng[e].token
        /\ eng'[e].pc = "finale" /\ eng'[e].outcome = eng[e].outcome
        /\ eng'[e].scope = eng[e].scope
        BY <1>0, <1>2 DEF Step, Engs, EngineRecord
  <2>. QED BY <1>0, <2>1, OwnerFacts DEF Sound, Unstarted, Unended, Agrees, Ending, Active, NewPCs, Over
<1>3. CASE UNCHANGED manifest
  <2>1. CASE Step(e, "finale")
    <3>1. Owns(e) => Agrees(eng'[e], manifest'.status)
          BY <1>0, <1>2, <1>3, <2>1, OwnerFacts DEF Agrees, Ending, Active
    <3>. QED BY <1>0, <1>1, <1>2, <1>3, <2>1, <3>1, WayOn DEF Ending, NewPCs, StatusOpen
  <2>2. CASE eng' = Excepted(e)
    <3>1. Owns(e) => Agrees(eng'[e], manifest'.status)
          BY <1>0, <1>3, <2>2, ExceptedEnds, OwnerFacts
    <3>2. Unended(eng[e])
          BY <1>0 DEF Unended
    <3>. QED BY <1>0, <1>1, <1>3, <2>2, <3>1, <3>2, ExceptedEnds, WayOn DEF Ending, NewPCs, StatusOpen
  <2>. QED BY <2>1, <2>2 DEF Confirm
<1>4. CASE ~UNCHANGED manifest
  <2>1. Owns(e) /\ manifest' = WithStatus(manifest, Due(e).status) /\ Step(e, "finale")
        BY <1>4 DEF Confirm, WriteDone
  <2>2. manifest'.status = StatusAfter(manifest.status, Due(e).status, FALSE)
        BY <2>1 DEF WithStatus, TypeInv, Manifest
  <2>3. Agrees(eng[e], manifest.status) /\ ~Ended(events)
        BY <1>0, <2>1, OwnerFacts DEF Unended
  <2>4. Agrees(eng'[e], manifest'.status)
        BY <1>0, <1>2, <2>1, <2>2, <2>3 DEF Agrees, Due, StatusAfter, Over, Ending, Active
  <2>5. OneEnding'
    <3>1. ~Told("run.completed")' /\ ~Told("run.cancelled")'
          BY <1>0, <2>3 DEF Told, Ended, TerminalEvents
    <3>. QED BY <3>1 DEF OneEnding
  <2>6. OnlyMoves(e) /\ BeginsWell(eng[e], eng'[e])
        BY <1>0, <1>2, <2>1, MovesOnly DEF BeginsWell, Newcomer, NewPCs
  <2>7. ~Ended(events)'
        BY <1>1, <2>3 DEF StreamOpen
  <2>. QED BY <1>0, <1>1, <1>2, <2>1, <2>4, <2>5, <2>6, <2>7, KeptEnds DEF NewPCs
<1>. QED BY <1>3, <1>4

\* The last event: the owner that tells one ending rules the other out.
LEMMA EndsFinale ==
  ASSUME TypeInv, StageInv, EndInv, NEW e \in Engines, Finale(e)
  PROVE  EndInv'
<1>0. /\ eng \in [Engines -> Engs] /\ eng[e] \in Engs
      /\ "failed" \in Statuses \ {"absent", "completed", "cancelled"}
      /\ eng[e].pc = "finale" /\ eng[e].outcome \in {"completed", "cancelled", "terminated"}
      /\ UNCHANGED lease /\ LeaseKept
  <2>1. UNCHANGED lease
        BY DEF Finale
  <2>. QED BY <2>1, SameLeaseKept DEF TypeInv, Finale, Engs, Coherent, Statuses
<1>1. StatusOpen
      BY <1>0, StatusStaysOpen DEF Finale, PublishDone, PublishFailed
<1>2. ASSUME Step(e, "closing")
      PROVE  /\ \A g \in Engines \ {e} : eng'[g] = eng[g]
             /\ eng'[e].resumed = eng[e].resumed /\ eng'[e].token = eng[e].token
             /\ eng'[e].pc = "closing"
             /\ Sound(eng'[e]) /\ ~Unstarted(eng'[e]) /\ ~Unended(eng'[e])
             /\ \A s : Agrees(eng'[e], s)
  <2>1. /\ \A g \in Engines \ {e} : eng'[g] = eng[g]
        /\ eng'[e].resumed = eng[e].resumed /\ eng'[e].token = eng[e].token
        /\ eng'[e].pc = "closing" /\ eng'[e].outcome = eng[e].outcome
        /\ eng'[e].scope = eng[e].scope
        BY <1>0, <1>2 DEF Step, Engs, EngineRecord
  <2>. QED BY <1>0, <2>1, OwnerFacts DEF Sound, Unstarted, Unended, Agrees, Ending, Active, NewPCs
<1>3. CASE UNCHANGED events
  <2>1. StreamOpen /\ (NoneStarted => NoneStarted')
        BY <1>3, Silent
  <2>2. CASE Step(e, "closing")
        BY <1>0, <1>1, <1>2, <2>1, <2>2, WayOn DEF Ending, Active, NewPCs
  <2>3. CASE eng' = Excepted(e) /\ eng[e].outcome # "cancelled"
    <3>1. Owns(e) => Agrees(eng'[e], manifest'.status)
      <4>1. Owns(e) => Agrees(eng[e], manifest'.status)
            BY <1>1, OwnerFacts DEF Agrees, StatusOpen, Over
      <4>. QED BY <1>0, <2>3, <4>1, ExceptedEnds
    <3>2. Unended(eng[e])
          BY <1>0 DEF Unended
    <3>3. /\ \A g \in Engines \ {e} : eng'[g] = eng[g]
          /\ eng'[e].resumed = eng[e].resumed /\ eng'[e].token = eng[e].token
          /\ eng'[e].pc \in {"failing", "append"}
          /\ ~Unstarted(eng'[e]) /\ Sound(eng'[e])
          BY <1>0, <2>3, ExceptedEnds
    <3>. QED BY <1>0, <1>1, <2>1, <3>1, <3>2, <3>3, WayOn DEF NewPCs, Ending
  <2>. QED BY <1>0, <2>2, <2>3 DEF Finale
<1>4. CASE ~UNCHANGED events
  <2>1. Owns(e) /\ Step(e, "closing") /\ UNCHANGED manifest
        BY <1>0, <1>4 DEF Finale, PublishDone, PublishFailed, WriteDone
  <2>2. Agrees(eng[e], manifest.status)
        BY <2>1, OwnerFacts
  <2>3. OneEnding'
    <3>1. CASE eng[e].outcome = "completed"
      <4>1. Told1("run.completed", "run:terminal", 0)
            BY <3>1, EngineTells
      <4>2. Told("run.cancelled")' => Told("run.cancelled")
            BY <4>1, TellableOnes, Open DEF TerminalEvents
      <4>. QED BY <1>0, <2>1, <2>2, <3>1, <4>2 DEF Agrees, Ending, EndInv, OneEnding
    <3>2. CASE eng[e].outcome = "cancelled"
      <4>1. Told1("run.cancelled", "run:terminal", 0)
            BY <3>2, EngineTells
      <4>2. Told("run.completed")' => Told("run.completed")
            BY <4>1, TellableOnes, Open DEF TerminalEvents
      <4>. QED BY <1>0, <2>1, <2>2, <3>2, <4>2 DEF Agrees, Ending, EndInv, OneEnding
    <3>3. CASE eng[e].outcome = "terminated"
      <4>1. Told1("run.failed", "run:terminal", 0)
            BY <3>3, EngineTells
      <4>2. /\ Told("run.completed")' => Told("run.completed")
            /\ Told("run.cancelled")' => Told("run.cancelled")
            BY <4>1, TellableOnes, Open DEF TerminalEvents
      <4>. QED BY <2>1, <4>2 DEF EndInv, OneEnding
    <3>. QED BY <1>0, <3>1, <3>2, <3>3
  <2>4. NoneStarted => NoneStarted'
    <3>1. \E t \in TerminalEvents : Told1(t, "run:terminal", 0)
          BY EngineTells DEF TerminalEvents
    <3>. QED BY <3>1, TellableOnes, Open
  <2>5. OnlyMoves(e) /\ BeginsWell(eng[e], eng'[e])
        BY <1>0, <1>2, <2>1, MovesOnly DEF BeginsWell, Newcomer, NewPCs
  <2>. QED BY <1>0, <1>1, <1>2, <2>1, <2>3, <2>4, <2>5, KeptEnds
<1>. QED BY <1>3, <1>4

\* Engines that end, are cancelled, or are interrupted by a shutdown.
LEMMA EndsDisturbed ==
  ASSUME TypeInv, StageInv, EndInv, NEW e \in Engines,
         \/ Close(e) \/ Crash(e) \/ CrashInAppend(e)
         \/ HeartbeatLost(e) \/ CancelLocal(e) \/ ConsumeCancel(e)
         \/ DrainMark(e) \/ DrainPublish(e) \/ DrainKill(e)
  PROVE  EndInv'
<1>0. /\ eng \in [Engines -> Engs] /\ eng[e] \in Engs
      /\ {"failed", "interrupted"} \subseteq Statuses \ {"absent", "completed", "cancelled"}
      BY DEF TypeInv, Statuses
<1>1. CASE Close(e) \/ Crash(e) \/ CrashInAppend(e) \/ DrainKill(e)
  <2>1. /\ UNCHANGED <<events, manifest>>
        /\ lease' = lease \/ lease' = L!Released(lease)
        BY <1>1 DEF Close, Crash, CrashInAppend, DrainKill
  <2>2. \/ eng' = [eng EXCEPT ![e] = NoEngine]
        \/ eng' = [eng EXCEPT ![e].pc = "closing"] /\ eng[e].pc # "none"
        BY <1>1 DEF Close, Crash, CrashInAppend, DrainKill, Step, Bound
  <2>3. /\ \A g \in Engines \ {e} : eng'[g] = eng[g]
        /\ \/ eng'[e].pc = "none" /\ ~eng'[e].resumed /\ eng'[e].outcome = "running"
           \/ /\ eng'[e].pc = "closing" /\ eng'[e].resumed = eng[e].resumed /\ eng[e].pc # "none"
              /\ eng'[e].outcome = eng[e].outcome /\ eng'[e].scope = eng[e].scope
        BY <1>0, <2>2 DEF NoEngine, Engs, EngineRecord
  <2>4. OnlyMoves(e)
        BY <2>1, <2>3, MovesOnly, SameLeaseKept
  <2>5. BeginsWell(eng[e], eng'[e])
        BY <2>3 DEF BeginsWell, Newcomer, Unstarted, NewPCs
  <2>6. Sound(eng'[e]) /\ eng'[e].pc \notin Active \cup Ending
        BY <2>3, OwnerFacts DEF Sound, Active, Ending
  <2>7. StatusOpen /\ StreamOpen /\ (NoneStarted => NoneStarted')
        BY <2>1, Silent DEF StatusOpen
  <2>. QED BY <2>4, <2>5, <2>6, <2>7, HarmlessEnds
<1>2. CASE HeartbeatLost(e) \/ CancelLocal(e) \/ ConsumeCancel(e) \/ DrainMark(e) \/ DrainPublish(e)
  <2>1. UNCHANGED lease
        BY <1>2 DEF HeartbeatLost, CancelLocal, ConsumeCancel, DrainMark, DrainPublish
  <2>2. /\ \A g \in Engines \ {e} : eng'[g] = eng[g]
        /\ eng'[e].pc = eng[e].pc /\ eng'[e].token = eng[e].token
        /\ eng'[e].stage = eng[e].stage /\ eng'[e].outcome = eng[e].outcome
        /\ eng'[e].resumed = eng[e].resumed
        /\ eng[e].scope = "claimed" => eng'[e].scope = "claimed"
    <3>1. CASE HeartbeatLost(e) \/ CancelLocal(e) \/ ConsumeCancel(e)
          BY <1>0, <3>1 DEF HeartbeatLost, CancelLocal, ConsumeCancel, Requested, Engs, EngineRecord
    <3>2. CASE DrainMark(e) \/ DrainPublish(e)
          BY <1>0, <3>2 DEF DrainMark, DrainPublish, Engs, EngineRecord
    <3>. QED BY <1>2, <3>1, <3>2
  <2>3. manifest' \in {manifest, Marked(manifest), WithStatus(manifest, "interrupted")}
        BY <1>2 DEF HeartbeatLost, CancelLocal, ConsumeCancel, DrainMark, DrainPublish,
                    PublishDone, PublishFailed
  <2>4. StatusOpen
        BY <1>0, <2>3, StatusStaysOpen
  <2>5. StreamOpen /\ (NoneStarted => NoneStarted')
    <3>1. CASE DrainPublish(e)
          BY <3>1, EngineTells, TellableOnes, Open DEF TerminalEvents
    <3>2. CASE ~DrainPublish(e)
          BY <1>2, <3>2, Silent DEF HeartbeatLost, CancelLocal, ConsumeCancel, DrainMark
    <3>. QED BY <3>1, <3>2
  <2>. QED BY <2>1, <2>2, <2>4, <2>5, SteadyEnds, SameLeaseKept
<1>. QED BY <1>1, <1>2

\* A step that leaves the engines alone.
LEMMA QuietEnds ==
  ASSUME TypeInv, EndInv, UNCHANGED eng, StatusOpen, StreamOpen, NoneStarted => NoneStarted',
         \A e \in Engines : Owns(e)' => Owns(e)
  PROVE  EndInv'
<1>1. OneNewRun' /\ NotYetStarted' /\ NewRunOpen' /\ \A e \in Engines : Sound(eng'[e])
      BY DEF EndInv, OneNewRun, NotYetStarted, NewRunOpen, StatusOpen
<1>2. OwnerAgrees'
      BY DEF EndInv, OwnerAgrees, Agrees, StatusOpen, Over
<1>3. OwnerUnended'
      BY DEF EndInv, OwnerUnended, StreamOpen
<1>4. OneEnding'
      BY StillOneEnding DEF EndInv
<1>. QED BY <1>1, <1>2, <1>3, <1>4 DEF EndInv

LEMMA EndsSweep ==
  ASSUME TypeInv, EndInv, Sweep
  PROVE  EndInv'
<1>0. Sweeper \notin Engines /\ "interrupted" \in Statuses \ {"absent", "completed", "cancelled"}
      BY RunLifecycleAssumption DEF Statuses
<1>1. UNCHANGED eng
      BY DEF Sweep, SweepList, SweepAcquire, SweepBind, SweepMark, SweepPublish, SweepRelease, SweepCrash
<1>2. StatusOpen
  <2>1. CASE SweepBind
        BY <2>1 DEF SweepBind, StatusOpen, TypeInv, Manifest
  <2>2. CASE SweepMark
        BY <1>0, <2>2, StatusStaysOpen DEF SweepMark
  <2>3. CASE ~SweepBind /\ ~SweepMark
        BY <2>3 DEF Sweep, SweepList, SweepAcquire, SweepPublish, SweepRelease, SweepCrash, StatusOpen
  <2>. QED BY <2>1, <2>2, <2>3
<1>3. StreamOpen /\ (NoneStarted => NoneStarted')
      BY SweepTells, TellableOnes, Open DEF TerminalEvents
<1>4. ASSUME NEW e \in Engines, Owns(e)' PROVE Owns(e)
  <2>1. CASE lease' = L!Acquired(lease, Sweeper)
    <3>1. lease'.owner = Sweeper
          BY <2>1, LeaseType DEF TypeInv
    <3>. QED BY <1>0, <1>4, <3>1 DEF Owns, Fenced, L!FenceHolds, L!HoldsEpoch
  <2>2. CASE lease' = lease \/ lease' = L!Released(lease)
    <3>1. LeaseKept
          BY <2>2, SameLeaseKept
    <3>. QED BY <1>1, <1>4, <3>1 DEF LeaseKept, Owns, Fenced, L!FenceHolds, L!HoldsEpoch
  <2>. QED BY <2>1, <2>2 DEF Sweep, SweepList, SweepAcquire, SweepBind, SweepMark, SweepPublish,
                             SweepRelease, SweepCrash
<1>. QED BY <1>1, <1>2, <1>3, <1>4, QuietEnds

LEMMA EndsNext ==
  TypeInv /\ KeysSay /\ NothingTold /\ StageInv /\ EndInv /\ [Next]_vars => EndInv'
<1>. SUFFICES ASSUME TypeInv, KeysSay, NothingTold, StageInv, EndInv, [Next]_vars PROVE EndInv'
     OBVIOUS
<1>1. ASSUME NEW e \in Engines, Engine(e) \/ Work(e) PROVE EndInv'
      BY <1>1, EndsStarting, EndsRunning, EndsWorking, EndsCheckpoint, EndsConfirm, EndsFinale,
         EndsDisturbed DEF Engine
<1>2. ASSUME NEW e \in Engines, Environment(e) PROVE EndInv'
      BY <1>2, EndsStarting, EndsDisturbed DEF Environment
<1>3. CASE CancelRemote \/ Elapse \/ UNCHANGED vars
  <2>1. /\ UNCHANGED <<eng, manifest, events>>
        /\ lease' = lease \/ (L!Live(lease) /\ lease' = L!Elapsed(lease))
        BY <1>3 DEF CancelRemote, Elapse, vars
  <2>2. LeaseKept /\ StatusOpen /\ StreamOpen /\ (NoneStarted => NoneStarted')
        BY <2>1, SameLeaseKept, Silent DEF StatusOpen
  <2>3. \A e \in Engines : Owns(e)' => Owns(e)
        BY <2>1, <2>2 DEF LeaseKept, Owns, Fenced, L!FenceHolds, L!HoldsEpoch
  <2>. QED BY <2>1, <2>2, <2>3, QuietEnds
<1>. QED BY <1>1, <1>2, <1>3, EndsSweep DEF Next

\* The shutdown only drains engines that a task of the server runs.
DrainedHosted == \A e \in Engines : eng[e].drain # "no" => eng[e].hosted

LEMMA DrainedNext == TypeInv /\ DrainedHosted /\ [Next]_vars => DrainedHosted'
<1>. SUFFICES ASSUME TypeInv, DrainedHosted, [Next]_vars PROVE DrainedHosted'
     OBVIOUS
<1>0. UNCHANGED eng => DrainedHosted'
      BY DEF DrainedHosted
<1>1. ASSUME NEW e \in Engines, \A g \in Engines \ {e} : eng'[g] = eng[g],
             \/ eng'[e].drain = "no" \/ eng'[e].hosted
             \/ eng'[e].drain = eng[e].drain /\ eng'[e].hosted = eng[e].hosted
      PROVE  DrainedHosted'
      BY <1>1 DEF DrainedHosted
<1>2. ASSUME NEW e \in Engines, Engine(e) \/ Work(e) \/ Environment(e) PROVE DrainedHosted'
  <2>0. eng \in [Engines -> EngineRecord]
        BY DEF TypeInv, Engs
  <2>. USE <2>0 DEF Step, EngineRecord
  <2>1. NoEngine.drain = "no" /\ \A x : [eng EXCEPT ![e] = x][e] = x
        BY DEF NoEngine
  <2>2. eng' = [eng EXCEPT ![e] = NoEngine] \/ (\E p : Step(e, p)) => DrainedHosted'
        BY <1>1, <2>1
  <2>3. CASE Acquire(e)
        BY <1>1, <2>2, <2>3 DEF Acquire
  <2>13. CASE Bind(e) \/ SetRunning(e) \/ Start(e) \/ StageDone(e) \/ Close(e)
        BY <2>2, <2>13 DEF Bind, SetRunning, Start, StageDone, Close
  <2>14. CASE NewRun(e)
        BY <1>1, <2>2, <2>14 DEF NewRun
  <2>15. CASE Initialize(e)
    <3>1. \/ eng' = [eng EXCEPT ![e].pc = "start", ![e].stage = "research"]
          \/ eng' = [eng EXCEPT ![e].pc = "append"]
          BY <2>15 DEF Initialize
    <3>. QED BY <1>1, <3>1
  <2>16. CASE Replay(e)
    <3>1. \/ \E p : Step(e, p)
          \/ eng' = [eng EXCEPT ![e].pc = "replayed", ![e].stage = ReplayNext(manifest, journal)]
          BY <2>16 DEF Replay
    <3>. QED BY <1>1, <2>2, <3>1
  <2>4. CASE Terminate(e) \/ Claim(e) \/ Fail(e)
    <3>1. CASE Terminate(e)
          BY <1>1, <3>1 DEF Terminate
    <3>2. CASE Claim(e)
          BY <1>1, <3>2 DEF Claim
    <3>3. CASE Fail(e)
          BY <1>1, <3>3 DEF Fail
    <3>. QED BY <2>4, <3>1, <3>2, <3>3
  <2>5. ASSUME eng' = Excepted(e) PROVE DrainedHosted'
    <3>1. CASE eng[e].scope = "cancelled"
          BY <1>1, <2>5, <3>1 DEF Excepted
    <3>2. CASE eng[e].scope # "cancelled"
          BY <1>1, <2>5, <3>2 DEF Excepted
    <3>. QED BY <3>1, <3>2
  <2>6. CASE StageFails(e) \/ StageCancelled(e) \/ Confirm(e) \/ Announce(e) \/ Finale(e)
        BY <2>2, <2>5, <2>6 DEF StageFails, StageCancelled, Confirm, Announce, Finale
  <2>7. eng' = Onward(e) => DrainedHosted'
    <3>1. ASSUME eng' = Onward(e) PROVE eng[e].outcome \in Outcomes
          OBVIOUS
    <3>. QED BY <1>1, <3>1 DEF Onward, Outcomes
  <2>8. CASE AppendRecord(e) \/ UpdateManifest(e)
        BY <2>2, <2>7, <2>8 DEF AppendRecord, UpdateManifest
  <2>9. CASE CreateEmbedded(e) \/ Create(e)
        BY <1>1, <2>2, <2>9 DEF CreateEmbedded, Create
  <2>17. CASE ResumeCheck(e)
    <3>1. eng' = [eng EXCEPT ![e] = [NoEngine EXCEPT !.pc = "checked", !.resumed = TRUE, !.hosted = TRUE]]
          BY <2>17 DEF ResumeCheck
    <3>2. eng'[e].drain = "no" /\ \A g \in Engines \ {e} : eng'[g] = eng[g]
          BY <3>1 DEF NoEngine
    <3>. QED BY <1>1, <3>2
  <2>10. CASE HeartbeatLost(e) \/ CancelLocal(e) \/ ConsumeCancel(e) \/ Crash(e) \/ CrashInAppend(e) \/ DrainKill(e)
        BY <1>1, <2>2, <2>10
           DEF HeartbeatLost, CancelLocal, ConsumeCancel, Requested, Crash, CrashInAppend, DrainKill
  <2>11. CASE DrainMark(e)
        BY <1>1, <2>11 DEF DrainMark, Hosted
  <2>12. CASE DrainPublish(e)
    <3>1. eng[e].hosted
          BY <2>12 DEF DrainPublish, DrainedHosted
    <3>. QED BY <1>1, <2>12, <3>1 DEF DrainPublish
  <2>. QED BY <1>2, <2>3, <2>4, <2>6, <2>8, <2>9, <2>10, <2>11, <2>12,
            <2>13, <2>14, <2>15, <2>16, <2>17 DEF Engine, Work, Environment
<1>3. CASE Sweep \/ CancelRemote \/ Elapse \/ UNCHANGED vars
      BY <1>0, <1>3 DEF Sweep, SweepList, SweepAcquire, SweepBind, SweepMark, SweepPublish,
                        SweepRelease, SweepCrash, CancelRemote, Elapse, vars
<1>. QED BY <1>2, <1>3 DEF Next

\* Before the first epoch, nobody writes but the handlers of a run that was created.
LEMMA BeforeEpochs ==
  ASSUME TypeInv, StageInv, FollowInv, DrainedHosted, [Next]_vars, lease.token = 0
  PROVE  /\ manifest'.status = "absent" => manifest.status = "absent"
         /\ manifest.status = "absent" => UNCHANGED events
<1>0. /\ ~L!Live(lease) /\ \A o, t : ~Fenced(o, t)
      /\ {"failed", "interrupted", "running"} \subseteq Statuses \ {"absent"}
      BY DEF StageInv, NothingYet, Fenced, L!FenceHolds, L!HoldsEpoch, L!Live, Statuses
<1>. USE DEF WriteDone, Owns
<1>1. ASSUME manifest' \in {manifest, Marked(manifest), WithStatus(manifest, "interrupted")},
             manifest'.status = "absent"
      PROVE  manifest.status = "absent"
      BY <1>0, <1>1, StatusKept, MarkedKept DEF ManifestKept
<1>2. ASSUME NEW e \in Engines, Engine(e) \/ Work(e) PROVE manifest' \in {manifest, Marked(manifest)} /\ UNCHANGED events
  <2>1. CASE NewRun(e) \/ Replay(e) \/ Start(e) \/ Fail(e) \/ Finale(e)
        BY <1>0, <2>1 DEF NewRun, Replay, Start, Fail, Finale, PublishDone, PublishFailed
  <2>2. CASE Bind(e) \/ Initialize(e) \/ SetRunning(e)
        BY <1>0, <2>2 DEF Bind, Initialize, SetRunning
  <2>3. CASE AppendRecord(e) \/ UpdateManifest(e) \/ Confirm(e) \/ Announce(e)
        BY <1>0, <2>3 DEF AppendRecord, UpdateManifest, Confirm, Announce
  <2>4. CASE Acquire(e) \/ StageCancelled(e) \/ Close(e) \/ Work(e)
        BY <2>4 DEF Acquire, StageCancelled, Close, Work, StageDone, StageFails, Terminate, Claim
  <2>. QED BY <1>2, <2>1, <2>2, <2>3, <2>4 DEF Engine
<1>3. ASSUME NEW e \in Engines, Environment(e)
      PROVE  /\ manifest'.status = "absent" => manifest.status = "absent"
             /\ manifest.status = "absent" => UNCHANGED events
  <2>1. CASE Create(e)
        BY <2>1 DEF Create, NoManifest
  <2>2. CASE DrainMark(e)
        BY <1>1, <2>2 DEF DrainMark
  <2>3. CASE DrainPublish(e)
    <3>1. manifest' \in {manifest, Marked(manifest)}
          BY <2>3 DEF DrainPublish, PublishDone, PublishFailed
    <3>2. CASE Bound(e)
          BY <1>0, <1>1, <2>3, <3>1, <3>2 DEF DrainPublish, PublishDone, PublishFailed
    <3>3. CASE ~Bound(e)
      <4>1. eng[e].drain = "marked"
            BY <2>3 DEF DrainPublish
      <4>2. manifest.status # "absent"
            BY <4>1 DEF DrainedHosted, FollowInv, Unwritten
      <4>3. UNCHANGED manifest
            BY <2>3, <3>3 DEF DrainPublish
      <4>. QED BY <4>2, <4>3
    <3>. QED BY <3>2, <3>3
  <2>4. CASE ~Create(e) /\ ~DrainMark(e) /\ ~DrainPublish(e)
        BY <1>3, <2>4 DEF Environment, CreateEmbedded, ResumeCheck, HeartbeatLost, CancelLocal,
                          ConsumeCancel, Crash, CrashInAppend, DrainKill
  <2>. QED BY <2>1, <2>2, <2>3, <2>4
<1>4. CASE Sweep
  <2>1. manifest' \in {manifest, WithStatus(manifest, "interrupted")} /\ UNCHANGED events
        BY <1>0, <1>4 DEF Sweep, SweepList, SweepAcquire, SweepBind, SweepMark, SweepPublish,
                          SweepRelease, SweepCrash, SweepOwns
  <2>. QED BY <1>1, <2>1
<1>5. CASE CancelRemote \/ Elapse \/ UNCHANGED vars
      BY <1>5 DEF CancelRemote, Elapse, vars
<1>. QED BY <1>1, <1>2, <1>3, <1>4, <1>5 DEF Next

LEMMA NothingToldNext ==
  ASSUME TypeInv, StageInv, FollowInv, DrainedHosted, NothingTold, [Next]_vars
  PROVE  NothingTold'
<1>. SUFFICES ASSUME lease'.token = 0, manifest'.status = "absent" PROVE events' = <<>>
     BY DEF NothingTold
<1>1. lease.token = 0
  <2>1. CASE Next
        BY <2>1, FilesNext DEF FileStep, TypeInv, L!LeaderLease
  <2>2. CASE UNCHANGED vars
        BY <2>2 DEF vars
  <2>. QED BY <2>1, <2>2
<1>. QED BY <1>1, BeforeEpochs DEF NothingTold

(***************************************************************************)
(* The theorems.                                                           *)
(***************************************************************************)

LifeInv == StageInv /\ FollowInv /\ DrainedHosted /\ KeysSay /\ NothingTold /\ EndInv

LEMMA LifeInit == Init => LifeInv
<1>. SUFFICES ASSUME Init PROVE LifeInv
     OBVIOUS
<1>1. \A e \in Engines : eng[e] = NoEngine
      BY DEF Init
<1>2. journal = <<>> /\ events = <<>> /\ manifest = NoManifest /\ ~L!Live(lease) /\ lease.token = 0
      BY DEF Init, L!NoLease, L!Live
<1>3. StageInv
      BY <1>1, <1>2 DEF StageInv, JournalClimbs, OwnerClimbs, NewRunAlone, ResumedFrozen,
                        NothingYet, Active, NewPCs, NoEngine, NoManifest
<1>4. FollowInv
      BY <1>1, <1>2 DEF Init, FollowInv, ManifestFollowsOwner, Unwritten, NoManifest, NoSweep,
                        NoEngine, Unbound
<1>5. DrainedHosted /\ KeysSay /\ NothingTold
      BY <1>1, <1>2 DEF DrainedHosted, NoEngine, KeysSay, NothingTold
<1>6. EndInv
  <2>1. OneEnding
        BY <1>2 DEF OneEnding, Told, NoManifest
  <2>2. \A e \in Engines : Sound(eng[e]) /\ ~Newcomer(eng[e])
        BY <1>1 DEF NoEngine, Sound, Newcomer
  <2>3. NotYetStarted /\ NewRunOpen
        BY <1>1, <1>2 DEF NotYetStarted, NewRunOpen, NoneStarted, NoEngine, NewPCs
  <2>4. OwnerAgrees /\ OwnerUnended
        BY <1>1, <1>2 DEF OwnerAgrees, OwnerUnended, Agrees, Unended, NoEngine, Active, Ending, Ended
  <2>. QED BY <2>1, <2>2, <2>3, <2>4 DEF EndInv, OneNewRun
<1>. QED BY <1>3, <1>4, <1>5, <1>6 DEF LifeInv

LEMMA LifeAlways == Spec => [](TypeInv /\ LifeInv)
<1>1. TypeInv /\ TypeInv' /\ LifeInv /\ [Next]_vars => LifeInv'
      BY StagesNext, FollowNext, DrainedNext, KeysNext, NothingToldNext, EndsNext DEF LifeInv
<1>. QED BY <1>1, LifeInit, TypeAlways, PTL DEF Spec

\* A run ends in one way: a completion is claimed before anything is written about
\* it, a cancellation recorded by the handler, and no engine gets to write the other
\* one, whichever is cancelled, crashes or is taken over (_finish_success and the
\* RunCancelled handler).
THEOREM OneEndingAlways == Spec => []OneEnding
<1>1. LifeInv => OneEnding
      BY DEF LifeInv, EndInv
<1>. QED BY <1>1, LifeAlways, PTL

\* No engine goes from run.started or run.resumed to research once the run has been
\* completed or cancelled: stream_resume validates the manifest under the lease.
THEOREM EndedNotRestarted == Spec => EndedRunNotRestarted
<1>1. TypeInv /\ LifeInv /\ [Next]_vars =>
        \A e \in Engines :
          eng[e].pc = "start" /\ eng'[e].pc = "work" /\ eng[e].outcome = "running"
            => manifest.status \notin {"completed", "cancelled"}
  <2>. SUFFICES ASSUME TypeInv, LifeInv, [Next]_vars, NEW e \in Engines,
                       eng[e].pc = "start", eng'[e].pc = "work", eng[e].outcome = "running"
                PROVE  manifest.status \notin Over
       BY DEF Over
  <2>1. Owns(e) => manifest.status \notin Over
        BY DEF LifeInv, EndInv, OwnerAgrees, Agrees, Active
  <2>2. UNCHANGED eng[e] => FALSE
        OBVIOUS
  <2>3. ASSUME NEW f \in Engines, Engine(f) \/ Work(f) \/ Environment(f), ~Owns(e) PROVE FALSE
    <3>. USE DEF Step, TypeInv, Engs, EngineRecord
    <3>1. CASE Start(f)
      <4>1. f # e /\ eng'[e] = eng[e]
            BY <2>3, <3>1 DEF Start, PublishDone, WriteDone
      <4>. QED BY <2>2, <4>1
    <3>2. CASE ~Start(f)
      <4>1. eng[f].pc # "start" => f # e
            OBVIOUS
      <4>2. CASE Engine(f) /\ eng[f].pc # "start"
        <5>1. \A g \in Engines \ {f} : eng'[g] = eng[g]
          <6>1. eng' = Onward(f) => \A g \in Engines \ {f} : eng'[g] = eng[g]
                BY DEF Onward, Outcomes
          <6>2. eng' = Excepted(f) => \A g \in Engines \ {f} : eng'[g] = eng[g]
                BY DEF Excepted
          <6>3. CASE Acquire(f) \/ Bind(f) \/ NewRun(f) \/ Initialize(f)
                BY <6>3 DEF Acquire, Bind, NewRun, Initialize
          <6>4. CASE Replay(f) \/ SetRunning(f) \/ Fail(f) \/ Close(f)
                BY <6>4 DEF Replay, SetRunning, Fail, Close
          <6>5. CASE \/ StageCancelled(f) \/ AppendRecord(f) \/ UpdateManifest(f)
                     \/ Confirm(f) \/ Announce(f) \/ Finale(f)
                BY <6>1, <6>2, <6>5 DEF StageCancelled, AppendRecord, UpdateManifest, Confirm,
                   Announce, Finale
          <6>. QED BY <4>2, <3>2, <6>3, <6>4, <6>5 DEF Engine
        <5>. QED BY <2>2, <4>1, <4>2, <5>1
      <4>3. CASE Work(f) /\ eng[f].pc # "start"
        <5>1. \A g \in Engines \ {f} : eng'[g] = eng[g]
              BY <4>3 DEF Work, StageDone, StageFails, Terminate, Claim, Excepted
        <5>. QED BY <2>2, <4>1, <4>3, <5>1
      <4>4. CASE (Engine(f) \/ Work(f)) /\ eng[f].pc = "start"
            BY <3>2, <4>4 DEF Engine, Work, Working, Acquire, Bind, NewRun, Initialize, Replay,
               SetRunning, StageCancelled, AppendRecord, UpdateManifest, Confirm, Announce, Finale,
               Fail, Close, StageDone, StageFails, Terminate, Claim
      <4>5. CASE Environment(f)
        <5>1. \A g \in Engines \ {f} : eng'[g] = eng[g]
              BY <4>5 DEF Environment, Create, CreateEmbedded, ResumeCheck, HeartbeatLost,
                 CancelLocal, ConsumeCancel, Requested, Crash, CrashInAppend, DrainMark,
                 DrainPublish, DrainKill
        <5>2. eng'[f].pc = eng[f].pc \/ eng'[f].pc # "work"
          <6>0. /\ eng' = [eng EXCEPT ![f] = NoEngine] => eng'[f].pc = "none"
                /\ \A p : Step(f, p) => eng'[f].pc = p
                /\ eng' = Requested(f) => eng'[f].pc = eng[f].pc
                BY DEF NoEngine, Requested
          <6>1. CASE CreateEmbedded(f) \/ Create(f)
                BY <6>1 DEF Create, CreateEmbedded
          <6>2. CASE ResumeCheck(f)
            <7>1. eng'[f] = [NoEngine EXCEPT !.pc = "checked", !.resumed = TRUE, !.hosted = TRUE]
                  BY <6>2 DEF ResumeCheck
            <7>. QED BY <7>1 DEF NoEngine
          <6>3. CASE \/ HeartbeatLost(f) \/ CancelLocal(f) \/ ConsumeCancel(f)
                     \/ Crash(f) \/ CrashInAppend(f) \/ DrainKill(f)
                BY <6>0, <6>3 DEF HeartbeatLost, CancelLocal, ConsumeCancel, Crash, CrashInAppend,
                   DrainKill
          <6>4. CASE DrainMark(f) \/ DrainPublish(f)
                BY <6>4 DEF DrainMark, DrainPublish
          <6>. QED BY <4>5, <6>1, <6>2, <6>3, <6>4 DEF Environment
        <5>. QED BY <2>2, <5>1, <5>2
      <4>. QED BY <2>3, <4>2, <4>3, <4>4, <4>5
    <3>. QED BY <3>1, <3>2
  <2>4. CASE Sweep \/ CancelRemote \/ Elapse \/ UNCHANGED vars
        BY <2>2, <2>4 DEF Sweep, SweepList, SweepAcquire, SweepBind, SweepMark, SweepPublish,
                          SweepRelease, SweepCrash, CancelRemote, Elapse, vars
  <2>. QED BY <2>1, <2>3, <2>4 DEF Next
<1>. QED BY <1>1, LifeAlways, PTL DEF EndedRunNotRestarted, Spec
================================================================================
