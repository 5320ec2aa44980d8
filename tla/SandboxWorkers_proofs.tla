------------------------ MODULE SandboxWorkers_proofs ------------------------
(***************************************************************************)
(* Proofs about the Workers of the sandbox, for any calls, tasks, epochs,  *)
(* retention and capacity.  Four invariants, each on top of the one before:*)
(*                                                                         *)
(*   TypeInv      types, and what a call's place says of its container     *)
(*   NetInv       only calls make containers, and a network has its maker  *)
(*   LinkInv      a call uses containers of its own task and epoch; of two *)
(*                calls of one task and epoch one was ended by an update   *)
(*   VolumeInv    without overlapping creates a task has one container,    *)
(*                whose volume holds the payload it was created with, and  *)
(*                what a call got was computed for its task and epoch      *)
(*                                                                         *)
(* The first three hold whatever the Faults.                               *)
(***************************************************************************)
EXTENDS SandboxWorkers, TLAPS

Begun(c) == pc[c] # "idle"

\* The container a call has got, and the reason it goes to its end.
Coherent ==
  \A c \in Calls :
    /\ Begun(c) <=> thread[c] # "none"
    /\ Begun(c) => task[c] \in Tasks
    /\ thread[c] = "answered" => resp[c] \in Calls
    /\ pc[c] \in {"persist", "start", "poll", "collect", "archive", "stop",
                  "undoStop"} => cid[c] \in Calls
    /\ pc[c] \in {"undo", "undoStop", "stop"} => why[c] # "none"

TypeInv == TypeOK /\ Coherent

\* Only a call that has begun has made a container.
MadeByBegun == \A w \in Calls : Present(w) => Begun(w)

\* Container w is labelled with c's task and epoch.
OfCall(c, w) == Begun(c) /\ Begun(w) /\ task[w] = task[c] /\ fence[w] = fence[c]

\* The container a call was answered with is one of its task and epoch.
OwnContainers ==
  \A c, w \in Calls : cid[c] = w \/ resp[c] = w => OfCall(c, w)

Updated(c) == pc[c] = "ended" /\ why[c] = "updated"

\* Of two calls of one task and epoch an update has ended one.
OneOfEpoch ==
  \A c, d \in Calls :
    c # d /\ OfCall(c, d) => Updated(c) \/ Updated(d)

\* A call has the fence token of an epoch that has been.
EpochsPast == \A c \in Calls : fence[c] <= epoch /\ (~Begun(c) <=> fence[c] = 0)

\* Without an API process no call is at work.
DownIsQuiet == ~apiUp => \A c \in Calls : ~Live(c)

\* Where a create is once it has made its network.
NetworkPlaced ==
  \A t \in Tasks : \A n \in Calls : net[t] = n =>
    /\ task[n] = t
    /\ thread[n] \in {"seed", "fill", "attach", "dead"} \/ Present(n)

\* Past the list of the task's containers.
Past(c) == thread[c] \in {"admit", "clean", "make", "seed", "fill", "attach"}

\* Creates of one task do not overlap.
OneCreate ==
  \A c, d \in Calls : InFlight(c) /\ InFlight(d) /\ task[c] = task[d] => c = d

\* A create that goes on has found no container, and none comes.
CreatesAlone == \A c, w \in Calls : Past(c) /\ Present(w) => task[w] # task[c]

\* A task has one container ("Create one task idempotently").
OneWorker ==
  \A v, w \in Calls : Present(v) /\ Present(w) /\ task[v] = task[w] => v = w

\* A create attaches its Worker to the volume it filled, if its network stands.
Filled ==
  \A c \in Calls : thread[c] = "attach" /\ net[task[c]] = c => vol[task[c]] = c

\* A container holds the volume its create filled.
Held == \A w \in Calls : Present(w) => vol[task[w]] = w

\* A Worker runs what its own call built.
OwnPayload == \A w \in Calls : worker[w].payload \in {Nothing, w}

(***************************************************************************)
(* What the operations on Docker return.                                   *)
(***************************************************************************)
WorkerSet == [state : {"absent", "created", "running", "exited"},
              payload : Calls \cup {Nothing}, ready : BOOLEAN, age : 0 .. 2]

DockerOK ==
  /\ worker \in [Calls -> WorkerSet]
  /\ seeds \subseteq Calls
  /\ net \in [Tasks -> Calls \cup {Nothing}]
  /\ vol \in [Tasks -> Calls \cup {Nothing, Empty}]

\* Docker's part of the type invariant.
LEMMA DockerTyped == TypeOK => DockerOK
  BY DEF TypeOK, DockerOK, WorkerSet

\* Removing by name leaves volumes volumes.
LEMMA VolumesTyped ==
  ASSUME DockerOK, NEW ts, NEW ws, NEW ss
  PROVE  VolumesAfter(ts, ws, ss) \in [Tasks -> Calls \cup {Nothing, Empty}]
  BY DEF DockerOK, VolumesAfter

\* A container that is stopped has exited; nothing else changes.
LEMMA StoppedTyped ==
  ASSUME DockerOK, NEW S
  PROVE  Stopped(S) \in [Calls -> WorkerSet]
  <1> SUFFICES ASSUME NEW w \in Calls
               PROVE  (IF w \in S /\ Running(w)
                       THEN [worker[w] EXCEPT !.state = "exited"]
                       ELSE worker[w]) \in WorkerSet
    BY DEF Stopped
  <1> worker[w] \in WorkerSet
    BY DEF DockerOK
  <1> QED
    BY DEF WorkerSet

\* _cleanup_removed_worker keeps the types.
LEMMA RemoveTyped ==
  ASSUME DockerOK, NEW S, Remove(S)
  PROVE  DockerOK'
  <1> DEFINE left == [w \in Calls |-> IF w \in S THEN Absent ELSE worker[w]]
             names == {task[w] : w \in {v \in S : worker[v].state # "absent"}}
  <1>1. worker' = left /\ seeds' = seeds /\ vol' = VolumesAfter(names, left, seeds)
    BY DEF Remove
  <1>2. worker' \in [Calls -> WorkerSet]
    <2> HIDE DEF names
    <2> Absent \in WorkerSet
      BY DEF Absent, WorkerSet, Nothing
    <2> QED
      BY <1>1 DEF DockerOK
  <1>3. net' \in [Tasks -> Calls \cup {Nothing}]
    BY DEF Remove, DockerOK
  <1>4. vol' \in [Tasks -> Calls \cup {Nothing, Empty}]
    <2> HIDE DEF left, names
    <2> QED
      BY <1>1, VolumesTyped
  <1> QED
    BY <1>1, <1>2, <1>3, <1>4 DEF DockerOK

\* _terminate keeps the types.
LEMMA TerminateTyped ==
  ASSUME DockerOK, NEW S, Terminate(S)
  PROVE  DockerOK'
  <1>1. CASE Retention = "remove"
    BY <1>1, RemoveTyped DEF Terminate
  <1>2. CASE Retention # "remove"
    BY <1>2, StoppedTyped DEF Terminate, DockerOK
  <1> QED
    BY <1>1, <1>2

\* start keeps the types.
LEMMA StartTyped ==
  ASSUME DockerOK, NEW v \in Calls, StartContainer(v)
  PROVE  DockerOK'
  <1> DEFINE up == [state |-> "running", ready |-> FALSE, age |-> 0,
                    payload |-> IF vol[task[v]] \in Calls THEN vol[task[v]]
                                ELSE Nothing]
  <1>1. up \in WorkerSet
    BY DEF WorkerSet
  <1>2. worker' = [worker EXCEPT ![v] = up] /\ seeds' = seeds /\ net' = net /\ vol' = vol
    BY DEF StartContainer
  <1> HIDE DEF up
  <1> QED
    BY <1>1, <1>2 DEF DockerOK

\* Containers outside S stay as they are, and none is made.
Only(S) ==
  /\ seeds' = seeds
  /\ \A w \in Calls : Present(w)' => Present(w)
  /\ \A w \in Calls : w \notin S => worker'[w] = worker[w]

\* _terminate removes or stops containers, and only the ones it is given.
LEMMA TerminateOnly ==
  ASSUME DockerOK, NEW S, Terminate(S)
  PROVE  Only(S)
  <1>1. CASE Retention = "remove"
    <2> Remove(S)
      BY <1>1 DEF Terminate
    <2> QED
      BY DEF Remove, Only, Present, Absent, DockerOK
  <1>2. CASE Retention # "remove"
    <2>1. worker' = Stopped(S) /\ seeds' = seeds
      BY <1>2 DEF Terminate
    <2>2. ASSUME NEW w \in Calls
          PROVE  /\ Present(w)' => Present(w)
                 /\ w \notin S => worker'[w] = worker[w]
      BY <2>1 DEF Stopped, Present, Running
    <2> QED
      BY <2>1, <2>2 DEF Only
  <1> QED
    BY <1>1, <1>2

\* A start changes the one container.
LEMMA StartOnly ==
  ASSUME DockerOK, NEW v \in Calls, StartContainer(v)
  PROVE  Only({v})
  BY DEF StartContainer, Only, Present, DockerOK

\* So does a deadline.
LEMMA ExpireOnly ==
  ASSUME DockerOK, NEW v \in Calls, Expire(v)
  PROVE  Only({v}) /\ DockerOK'
  <1>1. DockerOK'
    BY StoppedTyped DEF Expire, DockerOK
  <1>2. worker' = Stopped({v}) /\ seeds' = seeds
    BY DEF Expire
  <1>3. ASSUME NEW w \in Calls
        PROVE  /\ Present(w)' => Present(w)
               /\ w \notin {v} => worker'[w] = worker[w]
    BY <1>2 DEF Stopped, Present, Running
  <1> QED
    BY <1>1, <1>2, <1>3 DEF Only

(***************************************************************************)
(* The type invariant.                                                     *)
(***************************************************************************)
Places == {"idle", "creating", "persist", "start", "poll", "collect", "archive",
           "stop", "undo", "undoStop", "ended"}
Reasons == {"none", "accepted", "failed", "updated", "cancelled", "crashed"}

\* The types of what a call knows.
CallOK ==
  /\ pc \in [Calls -> Places] /\ why \in [Calls -> Reasons]
  /\ cid \in [Calls -> Calls \cup {Nothing}]
  /\ got \in [Calls -> Calls \cup {Nothing}]

ThreadPlaces == {"none", "list", "admit", "clean", "make", "seed", "fill",
                 "attach", "answered", "refused", "dead"}

\* The rest of the types.
RestOK ==
  /\ apiUp \in BOOLEAN /\ epoch \in 1 .. MaxEpoch
  /\ task \in [Calls -> Tasks \cup {"none"}]
  /\ fence \in [Calls -> 0 .. MaxEpoch]
  /\ thread \in [Calls -> ThreadPlaces]
  /\ resp \in [Calls -> Calls \cup {Nothing}]
  /\ late \subseteq Calls

\* The type invariant in three parts, before and after a step.
LEMMA TypeParts ==
  /\ TypeOK <=> CallOK /\ RestOK /\ DockerOK
  /\ TypeOK' <=> CallOK' /\ RestOK' /\ DockerOK'
  BY DEF TypeOK, CallOK, RestOK, DockerOK, WorkerSet, Places, Reasons, ThreadPlaces

\* The types of the first state.
LEMMA InitTyped == Init => TypeInv
  <1> SUFFICES ASSUME Init PROVE TypeInv
    OBVIOUS
  <1>1. CallOK
    BY DEF Init, CallOK, Places, Reasons
  <1>2. RestOK
    BY SandboxAssumption DEF Init, RestOK, ThreadPlaces
  <1>3. DockerOK
    BY DEF Init, DockerOK, WorkerSet, Absent
  <1>4. Coherent
    BY DEF Init, Coherent, Begun
  <1> QED
    BY <1>1, <1>2, <1>3, <1>4, TypeParts DEF TypeInv

\* A call begins.
LEMMA BeginTyped ==
  ASSUME TypeInv, NEW c \in Calls, NEW t \in Tasks, Begin(c, t)
  PROVE  TypeInv'
  <1>0. CallOK /\ RestOK /\ DockerOK /\ Coherent
    BY TypeParts DEF TypeInv
  <1>1. CallOK'
    BY <1>0 DEF Begin, CallOK, Places
  <1>2. RestOK'
    BY <1>0, SandboxAssumption DEF Begin, RestOK, ThreadPlaces, systemVars
  <1>3. DockerOK'
    BY <1>0 DEF Begin, DockerOK, dockerVars
  <1>4. Coherent'
    BY <1>0 DEF Begin, MayBegin, Coherent, CallOK, RestOK, Begun
  <1> QED
    BY <1>1, <1>2, <1>3, <1>4, TypeParts DEF TypeInv

Holding == {"persist", "start", "poll", "collect", "archive", "stop", "undoStop"}
Leaving == {"undo", "undoStop", "stop"}

\* A call at work goes elsewhere: what it must know there.
LEMMA GotoTyped ==
  ASSUME TypeInv, NEW c \in Calls, NEW place \in Places \ {"idle"},
         NEW reason \in Reasons,
         Begun(c), Goto(c, place, reason),
         UNCHANGED <<systemVars, task, fence, threadVars>>, DockerOK',
         late' \subseteq Calls, got' \in [Calls -> Calls \cup {Nothing}],
         \/ cid' = cid
         \/ cid' \in [Calls -> Calls \cup {Nothing}]
            /\ \A d \in Calls : cid'[d] = cid[d] \/ cid'[d] \in Calls,
         place \in Holding => cid'[c] \in Calls,
         place \in Leaving => reason # "none"
  PROVE  TypeInv'
  <1>0. CallOK /\ RestOK /\ DockerOK /\ Coherent
    BY TypeParts DEF TypeInv
  <1>1. CallOK'
    BY <1>0 DEF Goto, CallOK
  <1>2. RestOK'
    BY <1>0 DEF RestOK, systemVars, threadVars
  <1>3. Coherent'
    <2> SUFFICES ASSUME NEW d \in Calls
                 PROVE  /\ Begun(d)' <=> thread'[d] # "none"
                        /\ Begun(d)' => task'[d] \in Tasks
                        /\ thread'[d] = "answered" => resp'[d] \in Calls
                        /\ pc'[d] \in Holding => cid'[d] \in Calls
                        /\ pc'[d] \in Leaving => why'[d] # "none"
      BY DEF Coherent, Holding, Leaving
    <2>1. /\ Begun(d) <=> thread[d] # "none"
          /\ Begun(d) => task[d] \in Tasks
          /\ thread[d] = "answered" => resp[d] \in Calls
          /\ pc[d] \in Holding => cid[d] \in Calls
          /\ pc[d] \in Leaving => why[d] # "none"
      BY <1>0 DEF Coherent, Holding, Leaving
    <2>2. task' = task /\ thread' = thread /\ resp' = resp
      BY DEF threadVars
    <2>3. CASE d = c
      BY <1>0, <2>1, <2>2, <2>3 DEF Goto, CallOK, Begun, Places
    <2>4. CASE d # c
      BY <1>0, <2>1, <2>2, <2>4 DEF Goto, CallOK, Begun
    <2> QED
      BY <2>3, <2>4
  <1> QED
    BY <1>0, <1>1, <1>2, <1>3, TypeParts DEF TypeInv

\* The parts of the type invariant.
LEMMA Parts ==
  ASSUME TypeInv
  PROVE  CallOK /\ RestOK /\ DockerOK /\ Coherent
  BY TypeParts DEF TypeInv

\* What a call's place says of it.
LEMMA AtWork ==
  ASSUME TypeInv, NEW c \in Calls
  PROVE  /\ pc[c] \in Places /\ why[c] \in Reasons
         /\ Live(c) => Begun(c)
         /\ pc[c] \in Holding => cid[c] \in Calls
         /\ pc[c] \in Leaving => why[c] # "none"
         /\ thread[c] = "answered" => resp[c] \in Calls
         /\ Begun(c) <=> thread[c] # "none"
         /\ Begun(c) => task[c] \in Tasks
  BY Parts DEF CallOK, Coherent, Holding, Leaving, Begun, Live

\* The steps of the call keep the types, one lemma each.
LEMMA CreateReturnsTyped ==
  ASSUME TypeInv, NEW c \in Calls, CreateReturns(c)
  PROVE  TypeInv'
  <1> USE Parts, AtWork, GotoTyped
  <1>1. /\ UNCHANGED <<systemVars, task, fence, threadVars>> /\ DockerOK'
        /\ late' \subseteq Calls /\ got' \in [Calls -> Calls \cup {Nothing}]
        /\ resp[c] \in Calls
        /\ cid' = [cid EXCEPT ![c] = resp[c]]
    BY DEF CreateReturns, dockerVars, DockerOK, RestOK, CallOK
  <1>2. /\ cid' \in [Calls -> Calls \cup {Nothing}]
        /\ \A d \in Calls : cid'[d] = cid[d] \/ cid'[d] \in Calls
        /\ cid'[c] \in Calls
    BY <1>1 DEF CallOK
  <1>3. CASE pc[c] = "creating" /\ Goto(c, "persist", why[c])
    BY <1>1, <1>2, <1>3 DEF Places, Leaving, Begun
  <1>4. CASE pc[c] = "undo" /\ Goto(c, "undoStop", why[c])
    BY <1>1, <1>2, <1>4 DEF Places, Leaving, Begun
  <1> QED
    BY <1>3, <1>4 DEF CreateReturns

LEMMA CreateRaisesTyped ==
  ASSUME TypeInv, NEW c \in Calls, CreateRaises(c)
  PROVE  TypeInv'
  <1> USE Parts, AtWork, GotoTyped
  <1>1. /\ UNCHANGED <<systemVars, task, fence, threadVars, cid>> /\ DockerOK'
        /\ late' \subseteq Calls /\ got' \in [Calls -> Calls \cup {Nothing}]
    BY DEF CreateRaises, dockerVars, DockerOK, RestOK, CallOK
  <1>2. CASE pc[c] = "creating" /\ Goto(c, "ended", "failed")
    BY <1>1, <1>2 DEF Places, Reasons, Holding, Leaving, Begun
  <1>3. CASE pc[c] = "undo" /\ Goto(c, "ended", why[c])
    BY <1>1, <1>3 DEF Places, Holding, Leaving, Begun
  <1> QED
    BY <1>2, <1>3 DEF CreateRaises

LEMMA PersistTyped ==
  ASSUME TypeInv, NEW c \in Calls, Persist(c)
  PROVE  TypeInv'
  <1> USE Parts, AtWork, GotoTyped
  <1>1. /\ UNCHANGED <<systemVars, task, fence, threadVars, cid>> /\ DockerOK'
        /\ late' \subseteq Calls /\ got' \in [Calls -> Calls \cup {Nothing}]
        /\ pc[c] = "persist"
    BY DEF Persist, dockerVars, DockerOK, RestOK, CallOK
  <1>2. CASE Goto(c, "start", why[c])
    BY <1>1, <1>2 DEF Places, Holding, Leaving, Begun
  <1>3. CASE Goto(c, "ended", "failed")
    BY <1>1, <1>3 DEF Places, Reasons, Holding, Leaving, Begun
  <1> QED
    BY <1>2, <1>3 DEF Persist

LEMMA StartCallTyped ==
  ASSUME TypeInv, NEW c \in Calls, Start(c)
  PROVE  TypeInv'
  <1> USE Parts, AtWork, GotoTyped
  <1>1. /\ UNCHANGED <<systemVars, task, fence, threadVars, cid>>
        /\ late' \subseteq Calls /\ got' \in [Calls -> Calls \cup {Nothing}]
        /\ pc[c] = "start"
    BY DEF Start, RestOK, CallOK
  <1>2. cid[c] \in Calls
    BY <1>1 DEF Holding
  <1>3. DockerOK'
    BY <1>2, StartTyped DEF Start, dockerVars, DockerOK
  <1>4. CASE Goto(c, "poll", why[c])
    BY <1>1, <1>2, <1>3, <1>4 DEF Places, Holding, Leaving, Begun
  <1>5. CASE Goto(c, "stop", "failed")
    BY <1>1, <1>2, <1>3, <1>5 DEF Places, Reasons, Holding, Leaving, Begun
  <1> QED
    BY <1>4, <1>5 DEF Start

LEMMA PollTyped ==
  ASSUME TypeInv, NEW c \in Calls, Poll(c)
  PROVE  TypeInv'
  <1> USE Parts, AtWork, GotoTyped
  <1>1. /\ UNCHANGED <<systemVars, task, fence, threadVars, cid>>
        /\ late' \subseteq Calls /\ got' \in [Calls -> Calls \cup {Nothing}]
        /\ pc[c] = "poll"
    BY DEF Poll, RestOK, CallOK
  <1>2. cid[c] \in Calls
    BY <1>1 DEF Holding
  <1>3. DockerOK'
    BY <1>2, ExpireOnly DEF Poll, dockerVars, DockerOK
  <1>4. CASE Goto(c, "collect", why[c])
    BY <1>1, <1>2, <1>3, <1>4 DEF Places, Holding, Leaving, Begun
  <1>5. CASE Goto(c, "stop", "failed")
    BY <1>1, <1>2, <1>3, <1>5 DEF Places, Reasons, Holding, Leaving, Begun
  <1> QED
    BY <1>4, <1>5 DEF Poll

LEMMA CollectTyped ==
  ASSUME TypeInv, NEW c \in Calls, Collect(c)
  PROVE  TypeInv'
  <1> USE Parts, AtWork, GotoTyped
  <1>1. /\ UNCHANGED <<systemVars, task, fence, threadVars, cid>>
        /\ late' \subseteq Calls /\ DockerOK' /\ pc[c] = "collect"
    BY DEF Collect, RestOK, dockerVars, DockerOK
  <1>2. cid[c] \in Calls
    BY <1>1 DEF Holding
  <1>3. worker[cid[c]].payload \in Calls \cup {Nothing}
    BY <1>2 DEF DockerOK, WorkerSet
  <1>4. got' \in [Calls -> Calls \cup {Nothing}]
    BY <1>3 DEF Collect, CallOK
  <1>5. CASE Goto(c, "archive", why[c])
    BY <1>1, <1>2, <1>4, <1>5 DEF Places, Holding, Leaving, Begun
  <1>6. CASE Goto(c, "stop", "failed")
    BY <1>1, <1>2, <1>4, <1>6 DEF Places, Reasons, Holding, Leaving, Begun
  <1> QED
    BY <1>5, <1>6 DEF Collect

LEMMA ArchiveTyped ==
  ASSUME TypeInv, NEW c \in Calls, Archive(c)
  PROVE  TypeInv'
  <1> USE Parts, AtWork, GotoTyped
  <1>1. /\ UNCHANGED <<systemVars, task, fence, threadVars, cid>> /\ DockerOK'
        /\ late' \subseteq Calls /\ got' \in [Calls -> Calls \cup {Nothing}]
        /\ pc[c] = "archive"
    BY DEF Archive, RestOK, CallOK, dockerVars, DockerOK
  <1>2. cid[c] \in Calls
    BY <1>1 DEF Holding
  <1>3. CASE Goto(c, "stop", "failed")
    BY <1>1, <1>2, <1>3 DEF Places, Reasons, Holding, Leaving, Begun
  <1>4. CASE Goto(c, "stop", "accepted")
    BY <1>1, <1>2, <1>4 DEF Places, Reasons, Holding, Leaving, Begun
  <1> QED
    BY <1>3, <1>4 DEF Archive

LEMMA StopTyped ==
  ASSUME TypeInv, NEW c \in Calls, Stop(c)
  PROVE  TypeInv'
  <1> USE Parts, AtWork, GotoTyped
  <1>1. /\ UNCHANGED <<systemVars, task, fence, threadVars, cid>>
        /\ late' \subseteq Calls /\ got' \in [Calls -> Calls \cup {Nothing}]
        /\ pc[c] = "stop"
    BY DEF Stop, RestOK, CallOK
  <1>2. DockerOK'
    BY TerminateTyped DEF Stop, dockerVars, DockerOK
  <1>3. CASE Goto(c, "ended", why[c])
    BY <1>1, <1>2, <1>3 DEF Places, Holding, Leaving, Begun
  <1>4. CASE Goto(c, "ended", "failed")
    BY <1>1, <1>2, <1>4 DEF Places, Reasons, Holding, Leaving, Begun
  <1> QED
    BY <1>3, <1>4 DEF Stop

LEMMA UndoStopTyped ==
  ASSUME TypeInv, NEW c \in Calls, UndoStop(c)
  PROVE  TypeInv'
  <1> USE Parts, AtWork, GotoTyped
  <1>1. /\ UNCHANGED <<systemVars, task, fence, threadVars, cid>>
        /\ late' \subseteq Calls /\ got' \in [Calls -> Calls \cup {Nothing}]
        /\ pc[c] = "undoStop" /\ Goto(c, "ended", why[c])
    BY DEF UndoStop, RestOK, CallOK
  <1>2. DockerOK'
    BY TerminateTyped DEF UndoStop, dockerVars, DockerOK
  <1> QED
    BY <1>1, <1>2 DEF Places, Holding, Leaving, Begun

LEMMA CancelCallTyped ==
  ASSUME TypeInv, NEW c \in Calls, NEW reason \in {"updated", "cancelled"},
         CancelCall(c, reason)
  PROVE  TypeInv'
  <1> USE Parts, AtWork, GotoTyped
  <1>1. /\ UNCHANGED <<systemVars, task, fence, threadVars, cid>> /\ DockerOK'
        /\ got' \in [Calls -> Calls \cup {Nothing}]
        /\ Live(c) /\ why[c] = "none"
    BY DEF CancelCall, RestOK, CallOK, dockerVars, DockerOK
  <1>2. pc[c] \in {"creating", "persist", "start", "poll", "collect", "archive"}
    BY <1>1 DEF Live, Places, Leaving
  <1>3. late' \subseteq Calls
    BY DEF CancelCall, RestOK, Holding
  <1>4. CASE pc[c] = "creating"
    BY <1>1, <1>3, <1>4 DEF CancelCall, Places, Reasons, Holding, Leaving, Begun
  <1>5. CASE pc[c] = "persist"
    BY <1>1, <1>3, <1>5 DEF CancelCall, Places, Reasons, Holding, Leaving, Begun
  <1>6. CASE pc[c] \in {"start", "poll", "collect", "archive"}
    <2>1. Goto(c, "stop", reason)
      BY <1>6 DEF CancelCall
    <2> QED
      BY <1>1, <1>3, <1>6, <2>1 DEF Places, Reasons, Holding, Leaving, Begun
  <1> QED
    BY <1>2, <1>4, <1>5, <1>6

LEMMA CancelAgainTyped ==
  ASSUME TypeInv, NEW c \in Calls, CancelAgain(c)
  PROVE  TypeInv'
  <1> USE Parts, AtWork, GotoTyped
  <1>1. /\ UNCHANGED <<systemVars, task, fence, threadVars, cid>> /\ DockerOK'
        /\ late' \subseteq Calls /\ got' \in [Calls -> Calls \cup {Nothing}]
        /\ pc[c] \in Leaving
    BY DEF CancelAgain, RestOK, CallOK, dockerVars, DockerOK, Leaving
  <1>2. CASE Goto(c, "ended", why[c])
    BY <1>1, <1>2 DEF Places, Holding, Leaving, Begun
  <1>3. CASE Goto(c, "ended", "cancelled")
    BY <1>1, <1>3 DEF Places, Reasons, Holding, Leaving, Begun
  <1> QED
    BY <1>2, <1>3 DEF CancelAgain

\* The thread of a create goes on: what its answer must name.
LEMMA GoTyped ==
  ASSUME TypeInv, NEW c \in Calls, NEW place \in ThreadPlaces \ {"none"},
         InFlight(c), Go(c, place), UNCHANGED createRest, DockerOK',
         \/ place # "answered" /\ resp' = resp
         \/ \E w \in Calls : resp' = [resp EXCEPT ![c] = w]
  PROVE  TypeInv'
  <1>0. CallOK /\ RestOK /\ DockerOK /\ Coherent
    BY Parts
  <1>1. UNCHANGED <<systemVars, callVars, late>>
    BY DEF createRest
  <1>2. CallOK'
    BY <1>0, <1>1 DEF CallOK, callVars
  <1>3. RestOK'
    BY <1>0, <1>1 DEF RestOK, systemVars, callVars, Go
  <1>4. Coherent'
    BY <1>0, <1>1 DEF Coherent, RestOK, callVars, Go, Begun, InFlight, ThreadPlaces
  <1> QED
    BY <1>2, <1>3, <1>4, TypeParts DEF TypeInv

\* The steps of a create keep the types.
LEMMA CreateListTyped ==
  ASSUME TypeInv, NEW c \in Calls, CreateList(c)
  PROVE  TypeInv'
  <1>1. InFlight(c) /\ UNCHANGED createRest /\ DockerOK
    BY Parts DEF CreateList, InFlight, At
  <1>2. CASE Go(c, "admit") /\ UNCHANGED <<resp, dockerVars>>
    BY <1>1, <1>2, GoTyped DEF ThreadPlaces, dockerVars, DockerOK
  <1>3. CASE Go(c, "refused") /\ UNCHANGED <<resp, dockerVars>>
    BY <1>1, <1>3, GoTyped DEF ThreadPlaces, dockerVars, DockerOK
  <1>4. ASSUME NEW w \in Calls, Answer(c, w), UNCHANGED dockerVars
        PROVE  TypeInv'
    BY <1>1, <1>4, GoTyped DEF Answer, ThreadPlaces, dockerVars, DockerOK
  <1>5. ASSUME NEW w \in Calls, Remove({w}), UNCHANGED threadVars
        PROVE  TypeInv'
    <2>1. DockerOK'
      BY <1>1, <1>5, RemoveTyped
    <2>2. CallOK' /\ RestOK' /\ Coherent'
      BY <1>1, <1>5, Parts
      DEF createRest, systemVars, callVars, threadVars, CallOK, RestOK, Coherent, Begun
    <2> QED
      BY <2>1, <2>2, TypeParts DEF TypeInv
  <1> QED
    BY <1>2, <1>3, <1>4, <1>5 DEF CreateList, WorkersOf

\* What a create does to Docker is typed.
LEMMA CleanUpTyped ==
  ASSUME TypeInv, NEW c \in Calls, InFlight(c), CleanUp(c)
  PROVE  TypeInv'
  <1>1. DockerOK'
    BY Parts, VolumesTyped DEF CleanUp, DockerOK
  <1> QED
    BY <1>1, GoTyped DEF CleanUp, ThreadPlaces

\* The other steps of a create.
LEMMA CreateThreadTyped ==
  ASSUME TypeInv, NEW c \in Calls, CreateThread(c) \/ CreateFails(c)
  PROVE  TypeInv'
  <1>0. DockerOK /\ RestOK
    BY Parts
  <1>1. CASE CreateAdmit(c)
    BY <1>0, <1>1, GoTyped
    DEF CreateAdmit, At, InFlight, ThreadPlaces, createRest, dockerVars, DockerOK
  <1>2. CASE CreateClean(c)
    <2>1. DockerOK'
      BY <1>0, <1>2, VolumesTyped DEF CreateClean, DockerOK
    <2> QED
      BY <1>2, <2>1, GoTyped DEF CreateClean, At, InFlight, ThreadPlaces, createRest
  <1>3. CASE CreateMake(c)
    <2>1. DockerOK'
      BY <1>0, <1>3 DEF CreateMake, DockerOK
    <2> QED
      BY <1>3, <2>1, GoTyped DEF CreateMake, At, InFlight, ThreadPlaces, createRest
  <1>4. CASE CreateSeed(c)
    <2>1. DockerOK'
      BY <1>0, <1>4 DEF CreateSeed, DockerOK
    <2> QED
      BY <1>4, <2>1, GoTyped DEF CreateSeed, At, InFlight, ThreadPlaces, createRest
  <1>5. CASE CreateFill(c)
    <2> InFlight(c)
      BY <1>5 DEF CreateFill, At, InFlight
    <2>1. CASE c \in seeds
      <3>1. DockerOK'
        BY <1>0, <1>5, <2>1 DEF CreateFill, DockerOK
      <3> QED
        BY <1>5, <2>1, <3>1, GoTyped DEF CreateFill, ThreadPlaces, createRest
    <2>2. CASE c \notin seeds
      BY <1>5, <2>2, CleanUpTyped DEF CreateFill
    <2> QED
      BY <2>1, <2>2
  <1>6. CASE CreateAttach(c)
    <2> InFlight(c)
      BY <1>6 DEF CreateAttach, At, InFlight
    <2>1. CASE net[task[c]] = c
      <3>1. worker' \in [Calls -> WorkerSet]
        BY <1>0, <1>6, <2>1 DEF CreateAttach, DockerOK, WorkerSet
      <3>2. DockerOK'
        BY <1>0, <1>6, <2>1, <3>1 DEF CreateAttach, DockerOK
      <3> QED
        BY <1>6, <2>1, <3>2, GoTyped
        DEF CreateAttach, Answer, ThreadPlaces, createRest
    <2>2. CASE net[task[c]] # c
      BY <1>6, <2>2, CleanUpTyped DEF CreateAttach
    <2> QED
      BY <2>1, <2>2
  <1>7. CASE CreateFails(c)
    BY <1>7, CleanUpTyped DEF CreateFails, InFlight
  <1> QED
    BY <1>1, <1>2, <1>3, <1>4, <1>5, <1>6, <1>7, CreateListTyped DEF CreateThread

\* A step that is neither a call's nor a create's.
LEMMA OthersTyped ==
  ASSUME TypeInv, UNCHANGED <<callVars, threadVars>>, DockerOK',
         apiUp' \in BOOLEAN, epoch' \in 1 .. MaxEpoch, late' \subseteq Calls
  PROVE  TypeInv'
  <1>1. CallOK' /\ RestOK' /\ Coherent'
    BY Parts DEF callVars, threadVars, CallOK, RestOK, Coherent, Begun
  <1> QED
    BY <1>1, TypeParts DEF TypeInv

\* The steps of a container, of time and of the watchdog.
ContainerStep(w) ==
  StopRecord(w) \/ LateStart(w) \/ Finish(w) \/ Tick(w) \/ Sweep(w) \/ ProbeFails(w)

\* They keep the types.
LEMMA ContainerTyped ==
  ASSUME TypeInv, NEW w \in Calls, ContainerStep(w)
  PROVE  TypeInv'
  <1>0. DockerOK /\ RestOK /\ worker[w] \in WorkerSet
    BY Parts DEF DockerOK
  <1>1. UNCHANGED <<systemVars, callVars, threadVars>> /\ late' \subseteq Calls
    BY <1>0 DEF ContainerStep, StopRecord, LateStart, Finish, Tick, Sweep, ProbeFails,
                RestOK
  <1>2. DockerOK'
    <2>1. CASE StopRecord(w)
      BY <1>0, <2>1, TerminateTyped DEF StopRecord
    <2>2. CASE LateStart(w)
      BY <1>0, <2>2, StartTyped DEF LateStart, dockerVars, DockerOK
    <2>3. CASE Finish(w) \/ Tick(w)
      <3>1. /\ [worker[w] EXCEPT !.ready = TRUE] \in WorkerSet
            /\ worker[w].age < 2 => [worker[w] EXCEPT !.age = @ + 1] \in WorkerSet
        <4>1. [worker[w] EXCEPT !.ready = TRUE] \in WorkerSet
          BY <1>0 DEF WorkerSet
        <4>2. ASSUME worker[w].age < 2
              PROVE  [worker[w] EXCEPT !.age = @ + 1] \in WorkerSet
          <5>1. worker[w].age + 1 \in 0 .. 2
            BY <1>0, <4>2 DEF WorkerSet
          <5> QED
            BY <1>0, <5>1 DEF WorkerSet
        <4> QED
          BY <4>1, <4>2
      <3>2. worker' \in [Calls -> WorkerSet]
        BY <1>0, <2>3, <3>1 DEF Finish, Tick, DockerOK
      <3> QED
        BY <1>0, <2>3, <3>2 DEF Finish, Tick, DockerOK
    <2>4. CASE Sweep(w)
      BY <1>0, <2>4, TerminateTyped, ExpireOnly DEF Sweep
    <2>5. CASE ProbeFails(w)
      BY <1>0, <2>5, StoppedTyped DEF ProbeFails, DockerOK
    <2> QED
      BY <2>1, <2>2, <2>3, <2>4, <2>5 DEF ContainerStep
  <1> QED
    BY <1>0, <1>1, <1>2, OthersTyped DEF systemVars, RestOK

\* So do the crashes.
LEMMA CrashTyped ==
  ASSUME TypeInv, ControllerCrash \/ ApiCrash
  PROVE  TypeInv'
  <1>0. CallOK /\ RestOK /\ DockerOK /\ Coherent
    BY Parts
  <1>1. CASE ControllerCrash
    <2>1. CallOK' /\ RestOK' /\ DockerOK'
      BY <1>0, <1>1 DEF ControllerCrash, CallOK, RestOK, DockerOK, systemVars, callVars,
                        dockerVars, ThreadPlaces
    <2>2. Coherent'
      BY <1>0, <1>1 DEF ControllerCrash, Coherent, Begun, RestOK, callVars, InFlight
    <2> QED
      BY <2>1, <2>2, TypeParts DEF TypeInv
  <1>2. CASE ApiCrash
    <2>1. CallOK' /\ DockerOK'
      BY <1>0, <1>2 DEF ApiCrash, CallOK, DockerOK, dockerVars, Places, Reasons
    <2>2. late' \subseteq Calls
      BY <1>0, <1>2, AtWork DEF ApiCrash, RestOK, Holding
    <2>3. RestOK'
      BY <1>0, <1>2, <2>2 DEF ApiCrash, RestOK, threadVars
    <2>4. Coherent'
      BY <1>0, <1>2 DEF ApiCrash, Coherent, Begun, CallOK, threadVars, Live
    <2> QED
      BY <2>1, <2>3, <2>4, TypeParts DEF TypeInv
  <1> QED
    BY <1>1, <1>2

\* So do a process that starts and a takeover.
LEMMA StartsTyped ==
  ASSUME TypeInv, ApiStart \/ Takeover
  PROVE  TypeInv'
  <1>0. RestOK /\ DockerOK
    BY Parts
  <1>1. epoch' \in 1 .. MaxEpoch
    BY <1>0, SandboxAssumption DEF ApiStart, Takeover, RestOK
  <1>2. CASE ApiStart
    <2>1. worker' \in [Calls -> WorkerSet]
      <3>1. Absent \in WorkerSet
        BY DEF Absent, WorkerSet
      <3> QED
        BY <1>0, <1>2, <3>1, StoppedTyped DEF ApiStart
    <2>2. vol' \in [Tasks -> Calls \cup {Nothing, Empty}]
      BY <1>0, <1>2, VolumesTyped DEF ApiStart
    <2>3. DockerOK'
      BY <1>0, <1>2, <2>1, <2>2 DEF ApiStart, DockerOK
    <2> QED
      BY <1>0, <1>1, <1>2, <2>3, OthersTyped DEF ApiStart, RestOK
  <1>3. CASE Takeover
    BY <1>0, <1>1, <1>3, OthersTyped DEF Takeover, RestOK, dockerVars, DockerOK
  <1> QED
    BY <1>2, <1>3

\* Every step keeps the types and what a call's place says of it.
LEMMA TypeStep ==
  ASSUME TypeInv, [Next]_vars
  PROVE  TypeInv'
  <1>1. ASSUME NEW c \in Calls, NEW t \in Tasks, Begin(c, t)
        PROVE  TypeInv'
    BY <1>1, BeginTyped
  <1>2. ASSUME NEW c \in Calls, CallStep(c)
        PROVE  TypeInv'
    BY <1>2, CreateReturnsTyped, CreateRaisesTyped, PersistTyped, StartCallTyped,
       PollTyped, CollectTyped, ArchiveTyped, StopTyped, UndoStopTyped DEF CallStep
  <1>3. ASSUME NEW c \in Calls, NEW reason \in {"updated", "cancelled"},
               CancelCall(c, reason)
        PROVE  TypeInv'
    BY <1>3, CancelCallTyped
  <1>4. ASSUME NEW c \in Calls, CancelAgain(c)
        PROVE  TypeInv'
    BY <1>4, CancelAgainTyped
  <1>5. ASSUME NEW c \in Calls, CreateThread(c) \/ CreateFails(c)
        PROVE  TypeInv'
    BY <1>5, CreateThreadTyped
  <1>6. ASSUME NEW c \in Calls, ContainerStep(c)
        PROVE  TypeInv'
    BY <1>6, ContainerTyped
  <1>7. CASE ControllerCrash \/ ApiCrash
    BY <1>7, CrashTyped
  <1>8. CASE ApiStart \/ Takeover
    BY <1>8, StartsTyped
  <1>9. CASE UNCHANGED vars
    BY <1>9, OthersTyped, Parts
    DEF vars, callVars, threadVars, dockerVars, systemVars, DockerOK, RestOK
  <1> QED
    BY <1>1, <1>2, <1>3, <1>4, <1>5, <1>6, <1>7, <1>8, <1>9 DEF Next, ContainerStep

\* A container is never in a state, nor a thread at a place, that the
\* Controller's code does not know, whatever fails (`_status`, `create`).
THEOREM TypeCorrect == Spec => []TypeOK
  <1>1. Init => TypeInv
    BY InitTyped
  <1>2. TypeInv /\ [Next]_vars => TypeInv'
    BY TypeStep
  <1>3. TypeInv => TypeOK
    BY DEF TypeInv
  <1> QED
    BY <1>1, <1>2, <1>3, PTL DEF Spec

(***************************************************************************)
(* Containers and networks have a call.                                    *)
(***************************************************************************)
NetInv == TypeInv /\ MadeByBegun /\ NetworkPlaced

\* A step that makes no container and no network, and takes none away that a
\* network needs.
LEMMA NetworksStay ==
  ASSUME NetInv, UNCHANGED <<task, thread>>,
         \A d \in Calls : Begun(d) => Begun(d)',
         \A w \in Calls : Present(w)' <=> Present(w),
         UNCHANGED net
  PROVE  (MadeByBegun /\ NetworkPlaced)'
  BY DEF NetInv, MadeByBegun, NetworkPlaced

\* _cleanup_removed_worker takes the network with the container.
LEMMA RemoveNetworks ==
  ASSUME NetInv, NEW S, Remove(S), UNCHANGED <<task, thread>>,
         \A d \in Calls : Begun(d) => Begun(d)'
  PROVE  (MadeByBegun /\ NetworkPlaced)'
  <1> DEFINE left == [w \in Calls |-> IF w \in S THEN Absent ELSE worker[w]]
             names == {task[w] : w \in {v \in S : worker[v].state # "absent"}}
  <1>0. DockerOK
    BY Parts DEF NetInv
  <1>1. /\ worker' = left
        /\ net' = [t \in Tasks |-> IF t \in names /\ ~Connected(net[t], left)
                                     THEN Nothing ELSE net[t]]
    BY DEF Remove
  <1>2. ASSUME NEW w \in Calls
        PROVE  Present(w)' <=> Present(w) /\ w \notin S
    BY <1>1 DEF Present, Absent
  <1>3. MadeByBegun'
    BY <1>2 DEF NetInv, MadeByBegun
  <1>4. ASSUME NEW t \in Tasks, NEW n \in Calls, net'[t] = n
        PROVE  /\ task'[n] = t
               /\ thread'[n] \in {"seed", "fill", "attach", "dead"} \/ Present(n)'
    <2> HIDE DEF left, names
    <2>1. net[t] = n
      BY <1>1, <1>4 DEF Nothing, Calls
    <2>2. /\ task[n] = t
          /\ thread[n] \in {"seed", "fill", "attach", "dead"} \/ Present(n)
      BY <2>1 DEF NetInv, NetworkPlaced
    <2>3. CASE n \in S /\ Present(n)
      <3>1. t \in names
        BY <2>2, <2>3 DEF names, Present
      <3>2. ~Connected(n, left)
        BY <2>3 DEF Connected, left, Absent
      <3> QED
        BY <1>1, <1>4, <2>1, <3>1, <3>2 DEF Nothing, Calls
    <2> QED
      BY <1>2, <2>2, <2>3
  <1> QED
    BY <1>3, <1>4 DEF NetworkPlaced

\* _terminate keeps the networks of the containers it leaves.
LEMMA TerminateNetworks ==
  ASSUME NetInv, NEW S, Terminate(S), UNCHANGED <<task, thread>>,
         \A d \in Calls : Begun(d) => Begun(d)'
  PROVE  (MadeByBegun /\ NetworkPlaced)'
  <1>1. CASE Retention = "remove"
    <2>1. Remove(S)
      BY <1>1 DEF Terminate
    <2> QED
      BY <2>1, RemoveNetworks
  <1>2. CASE Retention # "remove"
    <2>1. worker' = Stopped(S) /\ net' = net
      BY <1>2 DEF Terminate
    <2>2. ASSUME NEW w \in Calls
          PROVE  Present(w)' <=> Present(w)
      BY <2>1 DEF Stopped, Present, Running
    <2> QED
      BY <2>1, <2>2, NetworksStay
  <1> QED
    BY <1>1, <1>2

\* A call that begins has no container and no network.
LEMMA BeginNetworks ==
  ASSUME NetInv, NEW c \in Calls, NEW t \in Tasks, Begin(c, t)
  PROVE  (MadeByBegun /\ NetworkPlaced)'
  <1>0. CallOK /\ RestOK /\ Coherent /\ MadeByBegun /\ NetworkPlaced
    BY Parts DEF NetInv
  <1>1. thread[c] = "none" /\ ~Present(c)
    BY <1>0 DEF Begin, MayBegin, MadeByBegun, Coherent, Begun
  <1>2. UNCHANGED <<worker, net>>
    BY DEF Begin, dockerVars
  <1>3. MadeByBegun'
    BY <1>0, <1>2 DEF Begin, MadeByBegun, Begun, Present, CallOK
  <1>4. ASSUME NEW u \in Tasks, NEW n \in Calls, net'[u] = n
        PROVE  /\ task'[n] = u
               /\ thread'[n] \in {"seed", "fill", "attach", "dead"} \/ Present(n)'
    <2>1. /\ task[n] = u
          /\ thread[n] \in {"seed", "fill", "attach", "dead"} \/ Present(n)
      BY <1>0, <1>2, <1>4 DEF NetworkPlaced
    <2>2. n # c
      BY <1>1, <2>1
    <2> QED
      BY <1>0, <1>2, <2>1, <2>2 DEF Begin, RestOK, Present
  <1> QED
    BY <1>3, <1>4 DEF NetworkPlaced

\* A call's steps take a network only with its container.
LEMMA CallNetworks ==
  ASSUME NetInv, NEW c \in Calls,
         \/ CallStep(c) \/ CancelAgain(c)
         \/ \E reason \in {"updated", "cancelled"} : CancelCall(c, reason)
  PROVE  (MadeByBegun /\ NetworkPlaced)'
  <1>0. TypeInv /\ DockerOK /\ CallOK
    BY Parts DEF NetInv
  <1>1. UNCHANGED <<task, thread>>
    BY DEF CallStep, CreateReturns, CreateRaises, Persist, Start, Poll, Collect, Archive,
           Stop, UndoStop, CancelCall, CancelAgain, threadVars
  <1>2. ASSUME NEW d \in Calls, Begun(d)
        PROVE  Begun(d)'
    <2>1. ASSUME NEW place, NEW reason, Goto(c, place, reason), place # "idle"
          PROVE  Begun(d)'
      BY <1>0, <1>2, <2>1 DEF Goto, Begun, CallOK
    <2> QED
      BY <2>1 DEF CallStep, CreateReturns, CreateRaises, Persist, Start, Poll, Collect,
           Archive, Stop, UndoStop, CancelCall, CancelAgain
  <1>3. CASE UNCHANGED dockerVars
    BY <1>1, <1>2, <1>3, NetworksStay DEF dockerVars, Present
  <1>4. CASE Terminate({cid[c]})
    BY <1>1, <1>2, <1>4, TerminateNetworks
  <1>5. ASSUME NEW w \in Calls, StartContainer(w) \/ Expire(w)
        PROVE  (MadeByBegun /\ NetworkPlaced)'
    <2>1. UNCHANGED net
      BY <1>5 DEF StartContainer, Expire
    <2>2. ASSUME NEW v \in Calls
          PROVE  Present(v)' <=> Present(v)
      <3>1. CASE StartContainer(w)
        BY <1>0, <3>1 DEF StartContainer, Present, DockerOK
      <3>2. CASE Expire(w)
        BY <1>0, <3>2 DEF Expire, Stopped, Present, Running, DockerOK
      <3> QED
        BY <1>5, <3>1, <3>2
    <2> QED
      BY <1>1, <1>2, <2>1, <2>2, NetworksStay
  <1>6. pc[c] \in {"start", "poll"} => cid[c] \in Calls
    BY <1>0, AtWork DEF Holding
  <1> QED
    BY <1>3, <1>4, <1>5, <1>6 DEF CallStep, CreateReturns, CreateRaises, Persist, Start,
       Poll, Collect, Archive, Stop, UndoStop, CancelCall, CancelAgain

\* Neither do the steps of a container take a network that is used.
LEMMA ContainerNetworks ==
  ASSUME NetInv, NEW v \in Calls, ContainerStep(v)
  PROVE  (MadeByBegun /\ NetworkPlaced)'
  <1>0. DockerOK
    BY Parts DEF NetInv
  <1>1. /\ UNCHANGED <<task, thread>>
        /\ \A d \in Calls : Begun(d) => Begun(d)'
    BY DEF ContainerStep, StopRecord, LateStart, Finish, Tick, Sweep, ProbeFails,
           callVars, threadVars, Begun
  <1>2. ASSUME NEW S, Terminate(S)
        PROVE  (MadeByBegun /\ NetworkPlaced)'
    BY <1>1, <1>2, TerminateNetworks
  <1>3. CASE StopRecord(v)
    BY <1>2, <1>3 DEF StopRecord
  <1>4. CASE LateStart(v) \/ Finish(v) \/ Tick(v) \/ ProbeFails(v) \/ Expire(v)
    <2>1. UNCHANGED net
      BY <1>4 DEF LateStart, StartContainer, Finish, Tick, ProbeFails, Expire, dockerVars
    <2>2. ASSUME NEW w \in Calls
          PROVE  Present(w)' <=> Present(w)
      BY <1>0, <1>4 DEF LateStart, StartContainer, Finish, Tick, ProbeFails, Expire,
         Stopped, Running, Present, DockerOK, WorkerSet, dockerVars
    <2> QED
      BY <1>1, <2>1, <2>2, NetworksStay
  <1>5. CASE Sweep(v)
    BY <1>2, <1>4, <1>5 DEF Sweep
  <1> QED
    BY <1>3, <1>4, <1>5 DEF ContainerStep

\* A thread that goes where it has no network, or had one already.
LEMMA ThreadNetworks ==
  ASSUME NetInv, NEW c \in Calls, NEW place, Go(c, place), UNCHANGED createRest,
         UNCHANGED <<net, worker>>,
         \/ thread[c] \notin {"seed", "fill", "attach", "dead"}
         \/ place \in {"seed", "fill", "attach", "dead"}
  PROVE  (MadeByBegun /\ NetworkPlaced)'
  <1>0. RestOK
    BY Parts DEF NetInv
  <1>1. UNCHANGED <<task, pc>>
    BY DEF createRest, callVars
  <1>2. MadeByBegun'
    BY <1>1 DEF NetInv, MadeByBegun, Begun, Present
  <1>3. NetworkPlaced'
    BY <1>0, <1>1 DEF NetInv, NetworkPlaced, Go, Present, RestOK
  <1> QED
    BY <1>2, <1>3

\* The except clause of a create leaves no network of its own.
LEMMA CleanUpNetworks ==
  ASSUME NetInv, NEW c \in Calls, CleanUp(c)
  PROVE  (MadeByBegun /\ NetworkPlaced)'
  <1>0. RestOK /\ DockerOK /\ MadeByBegun /\ NetworkPlaced
    BY Parts DEF NetInv
  <1>1. UNCHANGED <<task, pc, worker>> /\ thread' = [thread EXCEPT ![c] = "refused"]
    BY DEF CleanUp, createRest, callVars, Go
  <1>2. MadeByBegun'
    BY <1>0, <1>1 DEF MadeByBegun, Begun, Present
  <1>3. ASSUME NEW t \in Tasks, NEW n \in Calls, net'[t] = n
        PROVE  /\ task'[n] = t
               /\ thread'[n] \in {"seed", "fill", "attach", "dead"} \/ Present(n)'
    <2>1. net' = [net EXCEPT ![task[c]] = IF @ = c THEN Nothing ELSE @]
      BY DEF CleanUp
    <2>2. net[t] = n
      BY <1>0, <1>3, <2>1 DEF DockerOK, Nothing, Calls
    <2>3. task[n] = t /\ (thread[n] \in {"seed", "fill", "attach", "dead"} \/ Present(n))
      BY <1>0, <2>2 DEF NetworkPlaced
    <2>4. n # c
      BY <1>0, <1>3, <2>1, <2>2, <2>3 DEF DockerOK, Nothing, Calls
    <2> QED
      BY <1>0, <1>1, <2>3, <2>4 DEF RestOK, Present
  <1> QED
    BY <1>2, <1>3 DEF NetworkPlaced

\* A create makes a network, and its except clause takes it down.
LEMMA CreateNetworks ==
  ASSUME NetInv, NEW c \in Calls, CreateThread(c) \/ CreateFails(c)
  PROVE  (MadeByBegun /\ NetworkPlaced)'
  <1>0. TypeInv /\ RestOK /\ DockerOK /\ MadeByBegun /\ NetworkPlaced /\ Coherent
    BY Parts DEF NetInv
  <1>1. CASE CreateList(c)
    <2>1. At(c, "list") /\ UNCHANGED createRest
      BY <1>1 DEF CreateList
    <2>2. CASE UNCHANGED dockerVars /\ \E place \in {"admit", "refused", "answered"} :
                 Go(c, place)
      BY <2>1, <2>2, ThreadNetworks DEF At, dockerVars
    <2>3. ASSUME NEW w \in Calls, Remove({w}), UNCHANGED threadVars
          PROVE  (MadeByBegun /\ NetworkPlaced)'
      <3>1. UNCHANGED <<task, thread, pc>>
        BY <2>1, <2>3 DEF createRest, callVars, threadVars
      <3> QED
        BY <2>3, <3>1, RemoveNetworks DEF Begun
    <2> QED
      BY <1>1, <2>2, <2>3 DEF CreateList, WorkersOf, Answer
  <1>2. CASE CreateAdmit(c)
    BY <1>2, ThreadNetworks DEF CreateAdmit, At, createRest, dockerVars
  <1>3. CASE CreateClean(c)
    <2>1. UNCHANGED <<task, pc, worker>>
      BY <1>3 DEF CreateClean, createRest, callVars
    <2>2. thread[c] = "clean" /\ \E place \in {"make", "refused"} : Go(c, place)
      BY <1>3 DEF CreateClean, At
    <2>3. MadeByBegun'
      BY <1>0, <2>1 DEF MadeByBegun, Begun, Present
    <2>4. NetworkPlaced'
      <3>1. net' = [net EXCEPT ![task[c]] = Nothing]
        BY <1>3 DEF CreateClean
      <3> QED
        BY <1>0, <2>1, <2>2, <3>1
        DEF NetworkPlaced, Go, Present, RestOK, DockerOK, Nothing, Calls
    <2> QED
      BY <2>3, <2>4
  <1>4. CASE CreateMake(c)
    <2>1. CASE net[task[c]] = Nothing
      <3>1. /\ UNCHANGED <<task, pc, worker>>
            /\ thread[c] = "make" /\ thread' = [thread EXCEPT ![c] = "seed"]
            /\ net' = [net EXCEPT ![task[c]] = c]
        BY <1>4, <2>1 DEF CreateMake, createRest, callVars, Go, At
      <3>2. MadeByBegun'
        BY <1>0, <3>1 DEF MadeByBegun, Begun, Present
      <3>3. NetworkPlaced'
        BY <1>0, <3>1 DEF NetworkPlaced, Present, RestOK, DockerOK
      <3> QED
        BY <3>2, <3>3
    <2>2. CASE net[task[c]] # Nothing
      BY <1>4, <2>2, ThreadNetworks DEF CreateMake, At, createRest
    <2> QED
      BY <2>1, <2>2
  <1>5. CASE CreateSeed(c)
    BY <1>5, ThreadNetworks DEF CreateSeed, At, createRest
  <1>6. CASE CreateFill(c)
    <2>1. CASE c \in seeds
      BY <1>6, <2>1, ThreadNetworks DEF CreateFill, At, createRest
    <2>2. CASE c \notin seeds
      BY <1>6, <2>2, CleanUpNetworks DEF CreateFill
    <2> QED
      BY <2>1, <2>2
  <1>7. CASE CreateAttach(c)
    <2>1. CASE net[task[c]] = c
      <3>1. /\ UNCHANGED <<task, pc, net>>
            /\ thread[c] = "attach" /\ thread' = [thread EXCEPT ![c] = "answered"]
            /\ worker' = [worker EXCEPT ![c].state = "created"]
        BY <1>7, <2>1 DEF CreateAttach, createRest, callVars, Go, At, Answer
      <3>2. ASSUME NEW w \in Calls
            PROVE  Present(w)' <=> Present(w) \/ w = c
        BY <1>0, <3>1 DEF Present, DockerOK, WorkerSet
      <3>3. Begun(c)
        BY <1>0, <3>1 DEF Coherent
      <3>4. MadeByBegun'
        BY <1>0, <3>1, <3>2, <3>3 DEF MadeByBegun, Begun
      <3>5. NetworkPlaced'
        BY <1>0, <3>1, <3>2 DEF NetworkPlaced, RestOK
      <3> QED
        BY <3>4, <3>5
    <2>2. CASE net[task[c]] # c
      BY <1>7, <2>2, CleanUpNetworks DEF CreateAttach
    <2> QED
      BY <2>1, <2>2
  <1>8. CASE CreateFails(c)
    BY <1>8, CleanUpNetworks DEF CreateFails
  <1> QED
    BY <1>1, <1>2, <1>3, <1>4, <1>5, <1>6, <1>7, <1>8 DEF CreateThread

\* A crash leaves what it cuts; a process that starts removes the networks.
LEMMA CrashNetworks ==
  ASSUME NetInv, ControllerCrash \/ ApiCrash \/ ApiStart \/ Takeover
  PROVE  (MadeByBegun /\ NetworkPlaced)'
  <1>0. CallOK /\ RestOK /\ DockerOK /\ MadeByBegun /\ NetworkPlaced
    BY Parts DEF NetInv
  <1>1. CASE ControllerCrash
    BY <1>0, <1>1 DEF ControllerCrash, MadeByBegun, NetworkPlaced, Begun, Present, InFlight,
       callVars, dockerVars, RestOK
  <1>2. CASE ApiCrash
    BY <1>0, <1>2 DEF ApiCrash, MadeByBegun, NetworkPlaced, Begun, Present, CallOK,
       threadVars, dockerVars
  <1>3. CASE ApiStart
    <2>1. UNCHANGED pc /\ \A t \in Tasks : net'[t] = Nothing
      BY <1>3 DEF ApiStart, callVars
    <2>2. ASSUME NEW w \in Calls
          PROVE  Present(w)' => Present(w)
      BY <1>0, <1>3 DEF ApiStart, Present, Absent, Stopped, Running
    <2> QED
      BY <1>0, <2>1, <2>2 DEF MadeByBegun, NetworkPlaced, Begun, Nothing, Calls
  <1>4. CASE Takeover
    BY <1>0, <1>4 DEF Takeover, MadeByBegun, NetworkPlaced, Begun, Present, callVars,
       threadVars, dockerVars
  <1> QED
    BY <1>1, <1>2, <1>3, <1>4

\* Every step keeps each network a maker.
LEMMA NetStep ==
  ASSUME NetInv, [Next]_vars
  PROVE  NetInv'
  <1>0. TypeInv'
    BY TypeStep DEF NetInv
  <1>1. (MadeByBegun /\ NetworkPlaced)'
    <2>1. CASE UNCHANGED vars
      BY <2>1 DEF NetInv, MadeByBegun, NetworkPlaced, Begun, Present, vars
    <2>2. CASE Next
      BY <2>2, BeginNetworks, CallNetworks, ContainerNetworks, CreateNetworks, CrashNetworks
      DEF Next, ContainerStep
    <2> QED
      BY <2>1, <2>2
  <1> QED
    BY <1>0, <1>1 DEF NetInv

\* Every network has a use: the create that made it is at work, or was cut by a
\* crash of the Controller, or its container is there (`create`, its except
\* clause; `_cleanup_removed_worker`), whatever fails and whatever overlaps.
THEOREM NetworksAlwaysUsed == Spec => []NetworksHaveUsers
  <1>1. Init => NetInv
    BY InitTyped DEF NetInv, Init, MadeByBegun, NetworkPlaced, Present, Absent, Nothing, Calls
  <1>2. NetInv /\ [Next]_vars => NetInv'
    BY NetStep
  <1>3. NetInv => NetworksHaveUsers
    BY Parts DEF NetInv, NetworkPlaced, NetworksHaveUsers, DockerOK, InFlight
  <1> QED
    BY <1>1, <1>2, <1>3, PTL DEF Spec

(***************************************************************************)
(* Calls and their containers.                                             *)
(***************************************************************************)
Links == OwnContainers /\ OneOfEpoch /\ EpochsPast /\ DownIsQuiet

LinkInv == NetInv /\ Links

\* What every step but the beginning of a call does to calls and containers.
Moves ==
  /\ UNCHANGED <<task, fence>>
  /\ \A c \in Calls : /\ Begun(c)' <=> Begun(c)
                      /\ Updated(c) => Updated(c)'
                      /\ Live(c)' => Live(c)
                      /\ cid'[c] = cid[c] \/ cid'[c] = resp[c]
                      /\ resp'[c] = resp[c] \/ OfCall(c, resp'[c])
  /\ epoch <= epoch' /\ epoch' \in Nat
  /\ apiUp' = apiUp \/ apiUp' \/ \A c \in Calls : ~Live(c)'

\* It keeps what links them.
LEMMA MovesLinks ==
  ASSUME LinkInv, Moves
  PROVE  Links'
  <1>0. RestOK
    BY Parts DEF LinkInv, NetInv
  <1>1. ASSUME NEW c \in Calls, NEW d \in Calls
        PROVE  OfCall(c, d)' <=> OfCall(c, d)
    BY DEF Moves, OfCall
  <1>2. OwnContainers'
    <2> SUFFICES ASSUME NEW c \in Calls, NEW w \in Calls, cid'[c] = w \/ resp'[c] = w
                 PROVE  OfCall(c, w)
      BY <1>1 DEF OwnContainers
    <2> QED
      BY DEF Moves, LinkInv, Links, OwnContainers
  <1>3. OneOfEpoch'
    BY <1>1 DEF Moves, LinkInv, Links, OneOfEpoch
  <1>4. EpochsPast'
    <2> SUFFICES ASSUME NEW c \in Calls
                 PROVE  fence'[c] <= epoch' /\ (~Begun(c)' <=> fence'[c] = 0)
      BY DEF EpochsPast
    <2>1. fence[c] <= epoch /\ (~Begun(c) <=> fence[c] = 0) /\ fence[c] \in Nat /\ epoch \in Nat
      BY <1>0, SandboxAssumption DEF LinkInv, Links, EpochsPast, RestOK
    <2> QED
      BY <2>1 DEF Moves
  <1>5. DownIsQuiet'
    BY DEF Moves, LinkInv, Links, DownIsQuiet
  <1> QED
    BY <1>2, <1>3, <1>4, <1>5 DEF Links

\* The executor begins a second call of an epoch after an update only.
LEMMA BeginLinks ==
  ASSUME LinkInv, NEW c \in Calls, NEW t \in Tasks, Begin(c, t)
  PROVE  Links'
  <1>0. CallOK /\ RestOK /\ Links
    BY Parts DEF LinkInv, NetInv
  <1>1. /\ pc[c] = "idle" /\ apiUp /\ UNCHANGED <<apiUp, epoch, cid, resp, why>>
        /\ pc' = [pc EXCEPT ![c] = "creating"] /\ task' = [task EXCEPT ![c] = t]
        /\ fence' = [fence EXCEPT ![c] = epoch]
    BY DEF Begin, MayBegin, systemVars
  <1>2. ASSUME NEW d \in Calls, d # c
        PROVE  /\ task'[d] = task[d] /\ fence'[d] = fence[d]
               /\ Begun(d)' <=> Begun(d)
               /\ Updated(d)' <=> Updated(d)
    BY <1>0, <1>1, <1>2 DEF CallOK, RestOK, Begun, Updated
  <1>3. OwnContainers'
    <2> SUFFICES ASSUME NEW d \in Calls, NEW w \in Calls, cid[d] = w \/ resp[d] = w
                 PROVE  OfCall(d, w)'
      BY <1>1 DEF OwnContainers
    <2>1. OfCall(d, w)
      BY <1>0 DEF Links, OwnContainers
    <2>2. d # c /\ w # c
      BY <1>1, <2>1 DEF OfCall, Begun
    <2> QED
      BY <1>2, <2>1, <2>2 DEF OfCall
  <1>4. OneOfEpoch'
    <2> SUFFICES ASSUME NEW a \in Calls, NEW b \in Calls, a # b, OfCall(a, b)'
                 PROVE  Updated(a)' \/ Updated(b)'
      BY DEF OneOfEpoch
    <2>1. ASSUME NEW d \in Calls, d # c, task'[d] = task'[c], fence'[d] = fence'[c]
          PROVE  Updated(d)'
      <3>1. task[d] = t /\ fence[d] = epoch
        BY <1>0, <1>1, <1>2, <2>1 DEF RestOK
      <3>2. Updated(d)
        BY <3>1 DEF Begin, MayBegin, Updated
      <3> QED
        BY <1>2, <2>1, <3>2
    <2>2. CASE a # c /\ b # c
      <3>1. OfCall(a, b)
        BY <1>2, <2>2 DEF OfCall
      <3> QED
        BY <1>0, <1>2, <2>2, <3>1 DEF Links, OneOfEpoch
    <2> QED
      BY <2>1, <2>2 DEF OfCall
  <1>5. EpochsPast'
    <2> SUFFICES ASSUME NEW d \in Calls
                 PROVE  fence'[d] <= epoch' /\ (~Begun(d)' <=> fence'[d] = 0)
      BY DEF EpochsPast
    <2>1. CASE d = c
      BY <1>0, <1>1, <2>1 DEF RestOK, CallOK, Begun
    <2>2. CASE d # c
      BY <1>0, <1>1, <1>2, <2>2 DEF Links, EpochsPast
    <2> QED
      BY <2>1, <2>2
  <1>6. DownIsQuiet'
    BY <1>1 DEF DownIsQuiet
  <1> QED
    BY <1>3, <1>4, <1>5, <1>6 DEF Links

\* A call that goes elsewhere.
LEMMA GotoMoves ==
  ASSUME LinkInv, NEW c \in Calls, NEW place, NEW reason, Live(c),
         Goto(c, place, reason), place # "idle",
         UNCHANGED <<systemVars, task, fence, threadVars>>,
         \A d \in Calls : cid'[d] = cid[d] \/ cid'[d] = resp[d]
  PROVE  Moves
  <1>0. CallOK /\ RestOK
    BY Parts DEF LinkInv, NetInv
  <1>1. epoch' = epoch /\ epoch \in Nat
    BY <1>0 DEF RestOK, systemVars
  <1>2. ASSUME NEW d \in Calls
        PROVE  /\ Begun(d)' <=> Begun(d)
               /\ Updated(d) => Updated(d)'
               /\ Live(d)' => Live(d)
    BY <1>0 DEF CallOK, Goto, Begun, Updated, Live
  <1> QED
    BY <1>1, <1>2 DEF Moves, systemVars, threadVars

\* The steps of a call.
LEMMA CallMoves ==
  ASSUME LinkInv, NEW c \in Calls,
         \/ CallStep(c) \/ CancelAgain(c)
         \/ \E reason \in {"updated", "cancelled"} : CancelCall(c, reason)
  PROVE  Moves
  <1>0. CallOK /\ RestOK
    BY Parts DEF LinkInv, NetInv
  <1>1. UNCHANGED <<systemVars, task, fence, threadVars>>
    BY DEF CallStep, CreateReturns, CreateRaises, Persist, Start, Poll, Collect, Archive,
           Stop, UndoStop, CancelCall, CancelAgain
  <1>2. \A d \in Calls : cid'[d] = cid[d] \/ cid'[d] = resp[d]
    BY <1>0 DEF CallStep, CreateReturns, CreateRaises, Persist, Start, Poll, Collect, Archive,
           Stop, UndoStop, CancelCall, CancelAgain, CallOK
  <1>3. Live(c)
    BY DEF CallStep, CreateReturns, CreateRaises, Persist, Start, Poll, Collect, Archive,
           Stop, UndoStop, CancelCall, CancelAgain, Live
  <1>4. PICK place, reason : Goto(c, place, reason) /\ place # "idle"
    BY DEF CallStep, CreateReturns, CreateRaises, Persist, Start, Poll, Collect, Archive,
           Stop, UndoStop, CancelCall, CancelAgain
  <1> QED
    BY <1>1, <1>2, <1>3, <1>4, GotoMoves

\* A create answers with its own container, or one of its epoch.
LEMMA CreateMoves ==
  ASSUME LinkInv, NEW c \in Calls, CreateThread(c) \/ CreateFails(c)
  PROVE  Moves
  <1>0. RestOK /\ Coherent /\ MadeByBegun
    BY Parts DEF LinkInv, NetInv
  <1>1. UNCHANGED <<systemVars, callVars>>
    BY DEF CreateThread, CreateList, CreateAdmit, CreateClean, CreateMake, CreateSeed,
           CreateFill, CreateAttach, CreateFails, CleanUp, createRest
  <1>2. Begun(c)
    BY <1>0 DEF Coherent, CreateThread, CreateList, CreateAdmit, CreateClean, CreateMake,
           CreateSeed, CreateFill, CreateAttach, CreateFails, At
  <1>3. ASSUME NEW w \in Calls, Answer(c, w), OfCall(c, w)
        PROVE  \A d \in Calls : resp'[d] = resp[d] \/ OfCall(d, resp'[d])
    BY <1>0, <1>3 DEF Answer, RestOK
  <1>4. \A d \in Calls : resp'[d] = resp[d] \/ OfCall(d, resp'[d])
    <2>1. CASE CreateList(c)
      <3>1. ASSUME NEW w \in WorkersOf(task[c]), Reusable(c, w), Answer(c, w)
            PROVE  \A d \in Calls : resp'[d] = resp[d] \/ OfCall(d, resp'[d])
        <4>1. w \in Calls /\ OfCall(c, w)
          BY <1>0, <1>2, <3>1 DEF WorkersOf, Reusable, OfCall, MadeByBegun, Present
        <4> QED
          BY <1>3, <3>1, <4>1
      <3> QED
        BY <2>1, <3>1 DEF CreateList, threadVars
    <2>2. CASE CreateAttach(c) /\ Answer(c, c)
      BY <1>2, <1>3, <2>2 DEF OfCall
    <2>3. CASE resp' = resp
      BY <2>3
    <2> QED
      BY <2>1, <2>2, <2>3 DEF CreateThread, CreateAdmit, CreateClean, CreateMake, CreateSeed,
         CreateFill, CreateAttach, CreateFails, CleanUp
  <1> QED
    BY <1>0, <1>1, <1>4 DEF Moves, systemVars, callVars, Begun, Updated, Live, RestOK

\* The other steps.
LEMMA OthersMove ==
  ASSUME LinkInv,
         \/ \E w \in Calls : ContainerStep(w)
         \/ ControllerCrash \/ ApiCrash \/ ApiStart \/ Takeover \/ UNCHANGED vars
  PROVE  Moves
  <1>0. RestOK /\ CallOK
    BY Parts DEF LinkInv, NetInv
  <1>3. epoch \in Nat
    BY <1>0 DEF RestOK
  <1>1. CASE UNCHANGED <<callVars, resp>> /\ apiUp' \in {TRUE, apiUp} /\ epoch' \in {epoch, epoch + 1}
    <2>1. UNCHANGED <<pc, why, task, fence, cid, resp>>
      BY <1>1 DEF callVars
    <2>2. epoch <= epoch' /\ epoch' \in Nat
      BY <1>3, <1>1
    <2> QED
      BY <1>1, <2>1, <2>2 DEF Moves, Begun, Updated, Live
  <1>2. CASE ApiCrash
    <2>1. /\ UNCHANGED <<task, fence, cid, resp, epoch>> /\ apiUp' = FALSE
          /\ pc' = [c \in Calls |-> IF Live(c) THEN "ended" ELSE pc[c]]
          /\ why' = [c \in Calls |-> IF Live(c) THEN "crashed" ELSE why[c]]
      BY <1>2 DEF ApiCrash, threadVars
    <2>2. ASSUME NEW c \in Calls
          PROVE  /\ Begun(c)' <=> Begun(c)
                 /\ Updated(c) => Updated(c)'
                 /\ ~Live(c)'
      BY <1>0, <2>1 DEF CallOK, Begun, Updated, Live
    <2> QED
      BY <1>3, <2>1, <2>2 DEF Moves
  <1> QED
    BY <1>1, <1>2 DEF ContainerStep, StopRecord, LateStart, Finish, Tick, Sweep, ProbeFails,
       ControllerCrash, ApiStart, Takeover, vars, callVars, threadVars, systemVars

\* Every step keeps calls and containers linked.
LEMMA LinkStep ==
  ASSUME LinkInv, [Next]_vars
  PROVE  LinkInv'
  <1>1. NetInv'
    BY NetStep DEF LinkInv
  <1>2. Links'
    BY BeginLinks, MovesLinks, CallMoves, CreateMoves, OthersMove DEF Next, ContainerStep
  <1> QED
    BY <1>1, <1>2 DEF LinkInv

\* The first state.
LEMMA InitLinked == Init => LinkInv
  <1> SUFFICES ASSUME Init PROVE LinkInv
    OBVIOUS
  <1>1. NetInv
    BY InitTyped DEF NetInv, Init, MadeByBegun, NetworkPlaced, Present, Absent, Nothing, Calls
  <1>2. Links
    BY DEF Init, Links, OwnContainers, OneOfEpoch, EpochsPast, DownIsQuiet, OfCall, Begun,
       Live, Nothing, Calls
  <1> QED
    BY <1>1, <1>2 DEF LinkInv

(***************************************************************************)
(* The call of the newest epoch keeps its container.                       *)
(***************************************************************************)
\* Call c of the newest epoch uses container w, which is not past its deadline.
InUse(c, w) ==
  /\ Using(c, w) /\ worker[w].age = 0
  /\ worker[w].state \in {"created", "running"}

Alive(w) == worker[w].state \in {"created", "running"}

\* Nobody else stops it: two calls of one task and epoch have one ended.
LEMMA UsedByOne ==
  ASSUME LinkInv, NEW c \in Calls, NEW w \in Calls, InUse(c, w),
         NEW d \in Calls, cid[d] = w,
         why[d] = "cancelled" \/ pc[d] \in {"stop", "undoStop"}
  PROVE  FALSE
  <1>1. d # c
    BY AtWork DEF InUse, Using
  <1>2. OfCall(c, w) /\ OfCall(d, w)
    BY DEF LinkInv, Links, OwnContainers, InUse, Using
  <1>3. OfCall(c, d)
    BY <1>2 DEF OfCall
  <1>4. Updated(c) \/ Updated(d)
    BY <1>1, <1>3 DEF LinkInv, Links, OneOfEpoch
  <1> QED
    BY <1>4 DEF Updated, InUse, Using

\* What a step leaves of the containers outside S.
LEMMA OnlyKeeps ==
  ASSUME NEW S, Only(S), NEW w \in Calls, w \notin S, Alive(w)
  PROVE  Alive(w)'
  BY DEF Only, Alive

\* A start does not stop.
LEMMA StartKeeps ==
  ASSUME DockerOK, NEW v \in Calls, StartContainer(v), NEW w \in Calls, Alive(w)
  PROVE  Alive(w)'
  BY DEF DockerOK, StartContainer, Alive

\* No step of another call reaches the container.
LEMMA CallKeeps ==
  ASSUME LinkInv, NEW d \in Calls,
         \/ CallStep(d) \/ CancelAgain(d)
         \/ \E reason \in {"updated", "cancelled"} : CancelCall(d, reason),
         NEW c \in Calls, NEW w \in Calls, InUse(c, w)
  PROVE  Alive(w)'
  <1>0. TypeInv /\ DockerOK /\ Alive(w) /\ worker[w].age = 0
    BY Parts DEF LinkInv, NetInv, InUse, Alive
  <1>1. CASE UNCHANGED dockerVars
    BY <1>0, <1>1 DEF dockerVars, Alive
  <1>2. pc[d] \in {"start", "poll", "stop", "undoStop"} => cid[d] \in Calls
    BY <1>0, AtWork DEF Holding
  <1>3. CASE Start(d)
    BY <1>0, <1>1, <1>2, <1>3, StartKeeps DEF Start
  <1>4. CASE Poll(d)
    <2>1. CASE Expire(cid[d])
      <3>1. Only({cid[d]})
        BY <1>0, <1>2, <1>4, <2>1, ExpireOnly DEF Poll
      <3>2. w # cid[d]
        BY <1>0, <2>1 DEF Expire
      <3> QED
        BY <1>0, <3>1, <3>2, OnlyKeeps
    <2> QED
      BY <1>1, <1>4, <2>1 DEF Poll
  <1>5. CASE (Stop(d) \/ UndoStop(d)) /\ Terminate({cid[d]})
    <2>1. Only({cid[d]})
      BY <1>0, <1>5, TerminateOnly
    <2>2. w # cid[d]
      BY <1>5, UsedByOne DEF Stop, UndoStop
    <2> QED
      BY <1>0, <2>1, <2>2, OnlyKeeps
  <1> QED
    BY <1>1, <1>3, <1>4, <1>5 DEF CallStep, CreateReturns, CreateRaises, Persist, Collect,
       Archive, Stop, UndoStop, CancelCall, CancelAgain

\* Nor does the record, a late start, time or the watchdog.
LEMMA ContainerKeeps ==
  ASSUME LinkInv, NEW d \in Calls, ContainerStep(d),
         NEW c \in Calls, NEW w \in Calls, InUse(c, w)
  PROVE  Alive(w)' \/ ProbeFails(w)
  <1>0. DockerOK /\ Alive(w) /\ worker[w].age = 0
    BY Parts DEF LinkInv, NetInv, InUse, Alive
  <1>1. CASE StopRecord(d)
    <2>1. Only({cid[d]})
      BY <1>0, <1>1, TerminateOnly DEF StopRecord
    <2>2. w # cid[d]
      BY <1>1, UsedByOne DEF StopRecord
    <2> QED
      BY <1>0, <2>1, <2>2, OnlyKeeps
  <1>2. CASE LateStart(d)
    BY <1>0, <1>2, StartKeeps DEF LateStart, dockerVars, Alive
  <1>3. CASE Finish(d) \/ Tick(d)
    BY <1>0, <1>3 DEF Finish, Tick, Alive, DockerOK, WorkerSet
  <1>4. CASE Sweep(d)
    <2>1. Only({d}) /\ d # w
      BY <1>0, <1>4, ExpireOnly, TerminateOnly DEF Sweep, Expire
    <2> QED
      BY <1>0, <2>1, OnlyKeeps
  <1>5. CASE ProbeFails(d) /\ d # w
    BY <1>0, <1>5 DEF ProbeFails, Stopped, Alive
  <1> QED
    BY <1>1, <1>2, <1>3, <1>4, <1>5 DEF ContainerStep

\* Nor does a create: of an older epoch it is refused, of this one it reuses.
LEMMA CreateKeeps ==
  ASSUME LinkInv, NEW d \in Calls, CreateThread(d) \/ CreateFails(d),
         NEW c \in Calls, NEW w \in Calls, InUse(c, w)
  PROVE  Alive(w)'
  <1>0. DockerOK /\ RestOK /\ Alive(w)
    BY Parts DEF LinkInv, NetInv, InUse, Alive
  <1>1. CASE worker' = worker
    BY <1>0, <1>1 DEF Alive
  <1>2. CASE worker' = [worker EXCEPT ![d].state = "created"]
    BY <1>0, <1>2 DEF Alive, DockerOK
  <1>3. ASSUME NEW v \in WorkersOf(task[d]), ~Stale(d, v), ~Reusable(d, v), Remove({v})
        PROVE  Alive(w)'
    <2>1. v # w
      <3> SUFFICES ASSUME v = w PROVE FALSE
        OBVIOUS
      <3>1. fence[w] = fence[c] /\ fence[c] = epoch /\ fence[d] <= epoch
        BY DEF InUse, Using, LinkInv, Links, OwnContainers, OfCall, EpochsPast
      <3>2. fence[w] \in Nat /\ fence[d] \in Nat /\ epoch \in Nat
        BY <1>0, SandboxAssumption DEF RestOK
      <3>3. fence[w] = fence[d]
        BY <1>3, <3>1, <3>2 DEF Stale
      <3>4. Active(w)
        BY <1>0 DEF Active, Alive
      <3> QED
        BY <1>3, <3>3, <3>4 DEF Reusable
    <2>2. worker'[w] = worker[w]
      BY <1>3, <2>1 DEF Remove
    <2> QED
      BY <1>0, <2>2 DEF Alive
  <1> QED
    BY <1>1, <1>2, <1>3 DEF CreateThread, CreateList, CreateAdmit, CreateClean, CreateMake,
       CreateSeed, CreateFill, CreateAttach, CreateFails, CleanUp, dockerVars

\* Every step: no call and no create reaches the container, a sweep finds it
\* before its deadline, and a process that starts finds no call at work.
LEMMA KeepStep ==
  ASSUME LinkInv, [Next]_vars, NEW c \in Calls, NEW w \in Calls, InUse(c, w)
  PROVE  Alive(w)' \/ ProbeFails(w)
  <1>0. Alive(w)
    BY DEF InUse, Alive
  <1>1. CASE worker' = worker
    BY <1>0, <1>1 DEF Alive
  <1>2. CASE ApiStart
    BY <1>2 DEF ApiStart, LinkInv, Links, DownIsQuiet, Live, InUse, Using
  <1> QED
    BY <1>1, <1>2, CallKeeps, ContainerKeeps, CreateKeeps
    DEF Next, ContainerStep, Begin, ControllerCrash, ApiCrash, Takeover, vars, dockerVars

\* The call of a run's newest epoch keeps its container until its deadline:
\* neither an earlier leader's create or stop, nor a stop of the record, nor a
\* start that comes late, nor a sweep or a reconcile ends it
\* (`_existing_container_disposition`, `sweep_expired`), whatever fails.
THEOREM NewestKeepsItsWorker == Spec => NewestKeepsWorker
  <1>1. Init => LinkInv
    BY InitLinked
  <1>2. LinkInv /\ [Next]_vars => LinkInv'
    BY LinkStep
  <1>3. LinkInv /\ [Next]_vars =>
          [\A c, w \in Calls :
             /\ Using(c, w) /\ Using(c, w)' /\ worker[w].age = 0
             /\ worker[w].state \in {"created", "running"}
             => \/ worker'[w].state \in {"created", "running"}
                \/ ProbeFails(w)]_vars
    BY KeepStep DEF InUse, Alive
  <1> QED
    BY <1>1, <1>2, <1>3, PTL DEF Spec, NewestKeepsWorker

(***************************************************************************)
(* Volumes, when the creates of a task do not overlap.                     *)
(***************************************************************************)
Creates == OneCreate /\ CreatesAlone /\ OneWorker
Volumes == Filled /\ Held /\ OwnPayload

\* Where a call has no outcome yet.
Before == {"idle", "creating", "persist", "start", "poll", "collect", "archive"}

Results ==
  \A c \in Calls :
    /\ got[c] # Nothing => got[c] \in Calls /\ OfCall(c, got[c])
    /\ why[c] = "accepted" => got[c] # Nothing
    /\ pc[c] \in Before => why[c] = "none"

VolumeInv == LinkInv /\ Creates /\ Volumes /\ Results

\* A step of no create: a volume changes only where no container is left and
\* no create is about to mount it.
Quiet ==
  /\ UNCHANGED task
  /\ \A c \in Calls : InFlight(c)' => thread'[c] = thread[c]
  /\ \A w \in Calls : /\ Present(w)' => Present(w)
                      /\ worker'[w].payload \in {worker[w].payload, Nothing, w}
  /\ \A t \in Tasks :
       /\ net'[t] = net[t] \/ net'[t] = Nothing
       /\ vol'[t] # vol[t] =>
            /\ \A w \in Calls : Present(w)' => task[w] # t
            /\ \/ net'[t] = Nothing
               \/ \A c \in Calls : Past(c) => task[c] # t

\* It keeps a task to its container and the container to its volume.
LEMMA QuietKeeps ==
  ASSUME VolumeInv, Quiet
  PROVE  (Creates /\ Volumes)'
  <1>0. Coherent /\ MadeByBegun
    BY Parts DEF VolumeInv, LinkInv, NetInv
  <1>1. ASSUME NEW c \in Calls
        PROVE  /\ InFlight(c)' => InFlight(c)
               /\ Past(c)' => Past(c)
    BY DEF Quiet, InFlight, Past
  <1>2. OneCreate'
    BY <1>1 DEF VolumeInv, Creates, OneCreate, Quiet
  <1>3. CreatesAlone'
    BY <1>1 DEF VolumeInv, Creates, CreatesAlone, Quiet
  <1>4. OneWorker'
    BY DEF VolumeInv, Creates, OneWorker, Quiet
  <1>5. Filled'
    <2> SUFFICES ASSUME NEW c \in Calls, thread'[c] = "attach", net'[task[c]] = c
                 PROVE  vol'[task[c]] = c
      BY DEF Filled, Quiet
    <2>1. thread[c] = "attach" /\ Past(c) /\ task[c] \in Tasks
      BY <1>0 DEF Quiet, InFlight, Past, Coherent
    <2>2. net[task[c]] = c
      BY <2>1 DEF Quiet, Nothing, Calls
    <2>3. vol[task[c]] = c
      BY <2>1, <2>2 DEF VolumeInv, Volumes, Filled
    <2> QED
      BY <2>1, <2>3 DEF Quiet, Nothing, Calls
  <1>6. Held'
    <2> SUFFICES ASSUME NEW w \in Calls, Present(w)'
                 PROVE  vol'[task[w]] = w
      BY DEF Held, Quiet
    <2>1. Present(w) /\ task[w] \in Tasks
      BY <1>0 DEF Quiet, MadeByBegun, Coherent
    <2> QED
      BY <2>1 DEF Quiet, VolumeInv, Volumes, Held
  <1>7. OwnPayload'
    BY DEF Quiet, VolumeInv, Volumes, OwnPayload
  <1> QED
    BY <1>2, <1>3, <1>4, <1>5, <1>6, <1>7 DEF Creates, Volumes

\* What removing by name leaves alone: the volume of a container that is left.
LEMMA VolumesKept ==
  ASSUME NEW ts, NEW ws, NEW ss, NEW t \in Tasks, VolumesAfter(ts, ws, ss)[t] # vol[t]
  PROVE  /\ t \in ts
         /\ \A w \in Calls : ws[w].state # "absent" => task[w] # t
  BY DEF VolumesAfter, VolumeInUse

\* _terminate removes the volume of the containers it removes.
LEMMA TerminateQuiet ==
  ASSUME VolumeInv, NEW S \in SUBSET Calls, Terminate(S), UNCHANGED <<task, thread>>
  PROVE  Quiet
  <1> DEFINE left == [w \in Calls |-> IF w \in S THEN Absent ELSE worker[w]]
             names == {task[w] : w \in {v \in S : worker[v].state # "absent"}}
  <1>0. DockerOK /\ Only(S) /\ CreatesAlone
    BY Parts, TerminateOnly DEF VolumeInv, LinkInv, NetInv, Creates
  <1>1. CASE Retention = "remove"
    <2>1. /\ worker' = left /\ vol' = VolumesAfter(names, left, seeds)
          /\ net' = [t \in Tasks |-> IF t \in names /\ ~Connected(net[t], left)
                                       THEN Nothing ELSE net[t]]
      BY <1>1 DEF Terminate, Remove
    <2>2. ASSUME NEW w \in Calls
          PROVE  worker'[w].payload \in {worker[w].payload, Nothing}
      BY <2>1 DEF Absent
    <2>3. ASSUME NEW t \in Tasks
          PROVE  net'[t] = net[t] \/ net'[t] = Nothing
      <3> HIDE DEF left, names
      <3> QED
        BY <2>1
    <2>4. ASSUME NEW t \in Tasks, vol'[t] # vol[t]
          PROVE  /\ \A w \in Calls : Present(w)' => task[w] # t
                 /\ \A c \in Calls : Past(c) => task[c] # t
      <3>1. t \in names /\ \A w \in Calls : left[w].state # "absent" => task[w] # t
        <4> HIDE DEF left, names
        <4> QED
          BY <2>1, <2>4, VolumesKept
      <3>2. PICK v \in S : Present(v) /\ task[v] = t
        BY <3>1 DEF Present
      <3>3. \A c \in Calls : Past(c) => task[c] # t
        BY <1>0, <3>2 DEF CreatesAlone
      <3>4. \A w \in Calls : Present(w)' => task[w] # t
        <4> HIDE DEF left, names
        <4> QED
          BY <2>1, <3>1 DEF Present
      <3> QED
        BY <3>3, <3>4
    <2> QED
      BY <1>0, <2>2, <2>3, <2>4 DEF Quiet, Only
  <1>2. CASE Retention # "remove"
    <2>1. worker' = Stopped(S) /\ net' = net /\ vol' = vol
      BY <1>2 DEF Terminate
    <2>2. ASSUME NEW w \in Calls
          PROVE  worker'[w].payload = worker[w].payload
      BY <1>0, <2>1 DEF Stopped, DockerOK, WorkerSet
    <2> QED
      BY <1>0, <2>1, <2>2 DEF Quiet, Only
  <1> QED
    BY <1>1, <1>2

\* A start reads the volume the container was created with.
LEMMA StartQuiet ==
  ASSUME VolumeInv, NEW v \in Calls, StartContainer(v), UNCHANGED <<task, thread>>
  PROVE  Quiet
  <1>0. DockerOK /\ Only({v}) /\ Held
    BY Parts, StartOnly DEF VolumeInv, LinkInv, NetInv, Volumes
  <1>1. Present(v) /\ vol[task[v]] = v
    BY <1>0 DEF StartContainer, Present, Held
  <1>2. worker'[v].payload = v /\ net' = net /\ vol' = vol
    BY <1>0, <1>1 DEF StartContainer, DockerOK
  <1> QED
    BY <1>0, <1>2 DEF Quiet, Only

\* So does a deadline, which stops.
LEMMA ExpireQuiet ==
  ASSUME VolumeInv, NEW v \in Calls, Expire(v), UNCHANGED <<task, thread>>
  PROVE  Quiet
  <1>0. DockerOK
    BY Parts DEF VolumeInv, LinkInv, NetInv
  <1>1. worker' = Stopped({v}) /\ net' = net /\ vol' = vol
    BY DEF Expire
  <1>2. ASSUME NEW w \in Calls
        PROVE  (Present(w)' => Present(w)) /\ worker'[w].payload = worker[w].payload
    BY <1>0, <1>1 DEF Stopped, Running, Present, DockerOK, WorkerSet
  <1> QED
    BY <1>1, <1>2 DEF Quiet

\* The steps of a call are quiet.
LEMMA CallQuiet ==
  ASSUME VolumeInv, NEW d \in Calls,
         \/ CallStep(d) \/ CancelAgain(d)
         \/ \E reason \in {"updated", "cancelled"} : CancelCall(d, reason)
  PROVE  Quiet
  <1>0. TypeInv
    BY DEF VolumeInv, LinkInv, NetInv
  <1>1. UNCHANGED <<task, thread>>
    BY DEF CallStep, CreateReturns, CreateRaises, Persist, Start, Poll, Collect, Archive,
           Stop, UndoStop, CancelCall, CancelAgain, threadVars
  <1>2. CASE UNCHANGED dockerVars
    BY <1>1, <1>2 DEF Quiet, dockerVars, Present
  <1>3. pc[d] \in {"start", "poll", "stop", "undoStop"} => cid[d] \in Calls
    BY <1>0, AtWork DEF Holding
  <1>4. CASE Start(d)
    BY <1>1, <1>2, <1>3, <1>4, StartQuiet DEF Start
  <1>5. CASE Poll(d)
    BY <1>1, <1>2, <1>3, <1>5, ExpireQuiet DEF Poll
  <1>6. CASE Stop(d) \/ UndoStop(d)
    BY <1>1, <1>2, <1>3, <1>6, TerminateQuiet DEF Stop, UndoStop
  <1> QED
    BY <1>2, <1>4, <1>5, <1>6 DEF CallStep, CreateReturns, CreateRaises, Persist, Collect,
       Archive, CancelCall, CancelAgain

\* So are the other steps.
LEMMA OthersQuiet ==
  ASSUME VolumeInv,
         \/ \E w \in Calls : ContainerStep(w)
         \/ ControllerCrash \/ ApiCrash \/ ApiStart \/ Takeover \/ UNCHANGED vars
  PROVE  Quiet
  <1>0. DockerOK /\ RestOK /\ CallOK
    BY Parts DEF VolumeInv, LinkInv, NetInv
  <1>1. CASE UNCHANGED <<task, thread, dockerVars>>
    BY <1>1 DEF Quiet, dockerVars, Present
  <1>2. ASSUME NEW v \in Calls, ContainerStep(v)
        PROVE  Quiet
    <2>1. UNCHANGED <<task, thread>>
      BY <1>2 DEF ContainerStep, StopRecord, LateStart, Finish, Tick, Sweep, ProbeFails,
         callVars, threadVars
    <2>2. CASE StopRecord(v)
      <3>1. cid[v] \in Calls
        BY <1>0, <2>2 DEF StopRecord, CallOK
      <3> QED
        BY <2>1, <2>2, <3>1, TerminateQuiet DEF StopRecord
    <2>3. CASE LateStart(v)
      BY <1>1, <2>1, <2>3, StartQuiet DEF LateStart
    <2>4. CASE Finish(v) \/ Tick(v) \/ ProbeFails(v)
      <3>1. net' = net /\ vol' = vol
        BY <2>4 DEF Finish, Tick, ProbeFails
      <3>2. ASSUME NEW w \in Calls
            PROVE  (Present(w)' => Present(w)) /\ worker'[w].payload = worker[w].payload
        BY <1>0, <2>4 DEF Finish, Tick, ProbeFails, Stopped, Running, Present, DockerOK,
           WorkerSet
      <3> QED
        BY <2>1, <3>1, <3>2 DEF Quiet
    <2>5. CASE Sweep(v)
      BY <2>1, <2>5, ExpireQuiet, TerminateQuiet DEF Sweep
    <2> QED
      BY <1>2, <2>2, <2>3, <2>4, <2>5 DEF ContainerStep
  <1>3. CASE ControllerCrash
    <2>1. UNCHANGED <<task, worker, net, vol>>
      BY <1>3 DEF ControllerCrash, callVars, dockerVars
    <2>2. ASSUME NEW c \in Calls, InFlight(c)'
          PROVE  thread'[c] = thread[c]
      BY <1>3, <2>2 DEF ControllerCrash, InFlight
    <2> QED
      BY <2>1, <2>2 DEF Quiet, Present
  <1>4. CASE ApiStart
    <2> DEFINE left == IF Retention = "remove" THEN [w \in Calls |-> Absent]
                                               ELSE Stopped(Calls)
    <2>1. /\ UNCHANGED <<task, thread>> /\ worker' = left
          /\ vol' = VolumesAfter(Tasks, left, {})
          /\ net' = [t \in Tasks |-> Nothing]
      BY <1>4 DEF ApiStart, callVars, threadVars
    <2>2. ASSUME NEW w \in Calls
          PROVE  /\ Present(w)' => Present(w)
                 /\ worker'[w].payload \in {worker[w].payload, Nothing}
      BY <1>0, <2>1 DEF Absent, Stopped, Running, Present, DockerOK, WorkerSet
    <2>3. ASSUME NEW t \in Tasks, vol'[t] # vol[t]
          PROVE  \A w \in Calls : Present(w)' => task[w] # t
      <3> HIDE DEF left
      <3> QED
        BY <2>1, <2>3, VolumesKept DEF Present
    <2> QED
      BY <2>1, <2>2, <2>3 DEF Quiet
  <1> QED
    BY <1>1, <1>2, <1>3, <1>4 DEF ApiCrash, Takeover, vars, callVars, threadVars, dockerVars

\* A create that has found no container of its task is alone with it.
LEMMA Alone ==
  ASSUME VolumeInv, NEW c \in Calls, Past(c)
  PROVE  /\ \A d \in Calls : InFlight(d) /\ d # c => task[d] # task[c]
         /\ \A w \in Calls : Present(w) => task[w] # task[c] /\ w # c
         /\ InFlight(c) /\ task[c] \in Tasks
  <1>1. InFlight(c) /\ Coherent
    BY Parts DEF Past, InFlight, VolumeInv, LinkInv, NetInv
  <1>2. task[c] \in Tasks
    BY <1>1 DEF Coherent, InFlight
  <1> QED
    BY <1>1, <1>2 DEF VolumeInv, Creates, OneCreate, CreatesAlone

\* It goes on, with the names of its task only, and fills the volume before it
\* attaches a Worker.
LEMMA AloneKeeps ==
  ASSUME VolumeInv, NEW c \in Calls, Past(c), NEW place \in ThreadPlaces \ {"list"},
         thread' = [thread EXCEPT ![c] = place], UNCHANGED <<task, worker>>,
         \A t \in Tasks : t # task[c] => net'[t] = net[t] /\ vol'[t] = vol[t],
         place = "attach" => vol'[task[c]] = c
  PROVE  (Creates /\ Volumes)'
  <1>0. RestOK /\ Coherent /\ MadeByBegun
    BY Parts DEF VolumeInv, LinkInv, NetInv
  <1>1. ASSUME NEW d \in Calls
        PROVE  /\ d # c => thread'[d] = thread[d]
               /\ InFlight(d)' => InFlight(d)
               /\ Past(d)' => Past(d)
               /\ Present(d)' <=> Present(d)
    BY <1>0, Alone DEF RestOK, InFlight, Past, Present
  <1>2. OneCreate'
    BY <1>1 DEF VolumeInv, Creates, OneCreate
  <1>3. CreatesAlone'
    BY <1>1 DEF VolumeInv, Creates, CreatesAlone
  <1>4. OneWorker'
    BY <1>1 DEF VolumeInv, Creates, OneWorker
  <1>5. Filled'
    <2> SUFFICES ASSUME NEW d \in Calls, thread'[d] = "attach", net'[task[d]] = d
                 PROVE  vol'[task[d]] = d
      BY DEF Filled
    <2>1. CASE d = c
      BY <1>0, <2>1 DEF RestOK
    <2>2. CASE d # c
      <3>1. thread[d] = "attach" /\ task[d] # task[c]
        BY <1>1, <2>2, Alone DEF InFlight
      <3>2. task[d] \in Tasks
        BY <1>0, <3>1 DEF Coherent
      <3> QED
        BY <3>1, <3>2 DEF VolumeInv, Volumes, Filled
    <2> QED
      BY <2>1, <2>2
  <1>6. Held'
    <2> SUFFICES ASSUME NEW w \in Calls, Present(w)
                 PROVE  vol'[task[w]] = w
      BY <1>1 DEF Held
    <2>1. task[w] \in Tasks /\ task[w] # task[c]
      BY <1>0, Alone DEF MadeByBegun, Coherent
    <2> QED
      BY <2>1 DEF VolumeInv, Volumes, Held
  <1>7. OwnPayload'
    BY DEF VolumeInv, Volumes, OwnPayload
  <1> QED
    BY <1>2, <1>3, <1>4, <1>5, <1>6, <1>7 DEF Creates, Volumes

\* The except clause of a create at work.
LEMMA CleanUpKeeps ==
  ASSUME VolumeInv, NEW c \in Calls, Past(c), CleanUp(c)
  PROVE  (Creates /\ Volumes)'
  <1>0. DockerOK
    BY Parts DEF VolumeInv, LinkInv, NetInv
  <1>1. /\ thread' = [thread EXCEPT ![c] = "refused"] /\ UNCHANGED <<task, worker>>
        /\ net' = [net EXCEPT ![task[c]] = IF @ = c THEN Nothing ELSE @]
        /\ vol' = VolumesAfter({task[c]}, worker, seeds \ {c})
    BY DEF CleanUp, Go, createRest, callVars
  <1>2. ASSUME NEW t \in Tasks, t # task[c]
        PROVE  net'[t] = net[t] /\ vol'[t] = vol[t]
    BY <1>0, <1>1, <1>2 DEF DockerOK, VolumesAfter
  <1> QED
    BY <1>1, <1>2, AloneKeeps DEF ThreadPlaces

\* A create lists the containers of its task.
LEMMA CreateListKeeps ==
  ASSUME VolumeInv, NEW c \in Calls, CreateList(c)
  PROVE  (Creates /\ Volumes)'
  <1>0. RestOK /\ DockerOK
    BY Parts DEF VolumeInv, LinkInv, NetInv
  <1>1. thread[c] = "list" /\ UNCHANGED task
    BY DEF CreateList, At, createRest, callVars
  <1>2. CASE UNCHANGED dockerVars /\ (Go(c, "refused") \/ Go(c, "answered"))
    <2>1. \A d \in Calls : InFlight(d)' => thread'[d] = thread[d]
      BY <1>0, <1>2 DEF Go, InFlight, RestOK
    <2>2. Quiet
      BY <1>1, <1>2, <2>1 DEF Quiet, dockerVars, Present
    <2> QED
      BY <2>2, QuietKeeps
  <1>3. ASSUME NEW w \in WorkersOf(task[c]), Remove({w}), UNCHANGED threadVars
        PROVE  (Creates /\ Volumes)'
    <2>0. w \in Calls /\ Present(w) /\ task[w] = task[c]
      BY <1>3 DEF WorkersOf, Present
    <2>1. /\ \A v \in Calls : worker'[v] = IF v = w THEN Absent ELSE worker[v]
          /\ \A t \in Tasks : net'[t] = net[t] \/ net'[t] = Nothing
          /\ \A t \in Tasks : vol'[t] # vol[t] =>
               /\ \A v \in Calls : Present(v)' => task[v] # t
               /\ \A d \in Calls : Past(d) => task[d] # t
      <3> DEFINE gone == [v \in Calls |-> IF v \in {w} THEN Absent ELSE worker[v]]
                 names == {task[v] : v \in {u \in {w} : worker[u].state # "absent"}}
      <3>1. /\ worker' = gone /\ vol' = VolumesAfter(names, gone, seeds)
            /\ net' = [t \in Tasks |-> IF t \in names /\ ~Connected(net[t], gone)
                                         THEN Nothing ELSE net[t]]
        BY <1>3 DEF Remove
      <3>2. \A t \in Tasks : net'[t] = net[t] \/ net'[t] = Nothing
        <4> HIDE DEF gone, names
        <4> QED
          BY <3>1
      <3>3. ASSUME NEW t \in Tasks, vol'[t] # vol[t]
            PROVE  t \in names /\ \A v \in Calls : Present(v)' => task[v] # t
        <4> HIDE DEF gone, names
        <4> QED
          BY <3>1, <3>3, VolumesKept DEF Present
      <3>4. ASSUME NEW t \in Tasks, t \in names
            PROVE  \A d \in Calls : Past(d) => task[d] # t
        BY <2>0, <3>4 DEF VolumeInv, Creates, CreatesAlone
      <3>5. \A v \in Calls : worker'[v] = IF v = w THEN Absent ELSE worker[v]
        BY <3>1
      <3> HIDE DEF gone, names
      <3> QED
        BY <3>2, <3>3, <3>4, <3>5
    <2>2. Quiet
      BY <1>1, <1>3, <2>1 DEF Quiet, threadVars, Present, Absent
    <2> QED
      BY <2>2, QuietKeeps
  <1>4. CASE WorkersOf(task[c]) = {} /\ Go(c, "admit") /\ UNCHANGED dockerVars
    <2>1. thread' = [thread EXCEPT ![c] = "admit"] /\ UNCHANGED <<worker, net, vol>>
      BY <1>4 DEF Go, dockerVars
    <2>2. \A d \in Calls : InFlight(d)' => InFlight(d)
      BY <1>0, <1>1, <2>1 DEF InFlight, RestOK
    <2>3. \A w \in Calls : Present(w) => task[w] # task[c]
      BY <1>4 DEF WorkersOf, Present
    <2>4. OneCreate'
      BY <1>1, <2>2 DEF VolumeInv, Creates, OneCreate
    <2>5. CreatesAlone'
      BY <1>0, <1>1, <2>1, <2>3 DEF VolumeInv, Creates, CreatesAlone, Past, Present, RestOK
    <2>6. OneWorker' /\ Held' /\ OwnPayload'
      BY <1>1, <2>1 DEF VolumeInv, Creates, Volumes, OneWorker, Held, OwnPayload, Present
    <2>7. Filled'
      BY <1>0, <1>1, <2>1 DEF VolumeInv, Volumes, Filled, RestOK
    <2> QED
      BY <2>4, <2>5, <2>6, <2>7 DEF Creates, Volumes
  <1> QED
    BY <1>2, <1>3, <1>4 DEF CreateList, Answer

\* The Worker is created with the volume its create has filled.
LEMMA AttachKeeps ==
  ASSUME VolumeInv, NEW c \in Calls, CreateAttach(c), net[task[c]] = c
  PROVE  (Creates /\ Volumes)'
  <1>0. RestOK /\ DockerOK /\ Coherent /\ MadeByBegun
    BY Parts DEF VolumeInv, LinkInv, NetInv
  <1>1. /\ thread[c] = "attach" /\ thread' = [thread EXCEPT ![c] = "answered"]
        /\ UNCHANGED <<task, net>>
        /\ worker' = [worker EXCEPT ![c].state = "created"]
        /\ vol' = [vol EXCEPT ![task[c]] = IF @ = Nothing THEN Empty ELSE @]
    BY DEF CreateAttach, At, Answer, Go, createRest, callVars
  <1>2. Past(c) /\ task[c] \in Tasks
    BY <1>0, <1>1 DEF Past, Coherent
  <1>3. vol[task[c]] = c
    BY <1>1 DEF VolumeInv, Volumes, Filled
  <1>4. vol' = vol
    BY <1>0, <1>1, <1>2, <1>3 DEF DockerOK, Nothing, Calls
  <1>5. ASSUME NEW w \in Calls
        PROVE  /\ Present(w)' <=> Present(w) \/ w = c
               /\ worker'[w].payload = worker[w].payload
               /\ InFlight(w)' <=> InFlight(w) /\ w # c
               /\ Past(w)' <=> Past(w) /\ w # c
    BY <1>0, <1>1 DEF DockerOK, WorkerSet, RestOK, Present, InFlight, Past
  <1>6. OneCreate'
    BY <1>1, <1>5 DEF VolumeInv, Creates, OneCreate
  <1>7. CreatesAlone'
    <2> SUFFICES ASSUME NEW d \in Calls, NEW w \in Calls, Past(d), d # c,
                        Present(w) \/ w = c
                 PROVE  task[w] # task[d]
      BY <1>1, <1>5 DEF CreatesAlone
    <2>1. CASE Present(w)
      BY <2>1 DEF VolumeInv, Creates, CreatesAlone
    <2>2. CASE w = c
      BY <1>2, <2>2, Alone DEF Past, InFlight
    <2> QED
      BY <2>1, <2>2
  <1>8. OneWorker'
    BY <1>1, <1>2, <1>5, Alone DEF VolumeInv, Creates, OneWorker
  <1>9. Filled'
    BY <1>0, <1>1, <1>4 DEF VolumeInv, Volumes, Filled, RestOK
  <1>10. Held'
    BY <1>1, <1>3, <1>4, <1>5 DEF VolumeInv, Volumes, Held
  <1>11. OwnPayload'
    BY <1>5 DEF VolumeInv, Volumes, OwnPayload
  <1> QED
    BY <1>6, <1>7, <1>8, <1>9, <1>10, <1>11 DEF Creates, Volumes

\* All steps of a create.
LEMMA CreateKeepsVolumes ==
  ASSUME VolumeInv, NEW c \in Calls, CreateThread(c) \/ CreateFails(c)
  PROVE  (Creates /\ Volumes)'
  <1>0. DockerOK
    BY Parts DEF VolumeInv, LinkInv, NetInv
  <1>1. CASE CreateAdmit(c)
    BY <1>1, AloneKeeps
    DEF CreateAdmit, At, Go, Past, ThreadPlaces, createRest, callVars, dockerVars
  <1>2. CASE CreateClean(c)
    <2>1. ASSUME NEW t \in Tasks, t # task[c]
          PROVE  net'[t] = net[t] /\ vol'[t] = vol[t]
      BY <1>0, <1>2, <2>1 DEF CreateClean, DockerOK, VolumesAfter
    <2>2. \E place \in {"make", "refused"} : Go(c, place)
      BY <1>2 DEF CreateClean
    <2> QED
      BY <1>2, <2>1, <2>2, AloneKeeps
      DEF CreateClean, At, Go, Past, ThreadPlaces, createRest, callVars
  <1>3. CASE CreateMake(c)
    <2>1. ASSUME NEW t \in Tasks, t # task[c]
          PROVE  net'[t] = net[t] /\ vol'[t] = vol[t]
      BY <1>0, <1>3, <2>1 DEF CreateMake, DockerOK
    <2>2. \E place \in {"seed", "refused"} : Go(c, place)
      BY <1>3 DEF CreateMake
    <2> QED
      BY <1>3, <2>1, <2>2, AloneKeeps
      DEF CreateMake, At, Go, Past, ThreadPlaces, createRest, callVars
  <1>4. CASE CreateSeed(c)
    <2>1. ASSUME NEW t \in Tasks, t # task[c]
          PROVE  net'[t] = net[t] /\ vol'[t] = vol[t]
      BY <1>0, <1>4, <2>1 DEF CreateSeed, DockerOK
    <2> QED
      BY <1>4, <2>1, AloneKeeps
      DEF CreateSeed, At, Go, Past, ThreadPlaces, createRest, callVars
  <1>5. CASE CreateFill(c)
    <2> Past(c) /\ task[c] \in Tasks
      BY <1>5, Alone DEF CreateFill, At, Past
    <2>1. CASE c \in seeds
      <3>1. /\ vol' = [vol EXCEPT ![task[c]] = c] /\ net' = net
            /\ Go(c, "attach") /\ UNCHANGED createRest /\ worker' = worker
        BY <1>5, <2>1 DEF CreateFill
      <3>2. vol'[task[c]] = c /\ \A t \in Tasks : t # task[c] => vol'[t] = vol[t]
        BY <1>0, <3>1 DEF DockerOK
      <3> QED
        BY <3>1, <3>2, AloneKeeps DEF Go, ThreadPlaces, createRest, callVars
    <2>2. CASE c \notin seeds
      BY <1>5, <2>2, CleanUpKeeps DEF CreateFill
    <2> QED
      BY <2>1, <2>2
  <1>6. CASE CreateAttach(c)
    BY <1>6, AttachKeeps, CleanUpKeeps DEF CreateAttach, At, Past
  <1>7. CASE CreateFails(c)
    BY <1>7, CleanUpKeeps DEF CreateFails, Past
  <1> QED
    BY <1>1, <1>2, <1>3, <1>4, <1>5, <1>6, <1>7, CreateListKeeps DEF CreateThread

\* A task is run again when no create of it is at work.
LEMMA BeginKeeps ==
  ASSUME "overlap" \notin Faults, VolumeInv, NEW c \in Calls, NEW t \in Tasks, Begin(c, t)
  PROVE  (Creates /\ Volumes)'
  <1>0. CallOK /\ RestOK /\ Coherent /\ MadeByBegun
    BY Parts DEF VolumeInv, LinkInv, NetInv
  <1>1. /\ task' = [task EXCEPT ![c] = t] /\ thread' = [thread EXCEPT ![c] = "list"]
        /\ UNCHANGED <<worker, net, vol>>
        /\ \A d \in Calls : task[d] = t => ~InFlight(d)
        /\ thread[c] = "none" /\ ~Present(c)
    BY <1>0 DEF Begin, MayBegin, dockerVars, Coherent, MadeByBegun, Begun
  <1>2. ASSUME NEW d \in Calls
        PROVE  /\ d # c => task'[d] = task[d] /\ thread'[d] = thread[d]
               /\ InFlight(d)' <=> InFlight(d) \/ d = c
               /\ Past(d)' <=> Past(d)
               /\ Past(d) => d # c
               /\ Present(d)' <=> Present(d)
               /\ Present(d) => d # c
    BY <1>0, <1>1 DEF RestOK, InFlight, Past, Present
  <1>3. task'[c] = t
    BY <1>0, <1>1 DEF RestOK
  <1>4. OneCreate'
    BY <1>1, <1>2, <1>3 DEF VolumeInv, Creates, OneCreate
  <1>5. CreatesAlone'
    BY <1>2 DEF VolumeInv, Creates, CreatesAlone
  <1>6. OneWorker'
    BY <1>2 DEF VolumeInv, Creates, OneWorker
  <1>7. Filled'
    BY <1>0, <1>1, <1>2 DEF VolumeInv, Volumes, Filled, RestOK
  <1>8. Held'
    BY <1>1, <1>2 DEF VolumeInv, Volumes, Held
  <1>9. OwnPayload'
    BY <1>1 DEF VolumeInv, Volumes, OwnPayload
  <1> QED
    BY <1>4, <1>5, <1>6, <1>7, <1>8, <1>9 DEF Creates, Volumes

\* A call goes on: what its outcome must rest on.
LEMMA GotoResults ==
  ASSUME VolumeInv, NEW c \in Calls, NEW place, NEW reason, Live(c), place # "idle",
         Goto(c, place, reason), UNCHANGED <<task, fence>>,
         \A d \in Calls : d # c => got'[d] = got[d],
         got'[c] = got[c] \/ got'[c] = Nothing \/ (got'[c] \in Calls /\ OfCall(c, got'[c])),
         reason = "accepted" => got'[c] # Nothing,
         place \in Before => reason = "none"
  PROVE  Results'
  <1>0. CallOK /\ Results
    BY Parts DEF VolumeInv, LinkInv, NetInv
  <1>1. ASSUME NEW d \in Calls
        PROVE  /\ Begun(d) => Begun(d)'
               /\ pc'[d] = IF d = c THEN place ELSE pc[d]
               /\ why'[d] = IF d = c THEN reason ELSE why[d]
    BY <1>0 DEF CallOK, Goto, Begun, Live
  <1>2. ASSUME NEW d \in Calls, NEW e \in Calls, OfCall(d, e)
        PROVE  OfCall(d, e)'
    BY <1>1, <1>2 DEF OfCall
  <1>3. ASSUME NEW d \in Calls, got'[d] # Nothing
        PROVE  got'[d] \in Calls /\ OfCall(d, got[d])'
    <2>1. got'[d] \in Calls /\ OfCall(d, got'[d])
      BY <1>0, <1>3 DEF Results
    <2> QED
      BY <1>2, <2>1 DEF OfCall
  <1>4. ASSUME NEW d \in Calls
        PROVE  /\ why'[d] = "accepted" => got'[d] # Nothing
               /\ pc'[d] \in Before => why'[d] = "none"
    BY <1>0, <1>1 DEF Results
  <1> QED
    BY <1>3, <1>4 DEF Results, OfCall

\* A call collects from its own container.
LEMMA CallResults ==
  ASSUME VolumeInv, NEW c \in Calls,
         \/ CallStep(c) \/ CancelAgain(c)
         \/ \E reason \in {"updated", "cancelled"} : CancelCall(c, reason)
  PROVE  Results'
  <1>0. TypeInv /\ CallOK /\ DockerOK /\ Results
    BY Parts DEF VolumeInv, LinkInv, NetInv
  <1>1. UNCHANGED <<task, fence>>
    BY DEF CallStep, CreateReturns, CreateRaises, Persist, Start, Poll, Collect, Archive,
           Stop, UndoStop, CancelCall, CancelAgain
  <1>2. Live(c)
    BY DEF CallStep, CreateReturns, CreateRaises, Persist, Start, Poll, Collect, Archive,
           Stop, UndoStop, CancelCall, CancelAgain, Live
  <1>3. CASE Collect(c)
    <2>1. pc[c] = "collect" /\ cid[c] \in Calls /\ why[c] = "none"
      BY <1>0, <1>3, AtWork DEF Collect, Holding, Results, Before
    <2>2. worker[cid[c]].payload \in {Nothing, cid[c]} /\ OfCall(c, cid[c])
      BY <2>1 DEF VolumeInv, Volumes, OwnPayload, LinkInv, Links, OwnContainers
    <2>3. \A d \in Calls : d # c => got'[d] = got[d]
      BY <1>0, <1>3 DEF Collect, CallOK
    <2>4. got'[c] \in {got[c], Nothing, cid[c]}
      BY <1>0, <1>3, <2>2 DEF Collect, CallOK
    <2>5. PICK place \in {"archive", "stop"}, reason \in {"none", "failed"} :
             Goto(c, place, reason) /\ (place \in Before => reason = "none")
      BY <1>3, <2>1 DEF Collect, Before
    <2> QED
      BY <1>1, <1>2, <2>1, <2>2, <2>3, <2>4, <2>5, GotoResults
  <1>4. CASE UNCHANGED got
    <2>1. ASSUME NEW place, NEW reason, Goto(c, place, reason), place # "idle",
                 reason = why[c] \/ (reason = "accepted" => got[c] # Nothing),
                 place \in Before => reason = "none"
          PROVE  Results'
      BY <1>0, <1>1, <1>2, <1>4, <2>1, GotoResults DEF Results
    <2>2. pc[c] \in Before => why[c] = "none"
      BY <1>0 DEF Results
    <2>3. CASE CreateReturns(c) \/ CreateRaises(c) \/ Persist(c)
      BY <2>1, <2>2, <2>3 DEF CreateReturns, CreateRaises, Persist, Before
    <2>4. CASE Start(c) \/ Poll(c)
      BY <2>1, <2>2, <2>4 DEF Start, Poll, Before
    <2>5. CASE Archive(c)
      BY <2>1, <2>2, <2>5 DEF Archive, Before
    <2>6. CASE Stop(c) \/ UndoStop(c) \/ CancelAgain(c)
      BY <2>1, <2>6 DEF Stop, UndoStop, CancelAgain, Before
    <2>7. CASE \E reason \in {"updated", "cancelled"} : CancelCall(c, reason)
      BY <2>1, <2>7 DEF CancelCall, Before
    <2> QED
      BY <1>3, <2>3, <2>4, <2>5, <2>6, <2>7 DEF CallStep
  <1> QED
    BY <1>3, <1>4 DEF CallStep, CreateReturns, CreateRaises, Persist, Start, Poll, Archive,
       Stop, UndoStop, CancelCall, CancelAgain

\* The other steps leave results alone.
LEMMA OthersResults ==
  ASSUME VolumeInv,
         \/ \E c \in Calls : CreateThread(c) \/ CreateFails(c) \/ ContainerStep(c)
         \/ ControllerCrash \/ ApiCrash \/ ApiStart \/ Takeover \/ UNCHANGED vars
  PROVE  Results'
  <1>0. CallOK /\ Results
    BY Parts DEF VolumeInv, LinkInv, NetInv
  <1>1. CASE UNCHANGED callVars
    BY <1>0, <1>1 DEF Results, OfCall, Begun, callVars
  <1>2. CASE ApiCrash
    <2>1. /\ UNCHANGED <<task, fence, got>>
          /\ pc' = [c \in Calls |-> IF Live(c) THEN "ended" ELSE pc[c]]
          /\ why' = [c \in Calls |-> IF Live(c) THEN "crashed" ELSE why[c]]
      BY <1>2 DEF ApiCrash
    <2>2. ASSUME NEW c \in Calls
          PROVE  /\ Begun(c)' <=> Begun(c)
                 /\ why'[c] = "accepted" => why[c] = "accepted"
                 /\ pc'[c] \in Before => why'[c] = "none"
      BY <1>0, <2>1 DEF CallOK, Begun, Live, Results, Before
    <2> QED
      BY <1>0, <2>1, <2>2 DEF Results, OfCall
  <1> QED
    BY <1>1, <1>2 DEF CreateThread, CreateList, CreateAdmit, CreateClean, CreateMake,
       CreateSeed, CreateFill, CreateAttach, CreateFails, CleanUp, createRest,
       ContainerStep, StopRecord, LateStart, Finish, Tick, Sweep, ProbeFails,
       ControllerCrash, ApiStart, Takeover, vars, callVars

\* A call begins without a result.
LEMMA BeginResults ==
  ASSUME VolumeInv, NEW c \in Calls, NEW t \in Tasks, Begin(c, t)
  PROVE  Results'
  <1>0. CallOK /\ RestOK /\ Results
    BY Parts DEF VolumeInv, LinkInv, NetInv
  <1>1. /\ pc[c] = "idle" /\ UNCHANGED <<got, why>>
        /\ pc' = [pc EXCEPT ![c] = "creating"] /\ task' = [task EXCEPT ![c] = t]
        /\ fence' = [fence EXCEPT ![c] = epoch]
    BY DEF Begin, MayBegin
  <1>2. ASSUME NEW d \in Calls, got[d] # Nothing
        PROVE  OfCall(d, got[d])'
    <2>1. got[d] \in Calls /\ OfCall(d, got[d])
      BY <1>0, <1>2 DEF Results
    <2>2. d # c /\ got[d] # c
      BY <1>1, <2>1 DEF OfCall, Begun
    <2> QED
      BY <1>0, <1>1, <2>1, <2>2 DEF OfCall, Begun, CallOK, RestOK
  <1> QED
    BY <1>0, <1>1, <1>2 DEF Results, CallOK, Before

\* Every step keeps a task to one container with its own payload.
LEMMA VolumeStep ==
  ASSUME "overlap" \notin Faults, VolumeInv, [Next]_vars
  PROVE  VolumeInv'
  <1>1. LinkInv'
    BY LinkStep DEF VolumeInv
  <1>2. (Creates /\ Volumes)'
    BY BeginKeeps, CallQuiet, OthersQuiet, QuietKeeps, CreateKeepsVolumes
    DEF Next, ContainerStep
  <1>3. Results'
    BY BeginResults, CallResults, OthersResults DEF Next, ContainerStep
  <1> QED
    BY <1>1, <1>2, <1>3 DEF VolumeInv

\* The first state.
LEMMA InitVolumes == Init => VolumeInv
  <1> SUFFICES ASSUME Init PROVE VolumeInv
    OBVIOUS
  <1>1. Creates
    BY DEF Init, Creates, OneCreate, CreatesAlone, OneWorker, InFlight, Past, Present, Absent
  <1>2. Volumes /\ Results
    BY DEF Init, Volumes, Filled, Held, OwnPayload, Results, Present, Absent, Before
  <1> QED
    BY <1>1, <1>2, InitLinked DEF VolumeInv

\* A call accepts no result of another epoch's payload
\* (`_existing_container_disposition`), whatever crashes, is cancelled or lost,
\* as long as a task is run again only when no create of it is at work.
THEOREM AcceptedIsOfOwnEpoch ==
  ASSUME "overlap" \notin Faults
  PROVE  Spec => []AcceptedOfOwnEpoch
  <1>1. Init => VolumeInv
    BY InitVolumes
  <1>2. VolumeInv /\ [Next]_vars => VolumeInv'
    BY VolumeStep
  <1>3. VolumeInv => AcceptedOfOwnEpoch
    BY DEF VolumeInv, Results, AcceptedOfOwnEpoch, OfCall
  <1> QED
    BY <1>1, <1>2, <1>3, PTL DEF Spec

\* Under the same condition a task has one container ("Create one task
\* idempotently").
THEOREM TaskHasOneWorker ==
  ASSUME "overlap" \notin Faults
  PROVE  Spec => []OneWorker
  <1>1. Init => VolumeInv
    BY InitVolumes
  <1>2. VolumeInv /\ [Next]_vars => VolumeInv'
    BY VolumeStep
  <1>3. VolumeInv => OneWorker
    BY DEF VolumeInv, Creates
  <1> QED
    BY <1>1, <1>2, <1>3, PTL DEF Spec
=============================================================================
