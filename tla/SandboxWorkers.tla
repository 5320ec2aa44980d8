--------------------------- MODULE SandboxWorkers ---------------------------
(***************************************************************************)
(* The Workers of the research sandbox: a task that runs sandboxed is one  *)
(* container that the Controller creates, starts, watches and removes on   *)
(* behalf of a call of `run_researcher_task` in an API process.            *)
(*                                                                         *)
(*  - sandbox/manager.py   the call: create, start, poll, collect, stop;   *)
(*  - sandbox/controller.py  the Controller: every request is a thread of  *)
(*    its own and no lock orders them, so a `create` is cut at each Docker *)
(*    call another thread can see;                                         *)
(*  - sandbox/worker.py    the Worker: it runs its payload, writes a       *)
(*    sentinel and then waits to be stopped;                               *)
(*  - server.py            the reconcile of a starting API process;        *)
(*  - tasks/executor.py, tasks/teammate_pool.py, tasks/async_tools.py      *)
(*    the update, the cancel and the lost lease that end a call early.     *)
(*                                                                         *)
(* A call makes at most one container, so a container is named by the call *)
(* that created it: worker[c] is the container of c's create, with the     *)
(* labels task[c] and fence[c].  A payload is named by the call that built *)
(* it.  A stop is one step, from the signal to the removal.  Signatures,   *)
(* quotas, logs and archives are left out.                                 *)
(***************************************************************************)
EXTENDS Naturals, FiniteSets

CONSTANTS
  MaxCalls,      \* bound on the calls of run_researcher_task
  Tasks,         \* research tasks of one run
  Retention,     \* RuntimePolicy.retention: "remove" or "retain_stopped"
  MaximumTasks,  \* admission_report's maximum_tasks
  MaxEpoch,      \* bound on the fence tokens of the run
  Faults         \* which faults may happen (see the fault actions)

Calls == 1 .. MaxCalls
Nothing == 0          \* no call, no container, no payload, no resource
Empty == MaxCalls + 1 \* a volume without a payload

FaultKinds == {"docker", "rpc", "stop", "probe", "persist", "cancel",
               "controller", "api", "takeover", "overlap"}

ASSUME SandboxAssumption ==
  /\ MaxCalls \in Nat
  /\ "none" \notin Tasks  \* the task of a call that has not begun
  /\ Retention \in {"remove", "retain_stopped"}
  /\ MaximumTasks \in Nat \ {0}
  /\ MaxEpoch \in Nat \ {0}
  /\ Faults \subseteq FaultKinds

VARIABLES
  apiUp,     \* some API process serves the run
  epoch,     \* the fence token of the run's newest lease
  pc,        \* where each call is in run_researcher_task
  task,      \* the call's task (the label of the container it creates)
  fence,     \* the call's fence token (likewise)
  cid,       \* the container the create response named
  got,       \* the payload whose result the call collected
  why,       \* how the call ends
  thread,    \* where the Controller's thread of the call's create is
  resp,      \* the container its create answers with
  worker,    \* the containers
  seeds,     \* calls whose seed container exists
  net,       \* the network of a task's name: the call that created it
  vol,       \* the input volume of a task's name: whose payload it holds
  late       \* containers a start request may still reach after its call left

callVars == <<pc, task, fence, cid, got, why>>
threadVars == <<thread, resp>>
systemVars == <<apiUp, epoch>>
dockerVars == <<worker, seeds, net, vol>>
vars == <<apiUp, epoch, pc, task, fence, cid, got, why, thread, resp, worker, seeds,
          net, vol, late>>

-----------------------------------------------------------------------------
(* Containers.                                                             *)

Absent == [state |-> "absent", payload |-> Nothing, ready |-> FALSE, age |-> 0]

\* `status` of the containers admission counts and create may reuse.
Active(w) == worker[w].state \in {"created", "running"}
Running(w) == worker[w].state = "running"

WorkersOf(t) == {w \in Calls : worker[w].state # "absent" /\ task[w] = t}

\* Docker refuses to remove a network a running container is attached to.
Connected(n, ws) == n # Nothing /\ ws[n].state = "running"

\* Docker refuses to remove a volume some container mounts, running or not.
VolumeInUse(t, ws, ss) ==
  \E w \in Calls : task[w] = t /\ (ws[w].state # "absent" \/ w \in ss)

\* remove(force=True) of a volume by name, any error suppressed.
VolumesAfter(ts, ws, ss) ==
  [t \in Tasks |-> IF t \in ts /\ ~VolumeInUse(t, ws, ss) THEN Nothing
                                                          ELSE vol[t]]

\* _cleanup_removed_worker: the containers, and by name their network, volume.
\* A container that is gone already is not found, and nothing else is done.
Remove(S) ==
  LET left == [w \in Calls |-> IF w \in S THEN Absent ELSE worker[w]]
      names == {task[w] : w \in {v \in S : worker[v].state # "absent"}}
  IN  /\ worker' = left
      /\ net' = [t \in Tasks |-> IF t \in names /\ ~Connected(net[t], left)
                                  THEN Nothing ELSE net[t]]
      /\ vol' = VolumesAfter(names, left, seeds)
      /\ UNCHANGED seeds

\* Mutant: a status the Controller does not know.
Stopped_Dead(S) ==
  [w \in Calls |->
     IF w \in S /\ Running(w) THEN [worker[w] EXCEPT !.state = "dead"]
                              ELSE worker[w]]

\* TERM, grace, KILL: a container that is not running is left as it is.
Stopped(S) ==
  [w \in Calls |->
     IF w \in S /\ Running(w) THEN [worker[w] EXCEPT !.state = "exited"]
                              ELSE worker[w]]

\* _terminate with the profile's retention.
Terminate(S) ==
  IF Retention = "remove"
  THEN Remove(S)
  ELSE worker' = Stopped(S) /\ UNCHANGED <<seeds, net, vol>>

-----------------------------------------------------------------------------
TypeOK ==
  /\ apiUp \in BOOLEAN
  /\ epoch \in 1 .. MaxEpoch
  /\ pc \in [Calls -> {"idle", "creating", "persist", "start", "poll",
                       "collect", "archive", "stop", "undo", "undoStop",
                       "ended"}]
  /\ task \in [Calls -> Tasks \cup {"none"}]
  /\ fence \in [Calls -> 0 .. MaxEpoch]
  /\ cid \in [Calls -> Calls \cup {Nothing}]
  /\ got \in [Calls -> Calls \cup {Nothing}]
  /\ why \in [Calls -> {"none", "accepted", "failed", "updated", "cancelled",
                        "crashed"}]
  /\ thread \in [Calls -> {"none", "list", "admit", "clean", "make", "seed",
                           "fill", "attach", "answered", "refused", "dead"}]
  /\ resp \in [Calls -> Calls \cup {Nothing}]
  /\ worker \in [Calls -> [state : {"absent", "created", "running", "exited"},
                           payload : Calls \cup {Nothing},
                           ready : BOOLEAN, age : 0 .. 2]]
  /\ seeds \subseteq Calls
  /\ net \in [Tasks -> Calls \cup {Nothing}]
  /\ vol \in [Tasks -> Calls \cup {Nothing, Empty}]
  /\ late \subseteq Calls

Init ==
  /\ apiUp = TRUE
  /\ epoch = 1
  /\ pc = [c \in Calls |-> "idle"]
  /\ task = [c \in Calls |-> "none"]
  /\ fence = [c \in Calls |-> 0]
  /\ cid = [c \in Calls |-> Nothing]
  /\ got = [c \in Calls |-> Nothing]
  /\ why = [c \in Calls |-> "none"]
  /\ thread = [c \in Calls |-> "none"]
  /\ resp = [c \in Calls |-> Nothing]
  /\ worker = [c \in Calls |-> Absent]
  /\ seeds = {}
  /\ net = [t \in Tasks |-> Nothing]
  /\ vol = [t \in Tasks |-> Nothing]
  /\ late = {}

-----------------------------------------------------------------------------
(* The call: run_researcher_task.                                          *)

\* The thread of c's create is at work.
InFlight(c) == thread[c] \in {"list", "admit", "clean", "make", "seed", "fill",
                              "attach"}

Live(c) == pc[c] \notin {"idle", "ended"}

\* Unless "overlap" may happen, the Controller has finished or failed every
\* create of a task before the task is run again: a create takes seconds, a
\* restart or a lease that runs out takes longer.
\* The executor runs a task again in the same epoch only for an update, and a
\* later epoch runs it again whatever the earlier calls did.
MayBegin(c, t) ==
  /\ apiUp
  /\ pc[c] = "idle"
  /\ \A d \in Calls : pc[d] = "idle" => c <= d
  /\ \A d \in Calls : task[d] = t /\ fence[d] = epoch =>
       pc[d] = "ended" /\ why[d] = "updated"
  /\ "overlap" \in Faults \/ \A d \in Calls : task[d] = t => ~InFlight(d)

Begin(c, t) ==
  /\ MayBegin(c, t)
  /\ pc' = [pc EXCEPT ![c] = "creating"]
  /\ task' = [task EXCEPT ![c] = t]
  /\ fence' = [fence EXCEPT ![c] = epoch]
  /\ thread' = [thread EXCEPT ![c] = "list"]
  /\ UNCHANGED <<systemVars, cid, got, why, resp, dockerVars, late>>

\* A step of the call: where it goes, how it will end.
Goto(c, place, reason) ==
  /\ pc' = [pc EXCEPT ![c] = place]
  /\ why' = [why EXCEPT ![c] = reason]

\* The create answers: the container id is on the task record.  A call that
\* was cancelled meanwhile waited for the answer and stops the container.
CreateReturns(c) ==
  /\ thread[c] = "answered"
  /\ \/ pc[c] = "creating" /\ Goto(c, "persist", why[c])
     \/ pc[c] = "undo" /\ Goto(c, "undoStop", why[c])
  /\ cid' = [cid EXCEPT ![c] = resp[c]]
  /\ UNCHANGED <<systemVars, task, fence, got, threadVars, dockerVars, late>>

\* The create is refused, or its answer is lost while its thread goes on.
CreateRaises(c) ==
  /\ thread[c] \in {"refused", "dead"} \/ "rpc" \in Faults
  /\ \/ pc[c] = "creating" /\ Goto(c, "ended", "failed")
     \/ pc[c] = "undo" /\ Goto(c, "ended", why[c])
  /\ UNCHANGED <<systemVars, task, fence, cid, got, threadVars, dockerVars,
                 late>>

\* The task record with its container id is saved before the start.  The save
\* is outside the try whose finally stops the container.
Persist(c) ==
  /\ pc[c] = "persist"
  /\ \/ Goto(c, "start", why[c])
     \/ /\ "persist" \in Faults \/ fence[c] < epoch
        /\ Goto(c, "ended", "failed")
  /\ UNCHANGED <<systemVars, task, fence, cid, got, threadVars, dockerVars,
                 late>>

\* start: a created container starts, and reads what its volume then holds.
StartContainer(w) ==
  /\ worker[w].state = "created"
  /\ net[task[w]] # Nothing
  /\ worker' = [worker EXCEPT ![w] =
       [state |-> "running", ready |-> FALSE, age |-> 0,
        payload |-> IF vol[task[w]] \in Calls THEN vol[task[w]] ELSE Nothing]]
  /\ UNCHANGED <<seeds, net, vol>>

Start(c) ==
  /\ pc[c] = "start"
  /\ LET w == cid[c] IN
       \/ StartContainer(w) /\ Goto(c, "poll", why[c])
       \/ /\ worker[w].state \in {"running", "exited"}
          /\ Goto(c, "poll", why[c])
          /\ UNCHANGED dockerVars
       \/ /\ \/ worker[w].state = "absent"
             \/ worker[w].state = "created" /\ net[task[w]] = Nothing
             \/ "rpc" \in Faults
          /\ Goto(c, "stop", "failed")
          /\ UNCHANGED dockerVars
  /\ UNCHANGED <<systemVars, task, fence, cid, got, threadVars, late>>

\* _status of a Worker without a result: past its deadline it is terminated.
Expire(w) ==
  /\ Running(w) /\ ~worker[w].ready /\ worker[w].age >= 1
  /\ worker' = Stopped({w})
  /\ UNCHANGED <<seeds, net, vol>>

\* Mutant: only a result ends the polling, neither an exit nor the deadline.
Poll_ResultOnly(c) ==
  /\ pc[c] = "poll"
  /\ Running(cid[c]) /\ worker[cid[c]].ready
  /\ Goto(c, "collect", why[c])
  /\ UNCHANGED <<systemVars, task, fence, cid, got, threadVars, dockerVars,
                 late>>

\* A status that is terminal ends the polling; the caller has a deadline too.
Poll(c) ==
  /\ pc[c] = "poll"
  /\ LET w == cid[c] IN
       \/ /\ (Running(w) /\ worker[w].ready) \/ worker[w].state = "exited"
          /\ Goto(c, "collect", why[c])
          /\ UNCHANGED dockerVars
       \/ Expire(w) /\ Goto(c, "collect", why[c])
       \/ /\ \/ worker[w].state = "absent" \/ worker[w].age >= 1
             \/ "rpc" \in Faults
          /\ Goto(c, "stop", "failed")
          /\ UNCHANGED dockerVars
  /\ UNCHANGED <<systemVars, task, fence, cid, got, threadVars, late>>

\* The result is in a tmpfs: it is gone with the Worker's process.  A Worker
\* that failed, or found no payload, has written a failed result.
Collect(c) ==
  /\ pc[c] = "collect"
  /\ LET w == cid[c]
         readable == Running(w) /\ worker[w].ready IN
       \/ /\ readable \/ worker[w].state = "exited"
          /\ \E p \in {worker[w].payload, Nothing} :
               /\ ~readable => p = Nothing
               /\ got' = [got EXCEPT ![c] = p]
          /\ Goto(c, "archive", why[c])
       \/ /\ ~readable \/ "rpc" \in Faults
          /\ Goto(c, "stop", "failed")
          /\ UNCHANGED got
  /\ UNCHANGED <<systemVars, task, fence, cid, threadVars, dockerVars, late>>

\* The archive is read in the container too, then the outcome is known.
Archive(c) ==
  /\ pc[c] = "archive"
  /\ LET w == cid[c] IN
       \/ /\ Running(w) /\ worker[w].ready
          /\ Goto(c, "stop", IF got[c] = Nothing THEN "failed" ELSE "accepted")
       \/ /\ ~Running(w) \/ "rpc" \in Faults
          /\ Goto(c, "stop", "failed")
  /\ UNCHANGED <<systemVars, task, fence, cid, got, threadVars, dockerVars,
                 late>>

\* The finally: a stop that fails fails the call, except that the update and
\* the cancel do not look at how the call they cancelled ended.
Stop(c) ==
  /\ pc[c] = "stop"
  /\ \/ Terminate({cid[c]}) /\ Goto(c, "ended", why[c])
     \/ /\ "stop" \in Faults /\ worker[cid[c]].state # "absent"
        /\ Goto(c, "ended", IF why[c] = "accepted" THEN "failed" ELSE why[c])
        /\ UNCHANGED dockerVars
  /\ UNCHANGED <<systemVars, task, fence, cid, got, threadVars, late>>

\* The stop of a call cancelled while it was creating; an error is passed over.
UndoStop(c) ==
  /\ pc[c] = "undoStop"
  /\ Goto(c, "ended", why[c])
  /\ \/ Terminate({cid[c]})
     \/ "stop" \in Faults /\ UNCHANGED dockerVars
  /\ UNCHANGED <<systemVars, task, fence, cid, got, threadVars, late>>

\* An update, a cancelled task or a lost lease cancels the call where it waits.
\* The request it was waiting for still runs in the Controller.
CancelCall(c, reason) ==
  /\ Live(c) /\ why[c] = "none"
  /\ Goto(c, CASE pc[c] = "creating" -> "undo"
               [] pc[c] = "persist" -> "ended"
               [] OTHER -> "stop", reason)
  /\ late' = IF pc[c] = "start" THEN late \cup {cid[c]} ELSE late
  /\ UNCHANGED <<systemVars, task, fence, cid, got, threadVars, dockerVars>>

\* A second cancellation does not wait for the stop.
CancelAgain(c) ==
  /\ "cancel" \in Faults
  /\ pc[c] \in {"undo", "undoStop", "stop"}
  /\ Goto(c, "ended", IF why[c] = "accepted" THEN "cancelled" ELSE why[c])
  /\ UNCHANGED <<systemVars, task, fence, cid, got, threadVars, dockerVars,
                 late>>

\* CancelResearchTask and a pool that lost its lease stop the container on the
\* task record themselves.
StopRecord(c) ==
  /\ why[c] = "cancelled" /\ cid[c] # Nothing
  /\ worker[cid[c]].state # "absent"
  /\ Terminate({cid[c]})
  /\ UNCHANGED <<systemVars, callVars, threadVars, late>>

-----------------------------------------------------------------------------
(* The Controller: the thread of a create.                                 *)

At(c, place) == thread[c] = place
Go(c, place) == thread' = [thread EXCEPT ![c] = place]

Answer(c, w) ==
  /\ Go(c, "answered")
  /\ resp' = [resp EXCEPT ![c] = w]

createRest == <<systemVars, callVars, late>>

\* Mutant: a newer epoch's container is replaced like any other.
Stale_Never(c, w) == FALSE

\* _existing_container_disposition for one listed container of the task.
Stale(c, w) == fence[w] > fence[c]
\* Mutant: an active container of an earlier epoch is reused.
Reusable_AnyEpoch(c, w) == fence[w] <= fence[c] /\ Active(w)

Reusable(c, w) == fence[w] = fence[c] /\ Active(w)

CreateList(c) ==
  /\ At(c, "list")
  /\ \/ /\ WorkersOf(task[c]) = {}
        /\ Go(c, "admit")
        /\ UNCHANGED <<resp, dockerVars>>
     \/ \E w \in WorkersOf(task[c]) :
          \/ /\ Stale(c, w)
             /\ Go(c, "refused")
             /\ UNCHANGED <<resp, dockerVars>>
          \/ /\ Reusable(c, w)
             /\ Answer(c, w)
             /\ UNCHANGED dockerVars
          \/ /\ ~Stale(c, w) /\ ~Reusable(c, w)
             /\ Remove({w})
             /\ UNCHANGED threadVars
          \/ /\ ~Stale(c, w) /\ ~Reusable(c, w) /\ "stop" \in Faults
             /\ Go(c, "refused")
             /\ UNCHANGED <<resp, dockerVars>>
  /\ UNCHANGED createRest

CreateAdmit(c) ==
  /\ At(c, "admit")
  /\ IF Cardinality({w \in Calls : Active(w)}) < MaximumTasks
     THEN Go(c, "clean") ELSE Go(c, "refused")
  /\ UNCHANGED <<createRest, resp, dockerVars>>

\* Resources of the task's names are taken for leftovers of a crash: the
\* network goes whoever made it, a volume only if no container mounts it.
CreateClean(c) ==
  /\ At(c, "clean")
  /\ net' = [net EXCEPT ![task[c]] = Nothing]
  /\ vol' = VolumesAfter({task[c]}, worker, seeds)
  /\ IF vol'[task[c]] = Nothing THEN Go(c, "make") ELSE Go(c, "refused")
  /\ UNCHANGED <<createRest, resp, worker, seeds>>

\* check_duplicate refuses a second network of the name; a volume of the name
\* is returned as it is.
CreateMake(c) ==
  /\ At(c, "make")
  /\ IF net[task[c]] = Nothing
     THEN /\ net' = [net EXCEPT ![task[c]] = c]
          /\ vol' = [vol EXCEPT ![task[c]] = IF @ = Nothing THEN Empty ELSE @]
          /\ Go(c, "seed")
     ELSE Go(c, "refused") /\ UNCHANGED <<net, vol>>
  /\ UNCHANGED <<createRest, resp, worker, seeds>>

\* Mounting a volume that is gone makes an empty one.
CreateSeed(c) ==
  /\ At(c, "seed")
  /\ seeds' = seeds \cup {c}
  /\ vol' = [vol EXCEPT ![task[c]] = IF @ = Nothing THEN Empty ELSE @]
  /\ Go(c, "fill")
  /\ UNCHANGED <<createRest, resp, worker, net>>

\* Mutant: a failed create leaves its network.
CleanUp_KeepsNetwork(c) ==
  /\ seeds' = seeds \ {c}
  /\ vol' = VolumesAfter({task[c]}, worker, seeds \ {c})
  /\ Go(c, "refused")
  /\ UNCHANGED <<createRest, resp, worker, net>>

\* The except clause: the seed, the network object, the volume by its name.
CleanUp(c) ==
  /\ seeds' = seeds \ {c}
  /\ net' = [net EXCEPT ![task[c]] = IF @ = c THEN Nothing ELSE @]
  /\ vol' = VolumesAfter({task[c]}, worker, seeds \ {c})
  /\ Go(c, "refused")
  /\ UNCHANGED <<createRest, resp, worker>>

\* The payload goes into whatever volume bears the name, through a seed that a
\* reconcile may have removed.
CreateFill(c) ==
  /\ At(c, "fill")
  /\ IF c \in seeds
     THEN /\ vol' = [vol EXCEPT ![task[c]] = c]
          /\ seeds' = seeds \ {c}
          /\ Go(c, "attach")
          /\ UNCHANGED <<createRest, resp, worker, net>>
     ELSE CleanUp(c)

\* The gateway joins the network this thread made, then the Worker is created.
CreateAttach(c) ==
  /\ At(c, "attach")
  /\ IF net[task[c]] = c
     THEN /\ worker' = [worker EXCEPT ![c].state = "created"]
          /\ vol' = [vol EXCEPT ![task[c]] = IF @ = Nothing THEN Empty ELSE @]
          /\ Answer(c, c)
          /\ UNCHANGED <<createRest, seeds, net>>
     ELSE CleanUp(c)

CreateFails(c) ==
  /\ "docker" \in Faults
  /\ thread[c] \in {"seed", "fill", "attach"}
  /\ CleanUp(c)

\* A start request whose caller is gone.
LateStart(w) ==
  /\ w \in late
  /\ late' = late \ {w}
  /\ StartContainer(w) \/ UNCHANGED dockerVars
  /\ UNCHANGED <<systemVars, callVars, threadVars>>

\* The threads die with the process and nothing of theirs is cleaned.
ControllerCrash ==
  /\ "controller" \in Faults
  /\ thread' = [c \in Calls |-> IF InFlight(c) THEN "dead" ELSE thread[c]]
  /\ late' = {}
  /\ thread' # thread
  /\ UNCHANGED <<systemVars, callVars, resp, dockerVars>>

-----------------------------------------------------------------------------
(* The Worker, its deadline and the watchdog.                              *)

\* The sentinel is written once the result is; the process stays.
Finish(w) ==
  /\ Running(w) /\ ~worker[w].ready
  /\ worker' = [worker EXCEPT ![w].ready = TRUE]
  /\ UNCHANGED <<systemVars, callVars, threadVars, seeds, net, vol, late>>

\* age 1: the deadline of the task; age 2: a minute later.
Tick(w) ==
  /\ worker[w].state # "absent" /\ worker[w].age < 2
  /\ worker' = [worker EXCEPT ![w].age = @ + 1]
  /\ UNCHANGED <<systemVars, callVars, threadVars, seeds, net, vol, late>>

\* Mutant: what does not run is left to its caller.
Sweep_RunningOnly(w) ==
  /\ Expire(w)
  /\ UNCHANGED <<systemVars, callVars, threadVars, late>>

\* sweep_expired for one container: a Worker with a result is not looked at
\* further; another is stopped at its deadline and removed a minute later.
Sweep(w) ==
  /\ \/ Expire(w) /\ worker[w].age = 1
     \/ /\ worker[w].state # "absent" /\ worker[w].age = 2
        /\ ~(Running(w) /\ worker[w].ready)
        /\ Running(w) \/ Retention = "remove"
        /\ Terminate({w})
  /\ UNCHANGED <<systemVars, callVars, threadVars, late>>

\* The probe of the sentinel times out or reads nonsense.
ProbeFails(w) ==
  /\ "probe" \in Faults
  /\ Running(w)
  /\ worker' = Stopped({w})
  /\ UNCHANGED <<systemVars, callVars, threadVars, seeds, net, vol, late>>

-----------------------------------------------------------------------------
(* The API processes.                                                      *)

ApiCrash ==
  /\ "api" \in Faults
  /\ apiUp
  /\ apiUp' = FALSE
  /\ pc' = [c \in Calls |-> IF Live(c) THEN "ended" ELSE pc[c]]
  /\ why' = [c \in Calls |-> IF Live(c) THEN "crashed" ELSE why[c]]
  /\ late' = late \cup {cid[c] : c \in {d \in Calls : pc[d] = "start"}}
  /\ UNCHANGED <<epoch, task, fence, cid, got, threadVars, dockerVars>>

\* reconcile_tasks([]) of a starting process, before its recovery takes the
\* run's lease: no Worker, seed, network or volume is owned by anyone.
ApiStart ==
  /\ ~apiUp /\ epoch < MaxEpoch
  /\ apiUp' = TRUE
  /\ epoch' = epoch + 1
  /\ LET left == IF Retention = "remove" THEN [w \in Calls |-> Absent]
                                         ELSE Stopped(Calls) IN
       /\ worker' = left
       /\ seeds' = {}
       /\ net' = [t \in Tasks |-> Nothing]
       /\ vol' = VolumesAfter(Tasks, left, {})
  /\ UNCHANGED <<callVars, threadVars, late>>

\* Another process takes the run's lease; the calls of the old one go on.
Takeover ==
  /\ "takeover" \in Faults
  /\ apiUp /\ epoch < MaxEpoch
  /\ epoch' = epoch + 1
  /\ UNCHANGED <<apiUp, callVars, threadVars, dockerVars, late>>

-----------------------------------------------------------------------------
CreateThread(c) ==
  \/ CreateList(c) \/ CreateAdmit(c) \/ CreateClean(c) \/ CreateMake(c)
  \/ CreateSeed(c) \/ CreateFill(c) \/ CreateAttach(c)

CallStep(c) ==
  \/ CreateReturns(c) \/ CreateRaises(c) \/ Persist(c) \/ Start(c) \/ Poll(c)
  \/ Collect(c) \/ Archive(c) \/ Stop(c) \/ UndoStop(c)

Next ==
  \/ \E c \in Calls :
       \/ \E t \in Tasks : Begin(c, t)
       \/ CallStep(c)
       \/ \E reason \in {"updated", "cancelled"} : CancelCall(c, reason)
       \/ CancelAgain(c) \/ StopRecord(c)
       \/ CreateThread(c) \/ CreateFails(c) \/ LateStart(c)
       \/ Finish(c) \/ Tick(c) \/ Sweep(c) \/ ProbeFails(c)
  \/ ControllerCrash \/ ApiCrash \/ ApiStart \/ Takeover

Spec == Init /\ [][Next]_vars

\* The event loop and the threads run, time passes and the watchdog sweeps; no
\* fairness for the Worker, for a process that starts or for any fault.
Fairness ==
  \A c \in Calls :
    /\ WF_vars(CallStep(c))
    /\ WF_vars(CreateThread(c))
    /\ WF_vars(Tick(c))
    /\ WF_vars(Sweep(c))

FairSpec == Spec /\ Fairness

-----------------------------------------------------------------------------
(* Safety.  Two creates of a task that overlap in the Controller may make  *)
(* an earlier epoch's result acceptable, and three of them two containers; *)
(* the other properties hold whatever overlaps.                            *)

Present(w) == worker[w].state # "absent"

\* A result a call returns was computed from a payload of its own epoch, never
\* from what an earlier leader asked for (`_existing_container_disposition`).
AcceptedOfOwnEpoch ==
  \A c \in Calls : why[c] = "accepted" => fence[got[c]] = fence[c]

\* A network is there for the create that made it, at work or cut short by a
\* crash, or for its container: a create that fails and a container that is
\* removed leave none behind (`create`, its except clause; `_terminate`).
NetworksHaveUsers ==
  \A t \in Tasks : net[t] # Nothing =>
    LET n == net[t] IN
      /\ task[n] = t
      /\ InFlight(n) \/ thread[n] = "dead" \/ Present(n)

\* The call of the newest epoch that nobody cancelled, using container w.
Using(c, w) ==
  /\ cid[c] = w /\ why[c] = "none" /\ fence[c] = epoch
  /\ pc[c] \in {"persist", "start", "poll", "collect", "archive"}

\* Before its deadline nobody removes or stops the container of such a call,
\* but for a status request that cannot read its sentinel: not an earlier
\* epoch's create or stop, not a request that comes late, not a reconcile.
NewestKeepsWorker ==
  [][\A c, w \in Calls :
       /\ Using(c, w) /\ Using(c, w)' /\ worker[w].age = 0
       /\ worker[w].state \in {"created", "running"}
       => \/ worker'[w].state \in {"created", "running"}
          \/ ProbeFails(w)]_vars

\* The leftovers a create removes are nobody's: the network it takes down was
\* not made by a create that is still at work, nor is it a container's.
CleansOrphansOnly ==
  [][\A c \in Calls : At(c, "clean") /\ ~At(c, "clean")' =>
       LET n == net[task[c]] IN n # Nothing => ~InFlight(n) /\ ~Present(n)]_vars

\* The result of a call comes from the payload the call built: the instruction
\* an update added is in it.
AcceptedOfOwnPayload == \A c \in Calls : why[c] = "accepted" => got[c] = c

\* No more containers than the memory of the host was sized for.
WithinMemory == Cardinality({w \in Calls : Active(w)}) <= MaximumTasks

\* What a crash left of a create does not stop the next create of the task.
LeftoversNoObstacle ==
  [][\A c \in Calls : At(c, "clean") /\ At(c, "refused")' =>
       \E d \in Calls \ {c} : task[d] = task[c] /\ (InFlight(d) \/ Present(d))]_vars

-----------------------------------------------------------------------------
(* Liveness.                                                               *)

\* Every call ends, whatever the Worker does.
CallsEnd == \A c \in Calls : pc[c] = "creating" ~> pc[c] = "ended"

\* A container without a result is removed even if no API process is left.
UnfinishedGo ==
  \A w \in Calls : (Present(w) /\ ~worker[w].ready)
                     ~> (~Present(w) \/ worker[w].ready)

\* A container nobody waits for is stopped even if no API process is left.
AbandonedStop ==
  \A w \in Calls : (Running(w) /\ ~apiUp) ~> (~Running(w) \/ apiUp)

=============================================================================
