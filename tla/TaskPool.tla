------------------------------- MODULE TaskPool -------------------------------
(***************************************************************************)
(* Asynchronous research tasks of one run: the supervisor's tools that     *)
(* start and cancel them (tasks/async_tools.py), the teammate pool that    *)
(* hands them to teammates through their mailboxes (tasks/teammate_pool),  *)
(* the executor that runs one (tasks/executor.py), and the files that      *)
(* outlive the process: snapshots, checkpoints, results and inboxes.       *)
(*                                                                         *)
(* One event loop runs everything, so an action is what happens between    *)
(* two awaits together with the file operation awaited; steps of one       *)
(* coroutine with only team.json or a private read between them are one.   *)
(* A snapshot is read from its record and written in one step.  The run    *)
(* has one pool at a time, which holds the lease: LeaderLease is about two.*)
(***************************************************************************)
EXTENDS Naturals, FiniteSets

CONSTANTS
  MaxTasks,      \* tasks the supervisor ever starts
  MaxMates,      \* max_persistent_teammates
  MaxInFlight,   \* max_in_flight_tasks
  MaxFaults,     \* cancellations, crashes and ends of the run, together
  MaxLoad,       \* those and the tasks that were started, together
  MaxCarried,    \* teammates a resumed run may have had before
  MaxDelivery    \* max_delivery_attempts of the mailbox

ASSUME TaskPoolAssumption ==
  /\ {MaxTasks, MaxMates, MaxInFlight, MaxDelivery} \subseteq Nat \ {0}
  /\ {MaxFaults, MaxLoad, MaxCarried} \subseteq Nat

INSTANCE Mailbox

Tasks == 1 .. MaxTasks
Mates == 1 .. MaxMates
Boots == 1 .. MaxFaults + 1
None  == 0
Lead  == MaxMates + 1     \* the caller of submit() and start()

VARIABLES
  reg,      \* registry: task -> its TaskRecord, in memory
  loops,    \* team.json and _runtimes: teammate -> where its _worker_loop is
  desc,     \* teammate -> status and current task of its descriptor
  exec,     \* teammate -> the task it executes, and where the executor is
  disp,     \* the dispatch that holds _dispatch_lock
  lead,     \* the supervisor's tool call, or the start or end of the pool
  snap,     \* tasks/<id>.json: task -> its TaskSnapshot
  ckpt,     \* tasks with a file in checkpoints/
  stored,   \* tasks with a result in artifacts/research_tasks/
  inbox,    \* teammate -> its mailbox
  posted,   \* teammate -> the file order of the open messages of its mailbox
  boots,    \* the process or pool that runs, counted
  faults    \* cancellations, crashes and ends so far

memory  == <<reg, loops, desc, exec, disp, lead>>
durable == <<snap, ckpt, stored, inbox, posted>>
vars    == <<memory, durable, boots, faults>>

(***************************************************************************)
(* Records                                                                 *)
(***************************************************************************)
Terminal   == {"completed", "failed", "cancelled"}
TaskStatus == {"absent", "pending", "running"} \cup Terminal

NoRecord     == [status |-> "absent", mate |-> None, attempt |-> 0, cancelled |-> FALSE]
PendingRecord(n) == [status |-> "pending", mate |-> None, attempt |-> n, cancelled |-> FALSE]
CompletedRecord(m) == [status |-> "completed", mate |-> m, attempt |-> 0, cancelled |-> FALSE]
NoSnapshot   == [status |-> "absent", mate |-> None, attempt |-> 0]

Idle       == [status |-> "idle", task |-> None]
NoExecutor == [task |-> None, pc |-> "none"]
NoDispatch == [by |-> None, todo |-> {}, task |-> None]
At(pc, t)  == [pc |-> pc, task |-> t]

Assignment(t, n)  == <<"task_assignment", t, n>>
CancelRequest(t)  == <<"cancel_request", t, 0>>
ShutdownRequest   == <<"shutdown_request", None, 0>>
Messages ==
  {Assignment(t, n) : t \in Tasks, n \in Boots}
    \cup {CancelRequest(t) : t \in Tasks} \cup {ShutdownRequest}

ActiveStatus == {"pending", "running"}
ActiveRecords == {t \in Tasks : reg[t].status \in ActiveStatus}
OpenSnapshots == {t \in Tasks : snap[t].status \in ActiveStatus}

(***************************************************************************)
(* Files                                                                   *)
(***************************************************************************)
\* _upsert_sync: a terminal snapshot keeps its status.
Refused(s, r) == s.status \in Terminal /\ r.status # s.status
Upserted(s, r) ==
  IF Refused(s, r) THEN s
  ELSE [status |-> r.status, mate |-> r.mate, attempt |-> r.attempt]
WriteSnapshot(t) == snap' = [snap EXCEPT ![t] = Upserted(@, reg'[t])]

\* The file order, as the pairs of a message and one that comes after it.
OpenMail(m)     == {msg \in Messages : inbox[m][msg].status \notin {"absent", "acked"}}
Appended(m, msg) == posted[m] \cup (OpenMail(m) \X {msg})
Before(m, x, y) == <<x, y>> \in posted[m]

\* ack(): nothing reads the order of acknowledged messages again.
Acknowledge(m, box, msgs) ==
  /\ inbox' = [inbox EXCEPT ![m] = Acked(box, msgs)]
  /\ posted' = [posted EXCEPT ![m] = {p \in @ : p[1] \notin msgs /\ p[2] \notin msgs}]

\* mailbox.send(): the dedupe key is the message itself.
Send(m, msg) ==
  /\ inbox' = [inbox EXCEPT ![m] = Sent(@, msg)]
  /\ posted' = [posted EXCEPT ![m] =
                  IF inbox[m][msg].status = "absent" THEN Appended(m, msg) ELSE @]

\* What teammate m claimed in this process and has not acknowledged.
Held(m, msg) == inbox[m][msg].status = "processing" /\ inbox[m][msg].owner = boots

(***************************************************************************)
(* Start and state                                                         *)
(***************************************************************************)
\* Runtimes: teammates in _runtimes, in the order they were created.
Runtimes == {m \in Mates : loops[m] \notin {"unborn", "off"}}
Unborn   == {m \in Mates : loops[m] = "unborn"}
First(S) == CHOOSE x \in S : \A y \in S : x <= y

\* Bounds: what may still be disturbed, and what may still be started.
Unused     == {t \in Tasks : reg[t].status = "absent" /\ snap[t].status = "absent"}
LoadLeft   == Cardinality(Tasks \ Unused) + faults < MaxLoad
FaultsLeft == faults < MaxFaults /\ LoadLeft

Init ==
  /\ reg = [t \in Tasks |-> NoRecord]
  /\ loops = [m \in Mates |-> "unborn"]
  /\ desc = [m \in Mates |-> Idle]
  /\ exec = [m \in Mates |-> NoExecutor]
  /\ disp = NoDispatch
  /\ lead = At("ready", None)
  /\ snap = [t \in Tasks |-> NoSnapshot]
  /\ ckpt = {} /\ stored = {}
  /\ inbox = [m \in Mates |-> [msg \in Messages |-> Absent]]
  /\ posted = [m \in Mates |-> {}]
  /\ boots = 1 /\ faults = 0

(***************************************************************************)
(* The supervisor's tools.  They change state one call at a time: neither  *)
(* StartResearchTask nor CancelResearchTask is concurrency_safe.           *)
(***************************************************************************)
\* handle_start_research_task(), up to the record it creates: the larger of
\* both counts is below the limit, and the id is a new one.
StartResearchTask ==
  /\ lead.pc = "ready"
  /\ Unused # {} /\ LoadLeft
  /\ Cardinality(ActiveRecords) < MaxInFlight
  /\ Cardinality(OpenSnapshots) < MaxInFlight
  /\ reg' = [reg EXCEPT ![First(Unused)] = PendingRecord(0)]
  /\ lead' = At("created", First(Unused))
  /\ UNCHANGED <<loops, desc, exec, disp, durable, boots, faults>>

\* The snapshot it and submit() write, before submit() dispatches.
Submit ==
  /\ lead.pc = "created"
  /\ UNCHANGED reg
  /\ WriteSnapshot(lead.task)
  /\ lead' = At("dispatch", None)
  /\ UNCHANGED <<loops, desc, exec, disp, ckpt, stored, inbox, posted, boots, faults>>

\* handle_cancel_research_task() up to send_control(), which raises for a task
\* no teammate was given.  Bound: one call for a task.
CancelResearchTask(t) ==
  /\ lead.pc = "ready"
  /\ FaultsLeft
  /\ reg[t].status \in ActiveStatus
  /\ reg[t].mate # None
  /\ \A m \in Mates : inbox[m][CancelRequest(t)].status = "absent"
  /\ Send(reg[t].mate, CancelRequest(t))
  /\ lead' = At("cancelling", t)
  /\ faults' = faults + 1
  /\ UNCHANGED <<reg, loops, desc, exec, disp, snap, ckpt, stored, boots>>

\* The record is cancelled, whatever it has become meanwhile ...
RecordCancel ==
  /\ lead.pc = "cancelling"
  /\ reg' = [reg EXCEPT ![lead.task].status = "cancelled"]
  /\ lead' = [lead EXCEPT !.pc = "cancelled"]
  /\ UNCHANGED <<loops, desc, exec, disp, durable, boots, faults>>

\* ... and what it is by then is written.
SaveCancel ==
  /\ lead.pc = "cancelled"
  /\ UNCHANGED reg
  /\ WriteSnapshot(lead.task)
  /\ lead' = At("ready", None)
  /\ UNCHANGED <<loops, desc, exec, disp, ckpt, stored, inbox, posted, boots, faults>>

(***************************************************************************)
(* _dispatch_pending(), called by submit(), start() and worker loops       *)
(***************************************************************************)
IdleRuntimes == {m \in Runtimes : desc[m].status = "idle"}

Given(r, m) ==
  [status |-> r.status, mate |-> m, attempt |-> r.attempt + 1, cancelled |-> r.cancelled]

\* A record goes to the first idle teammate or to a new one, and its snapshot
\* says so before the message is sent.  A restart lists records in directory
\* order: any of the list may be next.
Reserve(c, todo) ==
  \E t \in todo :
    LET m == IF IdleRuntimes # {} THEN First(IdleRuntimes) ELSE First(Unborn) IN
      /\ reg' = [reg EXCEPT ![t] = Given(@, m)]
      /\ desc' = [desc EXCEPT ![m] = [status |-> "reserved", task |-> t]]
      /\ loops' = [loops EXCEPT ![m] = IF @ = "unborn" THEN "poll" ELSE @]
      /\ WriteSnapshot(t)
      /\ disp' = [by |-> c, task |-> t, todo |-> todo \ {t}]
      /\ UNCHANGED lead

\* The list is done, or nobody is free for the next one: the caller goes on.
Release(c) ==
  /\ disp' = NoDispatch
  /\ IF c = Lead
       THEN lead' = At("ready", None) /\ UNCHANGED loops
       ELSE loops' = [loops EXCEPT ![c] = "poll"] /\ UNCHANGED lead
  /\ UNCHANGED <<reg, desc, snap>>

GoOn(c, todo) ==
  IF todo = {} \/ IdleRuntimes \cup Unborn = {} THEN Release(c) ELSE Reserve(c, todo)

Waiting(c) == IF c = Lead THEN lead.pc = "dispatch" ELSE loops[c] = "dispatch"

\* Mutant: records that have a teammate are listed too.
AcquireLock_Again ==
  /\ disp = NoDispatch
  /\ \E c \in Mates \cup {Lead} :
       /\ Waiting(c)
       /\ GoOn(c, {t \in Tasks : reg[t].status = "pending"})
  /\ UNCHANGED <<exec, ckpt, stored, inbox, posted, boots, faults>>

\* The lock is taken and the pending records are listed.
AcquireLock ==
  /\ disp = NoDispatch
  /\ \E c \in Mates \cup {Lead} :
       /\ Waiting(c)
       /\ GoOn(c, {t \in Tasks : reg[t].status = "pending" /\ reg[t].mate = None})
  /\ UNCHANGED <<exec, ckpt, stored, inbox, posted, boots, faults>>

SendAssignment ==
  /\ disp # NoDispatch
  /\ LET r == reg[disp.task] IN Send(r.mate, Assignment(disp.task, r.attempt))
  /\ GoOn(disp.by, disp.todo)
  /\ UNCHANGED <<exec, ckpt, stored, boots, faults>>

(***************************************************************************)
(* _worker_loop() of teammate m                                            *)
(***************************************************************************)
Kind(msg)   == msg[1]
TaskOf(msg) == msg[2]

\* claim() returns requests before assignments, each in file order.
IsRequest(msg)  == Kind(msg) # "task_assignment"

Cancelling(msgs) == {TaskOf(msg) : msg \in {x \in msgs : Kind(x) = "cancel_request"}}

\* record.cancelled.set() for the tasks this process knows.
Flag(ts) == reg' = [t \in Tasks |-> IF t \in ts /\ reg[t].status # "absent"
                                      THEN [reg[t] EXCEPT !.cancelled = TRUE] ELSE reg[t]]

\* Assignments that start an executor.
Startable(msg) == Kind(msg) = "task_assignment" /\ reg[TaskOf(msg)].status = "pending"

\* claim() and the handling of its messages.  The first assignment of a pending
\* task is taken if nothing is being executed; every other one is dropped.
Take(m) ==
  /\ loops[m] = "poll"
  /\ Claimable(inbox[m]) # {}
  /\ ShutdownRequest \notin Claimable(inbox[m])
  /\ inbox' = [inbox EXCEPT ![m] = Claimed(@, boots)]
  /\ Flag(Cancelling(Claimable(inbox[m])))
  /\ LET start == {msg \in Claimable(inbox[m]) : Startable(msg)} IN
       \/ /\ exec[m] = NoExecutor
          /\ \E first \in start :
               /\ \A msg \in start \ {first} : Before(m, first, msg)
               /\ desc' = [desc EXCEPT ![m] = [status |-> "busy", task |-> TaskOf(first)]]
          /\ loops' = [loops EXCEPT ![m] = "opening"]
       \/ /\ exec[m] # NoExecutor \/ start = {}
          /\ loops' = [loops EXCEPT ![m] = "acking"]
          /\ UNCHANGED desc
  /\ UNCHANGED <<exec, disp, lead, snap, ckpt, stored, posted, boots, faults>>

\* The executor is created once team.json is written.
Open(m) ==
  /\ loops[m] = "opening"
  /\ exec' = [exec EXCEPT ![m] = [task |-> desc[m].task, pc |-> "created"]]
  /\ loops' = [loops EXCEPT ![m] = "acking"]
  /\ UNCHANGED <<reg, desc, disp, lead, durable, boots, faults>>

\* Mutant: what arrived since the claim is acknowledged too.
Ack_Pending(m) ==
  /\ loops[m] = "acking"
  /\ Acknowledge(m, inbox[m], {msg \in Messages :
                                 Held(m, msg) \/ inbox[m][msg].status = "pending"})
  /\ loops' = [loops EXCEPT ![m] = "poll"]
  /\ UNCHANGED <<reg, desc, exec, disp, lead, snap, ckpt, stored, boots, faults>>

\* All that was claimed is acknowledged, dropped or not.
Ack(m) ==
  /\ loops[m] = "acking"
  /\ Acknowledge(m, inbox[m], {msg \in Messages : Held(m, msg)})
  /\ loops' = [loops EXCEPT ![m] = "poll"]
  /\ UNCHANGED <<reg, desc, exec, disp, lead, snap, ckpt, stored, boots, faults>>

\* A shutdown_request: what comes before it is handled, those and itself are
\* acknowledged, the executor is cancelled and the loop returns.
Leave(m) ==
  /\ loops[m] = "poll"
  /\ ShutdownRequest \in Claimable(inbox[m])
  /\ LET before == {ShutdownRequest} \cup
                   {msg \in Claimable(inbox[m]) :
                      IsRequest(msg) /\ Before(m, msg, ShutdownRequest)}
     IN Flag(Cancelling(before)) /\ Acknowledge(m, Claimed(inbox[m], boots), before)
  /\ exec' = [exec EXCEPT ![m] = NoExecutor]
  /\ loops' = [loops EXCEPT ![m] = "gone"]
  /\ UNCHANGED <<desc, disp, lead, snap, ckpt, stored, boots, faults>>

\* Mutant: an idle teammate waits for mail and does not look for work.
Reap_NoDispatch(m) ==
  /\ loops[m] = "poll"
  /\ exec[m].pc = "done"
  /\ exec' = [exec EXCEPT ![m] = NoExecutor]
  /\ desc' = [desc EXCEPT ![m] = Idle]
  /\ UNCHANGED <<reg, loops, disp, lead, durable, boots, faults>>

\* The executor has ended: the teammate is idle and looks for work.
Reap(m) ==
  /\ loops[m] = "poll"
  /\ exec[m].pc = "done"
  /\ exec' = [exec EXCEPT ![m] = NoExecutor]
  /\ desc' = [desc EXCEPT ![m] = Idle]
  /\ loops' = [loops EXCEPT ![m] = "dispatch"]
  /\ UNCHANGED <<reg, disp, lead, durable, boots, faults>>

(***************************************************************************)
(* run_task_with_control(), executed for teammate m.  Instructions, which  *)
(* restart the research, are left out; "failed" stands for timed_out too.  *)
(***************************************************************************)
Doing(m, pc) == exec[m].pc = pc
Moved(m, pc) == [exec EXCEPT ![m].pc = pc]
SetStatus(m, status) == reg' = [reg EXCEPT ![exec[m].task].status = status]

\* RUNNING, whatever the record has become since it was found pending, and
\* TASK_STARTED with its snapshot.
Begin(m) ==
  /\ Doing(m, "created")
  /\ SetStatus(m, "running")
  /\ WriteSnapshot(exec[m].task)
  /\ exec' = Moved(m, "saving")
  /\ UNCHANGED <<loops, desc, disp, lead, ckpt, stored, inbox, posted, boots, faults>>

\* _save_checkpoint(): the checkpoint and, with CHECKPOINT_SAVED, the snapshot.
SaveCheckpoint(m) ==
  /\ UNCHANGED reg
  /\ ckpt' = ckpt \cup {exec[m].task}
  /\ WriteSnapshot(exec[m].task)

\* The top of the loop: a task cancelled before it began only saves.
FirstCheckpoint(m) ==
  /\ Doing(m, "saving")
  /\ SaveCheckpoint(m)
  /\ exec' = Moved(m, IF reg[exec[m].task].cancelled THEN "done" ELSE "researching")
  /\ UNCHANGED <<loops, desc, disp, lead, stored, inbox, posted, boots, faults>>

\* _save_query_state(), called from the research at every turn.
Checkpoint(m) ==
  /\ Doing(m, "researching")
  /\ SaveCheckpoint(m)
  /\ UNCHANGED <<loops, desc, exec, disp, lead, stored, inbox, posted, boots, faults>>

\* cancelled is set: the research is given up and the record left as it is.
GiveUp(m) ==
  /\ Doing(m, "researching")
  /\ reg[exec[m].task].cancelled
  /\ SaveCheckpoint(m)
  /\ exec' = Moved(m, "done")
  /\ UNCHANGED <<loops, desc, disp, lead, stored, inbox, posted, boots, faults>>

\* Mutant: the task is reported completed before its result is written.
Finish_ReportFirst(m) ==
  /\ Doing(m, "researching")
  /\ ~reg[exec[m].task].cancelled
  /\ SetStatus(m, "completed")
  /\ WriteSnapshot(exec[m].task)
  /\ ckpt' = ckpt \ {exec[m].task}
  /\ exec' = Moved(m, "ending")
  /\ UNCHANGED <<loops, desc, disp, lead, stored, inbox, posted, boots, faults>>

\* Success: nothing is awaited from the record's status to the checkpoint.
Finish(m) ==
  /\ Doing(m, "researching")
  /\ ~reg[exec[m].task].cancelled
  /\ SetStatus(m, "completed")
  /\ stored' = stored \cup {exec[m].task}
  /\ ckpt' = ckpt \ {exec[m].task}
  /\ exec' = Moved(m, "ending")
  /\ UNCHANGED <<loops, desc, disp, lead, snap, inbox, posted, boots, faults>>

\* Mutant: a failed task deletes its checkpoint as a completed one does.
Fail_DropsCheckpoint(m) ==
  /\ Doing(m, "researching")
  /\ SetStatus(m, "failed")
  /\ ckpt' = ckpt \ {exec[m].task}
  /\ exec' = Moved(m, "ending")
  /\ UNCHANGED <<loops, desc, disp, lead, snap, stored, inbox, posted, boots, faults>>

\* The research raised or exceeded task_timeout_seconds.
Fail(m) ==
  /\ Doing(m, "researching")
  /\ SetStatus(m, "failed")
  /\ ckpt' = ckpt \cup {exec[m].task}
  /\ exec' = Moved(m, "ending")
  /\ UNCHANGED <<loops, desc, disp, lead, snap, stored, inbox, posted, boots, faults>>

ReportEnd(m) ==
  /\ Doing(m, "ending")
  /\ UNCHANGED reg
  /\ WriteSnapshot(exec[m].task)
  /\ exec' = Moved(m, "done")
  /\ UNCHANGED <<loops, desc, disp, lead, ckpt, stored, inbox, posted, boots, faults>>

(***************************************************************************)
(* The end of the run: shutdown() and finalize_interrupted_task_snapshots  *)
(***************************************************************************)
\* cancelled is set for the task of every descriptor and the executors are
\* cancelled: they end where they are.  Bound: a run that was resumed after its
\* end does not end again.
BeginShutdown ==
  /\ lead.pc = "ready"
  /\ FaultsLeft
  /\ \A m \in Mates : inbox[m][ShutdownRequest].status = "absent"
  /\ faults' = faults + 1
  /\ Flag({desc[m].task : m \in Runtimes})
  /\ exec' = [m \in Mates |-> IF exec[m] = NoExecutor THEN NoExecutor ELSE Moved(m, "done")[m]]
  /\ lead' = At("stopping", None)
  /\ UNCHANGED <<loops, desc, disp, durable, boots>>

RequestShutdown ==
  /\ lead.pc = "stopping"
  /\ inbox' = [m \in Mates |-> IF m \in Runtimes THEN Sent(inbox[m], ShutdownRequest) ELSE inbox[m]]
  /\ posted' = [m \in Mates |->
       IF m \in Runtimes /\ inbox[m][ShutdownRequest].status = "absent"
         THEN Appended(m, ShutdownRequest) ELSE posted[m]]
  /\ lead' = At("draining", None)
  /\ UNCHANGED <<reg, loops, desc, exec, disp, snap, ckpt, stored, boots, faults>>

\* Every loop has returned.  The run is over: what is still open in the store
\* is cancelled there.
FinalizeSnapshots ==
  /\ lead.pc = "draining"
  /\ \A m \in Runtimes : loops[m] = "gone"
  /\ snap' = [t \in Tasks |-> IF t \in OpenSnapshots
                                THEN [snap[t] EXCEPT !.status = "cancelled"] ELSE snap[t]]
  /\ loops' = [m \in Mates |-> IF m \in Runtimes THEN "off" ELSE loops[m]]
  /\ desc' = [m \in Mates |-> Idle]
  /\ lead' = At("off", None)
  /\ UNCHANGED <<reg, exec, disp, ckpt, stored, inbox, posted, boots, faults>>

(***************************************************************************)
(* Crash and resume                                                        *)
(***************************************************************************)
\* The process dies, possibly inside Finish, between the result and the
\* checkpoint.
Crash ==
  /\ FaultsLeft
  /\ lead.pc # "off" /\ lead.pc # "down"
  /\ faults' = faults + 1
  /\ \E done \in {{}} \cup {{exec[m].task} : m \in {n \in Mates : Doing(n, "researching")}} :
       stored' = stored \cup done
  /\ reg' = [t \in Tasks |-> NoRecord]
  /\ loops' = [m \in Mates |-> IF m \in Runtimes THEN "off" ELSE loops[m]]
  /\ desc' = [m \in Mates |-> Idle]
  /\ exec' = [m \in Mates |-> NoExecutor]
  /\ disp' = NoDispatch
  /\ lead' = At("down", None)
  /\ UNCHANGED <<snap, ckpt, inbox, posted, boots>>

\* restore_async_research_tasks(): completed tasks with their result, then
\* every other task with a checkpoint, as new.
RestoredRecord(t) ==
  IF snap[t].status = "completed" /\ t \in stored
    THEN CompletedRecord(snap[t].mate)
    ELSE IF t \in ckpt THEN PendingRecord(0) ELSE NoRecord

\* The run is resumed, in a new process or, once its end is over, in the same
\* one, whose registry is kept.  _restore_teammates() starts the loops.
Resume ==
  /\ lead.pc \in {"off", "down"}
  /\ Cardinality(Mates \ Unborn) <= MaxCarried
  /\ reg' = [t \in Tasks |-> IF reg[t].status = "absent" THEN RestoredRecord(t) ELSE reg[t]]
  /\ loops' = [m \in Mates |-> IF loops[m] = "off" THEN "poll" ELSE loops[m]]
  /\ lead' = At("restoring", None)
  /\ boots' = boots + 1
  /\ UNCHANGED <<desc, exec, disp, durable, faults>>

\* Mutant: tasks that ran when the process died are not restored.
RestorePending_NotRunning ==
  /\ lead.pc = "restoring"
  /\ reg' = [t \in Tasks |-> IF reg[t].status = "absent" /\ snap[t].status = "pending"
                               THEN PendingRecord(snap[t].attempt) ELSE reg[t]]
  /\ lead' = At("dispatch", None)
  /\ UNCHANGED <<loops, desc, exec, disp, durable, boots, faults>>

\* _restore_pending_tasks(): the open snapshots nobody has a record of.
RestorePending ==
  /\ lead.pc = "restoring"
  /\ reg' = [t \in Tasks |-> IF reg[t].status = "absent" /\ t \in OpenSnapshots
                               THEN PendingRecord(snap[t].attempt) ELSE reg[t]]
  /\ lead' = At("dispatch", None)
  /\ UNCHANGED <<loops, desc, exec, disp, durable, boots, faults>>

\* The lease of the last claim of an earlier process ends.
LapseClaim(m) ==
  LET left == {msg \in Messages : inbox[m][msg].live /\ inbox[m][msg].owner # boots} IN
    /\ left # {}
    /\ inbox' = [inbox EXCEPT ![m] = [msg \in Messages |->
                    IF msg \in left THEN [@[msg] EXCEPT !.live = FALSE] ELSE @[msg]]]
    /\ UNCHANGED <<memory, snap, ckpt, stored, posted, boots, faults>>

(***************************************************************************)
(* The specification                                                       *)
(***************************************************************************)
Loop(m) == Take(m) \/ Open(m) \/ Ack(m) \/ Leave(m) \/ Reap(m)

Execute(m) ==
  \/ Begin(m) \/ FirstCheckpoint(m) \/ GiveUp(m)
  \/ Finish(m) \/ Fail(m) \/ ReportEnd(m)

Dispatch == AcquireLock \/ SendAssignment
ToolCall == Submit \/ RecordCancel \/ SaveCancel \/ RestorePending
End      == RequestShutdown \/ FinalizeSnapshots

Next ==
  \/ StartResearchTask
  \/ \E t \in Tasks : CancelResearchTask(t)
  \/ ToolCall
  \/ Dispatch
  \/ \E m \in Mates : Loop(m) \/ Execute(m) \/ Checkpoint(m)
  \/ BeginShutdown \/ End
  \/ Crash \/ Resume
  \/ \E m \in Mates : LapseClaim(m)

Spec == Init /\ [][Next]_vars

Progress == ToolCall \/ Dispatch \/ End \/ \E m \in Mates : Loop(m) \/ Execute(m)

\* While some coroutine can go on, one does: polling, the mailbox's locks and
\* task_timeout_seconds bound each wait, and asyncio serves whatever is ready.
\* Nobody has to start, cancel or end anything.
Fairness == WF_vars(Progress)

FairSpec == Spec /\ Fairness

(***************************************************************************)
(* Properties                                                              *)
(***************************************************************************)
\* The type of every variable.
TypeOK ==
  /\ reg \in [Tasks -> [status : TaskStatus, mate : Mates \cup {None},
                        attempt : 0 .. MaxFaults + 1, cancelled : BOOLEAN]]
  /\ loops \in [Mates -> {"unborn", "off", "poll", "opening", "acking", "dispatch", "gone"}]
  /\ desc \in [Mates -> [status : {"idle", "reserved", "busy"}, task : Tasks \cup {None}]]
  /\ exec \in [Mates -> [task : Tasks \cup {None},
       pc : {"none", "created", "saving", "researching", "ending", "done"}]]
  /\ disp \in [by : Mates \cup {None, Lead}, todo : SUBSET Tasks, task : Tasks \cup {None}]
  /\ lead \in [task : Tasks \cup {None},
       pc : {"ready", "created", "cancelling", "cancelled", "dispatch", "stopping",
             "draining", "off", "down", "restoring"}]
  /\ snap \in [Tasks -> [status : TaskStatus, mate : Mates \cup {None}, attempt : 0 .. MaxFaults + 1]]
  /\ ckpt \subseteq Tasks /\ stored \subseteq Tasks
  /\ inbox \in [Mates -> [Messages -> Message(Boots)]]
  /\ posted \in [Mates -> SUBSET (Messages \X Messages)]
  /\ boots \in Boots /\ faults \in 0 .. MaxFaults

\* A snapshot says completed only once the result can be loaded, wherever the
\* process dies, however many executors a task had (executor.py:974-998).
CompletedHasResult == \A t \in Tasks : snap[t].status = "completed" => t \in stored

\* The run is being served: not down, not ending, not half restored.
Serving == lead.pc \in {"ready", "created", "cancelling", "cancelled", "dispatch"}

\* Until the run is resumed, a pending task that was given to a teammate will
\* be seen by it: the assignment is about to be sent, is in the inbox, or has
\* become an executor.  Reservation, snapshot, message, claim and creation are
\* five steps of two coroutines (teammate_pool.py:306-323, 384-409).
AssignmentReachesTeammate ==
  boots = 1 /\ Serving =>
    \A t \in Tasks : LET r == reg[t] IN
      r.status = "pending" /\ r.mate # None =>
        \/ disp.task = t
        \/ inbox[r.mate][Assignment(t, r.attempt)].status = "pending"
        \/ Held(r.mate, Assignment(t, r.attempt))
        \/ exec[r.mate].task = t

\* A task the store has open is known to the process, and one whose record has
\* ended is about to be written: the supervisor refuses to finish while the
\* store has open tasks (deep_researcher.py:1768, teammate_pool.py:250).
Reporting(t) ==
  \/ lead = At("cancelled", t)
  \/ \E m \in Mates : exec[m] = [task |-> t, pc |-> "ending"]

StoreFollowsRegistry ==
  Serving => \A t \in OpenSnapshots :
    reg[t].status \in ActiveStatus \/ (reg[t].status \in Terminal /\ Reporting(t))

\* A checkpoint is only ever deleted for a result (executor.py:974-984).
CheckpointGivesWayToResult == [][ckpt \ ckpt' \subseteq stored']_vars

\* Without cancellation, crash or end, every task that was started ends: nobody
\* forgets a record that found all teammates busy (teammate_pool.py:297-305,
\* 421-445).
TasksEnd ==
  \A t \in Tasks : reg[t].status = "pending" ~> snap[t].status \in Terminal \/ faults > 0
===============================================================================
