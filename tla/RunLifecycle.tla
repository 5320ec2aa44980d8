----------------------------- MODULE RunLifecycle -----------------------------
(***************************************************************************)
(* The life of one persisted run across processes: the engine that starts  *)
(* it and the engines that resume it (QueryEngine.stream_message,          *)
(* stream_resume, _stream_execution, _finish_success), the HTTP handlers   *)
(* and background tasks around them (server.py), the recovery sweep of a   *)
(* starting process, the shutdown drain, durable cancellation              *)
(* (run_control.py) and crashes at every step.                             *)
(*                                                                         *)
(* Every locked file write is a step of its own.  Engines run in processes *)
(* of their own; an engine id that is used again stands for a new engine.  *)
(***************************************************************************)
EXTENDS RunFiles

CONSTANTS
  Engines,     \* QueryEngine objects; each is its own lease owner
  Sweeper,     \* lease owner of the recovery sweep
  NoOwner,
  MaxToken,    \* bound on the lease epochs
  MaxFaults,   \* bound on the I/O errors of a behaviour
  Disturbances \* which of "cancel", "drain" and "sweep" may happen

ASSUME RunLifecycleAssumption ==
  /\ Sweeper \notin Engines
  /\ NoOwner \notin Engines \cup {Sweeper}
  /\ MaxToken \in Nat
  /\ MaxFaults \in Nat
  /\ Disturbances \subseteq {"cancel", "drain", "sweep"}

VARIABLES
  lease,      \* coordination/leader_lease.json
  manifest, journal, events,
  eng,        \* the engines and their background tasks
  control,    \* the durable command cancel-<run_id>
  sweep,      \* the recovery sweep of a starting process
  faults      \* I/O errors so far

vars == <<lease, manifest, journal, events, eng, control, sweep, faults>>

\* Time is only told apart by whether the lease has run out.
L == INSTANCE LeaseFile WITH OwnerIds <- Engines \cup {Sweeper}, LeaseSeconds <- 1

PCs == {"none", "posted", "checked", "acquired", "bound", "init", "replayed", "start", "work",
        "append", "update", "confirm", "announce", "finale", "failing", "closing", "leaked"}

Outcomes == {"running", "completed", "cancelled", "terminated", "failed"}

NoEngine ==
  [pc |-> "none", token |-> 0, stage |-> "research", scope |-> "open",
   outcome |-> "running", resumed |-> FALSE, hosted |-> FALSE, drain |-> "no"]

NoSweep == [pc |-> "idle", token |-> 0]

TypeOK ==
  /\ lease \in L!LeaderLease
  /\ manifest \in Manifest
  /\ \A i \in DOMAIN journal : journal[i] \in JournalRecord
  /\ \A i \in DOMAIN events : events[i] \in PublicEvent
  /\ eng \in [Engines ->
       [pc : PCs, token : Nat, stage : NextStages \cup {"received"},
        scope : {"open", "cancelled", "claimed"}, outcome : Outcomes,
        resumed : BOOLEAN, hosted : BOOLEAN, drain : {"no", "marked", "told"}]]
  /\ control \in {"none", "pending", "processed"}
  /\ sweep \in [pc : {"idle", "listed", "held", "bound", "marked", "told"}, token : Nat]
  /\ faults \in 0 .. MaxFaults

Init ==
  /\ lease = L!NoLease
  /\ manifest = NoManifest
  /\ journal = <<>>
  /\ events = <<>>
  /\ eng = [e \in Engines |-> NoEngine]
  /\ control = "none"
  /\ sweep = NoSweep
  /\ faults = 0

Step(e, pc) == eng' = [eng EXCEPT ![e].pc = pc]

\* The lease test of _fence_guard for a store bound to owner o and token t.
Fenced(o, t) == L!FenceHolds(lease, o, t)
Owns(e) == Fenced(e, eng[e].token)

\* The stores of the engine carry its fence, and its heartbeat runs.
Bound(e) == eng[e].pc \notin {"none", "posted", "checked", "acquired"}

\* A write of engine e goes through, is refused by the fence, or fails.
WriteDone(e)   == Owns(e) /\ UNCHANGED faults
WriteFailed(e) == \/ ~Owns(e) /\ UNCHANGED faults
                  \/ Owns(e) /\ faults < MaxFaults /\ faults' = faults + 1

\* mark_event_persistence_failed of a store without fence: refused once the manifest
\* bears an epoch.
Degraded(m) == IF m.token > 0 THEN m ELSE WithStatus(m, "failed")

\* RunEventStore.append failed for another reason than a terminal stream, and asks
\* for that where there is a manifest.
Marked(m) == IF m.status = "absent" THEN m ELSE Degraded(m)

PublishDone(e, type, key) ==
  /\ WriteDone(e)
  /\ Accepts(events, type, key)
  /\ events' = Published(events, type, key, eng[e].token)
  /\ UNCHANGED manifest

PublishFailed(e, type, key) ==
  /\ UNCHANGED events
  /\ \/ Owns(e) /\ ~Accepts(events, type, key) /\ UNCHANGED <<faults, manifest>>
     \/ WriteFailed(e) /\ manifest' = Marked(manifest)

------------------------------------------------------------------------------
(* Starting and resuming                                                    *)

Fresh == manifest.status = "absent" /\ lease.token = 0 /\ \A e \in Engines : eng[e].pc = "none"

\* create_run or stream_run: the manifest is written before any lease is held, with
\* the config of the request, which is not frozen.
Create(e) ==
  /\ Fresh
  /\ manifest' = [NoManifest EXCEPT !.status = "running"]
  /\ eng' = [eng EXCEPT ![e].pc = "posted", ![e].hosted = TRUE]
  /\ UNCHANGED <<lease, journal, events, control, sweep, faults>>

\* submit_message of an engine outside the server, as the evaluation scripts do.
CreateEmbedded(e) ==
  /\ Fresh
  /\ Step(e, "posted")
  /\ UNCHANGED <<lease, manifest, journal, events, control, sweep, faults>>

\* Mutant: only a completed run is refused.
ResumeRefused_CompletedOnly(m, next) == m.status = "completed"

\* The test of resume_run and of _validate_resume_manifest.
ResumeRefused(m, next) ==
  m.status \in {"completed", "cancelled"} \/ next = "cancelled"

\* QueryEngine.load, replay() and the test above.
Recoverable ==
  /\ manifest.status # "absent" /\ manifest.frozen
  /\ Readable(journal)
  /\ ~ResumeRefused(manifest, ReplayNext(manifest, journal))

\* resume_run up to the lease.  (An engine id is not used again while a lease of
\* its last use is live: the new engine would have an owner id of its own.)
ResumeCheck(e) ==
  /\ eng[e].pc = "none" /\ ~(L!Live(lease) /\ lease.owner = e)
  /\ Recoverable
  /\ eng' = [eng EXCEPT ![e] =
       [NoEngine EXCEPT !.pc = "checked", !.resumed = TRUE, !.hosted = TRUE]]
  /\ UNCHANGED <<lease, manifest, journal, events, control, sweep, faults>>

\* The lease is acquired, or a conflict ends the attempt.
Acquire(e) ==
  /\ eng[e].pc \in {"posted", "checked"}
  /\ IF L!Conflict(lease, e)
       THEN eng' = [eng EXCEPT ![e] = NoEngine] /\ UNCHANGED lease
       ELSE /\ L!Acquired(lease, e).token <= MaxToken
            /\ lease' = L!Acquired(lease, e)
            /\ eng' = [eng EXCEPT ![e].pc = "acquired", ![e].token = lease'.token]
  /\ UNCHANGED <<manifest, journal, events, control, sweep, faults>>

\* Mutant: the manifest is not advanced to the new epoch.
Bind_ManifestNotAdvanced(e) ==
  /\ eng[e].pc = "acquired"
  /\ Step(e, "bound")
  /\ UNCHANGED <<lease, manifest, journal, events, control, sweep, faults>>

\* bind_fence_token: the manifest takes the new epoch.  A refusal ends a new run's
\* task, which releases the lease; resume_run just raises.
Bind(e) ==
  /\ eng[e].pc = "acquired"
  /\ IF Owns(e) /\ manifest.token <= eng[e].token
       THEN /\ manifest' = IF manifest.status = "absent" THEN manifest
                           ELSE [manifest EXCEPT !.token = eng[e].token]
            /\ Step(e, "bound")
       ELSE /\ eng' = IF eng[e].resumed THEN [eng EXCEPT ![e] = NoEngine]
                      ELSE [eng EXCEPT ![e].pc = "closing"]
            /\ UNCHANGED manifest
  /\ UNCHANGED <<lease, journal, events, control, sweep, faults>>

\* _stream_new_message: run.created, then initialize, then the checkpoint "received".
NewRun(e) ==
  /\ eng[e].pc = "bound" /\ ~eng[e].resumed
  /\ \/ /\ PublishDone(e, "run.created", Key("run:created", 0))
        /\ eng' = [eng EXCEPT ![e].pc = "init", ![e].stage = "received"]
     \/ /\ PublishFailed(e, "run.created", Key("run:created", 0))
        /\ Step(e, "closing")
  /\ UNCHANGED <<lease, journal, control, sweep>>

\* initialize leaves an existing manifest alone; otherwise it writes one, with the
\* engine's own frozen config.  A refusal skips the checkpoint.
Initialize(e) ==
  /\ eng[e].pc = "init"
  /\ manifest' = IF manifest.status = "absent" /\ Owns(e)
       THEN [NoManifest EXCEPT !.status = "running", !.token = eng[e].token, !.frozen = TRUE]
       ELSE manifest
  /\ eng' = IF manifest'.status = "absent"
       THEN [eng EXCEPT ![e].pc = "start", ![e].stage = "research"]
       ELSE [eng EXCEPT ![e].pc = "append"]
  /\ UNCHANGED <<lease, journal, events, control, sweep, faults>>

\* stream_resume validates again under the lease and replays the journal.  The
\* first validation is outside the try: its refusal keeps lease and heartbeat,
\* and the background task publishes run.failed.
Replay(e) ==
  /\ eng[e].pc = "bound" /\ eng[e].resumed
  /\ IF ResumeRefused(manifest, manifest.next)
       THEN /\ \/ PublishDone(e, "run.failed", Key("run:terminal", 0))
               \/ PublishFailed(e, "run.failed", Key("run:terminal", 0))
            /\ Step(e, "leaked")
       ELSE /\ IF ResumeRefused(manifest, ReplayNext(manifest, journal))
                 THEN Step(e, "closing")
                 ELSE eng' = [eng EXCEPT ![e].pc = "replayed",
                                         ![e].stage = ReplayNext(manifest, journal)]
            /\ UNCHANGED <<manifest, events, faults>>
  /\ UNCHANGED <<lease, journal, control, sweep>>

\* The manifest is set to "running" again; a failure is only noted.
SetRunning(e) ==
  /\ eng[e].pc = "replayed"
  /\ \/ WriteDone(e)
        /\ manifest' = [manifest EXCEPT !.status = StatusAfter(@, "running", TRUE)]
     \/ WriteFailed(e) /\ UNCHANGED manifest
  /\ Step(e, "start")
  /\ UNCHANGED <<lease, journal, events, control, sweep>>

\* run.started or run.resumed:<count>.  A failure ends the background task.
Start(e) ==
  LET type == IF eng[e].resumed THEN "run.resumed" ELSE "run.started"
      key  == IF eng[e].resumed THEN Key("run:resumed", Resumes(events) + 1)
              ELSE Key("run:started", 0)
  IN /\ eng[e].pc = "start"
     /\ \/ PublishDone(e, type, key) /\ Step(e, "work")
        \/ PublishFailed(e, type, key) /\ Step(e, "closing")
     /\ UNCHANGED <<lease, journal, control, sweep>>
------------------------------------------------------------------------------
(* Executing                                                                *)

Working(e) == eng[e].pc = "work"

\* Where an exception of the execution leads: a requested cancellation explains it.
Excepted(e) ==
  IF eng[e].scope = "cancelled"
    THEN [eng EXCEPT ![e].pc = "append", ![e].outcome = "cancelled"]
    ELSE [eng EXCEPT ![e].pc = "failing"]

\* The work of a stage ends and its checkpoint is due.
StageDone(e) ==
  /\ Working(e) /\ eng[e].stage \in WorkStages /\ eng[e].scope = "open"
  /\ Step(e, "append")
  /\ UNCHANGED <<lease, manifest, journal, events, control, sweep, faults>>

\* The work of a stage raises.
StageFails(e) ==
  /\ Working(e) /\ eng[e].stage \in WorkStages
  /\ eng' = Excepted(e)
  /\ UNCHANGED <<lease, manifest, journal, events, control, sweep, faults>>

\* CancellationScope.run and checkpoint raise RunCancelled.
StageCancelled(e) ==
  /\ Working(e) /\ eng[e].scope = "cancelled"
  /\ eng' = Excepted(e)
  /\ UNCHANGED <<lease, manifest, journal, events, control, sweep, faults>>

\* The supervisor terminates the research: no evidence was accepted.
Terminate(e) ==
  /\ Working(e) /\ eng[e].stage = "research" /\ eng[e].scope = "open"
  /\ eng' = [eng EXCEPT ![e].pc = "append", ![e].outcome = "terminated"]
  /\ UNCHANGED <<lease, manifest, journal, events, control, sweep, faults>>

\* _finish_success: no stage is left, and the completion is claimed.  A resumed
\* run whose next_stage is "terminated" comes here as well: no stage bears that
\* name.
Claim(e) ==
  /\ Working(e) /\ eng[e].stage \notin WorkStages /\ eng[e].scope = "open"
  /\ eng' = [eng EXCEPT ![e].pc = "append", ![e].scope = "claimed", ![e].outcome = "completed"]
  /\ UNCHANGED <<lease, manifest, journal, events, control, sweep, faults>>

\* Mutant: a failure is recorded by a checkpoint.
Due_FailureCheckpointed(e) ==
  LET x == eng[e] IN
    IF x.outcome = "running"
      THEN [stage |-> x.stage, next |-> Following[x.stage], status |-> "running"]
      ELSE [stage |-> x.outcome, next |-> x.outcome,
            status |-> IF x.outcome = "terminated" THEN "failed" ELSE x.outcome]

\* The record an engine is about to append: its stage, next_stage and status.
Due(e) ==
  LET x == eng[e] IN
    IF x.outcome = "running"
      THEN [stage |-> x.stage, next |-> Following[x.stage], status |-> "running"]
    ELSE IF x.outcome = "failed"
      THEN [stage |-> "failed", next |-> "none", status |-> "failed"]
    ELSE [stage |-> x.outcome, next |-> x.outcome,
          status |-> IF x.outcome = "terminated" THEN "failed" ELSE x.outcome]

\* After a checkpoint, whether or not it could be written (it is fail-open).
Onward(e) ==
  CASE eng[e].outcome = "failed" -> [eng EXCEPT ![e].pc = "closing"]
    [] eng[e].outcome = "cancelled" -> [eng EXCEPT ![e].pc = "finale"]
    [] eng[e].outcome \in {"completed", "terminated"} -> [eng EXCEPT ![e].pc = "confirm"]
    [] eng[e].outcome = "running" ->
         [eng EXCEPT ![e].pc = IF eng[e].stage = "received" THEN "start" ELSE "announce",
                     ![e].stage = Following[@]]

Line(e) == Appended(manifest, journal, Due(e).stage, Due(e).next, eng[e].token)

\* RunContextStore.append: the line, then last_journal_seq, under one lock.
AppendRecord(e) ==
  /\ eng[e].pc = "append"
  /\ \/ /\ WriteDone(e)
        /\ journal' = Line(e)
        /\ manifest' = [manifest EXCEPT !.seq = Len(journal')]
        /\ Step(e, "update")
     \/ /\ WriteFailed(e)
        /\ eng' = Onward(e)
        /\ UNCHANGED <<journal, manifest>>
  /\ UNCHANGED <<lease, events, control, sweep>>

\* The second write of checkpoint(), or of the failure handler.
UpdateManifest(e) ==
  /\ eng[e].pc = "update"
  /\ \/ /\ WriteDone(e)
        /\ manifest' = [WithStatus(manifest, Due(e).status) EXCEPT
                          !.next = IF Due(e).next = "none" THEN @ ELSE Due(e).next]
     \/ WriteFailed(e) /\ UNCHANGED manifest
  /\ eng' = Onward(e)
  /\ UNCHANGED <<lease, journal, events, control, sweep>>

\* The result is written to the manifest, with the status once more.
Confirm(e) ==
  /\ eng[e].pc = "confirm"
  /\ \/ WriteDone(e) /\ manifest' = WithStatus(manifest, Due(e).status) /\ Step(e, "finale")
     \/ /\ WriteFailed(e)
        /\ IF eng[e].outcome = "terminated" THEN eng' = Excepted(e) ELSE Step(e, "finale")
        /\ UNCHANGED manifest
  /\ UNCHANGED <<lease, journal, events, control, sweep>>

\* The stage events between two stages: not terminal, so refused by the fence, or by
\* a stream that has ended.
Announce(e) ==
  /\ eng[e].pc = "announce"
  /\ \/ WriteDone(e) /\ ~Ended(events) /\ Step(e, "work")
     \/ /\ \/ WriteFailed(e)
           \/ Ended(events) /\ UNCHANGED faults
        /\ eng' = Excepted(e)
  /\ UNCHANGED <<lease, manifest, journal, events, control, sweep>>

\* run.completed, run.cancelled or run.failed.  A failure is one of the execution,
\* except for run.cancelled, which is published by the handler.
Finale(e) ==
  LET type == CASE eng[e].outcome = "completed"  -> "run.completed"
                [] eng[e].outcome = "cancelled"  -> "run.cancelled"
                [] eng[e].outcome = "terminated" -> "run.failed"
  IN /\ eng[e].pc = "finale"
     /\ \/ PublishDone(e, type, Key("run:terminal", 0)) /\ Step(e, "closing")
        \/ /\ PublishFailed(e, type, Key("run:terminal", 0))
           /\ IF eng[e].outcome = "cancelled" THEN Step(e, "closing") ELSE eng' = Excepted(e)
     /\ UNCHANGED <<lease, journal, control, sweep>>

\* The handler of any other exception publishes run.interrupted, and goes on to
\* write the failure whatever becomes of the event.
Fail(e) ==
  /\ eng[e].pc = "failing"
  /\ \/ PublishDone(e, "run.interrupted", Key("run:interrupted", 0))
     \/ PublishFailed(e, "run.interrupted", Key("run:interrupted", 0))
  /\ eng' = [eng EXCEPT ![e].pc = "append", ![e].outcome = "failed"]
  /\ UNCHANGED <<lease, journal, control, sweep>>

\* release_run_lease.
Close(e) ==
  /\ eng[e].pc = "closing"
  /\ lease' = IF L!HoldsEpoch(lease, e, eng[e].token) THEN L!Released(lease) ELSE lease
  /\ eng' = [eng EXCEPT ![e] = NoEngine]
  /\ UNCHANGED <<manifest, journal, events, control, sweep, faults>>

------------------------------------------------------------------------------
(* Losing the lease, cancelling, crashing                                   *)

\* CancellationScope.request: the first request wins, none after the claim.
Requested(e) == [eng EXCEPT ![e].scope = IF @ = "open" THEN "cancelled" ELSE @]

\* Mutant: a failed renew only ends the heartbeat.
HeartbeatLost_Silent(e) == FALSE

\* The next renew fails and requests "lease_lost".
HeartbeatLost(e) ==
  /\ Bound(e) /\ eng[e].scope = "open"
  /\ WriteFailed(e)
  /\ eng' = Requested(e)
  /\ UNCHANGED <<lease, manifest, journal, events, control, sweep>>

\* The engine is within reach of its process: from its creation, or from the end
\* of resume_run, to the end of its task.
Known(e) == eng[e].pc \notin
  IF eng[e].resumed THEN {"checked", "acquired", "leaked"} ELSE {"none"}

\* A background task of the server runs it, with a control listener.
Hosted(e) == Known(e) /\ eng[e].hosted

\* interrupt, called by cancel_run in the process of the engine or by an embedder.
CancelLocal(e) ==
  /\ "cancel" \in Disturbances
  /\ Known(e) /\ eng[e].scope = "open"
  /\ eng' = Requested(e)
  /\ UNCHANGED <<lease, manifest, journal, events, control, sweep, faults>>

\* cancel_run in another process: the command cancel-<run_id> is enqueued, unless
\* one of that name is pending or was processed before.
CancelRemote ==
  /\ "cancel" \in Disturbances
  /\ manifest.status \notin {"absent", "completed", "failed", "cancelled"}
  /\ control = "none"
  /\ control' = "pending"
  /\ UNCHANGED <<lease, manifest, journal, events, eng, sweep, faults>>

\* The control listener of any background task takes the command, whether or not
\* its engine still holds the lease.
ConsumeCancel(e) ==
  /\ Hosted(e) /\ control = "pending"
  /\ control' = "processed"
  /\ eng' = Requested(e)
  /\ UNCHANGED <<lease, manifest, journal, events, sweep, faults>>

\* The process dies: anywhere, ...
Crash(e) ==
  /\ eng[e].pc # "none"
  /\ eng' = [eng EXCEPT ![e] = NoEngine]
  /\ UNCHANGED <<lease, manifest, journal, events, control, sweep, faults>>

\* ... in the middle of a line, or between the line and the manifest.
CrashInAppend(e) ==
  /\ eng[e].pc = "append" /\ Owns(e)
  /\ journal' \in {Append(Repaired(journal), TornLine), Line(e)}
  /\ eng' = [eng EXCEPT ![e] = NoEngine]
  /\ UNCHANGED <<lease, manifest, events, control, sweep, faults>>

Elapse ==
  /\ L!Live(lease)
  /\ lease' = L!Elapsed(lease)
  /\ UNCHANGED <<manifest, journal, events, eng, control, sweep, faults>>

------------------------------------------------------------------------------
(* Shutdown: _interrupt_inflight_record                                     *)

\* The manifest is marked by the store of the engine, which has no fence yet
\* before the engine has bound it.
DrainMark(e) ==
  /\ "drain" \in Disturbances
  /\ Hosted(e) /\ eng[e].drain = "no"
  /\ \/ /\ IF Bound(e) THEN WriteDone(e) ELSE manifest.token = 0 /\ UNCHANGED faults
        /\ manifest' = WithStatus(manifest, "interrupted")
     \/ /\ IF Bound(e) THEN WriteFailed(e) ELSE manifest.token # 0 /\ UNCHANGED faults
        /\ UNCHANGED manifest
  /\ eng' = [eng EXCEPT ![e].drain = "marked"]
  /\ UNCHANGED <<lease, journal, events, control, sweep>>

\* Without fence in its config, the event store of the engine writes unguarded.
DrainPublish(e) ==
  LET key == Key("run:interrupted:shutdown", 0) IN
    /\ eng[e].drain = "marked"
    /\ IF Bound(e)
         THEN PublishDone(e, "run.interrupted", key) \/ PublishFailed(e, "run.interrupted", key)
         ELSE /\ events' = IF Accepts(events, "run.interrupted", key)
                             THEN Published(events, "run.interrupted", key, 0) ELSE events
              /\ UNCHANGED <<manifest, faults>>
    /\ eng' = [eng EXCEPT ![e].drain = "told"]
    /\ UNCHANGED <<lease, journal, control, sweep>>

\* The task is cancelled: no handler of the execution catches it, its finally
\* releases the lease if the engine has come to know its token.
DrainKill(e) ==
  /\ eng[e].drain = "told" /\ eng[e].pc \notin {"closing", "leaked"}
  /\ IF Bound(e) THEN Step(e, "closing") ELSE eng' = [eng EXCEPT ![e] = NoEngine]
  /\ UNCHANGED <<lease, manifest, journal, events, control, sweep, faults>>

------------------------------------------------------------------------------
(* The recovery sweep: _run_recovery_sweep                                  *)

SweepStep(pc) == sweep' = [sweep EXCEPT !.pc = pc]
SweepOwns == Fenced(Sweeper, sweep.token)

\* All manifests are read first, and those of ended runs left alone.
SweepList ==
  /\ "sweep" \in Disturbances
  /\ sweep.pc = "idle" /\ manifest.status = "running"
  /\ ~(L!Live(lease) /\ lease.owner = Sweeper)
  /\ SweepStep("listed")
  /\ UNCHANGED <<lease, manifest, journal, events, eng, control, faults>>

SweepAcquire ==
  /\ sweep.pc = "listed"
  /\ IF L!Conflict(lease, Sweeper)
       THEN sweep' = NoSweep /\ UNCHANGED lease
       ELSE /\ L!Acquired(lease, Sweeper).token <= MaxToken
            /\ lease' = L!Acquired(lease, Sweeper)
            /\ sweep' = [pc |-> "held", token |-> lease'.token]
  /\ UNCHANGED <<manifest, journal, events, eng, control, faults>>

SweepBind ==
  /\ sweep.pc = "held"
  /\ IF SweepOwns /\ manifest.token <= sweep.token
       THEN manifest' = [manifest EXCEPT !.token = sweep.token] /\ SweepStep("bound")
       ELSE SweepStep("told") /\ UNCHANGED manifest
  /\ UNCHANGED <<lease, journal, events, eng, control, faults>>

SweepMark ==
  /\ sweep.pc = "bound"
  /\ IF SweepOwns
       THEN manifest' = WithStatus(manifest, "interrupted") /\ SweepStep("marked")
       ELSE SweepStep("told") /\ UNCHANGED manifest
  /\ UNCHANGED <<lease, journal, events, eng, control, faults>>

SweepPublish ==
  LET key == Key("run:interrupted:startup", 0) IN
    /\ sweep.pc = "marked"
    /\ events' = IF SweepOwns /\ Accepts(events, "run.interrupted", key)
                   THEN Published(events, "run.interrupted", key, sweep.token) ELSE events
    /\ SweepStep("told")
    /\ UNCHANGED <<lease, manifest, journal, eng, control, faults>>

SweepRelease ==
  /\ sweep.pc = "told"
  /\ lease' = IF L!HoldsEpoch(lease, Sweeper, sweep.token) THEN L!Released(lease) ELSE lease
  /\ sweep' = NoSweep
  /\ UNCHANGED <<manifest, journal, events, eng, control, faults>>

SweepCrash ==
  /\ sweep.pc # "idle"
  /\ sweep' = NoSweep
  /\ UNCHANGED <<lease, manifest, journal, events, eng, control, faults>>

------------------------------------------------------------------------------
\* What an engine does by itself once it runs.  The length of a stage is up to its
\* work, so its end is not among these.
Engine(e) ==
  \/ Acquire(e) \/ Bind(e) \/ NewRun(e) \/ Initialize(e) \/ Replay(e) \/ SetRunning(e) \/ Start(e)
  \/ StageCancelled(e) \/ AppendRecord(e) \/ UpdateManifest(e) \/ Confirm(e)
  \/ Announce(e) \/ Finale(e) \/ Fail(e) \/ Close(e)

Work(e) == StageDone(e) \/ StageFails(e) \/ Terminate(e) \/ Claim(e)

Environment(e) ==
  \/ Create(e) \/ CreateEmbedded(e) \/ ResumeCheck(e) \/ HeartbeatLost(e)
  \/ CancelLocal(e) \/ ConsumeCancel(e)
  \/ Crash(e) \/ CrashInAppend(e)
  \/ DrainMark(e) \/ DrainPublish(e) \/ DrainKill(e)

Sweep ==
  \/ SweepList \/ SweepAcquire \/ SweepBind \/ SweepMark
  \/ SweepPublish \/ SweepRelease \/ SweepCrash

Next ==
  \/ \E e \in Engines : Engine(e) \/ Work(e) \/ Environment(e)
  \/ Sweep
  \/ CancelRemote
  \/ Elapse

Spec == Init /\ [][Next]_vars

\* The event loop runs what is ready, and the heartbeat wakes up again and again.
Fairness ==
  \A e \in Engines :
    WF_vars(Engine(e)) /\ WF_vars(HeartbeatLost(e) /\ ~Owns(e))

FairSpec == Spec /\ Fairness

------------------------------------------------------------------------------
(* Properties                                                               *)

\* However crashes and takeovers fall between the journal line and the manifest,
\* the journal stays a sequence without gap or repetition that replay() accepts.
JournalReadable == Readable(journal)

\* No finished stage is done again by the engine that resumes the run: the journal
\* holds at most one checkpoint of every stage (replay, stream_resume).
StageOnce ==
  \A s \in WorkStages : Cardinality({i \in DOMAIN journal : journal[i].stage = s}) <= 1

\* Journal and event stream were written by one owner after the other: nothing of
\* an old owner comes after a line of its successor (_fence_guard).
InOrder(f) == \A i, k \in DOMAIN f : i < k /\ f[i].writer # 0 /\ f[k].writer # 0
                                       => f[i].writer <= f[k].writer
OwnersInOrder == InOrder(journal) /\ InOrder(events)

\* The manifest names the epoch of whoever owns the run, so no write of the owner
\* is refused by the second fence check, that of _update_manifest.
ManifestFollowsOwner ==
  manifest.status # "absent" =>
    \A e \in Engines : Bound(e) /\ Owns(e) => manifest.token = eng[e].token

\* A run does not end in two ways: the manifest of a run whose stream says
\* cancelled never says completed, nor the reverse.
Told(type) == \E i \in DOMAIN events : events[i].type = type
OneEnding ==
  /\ ~(manifest.status = "completed" /\ Told("run.cancelled"))
  /\ ~(manifest.status = "cancelled" /\ Told("run.completed"))

\* No engine does research for a run that has already been completed or cancelled
\* (stream_resume validates the manifest under the lease).
EndedRunNotRestarted ==
  [][\A e \in Engines :
       eng[e].pc = "start" /\ eng'[e].pc = "work" /\ eng[e].outcome = "running"
         => manifest.status \notin {"completed", "cancelled"}]_vars

\* An engine that lost its lease does not go on researching: the heartbeat cancels
\* it ("the heartbeat loss triggers cancellation", README).
LostOwnerStops ==
  \A e \in Engines : Working(e) /\ ~Owns(e) ~> ~Working(e)
------------------------------------------------------------------------------
(* What the documentation says and the code does not do                     *)

\* "after a service interruption the run can be resumed explicitly" (README): an
\* interrupted run is accepted by resume_run.
InterruptedRunResumable == manifest.status = "interrupted" => Recoverable

\* "if no qualified evidence exists the task fails with insufficient_evidence"
\* (README): a run terminated for that reason never counts as completed.
TerminatedRunNotCompleted ==
  (\E i \in DOMAIN journal : journal[i].stage = "terminated") => manifest.status # "completed"

\* "Mark a public-event contract failure as a terminal run failure"
\* (mark_event_persistence_failed): an engine whose run.started or run.resumed
\* cannot be written leaves a failed manifest.
EventFaultFailsRun ==
  [][\A e \in Engines :
       eng[e].pc = "start" /\ eng'[e].pc = "closing" /\ faults' > faults
         => manifest'.status = "failed"]_vars
==============================================================================
