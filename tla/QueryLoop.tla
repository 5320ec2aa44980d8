------------------------------- MODULE QueryLoop -------------------------------
(***************************************************************************)
(* The supervisor's query loop: query() of agents/query.py, its durable    *)
(* state (query_state.py), and QueryEngine._run_supervisor, which applies  *)
(* the loop's events to the supervisor state.                              *)
(*                                                                         *)
(* query() saves each new QueryLoopState before it does anything else, and *)
(* a save that raises ends it, so the copy in memory is never ahead of the *)
(* file when it matters: one variable, query, stands for both.  A save     *)
(* that fails is a Stop just before it or just after it.                   *)
(*                                                                         *)
(* The supervisor state has two copies that do differ: memory, and delta,  *)
(* the journal's deltas, whose writes are fail-open (_persist_update).     *)
(*                                                                         *)
(* Messages are left out but for the lead's mailbox: a tool batch claims   *)
(* task updates, writes them into the transcript, and they are acked when  *)
(* the outer state has taken the batch's event.                            *)
(***************************************************************************)
EXTENDS Mailbox, Sequences, FiniteSets

CONSTANTS
  Calls,          \* tool calls a model may ask for
  Unsafe,         \* those neither read-only nor idempotent
  Parallel,       \* ConductResearch: only of a synchronous run, run concurrently
  Updates,        \* task updates teammates may post to the lead
  Candidates,     \* model candidates, 1 the preferred one
  ContextLimit,   \* context_recovery_max_attempts
  OutputLimit,    \* output_continuation_max_attempts
  ModelAttempts,  \* model_transport_max_attempts
  CallLimit,      \* max_run_model_calls
  MaxTurns,       \* max_turns
  MaxWaits,       \* bound: passive turns, which do not count as turns
  MaxBoots,       \* bound: starts of the loop
  MaxFaults       \* bound: journal writes that fail

ASSUME QueryLoopAssumption ==
  /\ Unsafe \subseteq Calls /\ Parallel \subseteq Calls \ Unsafe
  /\ Candidates \in Nat \ {0} /\ ContextLimit \in Nat \ {0} /\ ModelAttempts \in Nat \ {0}
  /\ OutputLimit \in Nat /\ CallLimit \in Nat /\ MaxTurns \in Nat
  /\ MaxWaits \in Nat /\ MaxBoots \in Nat /\ MaxFaults \in Nat

VARIABLES
  async,     \* enable_async_research, frozen with the run's config
  query,     \* the last saved QueryLoopState
  delta,     \* supervisor state the journal replays to; log: events applied in it
  memory,    \* supervisor state in memory: events applied, mailbox messages processed
  mailbox,   \* the lead's mailbox file
  ledger,    \* model calls the budget ledger holds
  pc,        \* where the process is, "down" without one
  attempt,   \* transport attempt of the current model call
  fresh,     \* calls started in this batch whose result is not committed
  claimed,   \* updates claimed for the batch about to be closed
  replaying, \* resumed_tool_batch
  cancel,    \* a cancellation was requested
  degraded,  \* persistence_degraded, for good
  outcome,   \* how the loop ended: "open", "finished", "cancelled"
  waits, boots, faults,
  asked,     \* history: model calls that reached a provider
  ran,       \* history: times a call of the current batch was started
  shown      \* history: times an update entered the transcript

durable == <<async, query, delta, mailbox, ledger, degraded>>
process == <<memory, pc, attempt, fresh, claimed, replaying>>
history == <<asked, ran, shown>>
counts == <<cancel, outcome, waits, boots, faults>>
vars == <<durable, process, history, counts>>

------------------------------------------------------------------------------
(* The saved state of the loop                                              *)

Phases == {"preparing", "model", "tools", "govern", "terminal"}

NoEvent == [id |-> 0, final |-> FALSE, mail |-> {}, known |-> {}, by |-> 0]

FreshQuery ==
  [phase |-> "preparing", rev |-> 0, turn |-> 0, route |-> 1,
   ctx |-> 0, escalated |-> FALSE, cont |-> 0,
   calls |-> {}, done |-> {}, event |-> NoEvent, why |-> "none"]

\* Mutant: a transition that does not count as a revision.
To_Uncounted(phase) == [query EXCEPT !.phase = phase]

\* advance(): the table of legal transitions is checked by TransitionsLegal.
To(phase) == [query EXCEPT !.phase = phase, !.rev = @ + 1]

\* _terminal_state: the pending batch is dropped.
Ended(why) == [To("terminal") EXCEPT !.why = why, !.calls = {}, !.done = {}]

\* An event named by the revision it is saved with; mail is what its
\* application acknowledges, as consumer by, and known the processed messages
\* it records.
Event(mail, known, final) ==
  [id |-> query.rev + 1, final |-> final, mail |-> mail, known |-> known, by |-> boots]

\* The reset that follows every complete model response.
Answered(phase) == [To(phase) EXCEPT !.ctx = 0, !.escalated = FALSE, !.cont = 0]

ClearProcess ==
  /\ attempt' = 0 /\ fresh' = {} /\ claimed' = {} /\ replaying' = FALSE
  /\ memory' = [ids |-> {}, mail |-> {}]

Init ==
  /\ async \in BOOLEAN
  /\ query = FreshQuery
  /\ delta = [log |-> <<>>, ids |-> {}, mail |-> {}]
  /\ memory = [ids |-> {}, mail |-> {}]
  /\ mailbox = [u \in Updates |-> Absent]
  /\ ledger = 0 /\ asked = 0
  /\ pc = "down" /\ attempt = 0 /\ fresh = {} /\ claimed = {} /\ replaying = FALSE
  /\ cancel = FALSE /\ degraded = FALSE /\ outcome = "open"
  /\ waits = 0 /\ boots = 0 /\ faults = 0
  /\ ran = [c \in Calls |-> 0] /\ shown = [u \in Updates |-> 0]

------------------------------------------------------------------------------
(* Starting, stopping                                                       *)

\* Mutant: acknowledged_event_ids starts empty.
Restored_Forgetful == [ids |-> {}, mail |-> delta.mail]

\* The supervisor state _run_supervisor rebuilds from the journal.
Restored == [ids |-> delta.ids, mail |-> delta.mail]

\* Mutant: a batch in progress is executed again as if it were new.
Resumed_Never == FALSE

\* resumed_tool_batch
Resumed == query.phase = "tools"

\* The first start, and every resume.  query() may move to a later candidate,
\* past those whose circuit is open.
Boot ==
  /\ pc = "down" /\ outcome = "open" /\ boots < MaxBoots
  /\ boots' = boots + 1
  /\ memory' = Restored
  /\ replaying' = Resumed
  /\ \E r \in query.route..Candidates : query' = [query EXCEPT !.route = r]
  /\ pc' = "top"
  /\ UNCHANGED <<async, delta, mailbox, ledger, degraded, attempt, fresh, claimed, history,
                 cancel, outcome, waits, faults>>

\* A crash, an exception the loop lets through, a drain between two saves.
\* (Nothing could follow the stop of the last process.)
Stop ==
  /\ pc # "down" /\ boots < MaxBoots
  /\ pc' = "down" /\ ClearProcess
  /\ UNCHANGED <<durable, history, counts>>

Cancel ==
  /\ pc # "down" /\ ~cancel
  /\ cancel' = TRUE
  /\ UNCHANGED <<durable, process, history, outcome, waits, boots, faults>>

\* Where the loop saves that it was cancelled before it raises.
SavesCancel == pc \in {"call", "tools", "closing"}

\* A batch is closed with "cancelled" results, a model call without an event.
Cancelled ==
  IF pc = "call" THEN Ended("cancelled")
  ELSE [Ended("cancelled") EXCEPT !.event = Event({}, {}, FALSE)]

\* CancellationScope raises RunCancelled in whatever the run awaits.
TakeCancel ==
  /\ pc # "down" /\ cancel
  /\ query' = IF SavesCancel THEN Cancelled ELSE query
  /\ outcome' = "cancelled"
  /\ pc' = "down" /\ ClearProcess
  /\ UNCHANGED <<async, delta, mailbox, ledger, degraded, history, cancel, waits, boots, faults>>

\* The server interrupts the run: CancelledError, with no request to cancel.
Drain ==
  /\ SavesCancel
  /\ query' = Cancelled
  /\ pc' = "down" /\ ClearProcess
  /\ UNCHANGED <<async, delta, mailbox, ledger, degraded, history, counts>>

------------------------------------------------------------------------------
(* The outbox: an event is applied, its mail acknowledged, then cleared     *)

\* commit_supervisor_update up to _persist_update.
Deliver ==
  LET e == query.event
      ids == memory.ids \cup {e.id}
      written == [log |-> Append(delta.log, e.id), ids |-> ids,
                  mail |-> IF e.mail = {} THEN delta.mail ELSE e.known] IN
    /\ pc = "top" /\ e # NoEvent /\ e.id \notin memory.ids
    /\ memory' = [ids |-> ids, mail |-> IF e.mail = {} THEN memory.mail ELSE e.known]
    /\ \/ delta' = written /\ UNCHANGED <<degraded, faults>>
       \/ /\ faults < MaxFaults /\ faults' = faults + 1
          /\ degraded' = TRUE
          /\ delta' \in {delta, written}
    /\ pc' = "applied"
    /\ UNCHANGED <<async, query, mailbox, ledger, attempt, fresh, claimed, replaying, history,
                   cancel, outcome, waits, boots>>

\* ack_lead_updates under the name the claim was made with.
Ack ==
  LET e == query.event IN
    /\ pc = "applied" /\ OwnsClaims(mailbox, e.by, e.mail)
    /\ mailbox' = Acked(mailbox, e.mail)
    /\ pc' = "acked"
    /\ UNCHANGED <<async, query, delta, ledger, degraded, memory, attempt, fresh, claimed, replaying,
                   history, counts>>

AckRefused ==
  /\ pc = "applied" /\ ~OwnsClaims(mailbox, query.event.by, query.event.mail)
  /\ pc' = "down" /\ ClearProcess
  /\ UNCHANGED <<durable, history, counts>>

\* Mutant: the event is cleared whether or not it was applied.
MayClear_Unapplied == pc \in {"acked", "top"}

\* After the event was applied now, or before a restart.
MayClear == pc = "acked" \/ (pc = "top" /\ query.event.id \in memory.ids)

Clear ==
  /\ query.event # NoEvent /\ MayClear
  /\ query' = [To(query.phase) EXCEPT !.event = NoEvent]
  /\ IF query.event.final
       THEN pc' = "down" /\ outcome' = "finished" /\ ClearProcess
       ELSE pc' = "top" /\ UNCHANGED <<outcome, memory, attempt, fresh, claimed, replaying>>
  /\ UNCHANGED <<async, delta, mailbox, ledger, degraded, history, cancel, waits, boots, faults>>

------------------------------------------------------------------------------
(* A turn                                                                   *)

AtTop(phase) == pc = "top" /\ query.event = NoEvent /\ query.phase = phase

\* query is saved as q and the loop goes on at p.
Save(q, p) ==
  /\ query' = q /\ pc' = p
  /\ UNCHANGED <<async, delta, mailbox, ledger, degraded, memory, cancel, outcome, boots, faults>>

MaxTurnsReached ==
  /\ AtTop("preparing") /\ query.turn >= MaxTurns
  /\ Save(Ended("stopped"), "top")
  /\ UNCHANGED <<attempt, fresh, claimed, replaying, history, waits>>

\* A before_turn hook that replaces the messages; a cancelled scope raises in
\* it (TakeCancel).
BeforeTurn ==
  /\ AtTop("preparing") /\ query.turn < MaxTurns
  /\ Save(To("preparing"), "hooked")
  /\ UNCHANGED <<attempt, fresh, claimed, replaying, history, waits>>

\* _supervisor_turn_advance_policy: a turn that only waited for teammates is
\* not counted.
PrepareTurn ==
  /\ (AtTop("preparing") /\ query.turn < MaxTurns) \/ pc = "hooked"
  /\ \/ Save([To("model") EXCEPT !.turn = @ + 1], "top") /\ UNCHANGED waits
     \/ /\ async /\ query.turn > 0 /\ waits < MaxWaits
        /\ waits' = waits + 1
        /\ Save(To("model"), "top")
  /\ UNCHANGED <<attempt, fresh, claimed, replaying, history>>

------------------------------------------------------------------------------
(* The model call and its recoveries                                        *)

\* Mutant: the limit is passed by one.
MayCall_OffByOne == ledger <= CallLimit

\* BudgetLedger.reserve
MayCall == ledger < CallLimit

Reserve ==
  /\ MayCall
  /\ ledger' = ledger + 1 /\ pc' = "reserved"
  /\ UNCHANGED <<async, query, delta, mailbox, degraded, memory, fresh, claimed, replaying,
                 history, counts>>

StopModel == Save(Ended("stopped"), "top") /\ attempt' = 0
             /\ UNCHANGED <<fresh, claimed, replaying, history, waits, ledger>>

\* The context does not fit (checked first), or the budget is exhausted.
AskModel ==
  /\ AtTop("model")
  /\ \/ ~cancel /\ attempt' = 1 /\ Reserve
     \/ StopModel

\* The provider is called; the call is charged from before this step on.
SendCall ==
  /\ pc = "reserved"
  /\ asked' = asked + 1 /\ pc' = "call"
  /\ UNCHANGED <<durable, memory, attempt, fresh, claimed, replaying, ran, shown, counts>>

\* TimeoutError: the call is repeated in place, reserving anew.
RetryCall ==
  /\ pc = "call" /\ attempt < ModelAttempts
  /\ \/ attempt' = attempt + 1 /\ Reserve
     \/ ~MayCall /\ StopModel

\* The deadline, an error no recovery is for, a timeout after the last attempt.
CallFails == pc = "call" /\ StopModel

Recover(q) ==
  /\ pc = "call"
  /\ Save([q EXCEPT !.phase = "model", !.rev = @ + 1], "top")
  /\ attempt' = 0
  /\ UNCHANGED <<fresh, claimed, replaying, history, waits>>

\* PROMPT_TOO_LONG: reproject, then compact.
ContextRecovery ==
  query.ctx < ContextLimit /\ Recover([query EXCEPT !.ctx = @ + 1])

\* Mutant: a fallback resets every recovery budget and may go back.
FellBack_Round ==
  {[query EXCEPT !.route = r, !.ctx = 0, !.escalated = FALSE, !.cont = 0] :
     r \in 1..Candidates}

\* The states a fallback may save: the output recovery of the new candidate
\* starts afresh, the context recovery does not.
FellBack ==
  {[query EXCEPT !.route = r, !.escalated = FALSE, !.cont = 0] :
     r \in (query.route + 1)..Candidates}

ModelFallback == \E q \in FellBack : Recover(q)

\* A truncated response: more tokens once, where the model allows it, then
\* continuations.
Escalate == ~query.escalated /\ Recover([query EXCEPT !.escalated = TRUE])
Continuation == query.cont < OutputLimit /\ Recover([query EXCEPT !.cont = @ + 1])

CallRecovers == ContextRecovery \/ ModelFallback \/ Escalate \/ Continuation

\* The tools of the mode.
Offered == IF async THEN Calls \ Parallel ELSE Calls

AskedTools ==
  /\ pc = "call"
  /\ \E cs \in SUBSET Offered \ {{}} : Save([Answered("tools") EXCEPT !.calls = cs], "top")
  /\ attempt' = 0 /\ ran' = [c \in Calls |-> 0]
  /\ UNCHANGED <<fresh, claimed, replaying, asked, shown, waits>>

AnsweredPlainly ==
  /\ pc = "call"
  /\ Save(Answered("govern"), "top")
  /\ attempt' = 0
  /\ UNCHANGED <<fresh, claimed, replaying, history, waits>>

------------------------------------------------------------------------------
(* Stop governance                                                          *)

GoesOn ==
  /\ AtTop("govern")
  /\ Save([To("preparing") EXCEPT !.event = Event({}, {}, FALSE)], "top")
  /\ UNCHANGED <<attempt, fresh, claimed, replaying, history, waits>>

Completes ==
  /\ AtTop("govern")
  /\ \E why \in {"completed", "stopped"} :
       Save([Ended(why) EXCEPT !.event = Event({}, {}, TRUE)], "top")
  /\ UNCHANGED <<attempt, fresh, claimed, replaying, history, waits>>

\* A terminal state without a final event: query.completed is raised from it.
\* _run_supervisor turns the reason "cancelled" into RunCancelled.
Terminal ==
  /\ AtTop("terminal")
  /\ outcome' = IF query.why = "cancelled" THEN "cancelled" ELSE "finished"
  /\ pc' = "down" /\ ClearProcess
  /\ UNCHANGED <<durable, history, cancel, waits, boots, faults>>

------------------------------------------------------------------------------
(* The tool batch                                                           *)

Uncommitted == query.calls \ query.done

UnsafeReplay == replaying /\ Uncommitted \cap Unsafe # {}

RefuseReplay ==
  /\ AtTop("tools") /\ UnsafeReplay
  /\ Save(Ended("stopped"), "top")
  /\ UNCHANGED <<attempt, fresh, claimed, replaying, history, waits>>

StartBatch ==
  /\ AtTop("tools") /\ ~UnsafeReplay
  /\ pc' = "tools"
  /\ UNCHANGED <<durable, memory, attempt, fresh, claimed, replaying, history, counts>>

\* One after the other, the parallel ones last and together.
MayStart(c) ==
  /\ c \in Uncommitted \ fresh
  /\ IF c \in Parallel THEN Uncommitted \subseteq Parallel ELSE fresh = {}

StartCall(c) ==
  /\ pc = "tools" /\ MayStart(c)
  /\ fresh' = fresh \cup {c} /\ ran' = [ran EXCEPT ![c] = @ + 1]
  /\ UNCHANGED <<durable, memory, pc, attempt, claimed, replaying, asked, shown, counts>>

\* on_committed
CommitCall(c) ==
  /\ pc = "tools" /\ c \in fresh
  /\ Save([To("tools") EXCEPT !.done = @ \cup {c}], "tools")
  /\ fresh' = fresh \ {c}
  /\ UNCHANGED <<attempt, claimed, replaying, history, waits>>

\* With the results of all calls at hand; _collect_task_update_context.
ClaimUpdates ==
  /\ pc = "tools" /\ Uncommitted = {}
  /\ IF async THEN mailbox' = Claimed(mailbox, boots) /\ claimed' = Claimable(mailbox)
              ELSE UNCHANGED <<mailbox, claimed>>
  /\ pc' = "closing"
  /\ UNCHANGED <<async, query, delta, ledger, degraded, memory, attempt, fresh, replaying, history, counts>>

\* Mutant: every claimed update is written into the transcript.
NewUpdates_All == claimed

\* claim_lead_updates renders the messages that were not processed before.
NewUpdates == claimed \ memory.mail

CloseBatch ==
  LET event == Event(claimed, IF claimed = {} THEN {} ELSE memory.mail \cup claimed, FALSE)
      closed == [To("preparing") EXCEPT !.calls = {}, !.done = {}, !.event = event] IN
    /\ pc = "closing"
    /\ \/ Save(closed, "top")
       \/ Save([Ended("completed") EXCEPT !.event = event], "top")
    /\ shown' = [u \in Updates |-> IF u \in NewUpdates THEN shown[u] + 1 ELSE shown[u]]
    /\ claimed' = {} /\ replaying' = FALSE /\ ran' = [c \in Calls |-> 0]
    /\ UNCHANGED <<attempt, fresh, asked, waits>>

\* An exception in the batch, or its timeout: with a committed result it is
\* raised (Stop), else the batch is closed with error results.
BatchFails ==
  /\ pc = "tools" /\ query.done = {}
  /\ Save([Ended("stopped") EXCEPT !.event = Event({}, {}, FALSE)], "top")
  /\ fresh' = {} /\ claimed' = {} /\ replaying' = FALSE
  /\ UNCHANGED <<attempt, history, waits>>

------------------------------------------------------------------------------
(* Teammates and time                                                       *)

\* publish_task_update of a teammate of this process; once more when the state
\* change is repeated.
PostUpdate(u) ==
  /\ async /\ pc # "down" /\ mailbox' = Sent(mailbox, u) /\ mailbox' # mailbox
  /\ UNCHANGED <<async, query, delta, ledger, degraded, process, history, counts>>

ClaimLapses(u) ==
  /\ mailbox[u].live /\ mailbox' = Lapsed(mailbox, u)
  /\ UNCHANGED <<async, query, delta, ledger, degraded, process, history, counts>>

\* What the loop itself does.
LoopStep ==
  \/ TakeCancel
  \/ Deliver \/ Ack \/ AckRefused \/ Clear
  \/ MaxTurnsReached \/ BeforeTurn \/ PrepareTurn
  \/ AskModel \/ SendCall \/ RetryCall \/ CallFails \/ CallRecovers
  \/ AskedTools \/ AnsweredPlainly \/ GoesOn \/ Completes \/ Terminal
  \/ RefuseReplay \/ StartBatch \/ ClaimUpdates \/ CloseBatch \/ BatchFails
  \/ \E c \in Calls : StartCall(c) \/ CommitCall(c)

Next ==
  \/ LoopStep
  \/ Boot \/ Stop \/ Cancel \/ Drain
  \/ \E u \in Updates : PostUpdate(u) \/ ClaimLapses(u)

Spec == Init /\ [][Next]_vars

------------------------------------------------------------------------------
(* Properties                                                               *)

EventIds == Nat
Events ==
  [id : EventIds, final : BOOLEAN, mail : SUBSET Updates, known : SUBSET Updates, by : 0..MaxBoots]
QueryState ==
  [phase : Phases, rev : Nat, turn : 0..MaxTurns, route : 1..Candidates,
   ctx : 0..ContextLimit, escalated : BOOLEAN, cont : 0..OutputLimit,
   calls : SUBSET Calls, done : SUBSET Calls,
   event : Events,
   why : {"none", "completed", "stopped", "cancelled"}]

\* The type of every variable (query_state.py, query_engine.py).
TypeOK ==
  /\ async \in BOOLEAN
  /\ query \in QueryState
  /\ delta \in [log : Seq(EventIds), ids : SUBSET EventIds, mail : SUBSET Updates]
  /\ memory \in [ids : SUBSET EventIds, mail : SUBSET Updates]
  /\ mailbox \in [Updates -> Message(1..MaxBoots)]
  /\ ledger \in 0..CallLimit /\ asked \in Nat
  /\ pc \in {"down", "top", "applied", "acked", "hooked", "reserved", "call", "tools", "closing"}
  /\ attempt \in 0..ModelAttempts
  /\ fresh \subseteq Calls /\ claimed \subseteq Updates
  /\ replaying \in BOOLEAN /\ cancel \in BOOLEAN /\ degraded \in BOOLEAN
  /\ outcome \in {"open", "finished", "cancelled"}
  /\ waits \in 0..MaxWaits /\ boots \in 0..MaxBoots /\ faults \in 0..MaxFaults
  /\ ran \in [Calls -> Nat] /\ shown \in [Updates -> Nat]

\* The journal holds each event of the loop at most once, in the order the loop
\* produced them, and none the loop has not saved (event_id and
\* applied_query_event_ids).
AppliedInOrder ==
  /\ \A i, j \in DOMAIN delta.log : i < j => delta.log[i] < delta.log[j]
  /\ \A i \in DOMAIN delta.log : delta.log[i] <= query.rev

\* The loop and the outer state implement the outbox: nothing is applied twice,
\* out of order or, while no journal write has failed, not at all, whatever
\* crashes come between the save, the delta, the ack and the clearing.
waitingEvent ==
  IF \E i \in DOMAIN delta.log : delta.log[i] = query.event.id THEN 0 ELSE query.event.id

O == INSTANCE Outbox WITH waiting <- waitingEvent, applied <- delta.log

ImplementsOutbox == O!Spec

\* A task update is written into the transcript at most once, and one that was
\* acknowledged was written (claim_lead_updates, processed_mailbox_message_ids).
UpdateShownOnce ==
  \A u \in Updates :
    /\ shown[u] <= 1
    /\ mailbox[u].status = "acked" => shown[u] = 1

\* A tool with an effect that cannot be repeated runs at most once in its
\* batch, whatever restarts the batch goes through.
UnsafeToolOnce == \A c \in Unsafe : ran[c] <= 1

\* What is left of the recoveries of a model step.
Recoveries ==
  (Candidates - query.route) * (OutputLimit + 2) + (ContextLimit - query.ctx)
    + (IF query.escalated THEN 0 ELSE 1) + (OutputLimit - query.cont)

\* A model step does not recover for ever: every recovery, and every restart
\* that changes the candidate, uses up some of what is left, although a
\* fallback renews the output recovery.
RecoveryBounded ==
  [][query.phase = "model" /\ query'.phase = "model" /\ query' # query
       => 0 <= Recoveries' /\ Recoveries' < Recoveries]_vars

\* No more model calls reach a provider than the run's budget allows, however
\* often the run is restarted.
SpendWithinLimit == asked <= ledger /\ ledger <= CallLimit

\* _LEGAL_PHASE_TRANSITIONS
LegalAfter ==
  [preparing |-> {"preparing", "model", "terminal"},
   model |-> {"preparing", "model", "tools", "govern", "terminal"},
   tools |-> {"preparing", "tools", "model", "terminal"},
   govern |-> {"preparing", "govern", "model", "terminal"},
   terminal |-> {"terminal"}]

\* advance() never raises illegal_query_phase_transition, and a state is never
\* replaced by one of the same or an earlier revision: replay keeps the last.
TransitionsLegal ==
  [][query' # query =>
       /\ query'.phase \in LegalAfter[query.phase]
       /\ query'.rev > query.rev \/ query' = [query EXCEPT !.route = query'.route]]_vars
===============================================================================
