----------------------------- MODULE ModelGateway -----------------------------
(***************************************************************************)
(* Model calls through the sandbox gateway.  A worker or the engine sends  *)
(* a logical operation to the gateway (sandbox/gateway.py), which alone    *)
(* calls the provider and keeps nothing durable: it reserves, charges and  *)
(* journals each physical attempt by signed posts to the API               *)
(* (sandbox/internal_api.py), whose journal (sandbox/operations.py) and    *)
(* ledger (budgets.py) outlive both processes.                             *)
(*                                                                         *)
(* A step of an invocation is one post, or the provider's answer, with     *)
(* what the coroutine does up to the next one.  A post is sent, received,  *)
(* applied and answered in one step, in which the request or the answer    *)
(* may be lost.  The limit on model calls is the one that is modelled; a   *)
(* refusal by another limit of the run may happen to any reservation.      *)
(***************************************************************************)
EXTENDS Naturals, Sequences, FiniteSets

CONSTANTS
  Ops,               \* logical operations
  NoOp,              \* not one
  Handlers,          \* invocations in progress at one time
  MaxFence,          \* epochs of the run
  CallLimit,         \* max_run_model_calls
  TransportAttempts, \* model_transport_max_attempts
  Models,            \* length of the fallback chain
  MaxFaults          \* what goes wrong: all below that is a Fault

ASSUME ModelGatewayAssumption ==
  /\ {MaxFence, CallLimit, TransportAttempts, Models} \subseteq Nat \ {0}
  /\ MaxFaults \in Nat
  /\ NoOp \notin Ops

VARIABLES
  fence,     \* token of the newest engine of the run
  active,    \* the API process has that engine in _runs, with its token
  reg,       \* token under which the run is registered at the gateway, or 0
  journal,   \* operation -> its ModelOperationRecord
  ledger,    \* <<operation, attempt>> -> its reservation, once there is one
  inv,       \* handler -> the invocation it serves
  listed,    \* handlers whose lock is the one in operation_locks
  faults,    \* what went wrong so far
  \* for the properties only
  calls,     \* operation -> the attempts for which the provider was called
  told,      \* <<operation, call>>: completed outcomes callers received
  abandoned, \* operations left while the provider worked on a call
  exposed,   \* operations with two invocations of one epoch on two locks
  reused     \* reservations used after they had been released

api     == <<fence, active, journal, ledger>>
history == <<calls, told, abandoned, exposed, reused>>
vars    == <<api, reg, inv, listed, faults, history>>

(***************************************************************************)
(* Records                                                                 *)
(***************************************************************************)
\* How an exception is classified: by classify_llm_retryable_error, and by
\* classify_model_error ("busy" for the kinds with a fallback, "unknown" for
\* those that leave the operation uncertain, "refused" for the others).
Error(retry, kind) == [retry |-> retry, kind |-> kind]
NoError        == Error(FALSE, "none")
LostErrors     == {Error(TRUE, "busy"), Error(TRUE, "unknown"), Error(FALSE, "unknown")}
ProviderErrors == {Error(TRUE, "busy"), Error(FALSE, "refused"), Error(FALSE, "unknown")}
StatusError(kind) == Error(FALSE, kind)

\* The entries of _pending_posts; seen: the API has consumed the nonce.
Post(kind, n)   == [kind |-> kind, n |-> n, seen |-> FALSE]
PostKinds       == {"reserve", "dispatched", "charge"}
BeginPosts(n)   == <<Post("reserve", n), Post("dispatched", n)>>

NoRecord == [status |-> "absent", attempts |-> {}, again |-> FALSE, answer |-> 0]
Idle == [pc |-> "idle", op |-> NoOp, fence |-> 0, ahead |-> {}, n |-> 0,
         posts |-> <<>>, tries |-> 0, model |-> 0, err |-> NoError, call |-> 0]

Busy == {h \in Handlers : inv[h].pc # "idle"}
Key(h, n) == <<inv[h].op, n>>

Init ==
  /\ fence = 1 /\ active = TRUE /\ reg = 0
  /\ journal = [op \in Ops |-> NoRecord]
  /\ ledger = [k \in {} |-> "reserved"]
  /\ inv = [h \in Handlers |-> Idle]
  /\ listed = {} /\ faults = 0
  /\ calls = [op \in Ops |-> <<>>]
  /\ told = {} /\ abandoned = {} /\ exposed = {} /\ reused = {}

(***************************************************************************)
(* The API: authority, ledger and journal                                  *)
(***************************************************************************)
Authority(h) == active /\ inv[h].fence = fence

\* RunBudgetLedger._used: what is reserved or settled counts.
Counted == {k \in DOMAIN ledger : ledger[k] # "released"}
\* Mutant: the limit is passed by one.
BudgetAllows_OneMore(k) == k \in DOMAIN ledger \/ Cardinality(Counted) <= CallLimit
BudgetAllows(k) == k \in DOMAIN ledger \/ Cardinality(Counted) < CallLimit
Put(k, status)  == ledger' = [x \in DOMAIN ledger \cup {k} |->
                                IF x = k THEN status ELSE ledger[x]]
Reuse(k) == reused' = IF k \in DOMAIN ledger /\ ledger[k] = "released"
                      THEN reused \cup {k} ELSE reused
\* An existing reservation is returned as it is, a released one too.
ReserveBudget(k) ==
  /\ BudgetAllows(k)
  /\ IF k \in DOMAIN ledger THEN UNCHANGED ledger ELSE Put(k, "reserved")
  /\ Reuse(k)

\* ModelOperationStore.reserve.
JournalTakes(op, n) ==
  \/ n \in journal[op].attempts
  \/ journal[op].status \in {"absent", "reserved", "dispatched"}
  \/ journal[op].status = "failed" /\ journal[op].again
\* Mutant: an attempt under a dispatched operation is not listed.
ReserveAttempt_Unlisted(op, n) ==
  /\ JournalTakes(op, n)
  /\ journal' = [journal EXCEPT ![op] =
       IF n \in @.attempts \/ @.status = "dispatched" THEN @
       ELSE [NoRecord EXCEPT !.status = "reserved", !.attempts = journal[op].attempts \cup {n}]]
ReserveAttempt(op, n) ==
  /\ JournalTakes(op, n)
  /\ LET record == journal[op]
         listing == record.attempts \cup {n} IN
     journal' = [journal EXCEPT ![op] =
       IF n \in record.attempts THEN record
       ELSE IF record.status = "dispatched" THEN [record EXCEPT !.attempts = listing]
       ELSE [NoRecord EXCEPT !.status = "reserved", !.attempts = listing]]

\* Mutant: the same status is written again without comparing the outcome.
Transition_Overwrites(op, expected, new) ==
  /\ journal[op].status \in expected \cup {new.status}
  /\ journal' = [journal EXCEPT ![op] = new]
\* ModelOperationStore.transition: a status that is there already must come
\* with the same outcome.
Transition(op, expected, new) ==
  /\ \/ journal[op].status \in expected
     \/ journal[op] = new
  /\ journal' = [journal EXCEPT ![op] = new]
Dispatched(op) == [journal[op] EXCEPT !.status = "dispatched"]
Completed(op, call) == [journal[op] EXCEPT !.status = "completed", !.answer = call]
Failed(op, e) ==
  IF e.kind = "unknown" THEN [journal[op] EXCEPT !.status = "uncertain"]
  ELSE [journal[op] EXCEPT !.status = "failed", !.again = (e.kind = "busy")]

\* What the API does with a post it has let in: reserve_budget,
\* transition_operation, settle_budget and fail_budget.
Applied(h, post) ==
  CASE post.kind = "reserve" ->
         /\ ReserveBudget(Key(h, post.n))
         /\ ReserveAttempt(inv[h].op, post.n)
    [] post.kind = "dispatched" ->
         /\ Transition(inv[h].op, {"reserved"}, Dispatched(inv[h].op))
         /\ UNCHANGED <<ledger, reused>>
    [] post.kind = "charge" ->
         /\ ledger' = [ledger EXCEPT ![Key(h, post.n)] = "settled"]
         /\ Reuse(Key(h, post.n)) /\ UNCHANGED journal
\* It refuses a reservation beyond the limit, and a transition the status of
\* the record does not allow.
Refuses(h, post) ==
  CASE post.kind = "reserve"    -> ~BudgetAllows(Key(h, post.n))
    [] post.kind = "dispatched" ->
         journal[inv[h].op].status \notin {"reserved", "dispatched"}
    [] post.kind = "charge"     -> FALSE

(***************************************************************************)
(* Exceptions, retries and fallback                                        *)
(***************************************************************************)
Fault == faults < MaxFaults /\ faults' = faults + 1

\* Mutant: a retry keeps the id of the attempt.
Begun_SameId(i, posts, tries, model) ==
  LET n == IF tries > 1 THEN i.n ELSE i.n + 1 IN
  [i EXCEPT !.pc = "begin", !.n = n, !.posts = posts \o BeginPosts(n),
            !.tries = tries, !.model = model, !.err = NoError, !.call = 0]
\* begin_physical_attempt: the next attempt, behind the posts still pending.
Begun(i, posts, tries, model) ==
  [i EXCEPT !.pc = "begin", !.n = @ + 1, !.posts = posts \o BeginPosts(i.n + 1),
            !.tries = tries, !.model = model, !.err = NoError, !.call = 0]

\* Mutant: one attempt too many.
Decided_OneMore(i, posts, e) ==
  IF e.retry /\ i.tries <= TransportAttempts
    THEN Begun(i, posts, i.tries + 1, i.model)
  ELSE [i EXCEPT !.pc = "end", !.posts = <<>>, !.err = e, !.call = 0]
\* The retry loop, then invoke_with_model_fallback, then the end.
Decided(i, posts, e) ==
  IF e.retry /\ i.tries < TransportAttempts
    THEN Begun(i, posts, i.tries + 1, i.model)
  ELSE IF e.kind = "busy" /\ i.model < Models
    THEN Begun(i, posts, 1, i.model + 1)
  ELSE [i EXCEPT !.pc = "end", !.posts = <<>>, !.err = e, !.call = 0]

\* e is raised by flush_pending.  In begin_attempt the failure is queued and
\* waits for the next flush.  After an answer of the provider the answer is
\* thrown away and settle_failure flushes once more.  In settle_failure the
\* new exception replaces the old one, and one made of a status is retried
\* when the old one, its context, may be.
Raised(i, posts, e) ==
  CASE i.pc = "begin"  -> {Decided(i, Append(posts, Post("charge", i.n)), e)}
    [] i.pc = "settle" -> {[i EXCEPT !.pc = "fail", !.posts = posts, !.err = e, !.call = 0]}
    [] i.pc = "fail"   -> {Decided(i, posts, Error(retry, e.kind)) :
                             retry \in {e.retry, e.retry \/ i.err.retry}}

(***************************************************************************)
(* An invocation                                                           *)
(***************************************************************************)
Become(h, i) == inv' = [inv EXCEPT ![h] = i]

\* Mutant: a lock is not given back.
Without_Locked(S) == [g \in Handlers |-> IF g \in S THEN Idle ELSE inv[g]]
\* The coroutine returns or dies: its lock goes to the next in line.
Without(S) == [g \in Handlers |-> IF g \in S THEN Idle
                                  ELSE [inv[g] EXCEPT !.ahead = @ \ S]]
Leave(S) == inv' = Without(S) /\ listed' = listed \ S

\* authorize_task, authorize_api_model and the setdefault on operation_locks.
Invoke(h, op) ==
  /\ inv[h].pc = "idle" /\ reg # 0
  /\ Become(h, [Idle EXCEPT !.pc = "lookup", !.op = op, !.fence = reg,
                            !.ahead = {g \in listed : inv[g].op = op}])
  /\ listed' = listed \cup {h}
  /\ exposed' = IF \E g \in Busy \ listed : inv[g].op = op /\ inv[g].fence = reg
                THEN exposed \cup {op} ELSE exposed
  /\ UNCHANGED <<api, reg, faults, calls, told, abandoned, reused>>

\* get_operation, once the lock is held.
Looking(h) == inv[h].pc = "lookup" /\ inv[h].ahead = {}
\* Mutant: an open dispatch is no reason to stop.
Startable_Dispatched(op) ==
  \/ journal[op].status \in {"absent", "reserved", "dispatched"}
  \/ journal[op].status = "failed" /\ journal[op].again
Startable(op) ==
  \/ journal[op].status \in {"absent", "reserved"}
  \/ journal[op].status = "failed" /\ journal[op].again

LookupStarts(h) ==
  /\ Looking(h) /\ Authority(h) /\ Startable(inv[h].op)
  /\ LET i == [inv[h] EXCEPT !.n = Cardinality(journal[inv[h].op].attempts)]
     IN  Become(h, Begun(i, <<>>, 1, 1))
  /\ UNCHANGED <<api, reg, listed, faults, history>>

\* An outcome that is final, or uncertain because an attempt is open.
LookupAnswers(h) ==
  /\ Looking(h) /\ Authority(h) /\ ~Startable(inv[h].op)
  /\ told' = IF journal[inv[h].op].status = "completed"
             THEN told \cup {<<inv[h].op, journal[inv[h].op].answer>>} ELSE told
  /\ Leave({h})
  /\ UNCHANGED <<api, reg, faults, calls, abandoned, exposed, reused>>

LookupFails(h) ==
  /\ Looking(h)
  /\ IF Authority(h) THEN Fault ELSE UNCHANGED faults
  /\ Leave({h})
  /\ UNCHANGED <<api, reg, history>>

\* flush_pending, up to the answer of its first post.
Flushing(h) == inv[h].pc \in {"begin", "settle", "fail"}
First(h)    == Head(inv[h].posts)
Rest(h)     == Tail(inv[h].posts)
Burnt(h)    == <<[First(h) EXCEPT !.seen = TRUE]>> \o Rest(h)

\* The last post was answered: the provider is called, or the answer goes on
\* to be journaled, or the error goes on to the retry loop.
PostAnswered(h) ==
  /\ Flushing(h) /\ Authority(h) /\ ~First(h).seen
  /\ Applied(h, First(h))
  /\ LET i == inv[h] IN
     IF Rest(h) # <<>>
       THEN Become(h, [i EXCEPT !.posts = Rest(h)]) /\ UNCHANGED calls
     ELSE \/ /\ i.pc = "begin"
             /\ Become(h, [i EXCEPT !.pc = "call", !.posts = <<>>,
                                    !.call = Len(calls[i.op]) + 1])
             /\ calls' = [calls EXCEPT ![i.op] = Append(@, i.n)]
          \/ /\ i.pc = "settle"
             /\ Become(h, [i EXCEPT !.pc = "complete", !.posts = <<>>])
             /\ UNCHANGED calls
          \/ /\ i.pc = "fail"
             /\ Become(h, Decided(i, <<>>, i.err)) /\ UNCHANGED calls
  /\ UNCHANGED <<fence, active, reg, listed, faults, told, abandoned, exposed>>

PostRaises(h, posts, e) ==
  /\ \E i \in Raised(inv[h], posts, e) : Become(h, i)
  /\ UNCHANGED <<fence, active, reg, listed, calls, told, abandoned, exposed>>

PostAnswerLost(h) ==
  /\ Flushing(h) /\ Authority(h) /\ ~First(h).seen /\ Fault
  /\ Applied(h, First(h))
  /\ \E e \in LostErrors : PostRaises(h, Burnt(h), e)

PostLost(h) ==
  /\ Flushing(h) /\ Fault
  /\ \E e \in LostErrors : PostRaises(h, inv[h].posts, e)
  /\ UNCHANGED <<journal, ledger, reused>>

\* 404 before the nonce is read, then 401, 409, and 500 for the exceptions
\* that the endpoints do not handle.
PostRefused(h) ==
  /\ Flushing(h)
  /\ \/ ~active /\ PostRaises(h, inv[h].posts, StatusError("unknown"))
     \/ active /\ First(h).seen /\ PostRaises(h, inv[h].posts, StatusError("refused"))
     \/ /\ active /\ ~First(h).seen
        /\ Authority(h) => Refuses(h, First(h))
        /\ PostRaises(h, Burnt(h), StatusError("unknown"))
  /\ UNCHANGED <<journal, ledger, reused, faults>>

\* validate_timestamp: a post is signed when it is queued, and one that waited
\* for more than 30 seconds is refused with 401 before the nonce is read.
PostTooOld(h) ==
  /\ Flushing(h) /\ active /\ Fault
  /\ PostRaises(h, inv[h].posts, StatusError("refused"))
  /\ UNCHANGED <<journal, ledger, reused>>

\* reserve_budget with the reservation made and the attempt not journaled:
\* the record is terminal, or its file cannot be written.
ReserveHalfDone(h) ==
  /\ Flushing(h) /\ Authority(h) /\ ~First(h).seen /\ First(h).kind = "reserve"
  /\ ReserveBudget(Key(h, First(h).n))
  /\ IF JournalTakes(inv[h].op, First(h).n) THEN Fault ELSE UNCHANGED faults
  /\ PostRaises(h, Burnt(h), StatusError("unknown"))
  /\ UNCHANGED journal

\* reserve_model_call when the tokens or the cost are refused: the keys it
\* has reserved are released, one that was there before as well.
OtherLimitRefuses(h) ==
  /\ Flushing(h) /\ Authority(h) /\ ~First(h).seen /\ First(h).kind = "reserve"
  /\ LET k == Key(h, First(h).n) IN
     /\ BudgetAllows(k)
     /\ IF k \in DOMAIN ledger /\ ledger[k] = "settled"
        THEN UNCHANGED ledger ELSE Put(k, "released")
  /\ Fault
  /\ PostRaises(h, Burnt(h), StatusError("unknown"))
  /\ UNCHANGED <<journal, reused>>

\* The provider, within model_call_timeout_seconds.
Charging(i, pc) == [i EXCEPT !.pc = pc, !.posts = <<Post("charge", i.n)>>]
ProviderAnswers(h) ==
  /\ inv[h].pc = "call"
  /\ Become(h, Charging(inv[h], "settle"))
  /\ UNCHANGED <<api, reg, listed, faults, history>>
ProviderFails(h) ==
  /\ inv[h].pc = "call"
  /\ \E e \in ProviderErrors :
       Become(h, [Charging(inv[h], "fail") EXCEPT !.err = e, !.call = 0])
  /\ UNCHANGED <<api, reg, listed, faults, history>>

\* The transition to completed.  Whatever it raises sends the invocation to
\* the transition of a failure.
CompletedPosted(h) ==
  /\ inv[h].pc = "complete" /\ Authority(h)
  /\ Transition(inv[h].op, {"dispatched"}, Completed(inv[h].op, inv[h].call))
  /\ \/ /\ told' = told \cup {<<inv[h].op, inv[h].call>>}
        /\ Leave({h}) /\ UNCHANGED faults
     \/ /\ Fault
        /\ \E e \in LostErrors :
             Become(h, [inv[h] EXCEPT !.pc = "end", !.err = e, !.call = 0])
        /\ UNCHANGED <<told, listed>>
  /\ UNCHANGED <<fence, active, ledger, reg, calls, abandoned, exposed, reused>>
CompletedNotPosted(h) ==
  /\ inv[h].pc = "complete"
  /\ \/ /\ Authority(h) => journal[inv[h].op].status # "dispatched"
                           /\ journal[inv[h].op] # Completed(inv[h].op, inv[h].call)
        /\ Become(h, [inv[h] EXCEPT !.pc = "end", !.err = StatusError("unknown"), !.call = 0])
        /\ UNCHANGED faults
     \/ /\ Fault
        /\ \E e \in LostErrors :
             Become(h, [inv[h] EXCEPT !.pc = "end", !.err = e, !.call = 0])
  /\ UNCHANGED <<api, reg, listed, history>>

\* The transition to failed or uncertain, whose own errors are suppressed:
\* the caller gets the outcome in any case.
FailurePosted(h) ==
  /\ inv[h].pc = "end" /\ Authority(h)
  /\ Transition(inv[h].op, {"reserved", "dispatched"}, Failed(inv[h].op, inv[h].err))
  /\ Leave({h})
  /\ UNCHANGED <<fence, active, ledger, reg, faults, history>>
FailureNotPosted(h) ==
  /\ inv[h].pc = "end"
  /\ IF Authority(h) /\ journal[inv[h].op].status \in {"reserved", "dispatched"}
     THEN Fault ELSE UNCHANGED faults
  /\ Leave({h})
  /\ UNCHANGED <<api, reg, history>>

Step(h) ==
  \/ LookupStarts(h) \/ LookupAnswers(h) \/ LookupFails(h)
  \/ PostAnswered(h) \/ PostAnswerLost(h) \/ PostLost(h)
  \/ PostRefused(h) \/ PostTooOld(h)
  \/ ReserveHalfDone(h) \/ OtherLimitRefuses(h)
  \/ ProviderAnswers(h) \/ ProviderFails(h)
  \/ CompletedPosted(h) \/ CompletedNotPosted(h)
  \/ FailurePosted(h) \/ FailureNotPosted(h)

(***************************************************************************)
(* The run, the registration and the processes                             *)
(***************************************************************************)
\* A new engine acquires the lease in the API process.
TakeOver ==
  /\ fence < MaxFence /\ Fault
  /\ fence' = fence + 1 /\ active' = TRUE
  /\ UNCHANGED <<journal, ledger, reg, inv, listed, history>>
\* It releases the lease, or the API process restarts.
EngineLeaves ==
  /\ active /\ Fault
  /\ active' = FALSE
  /\ UNCHANGED <<fence, journal, ledger, reg, inv, listed, history>>

\* register() by an engine or by the sandbox manager of one of its tasks, an
\* old one included.  A higher token removes the locks of the run.
Register(token) ==
  /\ token \in 1 .. fence /\ token > reg
  /\ reg' = token
  /\ listed' = {}
  /\ UNCHANGED <<api, inv, faults, history>>
\* unregister() with the token of the registration, or evict_expired_runs().
Evict ==
  /\ reg # 0 /\ Fault
  /\ reg' = 0 /\ listed' = {}
  /\ UNCHANGED <<api, inv, history>>

Underway == {"call", "settle", "fail", "complete"}
\* The client of /v1/models/stream goes away, which cancels the invocation.
Abandon(S) ==
  /\ Leave(S) /\ Fault
  /\ abandoned' = abandoned \cup {inv[h].op : h \in {g \in S : inv[g].pc \in Underway}}
  /\ UNCHANGED <<api, calls, told, exposed, reused>>
Cancel(h) == inv[h].pc # "idle" /\ Abandon({h}) /\ UNCHANGED reg
GatewayRestart == Busy # {} /\ Abandon(Handlers) /\ reg' = 0

Next ==
  \/ \E h \in Handlers, op \in Ops : Invoke(h, op)
  \/ \E h \in Handlers : Step(h) \/ Cancel(h)
  \/ \E token \in 1 .. MaxFence : Register(token)
  \/ TakeOver \/ EngineLeaves \/ Evict \/ GatewayRestart

Spec     == Init /\ [][Next]_vars
FairSpec == Spec /\ \A h \in Handlers : WF_vars(Step(h))

(***************************************************************************)
(* Properties                                                              *)
(***************************************************************************)
Statuses == {"absent", "reserved", "dispatched", "completed", "failed", "uncertain"}
Places   == {"idle", "lookup", "begin", "call", "settle", "fail", "complete", "end"}
Kinds    == {"none", "busy", "refused", "unknown"}

RecordType == [status : Statuses, attempts : SUBSET Nat, again : BOOLEAN, answer : Nat]
PostType   == [kind : PostKinds, n : Nat, seen : BOOLEAN]
InvocationType ==
  [pc : Places, op : Ops \cup {NoOp}, fence : 0 .. MaxFence, ahead : SUBSET Handlers,
   n : Nat, posts : Seq(PostType), tries : 0 .. TransportAttempts, model : 0 .. Models,
   err : [retry : BOOLEAN, kind : Kinds], call : Nat]

\* The types, the bounds on retries and fallbacks, and that an invocation is
\* never of a later epoch than the newest engine, waits for nobody who is
\* gone, and has a post to send whenever it is flushing.
TypeOK ==
  /\ fence \in 1 .. MaxFence /\ active \in BOOLEAN /\ reg \in 0 .. fence
  /\ journal \in [Ops -> RecordType]
  /\ DOMAIN ledger \subseteq Ops \X Nat
  /\ \A k \in DOMAIN ledger : ledger[k] \in {"reserved", "settled", "released"}
  /\ inv \in [Handlers -> InvocationType]
  /\ \A h \in Handlers :
       /\ inv[h].fence <= fence
       /\ inv[h].ahead \subseteq Busy \ {h}
       /\ inv[h].pc # "idle" => inv[h].op \in Ops
       /\ Flushing(h) => inv[h].posts # <<>>
  /\ listed \subseteq Busy
  /\ faults \in 0 .. MaxFaults

\* A physical attempt reaches the provider once: its id, the number of the
\* attempt under its operation (gateway.py:159-172), is what its reservation
\* and its charge are kept under.  The lock of an operation keeps two
\* invocations from counting alike; an eviction that forgets the lock while an
\* invocation holds it, and a registration in the same epoch, undo that.
AttemptCalledOnce ==
  \A op \in Ops \ exposed : \A i, j \in 1 .. Len(calls[op]) :
    calls[op][i] = calls[op][j] => i = j

\* An invocation never calls the provider while another one is between its call
\* and its outcome, nor after one was left there by a cancellation or a
\* restart: the provider may have done the work (gateway.py:1133-1140).
NoBlindRepeat ==
  [][\A h \in Handlers : LET op == inv[h].op IN
       inv[h].pc = "begin" /\ inv'[h].pc = "call" /\ op \notin exposed =>
         /\ op \notin abandoned
         /\ \A g \in Handlers \ {h} : inv[g].op = op => inv[g].pc \notin Underway]_vars

\* What the provider was called for is journaled and held against the budget,
\* then and ever after (internal_api.py:202-227, budgets.py:139-229).
CalledIsPaid ==
  \A op \in Ops \ exposed : \A i \in 1 .. Len(calls[op]) :
    LET n == calls[op][i] IN
      /\ n \in journal[op].attempts
      /\ <<op, n>> \in DOMAIN ledger
      /\ ledger[<<op, n>>] = "released" => <<op, n>> \in reused

\* The model calls that count stay within max_run_model_calls, but for
\* reservations that were released and came back (budgets.py:151).
CallsWithinLimit == Cardinality(Counted \ reused) <= CallLimit

\* Whoever asks the gateway gets an outcome or an error: no invocation waits
\* for a lock that nobody gives back, and no queue of posts turns for ever.
EveryInvocationEnds ==
  \A h \in Handlers : inv[h].pc # "idle" ~> inv[h].pc = "idle"

\* An operation is answered at most once, its answer stays, and whoever is told
\* an answer is told that one: retries, lost replies, two locks and takeovers
\* included (operations.py:111-144).
Answers(op) == IF journal[op].status = "completed" THEN {journal[op].answer} ELSE {}
Answer == INSTANCE OperationAnswer WITH decided <- [op \in Ops |-> Answers(op)]
ImplementsAnswer == Answer!Spec
===============================================================================
