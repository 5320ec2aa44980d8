---------------------------- MODULE QueryLoop_proofs ----------------------------
(***************************************************************************)
(* Proofs about the query loop, for any tools, updates, candidates, limits *)
(* and bounds: types, the budget of model calls, the bounded recoveries,   *)
(* the legal transitions, tools that must not run twice, the journal of    *)
(* events and the task updates that reach the lead.                        *)
(***************************************************************************)
EXTENDS QueryLoop, TLAPS

(***************************************************************************)
(* Types                                                                   *)
(***************************************************************************)

Boxes == [Updates -> Message(1..MaxBoots)]

\* The mailbox keeps its type when a message is sent or a claim lapses, ...
LEMMA SentType ==
  ASSUME NEW box \in Boxes, NEW u \in Updates
  PROVE  Sent(box, u) \in Boxes /\ Lapsed(box, u) \in Boxes
  BY DEF Boxes, Sent, Lapsed, Pending, Message, MessageStatus

\* ... when messages are acknowledged, ...
LEMMA AckedType ==
  ASSUME NEW box \in Boxes, NEW ms \in SUBSET Updates
  PROVE  Acked(box, ms) \in Boxes
  BY DEF Boxes, Acked, Message, MessageStatus

\* ... and when they are claimed: a message is not handed out more often than
\* the limit of deliveries allows.
LEMMA ClaimedType ==
  ASSUME NEW box \in Boxes, NEW who \in 1..MaxBoots
  PROVE  Claimed(box, who) \in Boxes
<1>1. ASSUME NEW m \in Updates
      PROVE  /\ Recovered(box[m]) \in Message(1..MaxBoots)
             /\ Recovered(box[m]).status = "pending"
                  => Recovered(box[m]).attempts + 1 \in 0..MaxDelivery
  <2>1. PICK e \in Message(1..MaxBoots) : e = box[m]
        BY DEF Boxes
  <2>2. Pending(e) \in Message(1..MaxBoots)
        BY DEF Pending, Message, MessageStatus
  <2>3. PICK f \in Message(1..MaxBoots) :
               f = IF e.status = "processing" /\ ~e.live THEN Pending(e) ELSE e
        BY <2>2
  <2>4. Recovered(e) = IF f.status = "pending" /\ f.attempts >= MaxDelivery
                         THEN [f EXCEPT !.status = "dead_letter"] ELSE f
        BY <2>3 DEF Recovered
  <2>5. /\ [f EXCEPT !.status = "dead_letter"] \in Message(1..MaxBoots)
        /\ [f EXCEPT !.status = "dead_letter"].status = "dead_letter"
        BY DEF Message, MessageStatus
  <2>6. f.attempts \in 0..MaxDelivery
        BY DEF Message
  <2>7. f.attempts < MaxDelivery => f.attempts + 1 \in 0..MaxDelivery
        BY <2>6, MaxDeliveryAssumption
  <2>. QED BY <2>1, <2>4, <2>5, <2>6, <2>7, MaxDeliveryAssumption
<1>2. \A m \in Updates :
        (LET e == Recovered(box[m]) IN
           IF e.status = "pending"
             THEN [status |-> "processing", owner |-> who, attempts |-> e.attempts + 1, live |-> TRUE]
             ELSE e) \in Message(1..MaxBoots)
      BY <1>1 DEF Message, MessageStatus
<1>. QED BY <1>2 DEF Boxes, Claimed

\* A counter below its bound may be advanced.
LEMMA Succ ==
  ASSUME NEW m \in Nat, NEW n \in 0..m, n < m
  PROVE  n + 1 \in 0..m
  OBVIOUS

\* The numbers a fresh state starts with are in range.
LEMMA Zeros ==
  /\ 0 \in 0..MaxTurns /\ 1 \in 1..Candidates /\ 0 \in 0..ContextLimit /\ 0 \in 0..OutputLimit
  /\ 0 \in 0..ModelAttempts /\ 1 \in 0..ModelAttempts /\ 0 \in 0..CallLimit
  /\ 0 \in 0..MaxWaits /\ 0 \in 0..MaxBoots /\ 0 \in 0..MaxFaults
  /\ NoEvent \in Events
<1>1. NoEvent \in Events
      BY QueryLoopAssumption DEF NoEvent, Events, EventIds
<1>. QED BY <1>1, QueryLoopAssumption

\* The states advance() produces.
LEMMA Advanced ==
  ASSUME query \in QueryState, NEW phase \in Phases
  PROVE  To(phase) \in QueryState /\ Answered(phase) \in QueryState
<1>1. query.rev + 1 \in Nat
      BY DEF QueryState
<1>2. To(phase) \in QueryState
      BY <1>1 DEF To, QueryState
<1>. QED BY <1>2, Zeros DEF QueryState, Answered

LEMMA EndedType ==
  ASSUME query \in QueryState, NEW why \in {"completed", "stopped", "cancelled"}
  PROVE  Ended(why) \in QueryState
<1>1. To("terminal") \in QueryState
      BY Advanced DEF Phases
<1>. QED BY <1>1 DEF QueryState, Ended

\* A state that takes an event.
LEMMA EventType ==
  ASSUME query \in QueryState, boots \in 0..MaxBoots,
         NEW mail \in SUBSET Updates, NEW known \in SUBSET Updates, NEW final \in BOOLEAN,
         NEW q \in QueryState
  PROVE  [q EXCEPT !.event = Event(mail, known, final)] \in QueryState
<1>1. query.rev + 1 \in Nat
      BY DEF QueryState
<1>2. Event(mail, known, final) \in Events
      BY <1>1 DEF Event, Events, EventIds
<1>. QED BY <1>2 DEF QueryState

\* A process has a start behind it, and a turn that waits in a hook is within
\* the limit.
TypeInv ==
  /\ TypeOK
  /\ pc # "down" => boots >= 1
  /\ pc = "hooked" => query.turn < MaxTurns

LEMMA TypeInit == Init => TypeInv
<1>. SUFFICES ASSUME Init PROVE TypeInv
     OBVIOUS
<1>1. query \in QueryState
      BY Zeros DEF Init, FreshQuery, QueryState, Phases
<1>2. mailbox \in [Updates -> Message(1..MaxBoots)]
      BY MaxDeliveryAssumption DEF Init, Absent, Message, MessageStatus
<1>3. delta \in [log : Seq(EventIds), ids : SUBSET EventIds, mail : SUBSET Updates]
      BY DEF Init
<1>. QED BY <1>1, <1>2, <1>3, Zeros DEF Init, TypeInv, TypeOK

\* What the loop saves when it ends or is cancelled.
LEMMA CancelledType ==
  ASSUME query \in QueryState, boots \in 0..MaxBoots
  PROVE  Cancelled \in QueryState
<1>1. Ended("cancelled") \in QueryState
      BY EndedType
<1>. QED BY <1>1, EventType DEF Cancelled

\* Starting and stopping keep the types.
LEMMA TypeLife ==
  ASSUME TypeInv, Boot \/ Stop \/ Cancel \/ TakeCancel \/ Drain
  PROVE  TypeInv'
<1>1. CASE Boot
  <2>1. query' \in QueryState
    <3>1. PICK c \in query.route..Candidates : query' = [query EXCEPT !.route = c]
          BY <1>1 DEF Boot
    <3>2. query \in QueryState /\ query.route \in 1..Candidates
          BY DEF TypeInv, TypeOK, QueryState
    <3>3. c \in 1..Candidates
          BY <3>2, QueryLoopAssumption
    <3>. QED BY <3>1, <3>2, <3>3 DEF QueryState
  <2>2. boots' \in 0..MaxBoots /\ boots' >= 1
    <3>1. boots \in 0..MaxBoots /\ boots < MaxBoots /\ boots' = boots + 1
          BY <1>1 DEF Boot, TypeInv, TypeOK
    <3>. QED BY <3>1, QueryLoopAssumption
  <2>3. memory' \in [ids : SUBSET EventIds, mail : SUBSET Updates]
        BY <1>1 DEF Boot, Restored, TypeInv, TypeOK
  <2>. QED BY <1>1, <2>1, <2>2, <2>3 DEF Boot, Resumed, history, TypeInv, TypeOK
<1>2. CASE Stop
      BY <1>2, Zeros DEF Stop, TypeInv, TypeOK, durable, ClearProcess, history, counts
<1>3. CASE Cancel
      BY <1>3 DEF Cancel, TypeInv, TypeOK, durable, process, history
<1>4. CASE TakeCancel
  <2>1. query' \in QueryState
        BY <1>4, CancelledType DEF TakeCancel, TypeInv, TypeOK
  <2>. QED BY <1>4, <2>1, Zeros DEF TakeCancel, ClearProcess, history, TypeInv, TypeOK
<1>5. CASE Drain
  <2>1. query' \in QueryState
        BY <1>5, CancelledType DEF Drain, TypeInv, TypeOK
  <2>. QED BY <1>5, <2>1, Zeros DEF Drain, ClearProcess, history, counts, TypeInv, TypeOK
<1>. QED BY <1>1, <1>2, <1>3, <1>4, <1>5

\* A recovery starts from a well typed state that differs in the counters of
\* the recoveries only.
LEMMA RecoversFrom ==
  ASSUME query \in QueryState, CallRecovers
  PROVE  \E q \in QueryState : q.rev = query.rev /\ q.event = query.event /\ Recover(q)
<1>1. CASE ContextRecovery
  <2>1. Recover([query EXCEPT !.ctx = @ + 1])
        BY <1>1 DEF ContextRecovery
  <2>2. query.ctx \in 0..ContextLimit /\ query.ctx < ContextLimit
        BY <1>1 DEF QueryState, ContextRecovery
  <2>3. query.ctx + 1 \in 0..ContextLimit
        BY <2>2, Succ, QueryLoopAssumption
  <2>. QED BY <2>1, <2>3 DEF QueryState
<1>2. CASE ModelFallback
  <2>1. PICK r \in (query.route + 1)..Candidates :
               Recover([query EXCEPT !.route = r, !.escalated = FALSE, !.cont = 0])
        BY <1>2 DEF ModelFallback, FellBack
  <2>2. r \in 1..Candidates
        BY <2>1, QueryLoopAssumption DEF QueryState
  <2>. QED BY <2>1, <2>2, Zeros DEF QueryState
<1>3. CASE Escalate
      BY <1>3 DEF QueryState, Escalate
<1>4. CASE Continuation
  <2>1. Recover([query EXCEPT !.cont = @ + 1])
        BY <1>4 DEF Continuation
  <2>2. query.cont \in 0..OutputLimit /\ query.cont < OutputLimit
        BY <1>4 DEF QueryState, Continuation
  <2>3. query.cont + 1 \in 0..OutputLimit
        BY <2>2, Succ, QueryLoopAssumption
  <2>. QED BY <2>1, <2>3 DEF QueryState
<1>. QED BY <1>1, <1>2, <1>3, <1>4 DEF CallRecovers

\* So do the steps of the outbox, ...
LEMMA TypeOutbox ==
  ASSUME TypeInv, Deliver \/ Ack \/ AckRefused \/ Clear
  PROVE  TypeInv'
<1>1. CASE Deliver
  <2>1. query.event \in Events
        BY DEF TypeInv, TypeOK, QueryState
  <2>2. /\ query.event.id \in EventIds
        /\ query.event.mail \in SUBSET Updates
        /\ query.event.known \in SUBSET Updates
        BY <2>1 DEF Events
  <2>3. memory' \in [ids : SUBSET EventIds, mail : SUBSET Updates]
        BY <1>1, <2>2 DEF Deliver, TypeInv, TypeOK
  <2>4. delta' \in [log : Seq(EventIds), ids : SUBSET EventIds, mail : SUBSET Updates]
    <3>1. Append(delta.log, query.event.id) \in Seq(EventIds)
          BY <2>2 DEF TypeInv, TypeOK
    <3>2. /\ memory.ids \cup {query.event.id} \in SUBSET EventIds
          /\ delta.mail \in SUBSET Updates
          /\ delta \in [log : Seq(EventIds), ids : SUBSET EventIds, mail : SUBSET Updates]
          BY <2>2 DEF TypeInv, TypeOK
    <3>3. \/ delta' = delta
          \/ delta' = [log |-> Append(delta.log, query.event.id),
                       ids |-> memory.ids \cup {query.event.id},
                       mail |-> IF query.event.mail = {} THEN delta.mail ELSE query.event.known]
          BY <1>1 DEF Deliver
    <3>. QED BY <2>2, <3>1, <3>2, <3>3
  <2>5. faults' \in 0..MaxFaults /\ degraded' \in BOOLEAN
    <3>1. /\ faults \in 0..MaxFaults /\ degraded \in BOOLEAN
          /\ faults' = faults \/ (faults < MaxFaults /\ faults' = faults + 1)
          /\ degraded' = degraded \/ degraded' = TRUE
          BY <1>1 DEF Deliver, TypeInv, TypeOK
    <3>. QED BY <3>1, Succ, QueryLoopAssumption
  <2>. QED BY <1>1, <2>3, <2>4, <2>5 DEF Deliver, history, TypeInv, TypeOK
<1>2. CASE Ack
  <2>1. query.event.mail \in SUBSET Updates
        BY DEF TypeInv, TypeOK, QueryState, Events
  <2>2. mailbox' \in [Updates -> Message(1..MaxBoots)]
        BY <1>2, <2>1, AckedType DEF Ack, Boxes, TypeInv, TypeOK
  <2>. QED BY <1>2, <2>2 DEF Ack, history, counts, TypeInv, TypeOK
<1>3. CASE AckRefused
      BY <1>3, Zeros DEF AckRefused, TypeInv, TypeOK, durable, ClearProcess, history, counts
<1>4. CASE Clear
  <2>1. To(query.phase) \in QueryState
        BY Advanced DEF TypeInv, TypeOK, QueryState
  <2>2. query' \in QueryState
        BY <1>4, <2>1, Zeros DEF Clear, QueryState
  <2>3. CASE query.event.final
    <3>1. pc' = "down" /\ outcome' = "finished" /\ ClearProcess
          BY <1>4, <2>3 DEF Clear
    <3>2. UNCHANGED <<async, delta, mailbox, ledger, degraded, history, cancel, waits, boots, faults>>
          BY <1>4 DEF Clear
    <3>. QED BY <2>2, <3>1, <3>2, Zeros DEF ClearProcess, history, TypeInv, TypeOK
  <2>4. CASE ~query.event.final
        BY <1>4, <2>2, <2>4, Zeros DEF Clear, MayClear, history, TypeInv, TypeOK
  <2>. QED BY <2>3, <2>4
<1>. QED BY <1>1, <1>2, <1>3, <1>4

\* ... those of a turn and of stop governance, ...
LEMMA TypeTurn ==
  ASSUME TypeInv,
         MaxTurnsReached \/ BeforeTurn \/ PrepareTurn \/ GoesOn \/ Completes \/ Terminal
  PROVE  TypeInv'
<1>. USE DEF TypeInv, TypeOK, AtTop, Save, history
<1>1. CASE MaxTurnsReached
  <2>1. query' \in QueryState
        BY <1>1, EndedType DEF MaxTurnsReached
  <2>. QED BY <1>1, <2>1 DEF MaxTurnsReached
<1>2. CASE BeforeTurn
  <2>1. query' \in QueryState /\ query'.turn = query.turn
        BY <1>2, Advanced DEF BeforeTurn, Phases, To, QueryState
  <2>. QED BY <1>2, <2>1 DEF BeforeTurn
<1>3. CASE PrepareTurn
  <2>1. To("model") \in QueryState /\ To("model").turn = query.turn
        BY Advanced DEF Phases, To, QueryState
  <2>2. query.turn \in 0..MaxTurns /\ query.turn < MaxTurns
        BY <1>3 DEF PrepareTurn, QueryState
  <2>3. query.turn + 1 \in 0..MaxTurns
        BY <2>2, Succ, QueryLoopAssumption
  <2>4. [To("model") EXCEPT !.turn = @ + 1] \in QueryState
        BY <2>1, <2>3 DEF QueryState
  <2>5. query' \in QueryState
        BY <1>3, <2>1, <2>4 DEF PrepareTurn
  <2>6. waits' \in 0..MaxWaits
    <3>1. waits \in 0..MaxWaits /\ (waits' = waits \/ (waits < MaxWaits /\ waits' = waits + 1))
          BY <1>3 DEF PrepareTurn
    <3>. QED BY <3>1, Succ, QueryLoopAssumption
  <2>. QED BY <1>3, <2>5, <2>6 DEF PrepareTurn
<1>4. CASE GoesOn
  <2>1. To("preparing") \in QueryState
        BY Advanced DEF Phases
  <2>2. query' \in QueryState
        BY <1>4, <2>1, EventType DEF GoesOn
  <2>. QED BY <1>4, <2>2 DEF GoesOn
<1>5. CASE Completes
  <2>1. PICK why \in {"completed", "stopped"} :
               query' = [Ended(why) EXCEPT !.event = Event({}, {}, TRUE)]
        BY <1>5 DEF Completes
  <2>2. Ended(why) \in QueryState
        BY EndedType
  <2>3. query' \in QueryState
        BY <2>1, <2>2, EventType
  <2>. QED BY <1>5, <2>3 DEF Completes
<1>6. CASE Terminal
      BY <1>6, Zeros DEF Terminal, durable, ClearProcess
<1>. QED BY <1>1, <1>2, <1>3, <1>4, <1>5, <1>6

\* ... those of the model call and its recoveries, ...
LEMMA TypeModel ==
  ASSUME TypeInv,
         \/ AskModel \/ SendCall \/ RetryCall \/ CallFails
         \/ CallRecovers \/ AskedTools \/ AnsweredPlainly
  PROVE  TypeInv'
<1>. USE DEF TypeInv, TypeOK, AtTop, Save
<1>1. ASSUME Reserve, attempt' \in 0..ModelAttempts, pc # "down"
      PROVE  TypeInv'
      BY <1>1, QueryLoopAssumption DEF Reserve, MayCall, history, counts
<1>2. ASSUME StopModel, pc # "down"
      PROVE  TypeInv'
  <2>1. query' \in QueryState
        BY <1>2, EndedType DEF StopModel
  <2>. QED BY <1>2, <2>1, Zeros DEF StopModel, history
<1>3. ASSUME NEW q \in QueryState, Recover(q)
      PROVE  TypeInv'
  <2>1. "model" \in Phases /\ q.rev + 1 \in Nat
        BY DEF Phases, QueryState
  <2>2. query' \in QueryState
        BY <1>3, <2>1 DEF Recover, QueryState
  <2>. QED BY <1>3, <2>2, Zeros DEF Recover, history
<1>4. CASE AskModel
      BY <1>1, <1>2, <1>4, Zeros DEF AskModel
<1>5. CASE SendCall
      BY <1>5 DEF SendCall, durable, counts
<1>6. CASE RetryCall
  <2>1. attempt < ModelAttempts => attempt + 1 \in 0..ModelAttempts
        BY QueryLoopAssumption
  <2>. QED BY <1>1, <1>2, <1>6, <2>1 DEF RetryCall
<1>7. CASE CallFails
      BY <1>2, <1>7 DEF CallFails
<1>8. CASE CallRecovers
      BY <1>3, <1>8, RecoversFrom
<1>9. CASE AskedTools
  <2>1. Answered("tools") \in QueryState
        BY Advanced DEF Phases
  <2>2. PICK cs \in SUBSET Calls : query' = [Answered("tools") EXCEPT !.calls = cs]
        BY <1>9 DEF AskedTools, Offered
  <2>3. query' \in QueryState
        BY <2>1, <2>2 DEF QueryState
  <2>. QED BY <1>9, <2>3, Zeros DEF AskedTools
<1>10. CASE AnsweredPlainly
  <2>1. query' \in QueryState
        BY <1>10, Advanced DEF AnsweredPlainly, Phases
  <2>. QED BY <1>10, <2>1, Zeros DEF AnsweredPlainly, history
<1>. QED BY <1>4, <1>5, <1>6, <1>7, <1>8, <1>9, <1>10

\* ... those of the tool batch ...
LEMMA TypeBatch ==
  ASSUME TypeInv,
         \/ RefuseReplay \/ StartBatch \/ ClaimUpdates \/ CloseBatch \/ BatchFails
         \/ \E c \in Calls : StartCall(c) \/ CommitCall(c)
  PROVE  TypeInv'
<1>. USE DEF TypeInv, TypeOK, AtTop, Save
<1>1. CASE RefuseReplay
  <2>1. query' \in QueryState
        BY <1>1, EndedType DEF RefuseReplay
  <2>. QED BY <1>1, <2>1 DEF RefuseReplay, history
<1>2. CASE StartBatch
      BY <1>2 DEF StartBatch, durable, history, counts
<1>3. CASE ClaimUpdates
  <2>1. boots \in 1..MaxBoots
        BY <1>3 DEF ClaimUpdates
  <2>2. /\ mailbox' \in [Updates -> Message(1..MaxBoots)]
        /\ claimed' \subseteq Updates
        BY <1>3, <2>1, ClaimedType DEF ClaimUpdates, Boxes, Claimable
  <2>. QED BY <1>3, <2>2 DEF ClaimUpdates, history, counts
<1>4. CASE CloseBatch
  <2>. DEFINE known == IF claimed = {} THEN {} ELSE memory.mail \cup claimed
  <2>1. known \in SUBSET Updates
        OBVIOUS
  <2>2. /\ [To("preparing") EXCEPT !.calls = {}, !.done = {}] \in QueryState
        /\ Ended("completed") \in QueryState
        BY Advanced, EndedType DEF Phases, QueryState
  <2>3. /\ [[To("preparing") EXCEPT !.calls = {}, !.done = {}]
              EXCEPT !.event = Event(claimed, known, FALSE)] \in QueryState
        /\ [Ended("completed") EXCEPT !.event = Event(claimed, known, FALSE)] \in QueryState
        BY <2>1, <2>2, EventType
  <2>4. query' \in QueryState
        BY <1>4, <2>3 DEF CloseBatch, To
  <2>5. shown' \in [Updates -> Nat]
        BY <1>4 DEF CloseBatch
  <2>. QED BY <1>4, <2>4, <2>5 DEF CloseBatch
<1>5. CASE BatchFails
  <2>1. query' \in QueryState
        BY <1>5, EndedType, EventType DEF BatchFails
  <2>. QED BY <1>5, <2>1 DEF BatchFails, history
<1>6. ASSUME NEW c \in Calls, StartCall(c)
      PROVE  TypeInv'
      BY <1>6 DEF StartCall, durable, counts
<1>7. ASSUME NEW c \in Calls, CommitCall(c)
      PROVE  TypeInv'
  <2>1. To("tools") \in QueryState
        BY Advanced DEF Phases
  <2>2. query' \in QueryState
        BY <1>7, <2>1 DEF CommitCall, QueryState
  <2>. QED BY <1>7, <2>2 DEF CommitCall, history
<1>. QED BY <1>1, <1>2, <1>3, <1>4, <1>5, <1>6, <1>7

\* ... and those of the teammates and of time.
LEMMA TypeStep == TypeInv /\ [Next]_vars => TypeInv'
<1>. SUFFICES ASSUME TypeInv, [Next]_vars PROVE TypeInv'
     OBVIOUS
<1>1. ASSUME NEW u \in Updates, PostUpdate(u) \/ ClaimLapses(u)
      PROVE  TypeInv'
  <2>1. mailbox \in Boxes
        BY DEF Boxes, TypeInv, TypeOK
  <2>2. mailbox' \in Boxes
        BY <1>1, <2>1, SentType DEF PostUpdate, ClaimLapses
  <2>. QED BY <1>1, <2>2 DEF Boxes, PostUpdate, ClaimLapses, process, history, counts, TypeInv, TypeOK
<1>2. CASE UNCHANGED vars
      BY <1>2 DEF vars, durable, process, history, counts, TypeInv, TypeOK
<1>. QED
  BY <1>1, <1>2, TypeLife, TypeOutbox, TypeTurn, TypeModel, TypeBatch DEF Next, LoopStep

\* Every variable keeps its type, whatever the tools, limits and bounds.
THEOREM TypeCorrect == Spec => []TypeOK
<1>1. Spec => []TypeInv
      BY TypeInit, TypeStep, PTL DEF Spec
<1>2. TypeInv => TypeOK
      BY DEF TypeInv
<1>. QED BY <1>1, <1>2, PTL

(***************************************************************************)
(* Control: what the place of the process says of the saved state, and the *)
(* transitions of that state                                               *)
(***************************************************************************)

ControlInv ==
  /\ pc = "hooked" => query.phase = "preparing" /\ query.event = NoEvent
  /\ pc \in {"reserved", "call"} => query.phase = "model"
  /\ pc \in {"tools", "closing"} => query.phase = "tools"
  /\ query.event # NoEvent => query.phase \in {"preparing", "terminal"}

LegalStep ==
  query' # query =>
    /\ query'.phase \in LegalAfter[query.phase]
    /\ query'.rev > query.rev \/ query' = [query EXCEPT !.route = query'.route]

\* An event leaves the rest of the state alone.
LEMMA WithEvent ==
  ASSUME NEW q \in QueryState, NEW e
  PROVE  /\ [q EXCEPT !.event = e].phase = q.phase /\ [q EXCEPT !.event = e].rev = q.rev
         /\ [q EXCEPT !.calls = {}, !.done = {}, !.event = e].phase = q.phase
         /\ [q EXCEPT !.calls = {}, !.done = {}, !.event = e].rev = q.rev
  BY DEF QueryState

\* How the states advance() produces differ from the saved one.
LEMMA AdvancedFields ==
  ASSUME query \in QueryState, NEW phase \in Phases, NEW why \in {"completed", "stopped", "cancelled"}
  PROVE  /\ query.rev \in Nat /\ query.phase \in Phases /\ query.rev + 1 > query.rev
         /\ To(phase).phase = phase /\ To(phase).rev = query.rev + 1
         /\ To(phase).event = query.event
         /\ To(phase).calls = query.calls /\ To(phase).done = query.done
         /\ Answered(phase).phase = phase /\ Answered(phase).rev = query.rev + 1
         /\ Answered(phase).event = query.event /\ Answered(phase).done = query.done
         /\ Ended(why).phase = "terminal" /\ Ended(why).rev = query.rev + 1
         /\ Ended(why).event = query.event /\ Ended(why).calls = {}
<1>1. query.rev \in Nat /\ query.phase \in Phases
      BY DEF QueryState
<1>2. query.rev + 1 > query.rev
      BY <1>1
<1>3. /\ To(phase).phase = phase /\ To(phase).rev = query.rev + 1
      /\ To(phase).event = query.event
      /\ To(phase).calls = query.calls /\ To(phase).done = query.done
      BY DEF To, QueryState
<1>4. /\ Answered(phase).phase = phase /\ Answered(phase).rev = query.rev + 1
      /\ Answered(phase).event = query.event /\ Answered(phase).done = query.done
      BY DEF Answered, To, QueryState
<1>5. /\ Ended(why).phase = "terminal" /\ Ended(why).rev = query.rev + 1
      /\ Ended(why).event = query.event /\ Ended(why).calls = {}
      BY DEF Ended, To, QueryState
<1>. QED BY <1>1, <1>2, <1>3, <1>4, <1>5

\* What TypeInv says of the saved state.
LEMMA QueryTyped ==
  ASSUME TypeInv
  PROVE  query \in QueryState /\ query.rev + 1 > query.rev /\ query.phase \in Phases
<1>1. query \in QueryState /\ query.rev \in Nat /\ query.phase \in Phases
      BY DEF TypeInv, TypeOK, QueryState
<1>. QED BY <1>1

\* Every phase may be kept.
LEMMA PhaseKept == \A ph \in Phases : ph \in LegalAfter[ph]
  BY DEF Phases, LegalAfter

LEMMA ControlInit == Init => ControlInv
  BY DEF Init, ControlInv, FreshQuery

LEMMA ControlStep ==
  ASSUME TypeInv, ControlInv, [Next]_vars
  PROVE  ControlInv' /\ LegalStep
<1>. USE DEF ControlInv, LegalStep, LegalAfter, AtTop, Save
<1>0. /\ query \in QueryState /\ query.rev + 1 > query.rev /\ query.phase \in Phases
      /\ query.phase \in LegalAfter[query.phase]
      BY QueryTyped, PhaseKept
<1>1. CASE Boot
  <2>1. PICK c : query' = [query EXCEPT !.route = c]
        BY <1>1 DEF Boot
  <2>2. query'.phase = query.phase /\ query'.event = query.event /\ query'.route = c
        BY <1>0, <2>1 DEF QueryState
  <2>. QED BY <1>0, <1>1, <2>1, <2>2 DEF Boot
<1>2. ASSUME query' = query, pc' \in {"down", "top", "applied", "acked"} \/ pc' = pc
      PROVE  ControlInv' /\ LegalStep
      BY <1>2
<1>3. CASE Stop \/ Cancel \/ Deliver \/ Ack \/ AckRefused \/ Terminal
  <2>1. query' = query /\ (pc' \in {"down", "applied", "acked"} \/ pc' = pc)
        BY <1>3 DEF Stop, Cancel, Deliver, Ack, AckRefused, Terminal, durable, process
  <2>. QED BY <1>2, <2>1
<1>4. ASSUME NEW why \in {"completed", "stopped", "cancelled"},
             query'.phase = "terminal", query'.rev = query.rev + 1, pc' \in {"down", "top"}
      PROVE  ControlInv' /\ LegalStep
  <2>1. "terminal" \in LegalAfter[query.phase]
        BY <1>0 DEF Phases
  <2>. QED BY <1>0, <1>4, <2>1
<1>5. /\ Cancelled.phase = "terminal" /\ Cancelled.rev = query.rev + 1
      BY <1>0, EndedType, AdvancedFields DEF Cancelled, QueryState, Phases
<1>6. CASE TakeCancel \/ Drain
  <2>1. pc' = "down" /\ (query' = query \/ query' = Cancelled)
        BY <1>6 DEF TakeCancel, Drain
  <2>. QED BY <1>2, <1>4, <1>5, <2>1
<1>7. CASE Clear
  <2>1. /\ query'.phase = query.phase /\ query'.rev = query.rev + 1 /\ query'.event = NoEvent
        /\ pc' \in {"down", "top"}
        BY <1>0, <1>7, Advanced, AdvancedFields DEF Clear, QueryState
  <2>. QED BY <1>0, <2>1
<1>8. ASSUME NEW why \in {"completed", "stopped"}, query' = Ended(why), pc' = "top"
      PROVE  ControlInv' /\ LegalStep
      BY <1>0, <1>4, <1>8, AdvancedFields
<1>9. CASE MaxTurnsReached
      BY <1>8, <1>9 DEF MaxTurnsReached
<1>10. CASE BeforeTurn
  <2>1. query'.phase = "preparing" /\ query'.rev = query.rev + 1 /\ query'.event = query.event
        BY <1>0, <1>10, AdvancedFields DEF BeforeTurn, Phases
  <2>. QED BY <1>0, <1>10, <2>1 DEF BeforeTurn
<1>11. CASE PrepareTurn
  <2>1. /\ query'.phase = "model" /\ query'.rev = query.rev + 1
        /\ query'.event = query.event /\ query.event = NoEvent /\ query.phase = "preparing"
        BY <1>0, <1>11, Advanced, AdvancedFields DEF PrepareTurn, Phases, QueryState
  <2>. QED BY <1>0, <1>11, <2>1 DEF PrepareTurn
<1>12. CASE AskModel \/ RetryCall \/ CallFails
  <2>1. \/ query' = query /\ pc' = "reserved" /\ query.phase = "model"
        \/ query' = Ended("stopped") /\ pc' = "top"
        BY <1>12 DEF AskModel, RetryCall, CallFails, Reserve, StopModel
  <2>. QED BY <1>8, <2>1
<1>13. CASE SendCall
      BY <1>13 DEF SendCall, durable
<1>14. CASE CallRecovers
  <2>1. PICK q \in QueryState : q.rev = query.rev /\ q.event = query.event /\ Recover(q)
        BY <1>0, <1>14, RecoversFrom
  <2>2. /\ query'.phase = "model" /\ query'.rev = query.rev + 1 /\ query'.event = query.event
        /\ query.phase = "model" /\ pc' = "top"
        BY <2>1 DEF Recover, QueryState
  <2>. QED BY <1>0, <2>2
<1>15. CASE AskedTools \/ AnsweredPlainly
  <2>1. /\ query'.phase \in {"tools", "govern"} /\ query'.rev = query.rev + 1
        /\ query'.event = query.event
        BY <1>0, <1>15, Advanced, AdvancedFields DEF AskedTools, AnsweredPlainly, Phases, QueryState
  <2>2. query.phase = "model" /\ pc' = "top"
        BY <1>15 DEF AskedTools, AnsweredPlainly
  <2>. QED BY <1>0, <2>1, <2>2
<1>16. CASE GoesOn
  <2>1. To("preparing") \in QueryState
        BY <1>0, Advanced DEF Phases
  <2>2. To("preparing").phase = "preparing" /\ To("preparing").rev = query.rev + 1
        BY <1>0, AdvancedFields DEF Phases
  <2>3. PICK e : query' = [To("preparing") EXCEPT !.event = e]
        BY <1>16 DEF GoesOn
  <2>4. query'.phase = "preparing" /\ query'.rev = query.rev + 1
        BY <2>1, <2>2, <2>3, WithEvent
  <2>5. query.phase = "govern" /\ pc' = "top"
        BY <1>16 DEF GoesOn
  <2>. QED BY <1>0, <2>4, <2>5
<1>17. CASE Completes
  <2>1. PICK why \in {"completed", "stopped"} :
               query' = [Ended(why) EXCEPT !.event = Event({}, {}, TRUE)]
        BY <1>17 DEF Completes
  <2>2. query'.phase = "terminal" /\ query'.rev = query.rev + 1 /\ pc' = "top"
        BY <1>0, <1>17, <2>1, EndedType, AdvancedFields DEF Completes, Phases, QueryState
  <2>. QED BY <1>4, <2>2
<1>18. CASE RefuseReplay
      BY <1>8, <1>18 DEF RefuseReplay
<1>19. CASE StartBatch \/ ClaimUpdates \/ \E c \in Calls : StartCall(c)
  <2>1. query' = query /\ pc' \in {"tools", "closing"} /\ query.phase = "tools"
        BY <1>19 DEF StartBatch, ClaimUpdates, StartCall, durable
  <2>. QED BY <2>1
<1>20. ASSUME NEW c \in Calls, CommitCall(c)
       PROVE  ControlInv' /\ LegalStep
  <2>1. To("tools") \in QueryState
        BY <1>0, Advanced DEF Phases
  <2>2. /\ query'.phase = "tools" /\ query'.rev = query.rev + 1 /\ query'.event = query.event
        /\ pc' = "tools" /\ query.phase = "tools"
        BY <1>0, <1>20, <2>1, AdvancedFields DEF CommitCall, Phases, QueryState
  <2>. QED BY <1>0, <2>2
<1>21. CASE CloseBatch
  <2>1. To("preparing") \in QueryState /\ Ended("completed") \in QueryState
        BY <1>0, Advanced, EndedType DEF Phases
  <2>2. /\ To("preparing").phase = "preparing" /\ To("preparing").rev = query.rev + 1
        /\ Ended("completed").phase = "terminal" /\ Ended("completed").rev = query.rev + 1
        BY <1>0, AdvancedFields DEF Phases
  <2>3. PICK e : \/ query' = [To("preparing") EXCEPT !.calls = {}, !.done = {}, !.event = e]
                 \/ query' = [Ended("completed") EXCEPT !.event = e]
        BY <1>21 DEF CloseBatch
  <2>4. query'.phase \in {"preparing", "terminal"} /\ query'.rev = query.rev + 1
        BY <2>1, <2>2, <2>3 DEF QueryState
  <2>5. pc' = "top" /\ query.phase = "tools"
        BY <1>21 DEF CloseBatch
  <2>. QED BY <1>0, <2>4, <2>5
<1>22. CASE BatchFails
  <2>1. Ended("stopped") \in QueryState
        BY <1>0, EndedType
  <2>2. query'.phase = "terminal" /\ query'.rev = query.rev + 1 /\ pc' = "top"
        BY <1>0, <1>22, <2>1, AdvancedFields DEF BatchFails, Phases, QueryState
  <2>. QED BY <1>4, <2>2
<1>23. CASE (\E u \in Updates : PostUpdate(u) \/ ClaimLapses(u)) \/ UNCHANGED vars
  <2>1. query' = query /\ pc' = pc
        BY <1>23 DEF PostUpdate, ClaimLapses, vars, durable, process
  <2>. QED BY <1>2, <2>1
<1>. QED
  BY <1>1, <1>3, <1>6, <1>7, <1>9, <1>10, <1>11, <1>12, <1>13, <1>14, <1>15, <1>16, <1>17, <1>18,
     <1>19, <1>20, <1>21, <1>22, <1>23
  DEF Next, LoopStep

LEMMA ControlAlways == Spec => [](TypeInv /\ ControlInv)
<1>1. Init => TypeInv /\ ControlInv
      BY TypeInit, ControlInit
<1>2. TypeInv /\ ControlInv /\ [Next]_vars => (TypeInv /\ ControlInv)'
      BY TypeStep, ControlStep
<1>. QED BY <1>1, <1>2, PTL DEF Spec

\* Every saved state follows legally from the one before it and has a later
\* revision, so that a replay that keeps the last revision finds the last one.
THEOREM TransitionsAlwaysLegal == Spec => TransitionsLegal
<1>1. TypeInv /\ ControlInv /\ [Next]_vars => LegalStep
      BY ControlStep
<1>2. LegalStep =>
        (query' # query =>
           /\ query'.phase \in LegalAfter[query.phase]
           /\ query'.rev > query.rev \/ query' = [query EXCEPT !.route = query'.route])
      BY DEF LegalStep
<1>. QED BY <1>1, <1>2, ControlAlways, PTL DEF Spec, TransitionsLegal

(***************************************************************************)
(* The budget of model calls                                               *)
(***************************************************************************)

\* Every call that reached a provider was reserved, and one that is reserved
\* has not reached it yet.
SpendInv == asked <= ledger /\ (pc = "reserved" => asked < ledger)

LEMMA SpendStep ==
  ASSUME TypeInv, SpendInv, [Next]_vars
  PROVE  SpendInv'
<1>0. asked \in Nat /\ ledger \in Nat
      BY DEF TypeInv, TypeOK
<1>1. ASSUME asked' = asked, ledger' = ledger, pc' # "reserved" \/ pc' = pc
      PROVE  SpendInv'
      BY <1>1 DEF SpendInv
<1>2. CASE AskModel \/ RetryCall \/ CallFails
  <2>1. CASE Reserve
        BY <1>0, <2>1 DEF SpendInv, Reserve, history
  <2>2. CASE StopModel
        BY <1>1, <2>2 DEF StopModel, Save, history
  <2>. QED BY <1>2, <2>1, <2>2 DEF AskModel, RetryCall, CallFails
<1>3. CASE SendCall
      BY <1>0, <1>3 DEF SendCall, SpendInv, durable
<1>4. CASE Boot \/ Stop \/ Cancel \/ TakeCancel \/ Drain
      BY <1>1, <1>4 DEF Boot, Stop, Cancel, TakeCancel, Drain, durable, process, history
<1>5. CASE Deliver \/ Ack \/ AckRefused
      BY <1>1, <1>5 DEF Deliver, Ack, AckRefused, durable, history
<1>6. CASE Clear
      BY <1>1, <1>6 DEF Clear, history
<1>7. CASE MaxTurnsReached \/ BeforeTurn \/ PrepareTurn \/ GoesOn \/ Completes \/ Terminal
      BY <1>1, <1>7
      DEF MaxTurnsReached, BeforeTurn, PrepareTurn, GoesOn, Completes, Terminal, Save, durable, history
<1>8. CASE CallRecovers
  <2>1. PICK q : Recover(q)
        BY <1>8 DEF CallRecovers, ContextRecovery, ModelFallback, Escalate, Continuation
  <2>. QED BY <1>1, <2>1 DEF Recover, Save, history
<1>9. CASE AskedTools \/ AnsweredPlainly
      BY <1>1, <1>9 DEF AskedTools, AnsweredPlainly, Save, history
<1>10. CASE RefuseReplay \/ StartBatch \/ ClaimUpdates \/ CloseBatch \/ BatchFails
      BY <1>1, <1>10
      DEF RefuseReplay, StartBatch, ClaimUpdates, CloseBatch, BatchFails, Save, durable, history
<1>11. CASE \E c \in Calls : StartCall(c) \/ CommitCall(c)
      BY <1>1, <1>11 DEF StartCall, CommitCall, Save, durable, history
<1>12. CASE (\E u \in Updates : PostUpdate(u) \/ ClaimLapses(u)) \/ UNCHANGED vars
      BY <1>1, <1>12 DEF PostUpdate, ClaimLapses, vars, durable, process, history
<1>. QED
  BY <1>2, <1>3, <1>4, <1>5, <1>6, <1>7, <1>8, <1>9, <1>10, <1>11, <1>12 DEF Next, LoopStep

\* However often the loop is restarted, retried or sent to another candidate,
\* the providers answer no more calls than the budget allows.
THEOREM SpendAlwaysWithinLimit == Spec => []SpendWithinLimit
<1>1. Init => SpendInv
      BY DEF Init, SpendInv
<1>2. TypeInv /\ SpendInv /\ [Next]_vars => SpendInv'
      BY SpendStep
<1>3. TypeInv /\ SpendInv => SpendWithinLimit
      BY QueryLoopAssumption DEF TypeInv, TypeOK, SpendInv, SpendWithinLimit
<1>. QED BY <1>1, <1>2, <1>3, ControlAlways, PTL DEF Spec

(***************************************************************************)
(* Tools that must not run twice                                           *)
(***************************************************************************)

\* fresh holds the calls in flight; a call that cannot be repeated and is yet
\* to be started in this batch was not started before, unless the batch is
\* being replayed.
OnceInv ==
  /\ UnsafeToolOnce
  /\ fresh \subseteq Uncommitted /\ (pc # "tools" => fresh = {})
  /\ pc = "tools" => \A c \in Unsafe \cap (Uncommitted \ fresh) : ran[c] = 0
  /\ pc \notin {"down", "tools", "closing"} /\ query.phase = "tools" /\ ~replaying
       => \A c \in Unsafe \cap Uncommitted : ran[c] = 0

LEMMA OnceStep ==
  ASSUME TypeInv, ControlInv, OnceInv, [Next]_vars
  PROVE  OnceInv'
<1>. USE DEF OnceInv, UnsafeToolOnce, AtTop, Save
<1>0. /\ query \in QueryState /\ query.phase \in Phases
      /\ Unsafe \subseteq Calls /\ ran \in [Calls -> Nat]
      BY QueryTyped, QueryLoopAssumption DEF TypeInv, TypeOK
<1>1. ASSUME fresh' = {}, ran' = ran, pc' = "down"
      PROVE  OnceInv'
      BY <1>1
<1>2. ASSUME fresh' = fresh, ran' = ran, pc # "tools", pc' # "tools", query'.phase # "tools"
      PROVE  OnceInv'
      BY <1>2
<1>3. ASSUME query' = query, fresh' = fresh, ran' = ran, replaying' = replaying,
             \/ pc' = pc
             \/ {pc, pc'} \cap {"down", "tools", "closing"} = {}
      PROVE  OnceInv'
      BY <1>3 DEF Uncommitted
<1>4. CASE Stop \/ TakeCancel \/ Drain \/ AckRefused \/ Terminal
      BY <1>1, <1>4 DEF Stop, TakeCancel, Drain, AckRefused, Terminal, ClearProcess, history
<1>5. CASE Cancel \/ Deliver \/ Ack
      BY <1>3, <1>5 DEF Cancel, Deliver, Ack, durable, process, history
<1>6. CASE SendCall
      BY <1>3, <1>6 DEF SendCall, durable
<1>7. CASE (\E u \in Updates : PostUpdate(u) \/ ClaimLapses(u)) \/ UNCHANGED vars
      BY <1>3, <1>7 DEF PostUpdate, ClaimLapses, vars, durable, process, history
<1>8. CASE AskModel \/ RetryCall \/ CallFails
  <2>1. CASE Reserve
        BY <1>3, <1>8, <2>1 DEF AskModel, RetryCall, CallFails, Reserve, history
  <2>2. CASE StopModel
    <3>1. query'.phase = "terminal"
          BY <1>0, <2>2, AdvancedFields DEF StopModel, Phases
    <3>. QED BY <1>2, <1>8, <2>2, <3>1 DEF AskModel, RetryCall, CallFails, StopModel, history
  <2>. QED BY <1>8, <2>1, <2>2 DEF AskModel, RetryCall, CallFails
<1>9. CASE Boot
  <2>1. PICK c : query' = [query EXCEPT !.route = c]
        BY <1>9 DEF Boot
  <2>2. query'.phase = query.phase
        BY <1>0, <2>1 DEF QueryState
  <2>. QED BY <1>9, <2>2 DEF Boot, Resumed, history
<1>10. CASE Clear
  <2>1. CASE query.event.final
        BY <1>1, <1>10, <2>1 DEF Clear, ClearProcess, history
  <2>2. CASE ~query.event.final
    <3>1. /\ query'.phase = query.phase
          /\ query'.calls = query.calls /\ query'.done = query.done
          BY <1>0, <1>10, Advanced, AdvancedFields DEF Clear, QueryState
    <3>2. pc \in {"acked", "top"} /\ pc' = "top" /\ UNCHANGED <<fresh, ran, replaying>>
          BY <1>10, <2>2 DEF Clear, MayClear, history
    <3>. QED BY <3>1, <3>2 DEF Uncommitted
  <2>. QED BY <2>1, <2>2
<1>11. CASE MaxTurnsReached \/ BeforeTurn \/ PrepareTurn \/ GoesOn \/ Completes \/ RefuseReplay
  <2>1. query'.phase \in {"terminal", "preparing", "model"}
    <3>1. CASE MaxTurnsReached \/ RefuseReplay
          BY <1>0, <3>1, AdvancedFields DEF MaxTurnsReached, RefuseReplay, Phases
    <3>2. CASE BeforeTurn
          BY <1>0, <3>2, AdvancedFields DEF BeforeTurn, Phases
    <3>3. CASE PrepareTurn
          BY <1>0, <3>3, Advanced, AdvancedFields DEF PrepareTurn, Phases, QueryState
    <3>4. CASE GoesOn
      <4>1. PICK e : query' = [To("preparing") EXCEPT !.event = e]
            BY <3>4 DEF GoesOn
      <4>. QED BY <1>0, <4>1, Advanced, AdvancedFields DEF Phases, QueryState
    <3>5. CASE Completes
      <4>1. PICK why \in {"completed", "stopped"} :
               query' = [Ended(why) EXCEPT !.event = Event({}, {}, TRUE)]
            BY <3>5 DEF Completes, Save
      <4>. QED BY <1>0, <4>1, EndedType, AdvancedFields DEF Phases, QueryState
    <3>. QED BY <1>11, <3>1, <3>2, <3>3, <3>4, <3>5
  <2>2. fresh' = fresh /\ ran' = ran /\ pc # "tools" /\ pc' # "tools"
        BY <1>11
        DEF MaxTurnsReached, BeforeTurn, PrepareTurn, GoesOn, Completes, RefuseReplay, history
  <2>. QED BY <1>2, <2>1, <2>2
<1>12. CASE CallRecovers
  <2>1. PICK q \in QueryState : Recover(q)
        BY <1>0, <1>12, RecoversFrom
  <2>2. query'.phase = "model"
        BY <2>1 DEF Recover, QueryState
  <2>. QED BY <1>2, <2>1, <2>2 DEF Recover, history
<1>13. CASE AnsweredPlainly
  <2>1. query'.phase = "govern"
        BY <1>0, <1>13, AdvancedFields DEF AnsweredPlainly, Phases
  <2>. QED BY <1>2, <1>13, <2>1 DEF AnsweredPlainly, history
<1>14. CASE AskedTools
  <2>1. fresh' = {} /\ pc' = "top" /\ ran' = [c \in Calls |-> 0]
        BY <1>14 DEF AskedTools
  <2>. QED BY <1>0, <2>1
<1>15. CASE StartBatch
      BY <1>0, <1>15 DEF StartBatch, UnsafeReplay, Uncommitted, durable, history
<1>16. ASSUME NEW c \in Calls, StartCall(c)
       PROVE  OnceInv'
  <2>1. /\ c \in Uncommitted \ fresh /\ pc = "tools" /\ pc' = "tools"
        /\ fresh' = fresh \cup {c} /\ ran' = [ran EXCEPT ![c] = @ + 1] /\ query' = query
        BY <1>16 DEF StartCall, MayStart, durable
  <2>2. \A d \in Unsafe : ran'[d] = IF d = c THEN ran[c] + 1 ELSE ran[d]
        BY <1>0, <2>1
  <2>3. c \in Unsafe => ran[c] = 0
        BY <2>1
  <2>4. \A d \in Unsafe : ran'[d] <= 1
        BY <2>2, <2>3
  <2>. QED BY <2>1, <2>2, <2>4 DEF Uncommitted
<1>17. ASSUME NEW c \in Calls, CommitCall(c)
       PROVE  OnceInv'
  <2>1. To("tools") \in QueryState
        BY <1>0, Advanced DEF Phases
  <2>2. /\ To("tools").calls = query.calls /\ To("tools").done = query.done
        BY <1>0, AdvancedFields DEF Phases
  <2>3. query'.calls = query.calls /\ query'.done = query.done \cup {c}
        BY <1>17, <2>1, <2>2 DEF CommitCall, QueryState
  <2>4. pc = "tools" /\ pc' = "tools" /\ c \in fresh /\ fresh' = fresh \ {c} /\ ran' = ran
        BY <1>17 DEF CommitCall, history
  <2>. QED BY <2>3, <2>4 DEF Uncommitted
<1>18. CASE ClaimUpdates
      BY <1>18 DEF ClaimUpdates, Uncommitted, durable, history
<1>19. CASE CloseBatch
  <2>1. query'.phase \in {"preparing", "terminal"}
    <3>1. PICK e : \/ query' = [To("preparing") EXCEPT !.calls = {}, !.done = {}, !.event = e]
                   \/ query' = [Ended("completed") EXCEPT !.event = e]
          BY <1>19 DEF CloseBatch
    <3>2. To("preparing") \in QueryState /\ Ended("completed") \in QueryState
          BY <1>0, Advanced, EndedType DEF Phases
    <3>3. To("preparing").phase = "preparing" /\ Ended("completed").phase = "terminal"
          BY <1>0, AdvancedFields DEF Phases
    <3>4. CASE query' = [To("preparing") EXCEPT !.calls = {}, !.done = {}, !.event = e]
          BY <3>2, <3>3, <3>4 DEF QueryState
    <3>5. CASE query' = [Ended("completed") EXCEPT !.event = e]
          BY <3>2, <3>3, <3>5 DEF QueryState
    <3>. QED BY <3>1, <3>4, <3>5
  <2>2. fresh' = fresh /\ fresh = {} /\ pc' = "top" /\ ran' = [c \in Calls |-> 0]
        BY <1>19 DEF CloseBatch
  <2>. QED BY <1>0, <2>1, <2>2
<1>20. CASE BatchFails
  <2>1. PICK e : query' = [Ended("stopped") EXCEPT !.event = e]
        BY <1>20 DEF BatchFails
  <2>2. query'.phase = "terminal"
        BY <1>0, <2>1, EndedType, AdvancedFields DEF Phases, QueryState
  <2>. QED BY <1>20, <2>2 DEF BatchFails, history
<1>. QED
  BY <1>4, <1>5, <1>6, <1>7, <1>8, <1>9, <1>10, <1>11, <1>12, <1>13, <1>14, <1>15, <1>16, <1>17,
     <1>18, <1>19, <1>20
  DEF Next, LoopStep

\* A tool whose effect cannot be repeated is started at most once in its batch,
\* whatever crashes and replays the batch goes through.
THEOREM UnsafeToolsRunOnce == Spec => []UnsafeToolOnce
<1>1. Init => OnceInv
      BY QueryLoopAssumption DEF Init, OnceInv, UnsafeToolOnce, FreshQuery, Uncommitted
<1>2. TypeInv /\ ControlInv /\ OnceInv /\ [Next]_vars => OnceInv'
      BY OnceStep
<1>3. OnceInv => UnsafeToolOnce
      BY DEF OnceInv
<1>. QED BY <1>1, <1>2, <1>3, ControlAlways, PTL DEF Spec

(***************************************************************************)
(* Recoveries end                                                          *)
(***************************************************************************)

\* A later candidate costs more than the output recovery it renews is worth.
LEMMA LaterCandidate ==
  ASSUME NEW n \in Nat, NEW k \in Nat, NEW a \in 1..n, NEW b \in 1..n
  PROVE  /\ (n - a) * k \in Nat
         /\ a < b => (n - b) * k + k <= (n - a) * k
<1>1. \A x \in Nat : x * k \in Nat
      OBVIOUS
<1>2. n - a \in Nat /\ n - b \in Nat
      OBVIOUS
<1>3. ASSUME a < b
      PROVE  (n - b) * k + k <= (n - a) * k
  <2>1. b - a - 1 \in Nat
        BY <1>3
  <2>2. (b - a - 1) * k >= 0
        BY <1>1, <2>1
  <2>3. (n - a) * k = (n - b) * k + k + (b - a - 1) * k
        OBVIOUS
  <2>4. (n - b) * k \in Nat /\ (b - a - 1) * k \in Nat
        BY <1>1, <1>2, <2>1
  <2>. QED BY <2>2, <2>3, <2>4
<1>. QED BY <1>1, <1>2, <1>3

\* The only steps that change a state and leave it in the phase "model" are a
\* start that takes a later candidate and a recovery.
LEMMA ModelSteps ==
  ASSUME TypeInv, ControlInv, [Next]_vars,
         query.phase = "model", query'.phase = "model", query' # query
  PROVE  Boot \/ CallRecovers
<1>. USE DEF AtTop, Save
<1>0. query \in QueryState
      BY QueryTyped
<1>1. \A why \in {"completed", "stopped", "cancelled"} :
         Ended(why) \in QueryState /\ Ended(why).phase = "terminal"
      BY <1>0, EndedType, AdvancedFields DEF Phases
<1>2. Cancelled.phase = "terminal"
      BY <1>1 DEF Cancelled, QueryState
<1>3. ~TakeCancel /\ ~Drain
      BY <1>2 DEF TakeCancel, Drain
<1>4. ~Clear
      BY DEF Clear, ControlInv
<1>5. /\ ~MaxTurnsReached /\ ~BeforeTurn /\ ~PrepareTurn /\ ~GoesOn /\ ~Completes
      /\ ~RefuseReplay /\ ~CloseBatch /\ ~BatchFails /\ \A c \in Calls : ~CommitCall(c)
      BY DEF ControlInv, MaxTurnsReached, BeforeTurn, PrepareTurn, GoesOn, Completes, RefuseReplay,
             CloseBatch, BatchFails, CommitCall
<1>6. ~StopModel
      BY <1>1 DEF StopModel
<1>7. ~AskModel /\ ~RetryCall /\ ~CallFails
      BY <1>6 DEF AskModel, RetryCall, CallFails, Reserve
<1>8. ~AskedTools
  <2>1. Answered("tools") \in QueryState /\ Answered("tools").phase = "tools"
        BY <1>0, Advanced, AdvancedFields DEF Phases
  <2>. QED BY <2>1 DEF AskedTools, QueryState
<1>9. ~AnsweredPlainly
  <2>1. Answered("govern").phase = "govern"
        BY <1>0, AdvancedFields DEF Phases
  <2>. QED BY <2>1 DEF AnsweredPlainly
<1>10. /\ ~Stop /\ ~Cancel /\ ~Deliver /\ ~Ack /\ ~AckRefused /\ ~Terminal /\ ~SendCall
       /\ ~StartBatch /\ ~ClaimUpdates /\ ~UNCHANGED vars
       BY DEF Stop, Cancel, Deliver, Ack, AckRefused, Terminal, SendCall, StartBatch, ClaimUpdates,
              vars, durable
<1>11. /\ \A c \in Calls : ~StartCall(c)
       /\ \A u \in Updates : ~PostUpdate(u) /\ ~ClaimLapses(u)
       BY DEF StartCall, PostUpdate, ClaimLapses, durable
<1>. QED
  BY <1>3, <1>4, <1>5, <1>7, <1>8, <1>9, <1>10, <1>11 DEF Next, LoopStep

LEMMA FewerRecoveries ==
  ASSUME TypeInv, TypeInv', query' # query, Boot \/ CallRecovers
  PROVE  0 <= Recoveries' /\ Recoveries' < Recoveries
<1>. DEFINE k == OutputLimit + 2
            E(q) == IF q.escalated THEN 0 ELSE 1
<1>1. /\ query \in QueryState /\ query' \in QueryState
      /\ k \in Nat /\ Candidates \in Nat /\ ContextLimit \in Nat /\ OutputLimit \in Nat
      BY QueryLoopAssumption DEF TypeInv, TypeOK
<1>2. ASSUME NEW q \in QueryState
      PROVE  /\ q.route \in 1..Candidates /\ q.ctx \in 0..ContextLimit
             /\ q.cont \in 0..OutputLimit /\ q.escalated \in BOOLEAN
             /\ (Candidates - q.route) * k \in Nat
             /\ ContextLimit - q.ctx \in Nat /\ OutputLimit - q.cont \in 0..OutputLimit
             /\ E(q) \in 0..1
  <2>1. /\ q.route \in 1..Candidates /\ q.ctx \in 0..ContextLimit
        /\ q.cont \in 0..OutputLimit /\ q.escalated \in BOOLEAN
        BY DEF QueryState
  <2>2. (Candidates - q.route) * k \in Nat
        BY <1>1, <2>1, LaterCandidate
  <2>. QED BY <1>1, <2>1, <2>2
<1>. HIDE DEF k, E
<1>3. /\ Recoveries = (Candidates - query.route) * k + (ContextLimit - query.ctx)
                        + E(query) + (OutputLimit - query.cont)
      /\ Recoveries' = (Candidates - query'.route) * k + (ContextLimit - query'.ctx)
                         + E(query') + (OutputLimit - query'.cont)
      BY DEF Recoveries, k, E
<1>4. 0 <= Recoveries'
      BY <1>1, <1>2, <1>3
<1>5. ASSUME query.route < query'.route, query'.ctx = query.ctx
      PROVE  Recoveries' < Recoveries
  <2>1. (Candidates - query'.route) * k + k <= (Candidates - query.route) * k
        BY <1>1, <1>2, <1>5, LaterCandidate
  <2>2. E(query') + (OutputLimit - query'.cont) < k
        BY <1>1, <1>2 DEF k
  <2>. QED BY <1>1, <1>2, <1>3, <1>5, <2>1, <2>2
<1>6. CASE Boot
  <2>1. PICK r \in query.route..Candidates : query' = [query EXCEPT !.route = r]
        BY <1>6 DEF Boot
  <2>2. query'.route = r /\ query'.ctx = query.ctx
        BY <1>1, <2>1 DEF QueryState
  <2>3. r # query.route
        BY <1>1, <2>1 DEF QueryState
  <2>4. query.route \in 1..Candidates
        BY <1>1, <1>2
  <2>5. query.route < r
        BY <1>1, <2>1, <2>3, <2>4
  <2>. QED BY <1>4, <1>5, <2>2, <2>5
<1>7. CASE CallRecovers
  <2>1. CASE ModelFallback
    <3>1. PICK r \in (query.route + 1)..Candidates :
                 query' = [[query EXCEPT !.route = r, !.escalated = FALSE, !.cont = 0]
                             EXCEPT !.phase = "model", !.rev = @ + 1]
          BY <2>1 DEF ModelFallback, FellBack, Recover, Save
    <3>2. query'.route = r /\ query'.ctx = query.ctx
          BY <1>1, <3>1 DEF QueryState
    <3>. QED BY <1>1, <1>2, <1>4, <1>5, <3>1, <3>2
  <2>2. CASE ContextRecovery
    <3>1. query' = [[query EXCEPT !.ctx = @ + 1] EXCEPT !.phase = "model", !.rev = @ + 1]
          BY <2>2 DEF ContextRecovery, Recover, Save
    <3>2. /\ query'.route = query.route /\ query'.ctx = query.ctx + 1
          /\ query'.escalated = query.escalated /\ query'.cont = query.cont
          BY <1>1, <3>1 DEF QueryState
    <3>. QED BY <1>1, <1>2, <1>3, <1>4, <3>2 DEF E
  <2>3. CASE Escalate
    <3>1. /\ query' = [[query EXCEPT !.escalated = TRUE] EXCEPT !.phase = "model", !.rev = @ + 1]
          /\ ~query.escalated
          BY <2>3 DEF Escalate, Recover, Save
    <3>2. /\ query'.route = query.route /\ query'.ctx = query.ctx
          /\ query'.escalated = TRUE /\ query'.cont = query.cont
          BY <1>1, <3>1 DEF QueryState
    <3>3. E(query') = 0 /\ E(query) = 1
          BY <3>1, <3>2 DEF E
    <3>. QED BY <1>1, <1>2, <1>3, <1>4, <3>2, <3>3
  <2>4. CASE Continuation
    <3>1. query' = [[query EXCEPT !.cont = @ + 1] EXCEPT !.phase = "model", !.rev = @ + 1]
          BY <2>4 DEF Continuation, Recover, Save
    <3>2. /\ query'.route = query.route /\ query'.ctx = query.ctx
          /\ query'.escalated = query.escalated /\ query'.cont = query.cont + 1
          BY <1>1, <3>1 DEF QueryState
    <3>. QED BY <1>1, <1>2, <1>3, <1>4, <3>2 DEF E
  <2>. QED BY <1>7, <2>1, <2>2, <2>3, <2>4 DEF CallRecovers
<1>. QED BY <1>6, <1>7

\* A model step recovers finitely often: a positive measure falls with every
\* recovery, although a fallback renews the output recovery.
THEOREM RecoveriesEnd == Spec => RecoveryBounded
<1>1. TypeInv /\ ControlInv /\ [Next]_vars =>
        (query.phase = "model" /\ query'.phase = "model" /\ query' # query
           => 0 <= Recoveries' /\ Recoveries' < Recoveries)
      BY TypeStep, ModelSteps, FewerRecoveries
<1>. QED BY <1>1, ControlAlways, PTL DEF Spec, RecoveryBounded

(***************************************************************************)
(* The outbox                                                              *)
(***************************************************************************)

Log == delta.log
AppliedIds == {Log[i] : i \in DOMAIN Log}

LogOrdered ==
  /\ \A i, j \in DOMAIN Log : i < j => Log[i] < Log[j]
  /\ \A i \in DOMAIN Log : Log[i] <= query.rev

\* The event that waits is the next one, or was applied before it was cleared.
EventPlaced ==
  query.event # NoEvent =>
    /\ query.event.id # 0 /\ query.event.id <= query.rev
    /\ query.event.id \in AppliedIds \/ \A i \in DOMAIN Log : Log[i] < query.event.id

\* The journal names every event it holds, memory every one the journal names,
\* and they hold the same ones while no write has failed.
IdsKnown ==
  /\ AppliedIds \subseteq delta.ids
  /\ ~degraded => delta.ids = AppliedIds
  /\ pc # "down" => delta.ids \subseteq memory.ids /\ (~degraded => memory.ids = delta.ids)

DeliveredKnown ==
  pc \in {"applied", "acked"} => query.event # NoEvent /\ query.event.id \in memory.ids

OutboxInv == LogOrdered /\ EventPlaced /\ IdsKnown /\ DeliveredKnown

\* No step takes the saved revision back.
LEMMA RevGrows ==
  ASSUME TypeInv, ControlInv, [Next]_vars
  PROVE  query.rev \in Nat /\ query'.rev \in Nat /\ query.rev <= query'.rev
<1>1. query \in QueryState /\ query' \in QueryState
      BY TypeStep, QueryTyped DEF TypeInv, TypeOK
<1>2. query.rev \in Nat /\ query'.rev \in Nat
      BY <1>1 DEF QueryState
<1>3. CASE query' = [query EXCEPT !.route = query'.route]
  <2>1. query'.rev = query.rev
        BY <1>1, <1>3 DEF QueryState
  <2>. QED BY <1>2, <2>1
<1>. QED BY <1>2, <1>3, ControlStep DEF LegalStep

\* The four kinds of step the outbox can tell apart.
Frame ==
  /\ query'.event = query.event /\ UNCHANGED <<delta, degraded>>
  /\ pc' = "down" \/ (pc # "down" /\ memory' = memory)
  /\ pc' \in {"applied", "acked"} => pc \in {"applied", "acked"}

Produced ==
  /\ query.event = NoEvent /\ UNCHANGED <<delta, degraded>>
  /\ query'.event # NoEvent /\ query'.event.id = query.rev + 1 /\ query'.rev = query.rev + 1
  /\ pc' = "down" \/ (pc' = "top" /\ pc # "down" /\ memory' = memory)
  /\ CloseBatch \/ (query'.event.mail = {} /\ query'.event.known = {})

LEMMA StepKinds ==
  ASSUME TypeInv, ControlInv, [Next]_vars
  PROVE  Frame \/ Produced \/ Boot \/ Deliver \/ Clear
<1>. USE DEF AtTop, Save
<1>0. /\ query \in QueryState /\ query.rev + 1 > query.rev /\ query.rev + 1 # 0
      /\ query.phase \in Phases
      BY QueryTyped DEF QueryState
<1>1. \A why \in {"completed", "stopped", "cancelled"} :
        /\ Ended(why) \in QueryState /\ Ended(why).event = query.event
        /\ Ended(why).rev = query.rev + 1
      BY <1>0, EndedType, AdvancedFields DEF Phases
<1>2. \A ph \in Phases :
        /\ To(ph) \in QueryState /\ To(ph).event = query.event /\ To(ph).rev = query.rev + 1
        /\ Answered(ph) \in QueryState /\ Answered(ph).event = query.event
      BY <1>0, Advanced, AdvancedFields
<1>3. ASSUME NEW e, e.id = query.rev + 1, NEW q \in QueryState, q.rev = query.rev + 1,
             query' = [q EXCEPT !.event = e]
      PROVE  /\ query'.event # NoEvent /\ query'.event.id = query.rev + 1 /\ query'.rev = query.rev + 1
             /\ query'.event = e
  <2>1. query'.event = e /\ query'.rev = query.rev + 1
        BY <1>3 DEF QueryState
  <2>2. NoEvent.id = 0
        BY DEF NoEvent
  <2>. QED BY <1>0, <1>3, <2>1, <2>2
<1>id. \A mail, known, final : Event(mail, known, final).id = query.rev + 1
      BY DEF Event
<1>mail. \A final : Event({}, {}, final).mail = {} /\ Event({}, {}, final).known = {}
      BY DEF Event
<1>4. CASE Stop \/ Cancel \/ AckRefused \/ Terminal \/ Ack
      BY <1>4 DEF Frame, Stop, Cancel, AckRefused, Terminal, Ack, durable, process
<1>5. CASE TakeCancel \/ Drain
  <2>1. UNCHANGED <<delta, degraded>> /\ pc' = "down" /\ query' \in {query, Cancelled}
        BY <1>5 DEF TakeCancel, Drain
  <2>2. CASE query' = query
        BY <2>1, <2>2 DEF Frame
  <2>3. CASE query' = Ended("cancelled")
        BY <1>1, <2>1, <2>3 DEF Frame
  <2>4. CASE query' = [Ended("cancelled") EXCEPT !.event = Event({}, {}, FALSE)] /\ pc # "call"
    <3>1. CASE query' # query
      <4>1. pc \in {"tools", "closing"}
            BY <1>5, <2>4, <3>1 DEF TakeCancel, Drain, SavesCancel
      <4>2. query.event = NoEvent
            BY <4>1 DEF ControlInv
      <4>3. Ended("cancelled") \in QueryState /\ Ended("cancelled").rev = query.rev + 1
            BY <1>1
      <4>4. query' = [Ended("cancelled") EXCEPT !.event = Event({}, {}, FALSE)]
            BY <2>4
      <4>5. Event({}, {}, FALSE).id = query.rev + 1
            BY <1>id
      <4>6. /\ query'.event # NoEvent /\ query'.event.id = query.rev + 1
            /\ query'.rev = query.rev + 1
            /\ query'.event.mail = {} /\ query'.event.known = {}
            BY <1>3, <1>mail, <4>3, <4>4, <4>5
      <4>. QED BY <2>1, <4>2, <4>6 DEF Produced
    <3>. QED BY <2>2, <3>1
  <2>. QED BY <2>1, <2>2, <2>3, <2>4 DEF Cancelled
<1>6. CASE MaxTurnsReached \/ RefuseReplay
      BY <1>1, <1>6 DEF MaxTurnsReached, RefuseReplay, Frame
<1>7. CASE BeforeTurn
      BY <1>2, <1>7 DEF BeforeTurn, Phases, Frame
<1>8. CASE PrepareTurn
  <2>1. To("model") \in QueryState /\ To("model").event = query.event
        BY <1>2 DEF Phases
  <2>2. query'.event = query.event
        BY <1>8, <2>1 DEF PrepareTurn, QueryState
  <2>. QED BY <1>8, <2>2 DEF PrepareTurn, Frame
<1>9. CASE AskModel \/ RetryCall \/ CallFails
      BY <1>1, <1>9 DEF AskModel, RetryCall, CallFails, Reserve, StopModel, Frame
<1>10. CASE SendCall \/ StartBatch \/ ClaimUpdates \/ \E c \in Calls : StartCall(c)
      BY <1>10 DEF SendCall, StartBatch, ClaimUpdates, StartCall, durable, Frame
<1>11. CASE CallRecovers
  <2>1. PICK q \in QueryState : q.event = query.event /\ Recover(q)
        BY <1>0, <1>11, RecoversFrom
  <2>2. query'.event = query.event
        BY <2>1 DEF Recover, QueryState
  <2>. QED BY <2>1, <2>2 DEF Recover, Frame
<1>12. CASE AskedTools \/ AnsweredPlainly
  <2>1. query'.event = query.event
    <3>1. CASE AskedTools
      <4>1. PICK cs : query' = [Answered("tools") EXCEPT !.calls = cs]
            BY <3>1 DEF AskedTools
      <4>2. Answered("tools") \in QueryState /\ Answered("tools").event = query.event
            BY <1>2 DEF Phases
      <4>. QED BY <4>1, <4>2 DEF QueryState
    <3>2. CASE AnsweredPlainly
          BY <1>2, <3>2 DEF AnsweredPlainly, Phases
    <3>. QED BY <1>12, <3>1, <3>2
  <2>. QED BY <1>12, <2>1 DEF AskedTools, AnsweredPlainly, Frame
<1>13. ASSUME NEW c \in Calls, CommitCall(c)
       PROVE  Frame
  <2>1. To("tools") \in QueryState /\ To("tools").event = query.event
        BY <1>2 DEF Phases
  <2>2. query'.event = query.event
        BY <1>13, <2>1 DEF CommitCall, QueryState
  <2>. QED BY <1>13, <2>2 DEF CommitCall, Frame
<1>14. CASE GoesOn
  <2>1. To("preparing") \in QueryState /\ To("preparing").rev = query.rev + 1
        BY <1>2 DEF Phases
  <2>2. query' = [To("preparing") EXCEPT !.event = Event({}, {}, FALSE)]
        BY <1>14 DEF GoesOn
  <2>3. /\ query.event = NoEvent /\ UNCHANGED <<delta, degraded, memory>>
        /\ pc = "top" /\ pc' = "top"
        BY <1>14 DEF GoesOn
  <2>4. /\ query'.event # NoEvent /\ query'.event.id = query.rev + 1
        /\ query'.rev = query.rev + 1 /\ query'.event = Event({}, {}, FALSE)
    <3>1. Event({}, {}, FALSE).id = query.rev + 1
          BY <1>id
    <3>. QED BY <1>3, <3>1, <2>1, <2>2
  <2>. QED BY <1>mail, <2>2, <2>3, <2>4 DEF Produced
<1>15. CASE Completes
  <2>1. PICK why \in {"completed", "stopped"} :
               query' = [Ended(why) EXCEPT !.event = Event({}, {}, TRUE)]
        BY <1>15 DEF Completes
  <2>2. /\ query.event = NoEvent /\ UNCHANGED <<delta, degraded, memory>>
        /\ pc = "top" /\ pc' = "top"
        BY <1>15 DEF Completes
  <2>3. Ended(why) \in QueryState /\ Ended(why).rev = query.rev + 1
        BY <1>1
  <2>4. /\ query'.event # NoEvent /\ query'.event.id = query.rev + 1
        /\ query'.rev = query.rev + 1 /\ query'.event = Event({}, {}, TRUE)
    <3>1. Event({}, {}, TRUE).id = query.rev + 1
          BY <1>id
    <3>. QED BY <1>3, <3>1, <2>1, <2>3
  <2>. QED BY <1>mail, <2>2, <2>3, <2>4 DEF Produced
<1>16. CASE BatchFails
  <2>1. query' = [Ended("stopped") EXCEPT !.event = Event({}, {}, FALSE)]
        BY <1>16 DEF BatchFails
  <2>2. /\ query.event = NoEvent /\ UNCHANGED <<delta, degraded, memory>>
        /\ pc # "down" /\ pc' = "top"
        BY <1>16 DEF BatchFails, ControlInv
  <2>3. Ended("stopped") \in QueryState /\ Ended("stopped").rev = query.rev + 1
        BY <1>1
  <2>4. /\ query'.event # NoEvent /\ query'.event.id = query.rev + 1
        /\ query'.rev = query.rev + 1 /\ query'.event = Event({}, {}, FALSE)
    <3>1. Event({}, {}, FALSE).id = query.rev + 1
          BY <1>id
    <3>. QED BY <1>3, <3>1, <2>1, <2>3
  <2>. QED BY <1>mail, <2>2, <2>3, <2>4 DEF Produced
<1>17. CASE CloseBatch
  <2>1. PICK known :
          \/ query' = [To("preparing") EXCEPT !.calls = {}, !.done = {},
                                              !.event = Event(claimed, known, FALSE)]
          \/ query' = [Ended("completed") EXCEPT !.event = Event(claimed, known, FALSE)]
        BY <1>17 DEF CloseBatch
  <2>2. /\ query.event = NoEvent /\ UNCHANGED <<delta, degraded, memory>>
        /\ pc # "down" /\ pc' = "top"
        BY <1>17 DEF CloseBatch, ControlInv
  <2>3. /\ Ended("completed") \in QueryState /\ Ended("completed").rev = query.rev + 1
        /\ To("preparing") \in QueryState /\ To("preparing").rev = query.rev + 1
        BY <1>1, <1>2 DEF Phases
  <2>4. CASE query' = [Ended("completed") EXCEPT !.event = Event(claimed, known, FALSE)]
        BY <1>3, <1>id, <1>17, <2>2, <2>3, <2>4 DEF Produced
  <2>5. CASE query' = [To("preparing") EXCEPT !.calls = {}, !.done = {},
                                             !.event = Event(claimed, known, FALSE)]
    <3>1. Event(claimed, known, FALSE).id = query.rev + 1 /\ NoEvent.id = 0
          BY DEF Event, NoEvent
    <3>2. query'.event = Event(claimed, known, FALSE) /\ query'.rev = query.rev + 1
          BY <2>3, <2>5 DEF QueryState
    <3>. QED BY <1>0, <1>17, <2>2, <3>1, <3>2 DEF Produced
  <2>. QED BY <2>1, <2>4, <2>5
<1>18. CASE (\E u \in Updates : PostUpdate(u) \/ ClaimLapses(u)) \/ UNCHANGED vars
      BY <1>18 DEF PostUpdate, ClaimLapses, vars, durable, process, Frame
<1>. QED
  BY <1>4, <1>5, <1>6, <1>7, <1>8, <1>9, <1>10, <1>11, <1>12, <1>13, <1>14, <1>15, <1>16, <1>17,
     <1>18
  DEF Next, LoopStep

\* O's variables and actions, in terms of the loop's
LEMMA Waiting ==
  /\ waitingEvent = IF query.event.id \in AppliedIds THEN 0 ELSE query.event.id
  /\ waitingEvent' = IF query'.event.id \in AppliedIds' THEN 0 ELSE query'.event.id
  BY DEF waitingEvent, AppliedIds, Log

LEMMA OutboxStep ==
  ASSUME TypeInv, ControlInv, OutboxInv, [Next]_vars
  PROVE  OutboxInv' /\ [O!Next]_(O!vars)
<1>. USE DEF OutboxInv, LogOrdered, EventPlaced, IdsKnown, DeliveredKnown
<1>0. /\ query.rev \in Nat /\ query'.rev \in Nat /\ query.rev <= query'.rev
      /\ query.event.id \in Nat /\ NoEvent.id = 0
      /\ Log \in Seq(Nat) /\ \A i \in DOMAIN Log : Log[i] \in Nat
  <2>1. query.event \in Events /\ Log \in Seq(Nat)
        BY QueryTyped DEF QueryState, TypeInv, TypeOK, Log, EventIds
  <2>2. query.event.id \in Nat /\ NoEvent.id = 0
        BY <2>1 DEF Events, EventIds, NoEvent
  <2>. QED BY RevGrows, <2>1, <2>2
<1>1. ASSUME Frame
      PROVE  OutboxInv' /\ UNCHANGED O!vars
  <2>1. Log' = Log /\ AppliedIds' = AppliedIds
        BY <1>1 DEF Frame, Log, AppliedIds
  <2>2. waitingEvent' = waitingEvent
        BY <1>1 DEF Frame, waitingEvent
  <2>3. LogOrdered' /\ EventPlaced'
        BY <1>0, <1>1, <2>1 DEF Frame
  <2>4. IdsKnown' /\ DeliveredKnown'
        BY <1>1, <2>1 DEF Frame
  <2>. QED BY <1>1, <2>2, <2>3, <2>4 DEF Frame, O!vars
<1>2. ASSUME Produced
      PROVE  OutboxInv' /\ O!Produce
  <2>1. Log' = Log /\ AppliedIds' = AppliedIds
        BY <1>2 DEF Produced, Log, AppliedIds
  <2>2. \A i \in DOMAIN Log : Log[i] < query'.event.id
        BY <1>0, <1>2 DEF Produced
  <2>3. waitingEvent = 0
        BY <1>0, <1>2, Waiting DEF Produced
  <2>4. waitingEvent' = query'.event.id /\ query'.event.id \in Nat \ {0}
    <3>1. query'.event.id \notin AppliedIds
          BY <1>0, <1>2, <2>2 DEF Produced, AppliedIds
    <3>2. query'.event.id = query.rev + 1
          BY <1>2 DEF Produced
    <3>. QED BY <1>0, <2>1, <3>1, <3>2, Waiting
  <2>5. LogOrdered' /\ EventPlaced'
        BY <1>0, <1>2, <2>1, <2>2, <2>4 DEF Produced
  <2>6. IdsKnown' /\ DeliveredKnown'
        BY <1>2, <2>1 DEF Produced
  <2>7. O!Produce
        BY <1>2, <2>2, <2>3, <2>4 DEF Produced, O!Produce, Log
  <2>. QED BY <2>5, <2>6, <2>7
<1>3. ASSUME Boot
      PROVE  OutboxInv' /\ UNCHANGED O!vars
  <2>1. /\ UNCHANGED <<delta, degraded>> /\ memory'.ids = delta.ids /\ pc' = "top"
        BY <1>3 DEF Boot, Restored
  <2>2. query'.event = query.event
    <3>1. PICK c : query' = [query EXCEPT !.route = c]
          BY <1>3 DEF Boot
    <3>. QED BY <3>1, QueryTyped DEF QueryState
  <2>3. Log' = Log /\ AppliedIds' = AppliedIds /\ waitingEvent' = waitingEvent
        BY <2>1, <2>2 DEF Log, AppliedIds, waitingEvent
  <2>4. LogOrdered' /\ EventPlaced'
        BY <1>0, <2>2, <2>3
  <2>5. IdsKnown' /\ DeliveredKnown'
        BY <2>1, <2>3
  <2>. QED BY <2>1, <2>3, <2>4, <2>5 DEF O!vars
<1>4. ASSUME Clear
      PROVE  OutboxInv' /\ [O!Next]_(O!vars)
  <2>1. /\ query.event.id \in memory.ids /\ query.event # NoEvent /\ pc # "down"
        /\ UNCHANGED <<delta, degraded>>
        /\ pc' = "down" \/ (pc' = "top" /\ memory' = memory)
    <3>1. query.event # NoEvent /\ MayClear /\ UNCHANGED <<delta, degraded>>
          BY <1>4 DEF Clear
    <3>2. pc' = "down" \/ (pc' = "top" /\ memory' = memory)
          BY <1>4 DEF Clear
    <3>. QED BY <3>1, <3>2 DEF MayClear
  <2>2. query'.event = NoEvent
    <3>1. To(query.phase) \in QueryState
          BY QueryTyped, Advanced
    <3>2. query' = [To(query.phase) EXCEPT !.event = NoEvent]
          BY <1>4 DEF Clear
    <3>. QED BY <3>1, <3>2 DEF QueryState
  <2>3. Log' = Log /\ AppliedIds' = AppliedIds
        BY <2>1 DEF Log, AppliedIds
  <2>4. waitingEvent' = 0
        BY <1>0, <2>2, Waiting
  <2>5. ~degraded => waitingEvent = 0
        BY <2>1, Waiting
  <2>6. LogOrdered' /\ EventPlaced'
        BY <1>0, <2>2, <2>3
  <2>7. IdsKnown' /\ DeliveredKnown'
        BY <2>1, <2>3
  <2>8. CASE waitingEvent = 0
        BY <2>1, <2>4, <2>6, <2>7, <2>8 DEF O!vars, Log
  <2>9. CASE waitingEvent # 0
    <3>1. degraded
          BY <2>5, <2>9
    <3>2. O!Miss
          BY <2>1, <2>4, <2>9, <3>1 DEF O!Miss
    <3>. QED BY <2>6, <2>7, <3>2 DEF O!Next
  <2>. QED BY <2>8, <2>9
<1>5. ASSUME Deliver
      PROVE  OutboxInv' /\ [O!Next]_(O!vars)
  <2>1. /\ pc = "top" /\ pc' = "applied" /\ query' = query
        /\ query.event # NoEvent /\ query.event.id \notin memory.ids
        /\ memory'.ids = memory.ids \cup {query.event.id}
        BY <1>5 DEF Deliver
  <2>2. /\ query.event.id \notin AppliedIds
        /\ \A i \in DOMAIN Log : Log[i] < query.event.id
        /\ waitingEvent = query.event.id /\ waitingEvent # 0
        BY <2>1, Waiting
  <2>3. CASE /\ delta' = delta /\ degraded' = TRUE
    <3>1. Log' = Log /\ AppliedIds' = AppliedIds /\ waitingEvent' = waitingEvent
          BY <2>1, <2>3 DEF Log, AppliedIds, waitingEvent
    <3>2. OutboxInv'
          BY <2>1, <2>3, <3>1
    <3>3. O!Degrade
          BY <2>3, <3>1 DEF O!Degrade, Log
    <3>. QED BY <3>2, <3>3 DEF O!Next
  <2>4. CASE /\ Log' = Append(Log, query.event.id)
             /\ delta'.ids = memory.ids \cup {query.event.id}
             /\ degraded' \in {degraded, TRUE}
    <3>1. /\ DOMAIN Log = 1..Len(Log) /\ Len(Log) \in Nat
          /\ DOMAIN Log' = 1..(Len(Log) + 1)
          /\ \A i \in DOMAIN Log : Log'[i] = Log[i]
          /\ Log'[Len(Log) + 1] = query.event.id
          BY <1>0, <2>4
    <3>2. AppliedIds' = AppliedIds \cup {query.event.id}
          BY <3>1 DEF AppliedIds
    <3>3. LogOrdered'
      <4>1. \A i \in DOMAIN Log' : i \in DOMAIN Log \/ i = Len(Log) + 1
            BY <3>1
      <4>2. ASSUME NEW i \in DOMAIN Log', NEW j \in DOMAIN Log', i < j
            PROVE  Log'[i] < Log'[j]
        <5>1. i \in DOMAIN Log
              BY <3>1, <4>2
        <5>. QED BY <2>2, <3>1, <4>1, <4>2, <5>1
      <4>3. \A i \in DOMAIN Log' : Log'[i] <= query'.rev
            BY <2>1, <3>1, <4>1
      <4>. QED BY <4>2, <4>3
    <3>4. EventPlaced'
          BY <2>1, <3>2
    <3>5. IdsKnown'
          BY <2>1, <2>4, <3>2
    <3>6. DeliveredKnown'
          BY <2>1
    <3>7. waitingEvent' = 0
          BY <2>1, <3>2, Waiting
    <3>8. O!Apply
          BY <2>2, <2>4, <3>7 DEF O!Apply, Log
    <3>. QED BY <3>3, <3>4, <3>5, <3>6, <3>8 DEF O!Next
  <2>5. \/ delta' = delta /\ degraded' = TRUE
        \/ /\ delta'.log = Append(delta.log, query.event.id)
           /\ delta'.ids = memory.ids \cup {query.event.id}
           /\ degraded' \in {degraded, TRUE}
    <3>1. PICK mail : LET written == [log |-> Append(delta.log, query.event.id),
                                      ids |-> memory.ids \cup {query.event.id}, mail |-> mail] IN
            \/ delta' = written /\ degraded' = degraded
            \/ delta' \in {delta, written} /\ degraded' = TRUE
          BY <1>5 DEF Deliver
    <3>2. CASE delta' = [log |-> Append(delta.log, query.event.id),
                         ids |-> memory.ids \cup {query.event.id}, mail |-> mail]
      <4>1. /\ delta'.log = Append(delta.log, query.event.id)
            /\ delta'.ids = memory.ids \cup {query.event.id}
            BY <3>2
      <4>. QED BY <3>1, <4>1
    <3>. QED BY <3>1, <3>2
  <2>. QED BY <2>3, <2>4, <2>5 DEF Log
<1>. QED BY <1>1, <1>2, <1>3, <1>4, <1>5, StepKinds DEF O!Next

LEMMA OutboxStart == Init => OutboxInv /\ O!Init
<1>. SUFFICES ASSUME Init PROVE OutboxInv /\ O!Init
     OBVIOUS
<1>1. /\ DOMAIN Log = {} /\ AppliedIds = {} /\ query.event = NoEvent /\ pc = "down"
      /\ delta.ids = {} /\ delta.log = <<>> /\ degraded = FALSE
      BY DEF Init, FreshQuery, Log, AppliedIds
<1>2. waitingEvent = 0
      BY <1>1, Waiting DEF NoEvent
<1>. QED
  BY <1>1, <1>2
  DEF OutboxInv, LogOrdered, EventPlaced, IdsKnown, DeliveredKnown, O!Init

LEMMA OutboxAlways == Spec => [](TypeInv /\ ControlInv /\ OutboxInv)
<1>1. Init => OutboxInv
      BY OutboxStart
<1>2. TypeInv /\ ControlInv /\ OutboxInv /\ [Next]_vars => OutboxInv'
      BY OutboxStep
<1>. QED BY <1>1, <1>2, ControlAlways, PTL DEF Spec

\* The journal holds each event at most once, in the order of production, and
\* none before the loop saved it.
THEOREM EventsAppliedInOrder == Spec => []AppliedInOrder
<1>1. OutboxInv => AppliedInOrder
      BY DEF OutboxInv, LogOrdered, Log, AppliedInOrder
<1>. QED BY <1>1, OutboxAlways, PTL

\* Save, delta, acknowledgement and clearing implement the outbox, with crashes
\* between any two of them and journal writes that fail.
THEOREM LoopImplementsOutbox == Spec => ImplementsOutbox
<1>1. Init => O!Init
      BY OutboxStart
<1>2. TypeInv /\ ControlInv /\ OutboxInv /\ [Next]_vars => [O!Next]_(O!vars)
      BY OutboxStep
<1>. QED BY <1>1, <1>2, OutboxAlways, PTL DEF Spec, ImplementsOutbox, O!Spec

(***************************************************************************)
(* Task updates                                                            *)
(***************************************************************************)

AckedAt(u) == mailbox[u].status = "acked"

\* The event that waits, memory and the journal name only updates that were shown.
KnownShown ==
  \A u \in Updates :
    u \in memory.mail \/ u \in delta.mail \/ u \in query.event.mail \/ u \in query.event.known
      \/ AckedAt(u)
    => shown[u] = 1

\* One that was shown is acknowledged, or who claims it again will know of it.
ShownKept ==
  \A u \in Updates :
    shown[u] = 0 \/ (shown[u] = 1 /\ (AckedAt(u) \/ u \in delta.mail \/ u \in query.event.mail))

\* Memory knows the updates the journal knows, and so does an event.
MemoryAhead == pc # "down" => delta.mail \subseteq memory.mail
EventCarries ==
  query.event.mail # {} =>
    query.event.mail \subseteq query.event.known /\ delta.mail \subseteq query.event.known

\* An event in the journal has left its updates there; one that memory knows at
\* the start of a turn is in the journal.
EventLeft ==
  query.event # NoEvent =>
    /\ query.event.id \in delta.ids => query.event.mail \subseteq delta.mail
    /\ pc = "top" /\ query.event.id \in memory.ids => query.event.id \in delta.ids
IdsPast == \A i \in memory.ids \cup delta.ids : i <= query.rev

\* What is claimed is about to be shown, and open; what is acknowledged is so.
ClaimedOpen == (claimed # {} => pc = "closing") /\ \A u \in claimed : ~AckedAt(u)
AckedAll == pc = "acked" => \A u \in query.event.mail : AckedAt(u)

ShownInv ==
  /\ KnownShown /\ ShownKept /\ MemoryAhead /\ EventCarries /\ EventLeft /\ IdsPast
  /\ ClaimedOpen /\ AckedAll

\* Sending, claiming and the end of a claim acknowledge nothing, and nothing
\* that is acknowledged can be claimed.
LEMMA AckedStays ==
  ASSUME NEW box \in Boxes, NEW u \in Updates, NEW v \in Updates
  PROVE  /\ Sent(box, v)[u].status = "acked" <=> box[u].status = "acked"
         /\ Lapsed(box, v)[u].status = "acked" <=> box[u].status = "acked"
         /\ Claimed(box, boots)[u].status = "acked" <=> box[u].status = "acked"
         /\ u \in Claimable(box) => box[u].status # "acked"
<1>0. /\ box \in [Updates -> Message(1..MaxBoots)]
      /\ box[u] \in Message(1..MaxBoots) /\ box[v] \in Message(1..MaxBoots)
      BY DEF Boxes
<1>1. Sent(box, v)[u].status = "acked" <=> box[u].status = "acked"
      BY <1>0 DEF Sent, Pending, Message
<1>2. Lapsed(box, v)[u].status = "acked" <=> box[u].status = "acked"
      BY <1>0 DEF Lapsed, Message
<1>3. /\ Recovered(box[u]).status = "acked" <=> box[u].status = "acked"
      /\ Recovered(box[u]).status = "pending" => box[u].status # "acked"
  <2>1. PICK e \in Message(1..MaxBoots) : e = box[u]
        BY <1>0
  <2>2. Pending(e).status = "pending"
        BY DEF Pending, Message
  <2>3. PICK f : f = IF e.status = "processing" /\ ~e.live THEN Pending(e) ELSE e
        OBVIOUS
  <2>4. Recovered(e) = IF f.status = "pending" /\ f.attempts >= MaxDelivery
                         THEN [f EXCEPT !.status = "dead_letter"] ELSE f
        BY <2>3 DEF Recovered
  <2>5. f \in Message(1..MaxBoots)
        BY <2>3 DEF Pending, Message, MessageStatus
  <2>6. [f EXCEPT !.status = "dead_letter"].status = "dead_letter"
        BY <2>5 DEF Message
  <2>. QED BY <2>1, <2>2, <2>3, <2>4, <2>6
<1>4. Claimed(box, boots)[u].status = "acked" <=> box[u].status = "acked"
  <2>1. Claimed(box, boots)[u] =
          IF Recovered(box[u]).status = "pending"
            THEN [status |-> "processing", owner |-> boots,
                  attempts |-> Recovered(box[u]).attempts + 1, live |-> TRUE]
            ELSE Recovered(box[u])
        BY <1>0 DEF Claimed
  <2>. QED BY <1>3, <2>1
<1>5. u \in Claimable(box) => box[u].status # "acked"
      BY <1>0, <1>3 DEF Claimable
<1>. QED BY <1>1, <1>2, <1>4, <1>5

\* What most steps leave: the transcript, what is acknowledged, memory unless the
\* process goes, claims unless it goes or a batch is closed.
Quiet ==
  /\ UNCHANGED shown
  /\ \A u \in Updates : AckedAt(u)' <=> AckedAt(u)
  /\ memory' = memory \/ (pc' = "down" /\ memory' = [ids |-> {}, mail |-> {}])
  /\ \/ claimed' = {}
     \/ claimed' = claimed /\ (pc' = pc \/ pc # "closing")
     \/ pc' = "closing" /\ \A u \in claimed' : ~AckedAt(u)
  /\ pc' = "acked" => pc = "acked"
  /\ pc = "down" => pc' = "down"
  /\ pc' = "top" /\ query.event # NoEvent => pc = "top"

LEMMA QuietSteps ==
  ASSUME TypeInv, ControlInv, [Next]_vars
  PROVE  Quiet \/ CloseBatch \/ Boot \/ Deliver \/ Ack \/ Clear
<1>. USE DEF AtTop, Save, Quiet
<1>1. mailbox' = mailbox => \A u \in Updates : AckedAt(u)' <=> AckedAt(u)
      BY DEF AckedAt
<1>2. CASE Stop \/ Cancel \/ AckRefused \/ Terminal \/ TakeCancel \/ Drain
      BY <1>1, <1>2
      DEF Stop, Cancel, AckRefused, Terminal, TakeCancel, Drain, durable, process, history,
          ClearProcess
<1>3. CASE MaxTurnsReached \/ RefuseReplay \/ BeforeTurn \/ GoesOn \/ Completes
      BY <1>1, <1>3
      DEF MaxTurnsReached, RefuseReplay, BeforeTurn, GoesOn, Completes, history
<1>4. CASE PrepareTurn
      BY <1>1, <1>4 DEF PrepareTurn, history, ControlInv
<1>5. CASE AskModel \/ RetryCall \/ CallFails
      BY <1>1, <1>5 DEF AskModel, RetryCall, CallFails, Reserve, StopModel, history, ControlInv
<1>6. CASE SendCall \/ StartBatch \/ \E c \in Calls : StartCall(c)
      BY <1>1, <1>6 DEF SendCall, StartBatch, StartCall, durable, history
<1>7. CASE CallRecovers
  <2>1. PICK q : Recover(q)
        BY <1>7 DEF CallRecovers, ContextRecovery, ModelFallback, Escalate, Continuation
  <2>. QED BY <1>1, <2>1 DEF Recover, history, ControlInv
<1>8. CASE AskedTools \/ AnsweredPlainly
      BY <1>1, <1>8 DEF AskedTools, AnsweredPlainly, history, ControlInv
<1>9. CASE BatchFails \/ \E c \in Calls : CommitCall(c)
      BY <1>1, <1>9 DEF BatchFails, CommitCall, history, ControlInv
<1>10. CASE ClaimUpdates
  <2>1. CASE UNCHANGED <<mailbox, claimed>>
        BY <1>1, <1>10, <2>1 DEF ClaimUpdates, history
  <2>2. CASE mailbox' = Claimed(mailbox, boots) /\ claimed' = Claimable(mailbox)
    <3>1. mailbox \in Boxes
          BY DEF TypeInv, TypeOK, Boxes
    <3>2. \A u \in Updates : AckedAt(u)' <=> AckedAt(u)
          BY <2>2, <3>1, AckedStays DEF AckedAt
    <3>3. \A u \in claimed' : ~AckedAt(u)
          BY <2>2, <3>1, AckedStays DEF AckedAt, Claimable, Boxes
    <3>. QED BY <1>10, <3>2, <3>3 DEF ClaimUpdates, history
  <2>. QED BY <1>10, <2>1, <2>2 DEF ClaimUpdates
<1>11. ASSUME NEW v \in Updates, PostUpdate(v) \/ ClaimLapses(v)
       PROVE  Quiet
  <2>1. mailbox \in Boxes /\ mailbox' \in {Sent(mailbox, v), Lapsed(mailbox, v)}
        BY <1>11 DEF TypeInv, TypeOK, Boxes, PostUpdate, ClaimLapses
  <2>2. \A u \in Updates : AckedAt(u)' <=> AckedAt(u)
        BY <2>1, AckedStays DEF AckedAt
  <2>. QED BY <1>11, <2>2 DEF PostUpdate, ClaimLapses, process, history
<1>12. CASE UNCHANGED vars
       BY <1>1, <1>12 DEF vars, durable, process, history
<1>. QED
  BY <1>2, <1>3, <1>4, <1>5, <1>6, <1>7, <1>8, <1>9, <1>10, <1>11, <1>12 DEF Next, LoopStep

\* What the types say of it.
LEMMA ShownTyped ==
  ASSUME TypeInv
  PROVE  /\ shown \in [Updates -> Nat] /\ mailbox \in Boxes
         /\ claimed \subseteq Updates
         /\ query.event.mail \subseteq Updates /\ query.event.known \subseteq Updates
         /\ memory.mail \subseteq Updates /\ delta.mail \subseteq Updates
         /\ query.rev \in Nat /\ query.event.id \in Nat
         /\ \A i \in memory.ids \cup delta.ids : i \in Nat
         /\ NoEvent.mail = {} /\ NoEvent.known = {}
<1>1. query.event \in Events
      BY DEF TypeInv, TypeOK, QueryState
<1>2. query.event.mail \subseteq Updates /\ query.event.known \subseteq Updates /\ query.event.id \in Nat
      BY <1>1 DEF Events, EventIds
<1>3. query.rev \in Nat
      BY DEF TypeInv, TypeOK, QueryState
<1>4. /\ shown \in [Updates -> Nat] /\ mailbox \in Boxes /\ claimed \subseteq Updates
      BY DEF TypeInv, TypeOK, Boxes
<1>5. /\ memory.mail \subseteq Updates /\ delta.mail \subseteq Updates
      /\ \A i \in memory.ids \cup delta.ids : i \in Nat
      BY DEF TypeInv, TypeOK, EventIds
<1>. QED BY <1>2, <1>3, <1>4, <1>5 DEF NoEvent

LEMMA ShownInit == Init => ShownInv
  BY DEF Init, FreshQuery, NoEvent, Absent, ShownInv, KnownShown, ShownKept, MemoryAhead, EventCarries,
         EventLeft, IdsPast, ClaimedOpen, AckedAll, AckedAt

LEMMA ShownStep ==
  ASSUME TypeInv, ControlInv, OutboxInv, ShownInv, [Next]_vars
  PROVE  ShownInv'
<1>. USE DEF ShownInv, KnownShown, ShownKept, MemoryAhead, EventCarries, EventLeft, IdsPast,
             ClaimedOpen, AckedAll
<1>0. /\ query.rev <= query'.rev /\ query'.rev \in Nat
      /\ shown \in [Updates -> Nat] /\ mailbox \in Boxes
      /\ claimed \subseteq Updates
      /\ query.event.mail \subseteq Updates /\ query.event.known \subseteq Updates
      /\ memory.mail \subseteq Updates /\ delta.mail \subseteq Updates
      /\ query.rev \in Nat /\ query.event.id \in Nat
      /\ \A i \in memory.ids \cup delta.ids : i \in Nat
      /\ NoEvent.mail = {} /\ NoEvent.known = {}
      /\ claimed' \subseteq Updates
  <2>1. claimed' \subseteq Updates
        BY TypeStep DEF TypeInv, TypeOK
  <2>. QED BY ShownTyped, RevGrows, <2>1
<1>1. /\ query.event # NoEvent => query.event.id <= query.rev
      /\ pc # "down" => delta.ids \subseteq memory.ids
      BY DEF OutboxInv, EventPlaced, IdsKnown
<1>ids. ASSUME memory'.ids \cup delta'.ids \subseteq memory.ids \cup delta.ids
        PROVE  IdsPast'
        BY <1>0, <1>ids
<1>mem. Quiet => /\ memory'.mail \subseteq memory.mail /\ memory'.ids \subseteq memory.ids
                 /\ pc' # "down" => memory' = memory
        BY DEF Quiet
<1>2. CASE Quiet /\ Frame
  <2>1. KnownShown' /\ ShownKept'
        BY <1>2, <1>mem, <1>0 DEF Quiet, Frame
  <2>2. MemoryAhead' /\ EventCarries' /\ IdsPast'
        BY <1>2, <1>mem, <1>ids DEF Quiet, Frame
  <2>3. EventLeft'
        BY <1>2, <1>mem DEF Quiet, Frame
  <2>4. ClaimedOpen' /\ AckedAll'
        BY <1>2, <1>0 DEF Quiet, Frame
  <2>. QED BY <2>1, <2>2, <2>3, <2>4
<1>3. CASE Quiet /\ Produced /\ query'.event.mail = {} /\ query'.event.known = {}
  <2>0. query.event.mail = {} /\ query.event.known = {} /\ delta' = delta
        BY <1>0, <1>3 DEF Produced
  <2>1. KnownShown' /\ ShownKept'
        BY <1>3, <1>mem, <1>0, <2>0 DEF Quiet
  <2>2. MemoryAhead' /\ EventCarries' /\ IdsPast'
        BY <1>3, <1>mem, <1>ids, <2>0 DEF Quiet
  <2>3. EventLeft'
    <3>1. \A i \in memory.ids : i # query'.event.id
          BY <1>0, <1>3 DEF Produced
    <3>. QED BY <1>3, <1>mem, <3>1
  <2>4. ClaimedOpen' /\ AckedAll'
        BY <1>3, <1>0 DEF Quiet
  <2>. QED BY <2>1, <2>2, <2>3, <2>4
<1>4. CASE CloseBatch
  <2>1. /\ pc = "closing" /\ pc' = "top" /\ claimed' = {}
        /\ UNCHANGED <<delta, mailbox, memory>>
        /\ shown' = [u \in Updates |-> IF u \in NewUpdates THEN shown[u] + 1 ELSE shown[u]]
        BY <1>4 DEF CloseBatch, Save
  <2>2. query.event = NoEvent
        BY <2>1 DEF ControlInv
  <2>3. /\ query'.event.mail = claimed
        /\ query'.event.known = IF claimed = {} THEN {} ELSE memory.mail \cup claimed
        /\ query'.event.id = query.rev + 1
    <3>1. /\ To("preparing") \in QueryState /\ Ended("completed") \in QueryState
          BY QueryTyped, Advanced, EndedType DEF Phases
    <3>2. PICK e : /\ e = Event(claimed, IF claimed = {} THEN {} ELSE memory.mail \cup claimed, FALSE)
                   /\ query' \in {[To("preparing") EXCEPT !.calls = {}, !.done = {}, !.event = e],
                                  [Ended("completed") EXCEPT !.event = e]}
          BY <1>4 DEF CloseBatch, Save
    <3>3. query'.event = e
          BY <3>1, <3>2 DEF QueryState
    <3>. QED BY <3>2, <3>3 DEF Event
  <2>4. \A u \in claimed : u \notin memory.mail => shown[u] = 0
        BY <1>0, <2>1, <2>2
  <2>5. \A u \in Updates : /\ u \in claimed => shown'[u] = 1
                           /\ u \notin claimed => shown'[u] = shown[u]
    <3>1. \A u \in Updates : shown'[u] = IF u \in claimed \ memory.mail THEN shown[u] + 1 ELSE shown[u]
          BY <2>1 DEF NewUpdates
    <3>2. \A u \in claimed : u \in memory.mail => shown[u] = 1
          BY <1>0
    <3>. QED BY <1>0, <2>4, <3>1, <3>2
  <2>6. KnownShown'
    <3>1. \A u \in Updates : AckedAt(u)' <=> AckedAt(u)
          BY <2>1 DEF AckedAt
    <3>. QED BY <2>1, <2>3, <2>5, <3>1
  <2>7. ShownKept'
    <3>1. \A u \in Updates : AckedAt(u)' <=> AckedAt(u)
          BY <2>1 DEF AckedAt
    <3>. QED BY <1>0, <2>1, <2>2, <2>3, <2>5, <3>1
  <2>8. MemoryAhead' /\ EventCarries' /\ ClaimedOpen' /\ AckedAll' /\ IdsPast'
        BY <1>ids, <2>1, <2>3
  <2>9. EventLeft'
    <3>1. \A i \in memory.ids \cup delta.ids : i # query'.event.id
          BY <1>0, <2>3
    <3>. QED BY <2>1, <3>1
  <2>. QED BY <2>6, <2>7, <2>8, <2>9
<1>5. CASE Boot
  <2>1. /\ memory'.ids = delta.ids /\ memory'.mail = delta.mail /\ pc' = "top" /\ pc = "down"
        /\ UNCHANGED <<delta, mailbox, shown, claimed>>
        BY <1>5 DEF Boot, Restored, history
  <2>2. query'.event = query.event
    <3>1. PICK c : query' = [query EXCEPT !.route = c]
          BY <1>5 DEF Boot
    <3>. QED BY <3>1, QueryTyped DEF QueryState
  <2>3. \A u \in Updates : AckedAt(u)' <=> AckedAt(u)
        BY <2>1 DEF AckedAt
  <2>. QED BY <1>0, <1>ids, <2>1, <2>2, <2>3
<1>6. CASE Clear
  <2>1. query'.event = NoEvent
    <3>1. To(query.phase) \in QueryState
          BY QueryTyped, Advanced
    <3>2. query' = [To(query.phase) EXCEPT !.event = NoEvent]
          BY <1>6 DEF Clear
    <3>. QED BY <3>1, <3>2 DEF QueryState
  <2>2. /\ UNCHANGED <<delta, mailbox, shown>>
        /\ query.event # NoEvent /\ MayClear
        /\ \/ pc' = "down" /\ memory' = [ids |-> {}, mail |-> {}] /\ claimed' = {}
           \/ pc' = "top" /\ memory' = memory /\ claimed' = claimed
        BY <1>6 DEF Clear, ClearProcess, history
  <2>3. \A u \in Updates : AckedAt(u)' <=> AckedAt(u)
        BY <2>2 DEF AckedAt
  <2>4. \A u \in query.event.mail : AckedAt(u) \/ u \in delta.mail
        BY <2>2 DEF MayClear
  <2>5. KnownShown' /\ ShownKept'
        BY <1>0, <2>1, <2>2, <2>3, <2>4
  <2>6. MemoryAhead' /\ IdsPast'
        BY <1>ids, <2>2 DEF MayClear
  <2>7. EventCarries' /\ EventLeft' /\ AckedAll' /\ ClaimedOpen'
        BY <1>0, <2>1, <2>2, <2>3 DEF MayClear
  <2>. QED BY <2>5, <2>6, <2>7
<1>7. CASE Ack
  <2>1. /\ pc = "applied" /\ pc' = "acked" /\ UNCHANGED <<delta, memory, shown, claimed, query>>
        /\ mailbox' = Acked(mailbox, query.event.mail)
        BY <1>7 DEF Ack, history
  <2>2. \A u \in Updates : AckedAt(u)' <=> AckedAt(u) \/ u \in query.event.mail
    <3>1. mailbox \in [Updates -> Message(1..MaxBoots)]
          BY <1>0 DEF Boxes
    <3>. QED BY <2>1, <3>1 DEF AckedAt, Acked, Message
  <2>3. claimed = {}
        BY <2>1
  <2>. QED BY <1>0, <1>ids, <2>1, <2>2, <2>3
<1>8. CASE Deliver
  <2>1. /\ pc = "top" /\ pc' = "applied" /\ query' = query
        /\ UNCHANGED <<mailbox, shown, claimed>>
        /\ query.event # NoEvent /\ query.event.id \notin memory.ids
        /\ memory'.ids = memory.ids \cup {query.event.id}
        /\ memory'.mail = IF query.event.mail = {} THEN memory.mail ELSE query.event.known
        BY <1>8 DEF Deliver, history
  <2>2. \/ delta' = delta
        \/ /\ delta'.ids = memory.ids \cup {query.event.id}
           /\ delta'.mail = IF query.event.mail = {} THEN delta.mail ELSE query.event.known
        BY <1>8 DEF Deliver
  <2>3. \A u \in Updates : AckedAt(u)' <=> AckedAt(u)
        BY <2>1 DEF AckedAt
  <2>4. delta.mail \subseteq delta'.mail /\ delta'.mail \subseteq memory'.mail
        BY <2>1, <2>2
  <2>5. KnownShown' /\ ShownKept'
        BY <1>0, <2>1, <2>2, <2>3, <2>4
  <2>6. MemoryAhead' /\ EventCarries'
        BY <2>1, <2>2, <2>4
  <2>7. EventLeft'
        BY <1>1, <2>1, <2>2
  <2>8. IdsPast' /\ ClaimedOpen' /\ AckedAll'
        BY <1>0, <1>1, <2>1, <2>2, <2>3
  <2>. QED BY <2>5, <2>6, <2>7, <2>8
<1>. QED BY <1>2, <1>3, <1>4, <1>5, <1>6, <1>7, <1>8, QuietSteps, StepKinds DEF Produced

\* A task update enters the transcript at most once, and one that is acknowledged
\* has entered it, however claims lapse, journal writes fail and processes die.
THEOREM UpdatesShownOnce == Spec => []UpdateShownOnce
<1>1. ShownInv => UpdateShownOnce
      BY DEF ShownInv, KnownShown, ShownKept, AckedAt, UpdateShownOnce
<1>2. TypeInv /\ ControlInv /\ OutboxInv /\ ShownInv /\ [Next]_vars => ShownInv'
      BY ShownStep
<1>. QED BY <1>1, <1>2, ShownInit, OutboxAlways, PTL DEF Spec
===============================================================================
