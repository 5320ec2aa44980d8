---------------------------- MODULE TaskPool_proofs ----------------------------
(***************************************************************************)
(* Proofs about the teammate pool, for any number of tasks, teammates and  *)
(* faults and any limits.  Three invariants:                               *)
(*                                                                         *)
(*   TypeInv     types, what coroutines refer to, and how attempts and     *)
(*               restarts are counted                                      *)
(*   FollowInv   the store and the records, while the run is served, while *)
(*               it is restored and once it is over                        *)
(*   AssignInv   where an assignment of the first process is               *)
(***************************************************************************)
EXTENDS TaskPool, WellFoundedInduction, TLAPS

(***************************************************************************)
(* The invariants.                                                         *)
(***************************************************************************)
\* What the registry and the store say of a task.
Records   == [status : TaskStatus, mate : Mates \cup {None},
              attempt : 0 .. MaxFaults + 1, cancelled : BOOLEAN]
Snapshots == [status : TaskStatus, mate : Mates \cup {None}, attempt : 0 .. MaxFaults + 1]

\* A task the process knows.
Known(t) == t \in Tasks /\ reg[t].status # "absent"

\* What coroutines refer to has a record.
ExecKnown == \A m \in Mates : exec[m] = NoExecutor \/ (exec[m].pc # "none" /\ Known(exec[m].task))
OpenKnown == \A m \in Mates : loops[m] = "opening" => Known(desc[m].task)
LeadKnown == lead.pc \in {"created", "cancelling", "cancelled"} => Known(lead.task)

\* A dispatch has reserved a teammate for its task; the rest of its list has none.
DispKnown ==
  disp # NoDispatch =>
    /\ Known(disp.task) /\ reg[disp.task].mate \in Mates /\ reg[disp.task].attempt >= 1
    /\ \A t \in disp.todo : Known(t) /\ reg[t].mate = None

Refs == ExecKnown /\ OpenKnown /\ LeadKnown /\ DispKnown

\* An attempt is made by each process at most once, and one that a task without
\* a teammate, or one nobody has a record of, can still make is left.
AttemptsOf(t) ==
  /\ reg[t].attempt <= boots /\ snap[t].attempt <= boots
  /\ reg[t].mate = None => reg[t].attempt < boots
  /\ reg[t].status = "absent" /\ lead.pc # "down" => snap[t].attempt < boots

Attempts == \A t \in Tasks : AttemptsOf(t)

\* A run is resumed after a crash or an end.
Restarts ==
  /\ boots <= faults + 1
  /\ lead.pc \in {"stopping", "draining", "off", "down"} => boots <= faults

\* The first invariant.
TypeInv == TypeOK /\ Refs /\ Attempts /\ Restarts

\* A completed task has a result, in the registry as in the store.
ResultStored ==
  \A t \in Tasks : reg[t].status = "completed" \/ snap[t].status = "completed" => t \in stored

\* The lock is held by who waits for it.
LockHeld ==
  disp # NoDispatch => \/ disp.by = Lead /\ lead.pc = "dispatch"
                       \/ disp.by \in Mates /\ loops[disp.by] = "dispatch"

\* A teammate whose loop does not run, or that is about to start one, has no executor.
NoLoopNoExecutor ==
  \A m \in Mates : loops[m] \in {"unborn", "off", "gone", "opening"} => exec[m] = NoExecutor

\* A run that is over, or down, has no loop and no dispatch.
Over ==
  lead.pc \in {"off", "down"} => /\ \A m \in Mates : loops[m] \in {"unborn", "off"}
                                 /\ disp = NoDispatch
\* One that is over has no open snapshot, one that is down no record.
Closed ==
  /\ lead.pc = "off" => OpenSnapshots = {}
  /\ lead.pc = "down" => \A t \in Tasks : reg[t].status = "absent"

\* The run is served or about to be.
Running == Serving \/ lead.pc = "restoring"

\* A shutdown_request is read when it is found, so it was never claimed.
ShutdownMail ==
  \A m \in Mates :
    /\ inbox[m][ShutdownRequest].status \in {"absent", "pending", "acked"}
    /\ inbox[m][ShutdownRequest].status # "acked" => inbox[m][ShutdownRequest].attempts = 0

\* One that is left from an earlier end of the run is read before anything starts.
ShutdownFirst ==
  Running => \A m \in Mates : inbox[m][ShutdownRequest].status = "pending" =>
    exec[m] = NoExecutor /\ loops[m] \notin {"opening", "acking"}

\* The process knows an open task, or will once it has read the snapshots.
FollowedOf(t) ==
  snap[t].status \in ActiveStatus =>
    \/ reg[t].status \in ActiveStatus
    \/ reg[t].status \in Terminal /\ Reporting(t)
    \/ reg[t].status = "absent" /\ lead.pc = "restoring"

Followed == Running => \A t \in Tasks : FollowedOf(t)

\* The second invariant.
FollowInv == NoLoopNoExecutor /\ Over /\ Closed /\ ShutdownMail /\ ShutdownFirst /\ Followed

\* The process that started the run serves it.
FirstRun == boots = 1 /\ Serving

\* What the file says of a message: never claimed, claimed by this process, or
\* acknowledged.
FreshEntry(e) ==
  /\ e.status \in {"absent", "pending", "processing", "acked"}
  /\ e.status \in {"absent", "pending"} => e.attempts = 0
  /\ e.status = "processing" => e.owner = 1 /\ e.live
  /\ e.live => e.owner = 1

FreshMail == \A m \in Mates : \A msg \in Messages : FreshEntry(inbox[m][msg])

\* An assignment is sent to the teammate of the record, once its turn is over.
OwnMail ==
  \A m \in Mates : \A t \in Tasks : \A n \in Boots :
    inbox[m][Assignment(t, n)].status # "absent" =>
      reg[t].mate = m /\ n = reg[t].attempt /\ t # disp.task

\* Who has a teammate is at the first attempt.
OneAttempt ==
  \A t \in Tasks : /\ reg[t].attempt = IF reg[t].mate = None THEN 0 ELSE 1
                   /\ reg[t].status = "absent" => reg[t].mate = None

\* A teammate has one pending task, its descriptor's.
Reserved ==
  \A t \in Tasks : reg[t].status = "pending" /\ reg[t].mate # None =>
    desc[reg[t].mate].task = t /\ desc[reg[t].mate].status # "idle"

\* A teammate executes its descriptor's task, and begins it first.
Busy ==
  \A m \in Mates :
    /\ loops[m] = "unborn" => desc[m].status = "idle"
    /\ desc[m].status = "idle" => exec[m] = NoExecutor /\ loops[m] # "opening"
    /\ exec[m] # NoExecutor =>
         /\ desc[m].task = exec[m].task
         /\ exec[m].pc # "created" => reg[exec[m].task].status # "pending"

\* What is claimed is acknowledged before the next claim, and only once the
\* executor of a pending task is there.
HeldMail ==
  \A m \in Mates :
    /\ loops[m] \notin {"opening", "acking"} => \A msg \in Messages : inbox[m][msg].status # "processing"
    /\ loops[m] = "acking" => \A t \in Tasks : \A n \in Boots :
         inbox[m][Assignment(t, n)].status = "processing" /\ reg[t].status = "pending"
           => exec[m].task = t
    /\ inbox[m][ShutdownRequest].status = "absent"

\* The assignment of a pending task is somewhere.
ReachesOf(t) ==
  reg[t].status = "pending" /\ reg[t].mate # None =>
    \/ disp.task = t
    \/ inbox[reg[t].mate][Assignment(t, reg[t].attempt)].status = "pending"
    \/ Held(reg[t].mate, Assignment(t, reg[t].attempt))
    \/ exec[reg[t].mate].task = t

Reaches == \A t \in Tasks : ReachesOf(t)

FirstOK == FreshMail /\ OwnMail /\ OneAttempt /\ Reserved /\ Busy /\ HeldMail /\ Reaches

\* The third invariant.
AssignInv ==
  /\ lead.pc = "restoring" => boots > 1
  /\ FirstRun => FirstOK
(***************************************************************************)
(* What the operators return.                                              *)
(***************************************************************************)
\* The least of some teammates or tasks.
LEMMA FirstIn ==
  ASSUME NEW S \in SUBSET Nat, S # {}
  PROVE  First(S) \in S
  <1> DEFINE R == OpToRel(<, Nat)
  <1>1. \E x \in S : \A y \in S : ~ (<<y, x>> \in R)
    <2>1. IsWellFoundedOn(R, Nat)
      BY NatLessThanWellFounded
    <2> QED
      BY <2>1, WFMin
  <1>2. PICK x \in S : \A y \in S : ~ (<<y, x>> \in R)
    BY <1>1
  <1>3. \A y \in S : ~ (y < x)
    BY <1>2 DEF OpToRel
  <1>4. \A y \in S : x <= y
    BY <1>3
  <1> QED
    BY <1>4 DEF First

\* The parts of the type invariant.
RegOK  == reg \in [Tasks -> Records]
MateOK ==
  /\ loops \in [Mates -> {"unborn", "off", "poll", "opening", "acking", "dispatch", "gone"}]
  /\ desc \in [Mates -> [status : {"idle", "reserved", "busy"}, task : Tasks \cup {None}]]
  /\ exec \in [Mates -> [task : Tasks \cup {None},
       pc : {"none", "created", "saving", "researching", "ending", "done"}]]
CallOK ==
  /\ disp \in [by : Mates \cup {None, Lead}, todo : SUBSET Tasks, task : Tasks \cup {None}]
  /\ lead \in [task : Tasks \cup {None},
       pc : {"ready", "created", "cancelling", "cancelled", "dispatch", "stopping",
             "draining", "off", "down", "restoring"}]
FileOK == snap \in [Tasks -> Snapshots] /\ ckpt \subseteq Tasks /\ stored \subseteq Tasks
MailOK == /\ inbox \in [Mates -> [Messages -> Message(Boots)]]
          /\ posted \in [Mates -> SUBSET (Messages \X Messages)]
CountOK == boots \in Boots /\ faults \in 0 .. MaxFaults

LEMMA TypeParts ==
  /\ TypeOK <=> RegOK /\ MateOK /\ CallOK /\ FileOK /\ MailOK /\ CountOK
  /\ TypeOK' <=> RegOK' /\ MateOK' /\ CallOK' /\ FileOK' /\ MailOK' /\ CountOK'
  BY DEF TypeOK, RegOK, MateOK, CallOK, FileOK, MailOK, CountOK, Records, Snapshots

\* What update_from_record leaves in the file is the record, or what was final.
LEMMA UpsertedIs ==
  ASSUME NEW s \in Snapshots, NEW r \in Records
  PROVE  /\ Upserted(s, r) \in Snapshots
         /\ \/ Upserted(s, r) = s /\ s.status \in Terminal
            \/ /\ Upserted(s, r).status = r.status
               /\ Upserted(s, r).attempt = r.attempt
  BY DEF Upserted, Refused, Snapshots, Records

\* A write changes one snapshot.
LEMMA WriteIs ==
  ASSUME snap \in [Tasks -> Snapshots], RegOK', NEW t \in Tasks, WriteSnapshot(t)
  PROVE  /\ snap' \in [Tasks -> Snapshots]
         /\ \A u \in Tasks : u # t => snap'[u] = snap[u]
         /\ \/ snap'[t] = snap[t] /\ snap[t].status \in Terminal
            \/ /\ snap'[t].status = reg'[t].status
               /\ snap'[t].attempt = reg'[t].attempt
  <1>1. snap' = [snap EXCEPT ![t] = Upserted(snap[t], reg'[t])]
    BY DEF WriteSnapshot
  <1>2. snap[t] \in Snapshots /\ reg'[t] \in Records
    BY DEF RegOK
  <1> QED
    BY <1>1, <1>2, UpsertedIs

\* Mail is of a kind.
LEMMA Kinds ==
  /\ \A t \in Tasks, n \in Boots : Assignment(t, n) \in Messages
  /\ \A t \in Tasks : CancelRequest(t) \in Messages
  /\ ShutdownRequest \in Messages
  /\ \A msg \in Messages : Kind(msg) = "task_assignment" =>
       TaskOf(msg) \in Tasks /\ \E n \in Boots : msg = Assignment(TaskOf(msg), n)
  /\ \A t \in Tasks, n \in Boots, u \in Tasks, k \in Boots :
       Assignment(t, n) = Assignment(u, k) => t = u /\ n = k
  /\ \A t \in Tasks, n \in Boots, u \in Tasks : Assignment(t, n) # CancelRequest(u)
  /\ \A t \in Tasks, n \in Boots :
       /\ Kind(Assignment(t, n)) = "task_assignment" /\ TaskOf(Assignment(t, n)) = t
       /\ Assignment(t, n) # ShutdownRequest
  /\ \A t \in Tasks : CancelRequest(t) # ShutdownRequest
  BY DEF Messages, Assignment, CancelRequest, ShutdownRequest, Kind, TaskOf

\* Flag leaves everything of a record but the mark.
LEMMA FlagIs ==
  ASSUME RegOK, NEW ts, Flag(ts)
  PROVE  /\ RegOK'
         /\ \A t \in Tasks : /\ reg'[t].status = reg[t].status
                             /\ reg'[t].mate = reg[t].mate
                             /\ reg'[t].attempt = reg[t].attempt
  BY DEF RegOK, Flag, Records

Box == [Messages -> Message(Boots)]

\* The file operations keep the file's form.
LEMMA SentIs ==
  ASSUME NEW box \in Box, NEW msg \in Messages
  PROVE  /\ Sent(box, msg) \in Box
         /\ \A x \in Messages : x # msg => Sent(box, msg)[x] = box[x]
         /\ box[msg].status # "absent" => Sent(box, msg)[msg] = box[msg]
         /\ box[msg].status = "absent" =>
              /\ Sent(box, msg)[msg].status = "pending"
              /\ Sent(box, msg)[msg].attempts = box[msg].attempts
              /\ ~ Sent(box, msg)[msg].live
  BY DEF Box, Sent, Pending, Message, MessageStatus

LEMMA RecoveredIs ==
  ASSUME NEW e \in Message(Boots)
  PROVE  /\ Recovered(e) \in Message(Boots)
         /\ Recovered(e).attempts = e.attempts
         /\ Recovered(e).status = "pending" =>
              Recovered(e).attempts < MaxDelivery /\ e.status \in {"pending", "processing"}
         /\ e.status \in {"absent", "acked"} => Recovered(e) = e
         /\ e.status = "processing" /\ e.live => Recovered(e) = e
         /\ e.status = "pending" /\ e.attempts < MaxDelivery => Recovered(e).status = "pending"
  <1> DEFINE free == IF e.status = "processing" /\ ~e.live THEN Pending(e) ELSE e
  <1>1. MaxDelivery \in Nat \ {0}
    BY TaskPoolAssumption
  <1>2. Pending(e) \in Message(Boots) /\ Pending(e).status = "pending" /\ Pending(e).attempts = e.attempts
    BY DEF Pending, Message, MessageStatus
  <1>3. free \in Message(Boots) /\ free.attempts = e.attempts
    BY <1>2
  <1>4. Recovered(e) = IF free.status = "pending" /\ free.attempts >= MaxDelivery
                         THEN [free EXCEPT !.status = "dead_letter"] ELSE free
    BY DEF Recovered
  <1>5. free.status = "pending" => e.status \in {"pending", "processing"}
    BY <1>2
  <1>6. (e.status # "processing" \/ e.live) => free = e
    OBVIOUS
  <1>7. free.attempts \in 0 .. MaxDelivery
    BY <1>3 DEF Message
  <1>8. [free EXCEPT !.status = "dead_letter"] \in Message(Boots)
    <2> HIDE DEF free
    <2> QED
      BY <1>3 DEF Message, MessageStatus
  <1>9. [free EXCEPT !.status = "dead_letter"].status = "dead_letter"
        /\ [free EXCEPT !.status = "dead_letter"].attempts = free.attempts
    <2> HIDE DEF free
    <2> QED
      BY <1>3 DEF Message, MessageStatus
  <1> HIDE DEF free
  <1> QED
    BY <1>1, <1>3, <1>4, <1>5, <1>6, <1>7, <1>8, <1>9

LEMMA ClaimedIs ==
  ASSUME NEW box \in Box, NEW who \in Boots
  PROVE  /\ Claimed(box, who) \in Box
         /\ \A x \in Messages :
              \/ /\ Recovered(box[x]).status = "pending"
                 /\ Claimed(box, who)[x].status = "processing"
                 /\ Claimed(box, who)[x].owner = who
                 /\ Claimed(box, who)[x].live
              \/ /\ Recovered(box[x]).status # "pending"
                 /\ Claimed(box, who)[x] = Recovered(box[x])
  <1>1. ASSUME NEW x \in Messages
        PROVE  /\ Claimed(box, who)[x] \in Message(Boots)
               /\ \/ /\ Recovered(box[x]).status = "pending"
                     /\ Claimed(box, who)[x].status = "processing"
                     /\ Claimed(box, who)[x].owner = who
                     /\ Claimed(box, who)[x].live
                  \/ /\ Recovered(box[x]).status # "pending"
                     /\ Claimed(box, who)[x] = Recovered(box[x])
    <2> DEFINE e == Recovered(box[x])
    <2>1. e \in Message(Boots) /\ (e.status = "pending" => e.attempts < MaxDelivery)
      BY RecoveredIs DEF Box
    <2>2. Claimed(box, who)[x] =
            IF e.status = "pending"
              THEN [status |-> "processing", owner |-> who, attempts |-> e.attempts + 1,
                    live |-> TRUE]
              ELSE e
      BY DEF Claimed, Box
    <2> HIDE DEF e
      <2>3. ASSUME e.status = "pending"
          PROVE  [status |-> "processing", owner |-> who, attempts |-> e.attempts + 1,
                  live |-> TRUE] \in Message(Boots)
      <3>1. e.attempts \in 0 .. MaxDelivery
        BY <2>1 DEF Message
      <3>2. e.attempts + 1 \in 0 .. MaxDelivery
        BY <2>1, <2>3, <3>1, TaskPoolAssumption
      <3>3. who \in Boots \cup {0} /\ "processing" \in MessageStatus
        BY DEF MessageStatus
      <3> QED
        BY <3>2, <3>3 DEF Message
    <2> QED
      BY <2>1, <2>2, <2>3 DEF e
  <1>2. Claimed(box, who) = [x \in Messages |-> Claimed(box, who)[x]]
    BY DEF Claimed, Box
  <1> QED
    BY <1>1, <1>2 DEF Box

LEMMA AckedIs ==
  ASSUME NEW box \in Box, NEW ms
  PROVE  /\ Acked(box, ms) \in Box
         /\ \A x \in Messages : IF x \in ms THEN Acked(box, ms)[x].status = "acked" /\ ~ Acked(box, ms)[x].live
                                ELSE Acked(box, ms)[x] = box[x]
  BY DEF Acked, Box, Message, MessageStatus

LEMMA ClaimableIs ==
  ASSUME NEW box \in Box, NEW msg \in Claimable(box)
  PROVE  msg \in Messages /\ Recovered(box[msg]).status = "pending"
  BY DEF Claimable, Box

\* The sets the records range over.
LEMMA Sizes ==
  /\ MaxTasks \in Nat \ {0} /\ MaxMates \in Nat \ {0} /\ MaxFaults \in Nat
  /\ Tasks \subseteq Nat /\ Mates \subseteq Nat /\ Boots \subseteq Nat /\ 1 \in Boots
  /\ None \notin Tasks /\ None \notin Mates /\ None \notin Boots
  /\ Lead \notin Mates /\ Lead # None
  /\ \A b \in Boots : b >= 1 /\ b <= MaxFaults + 1
  BY TaskPoolAssumption DEF Tasks, Mates, Boots, None, Lead

(***************************************************************************)
(* Types, references and counts.                                           *)
(***************************************************************************)
\* The records a step leaves: teammates and attempts as before, none begun and
\* none forgotten.
Alike ==
  \A t \in Tasks : /\ reg'[t].mate = reg[t].mate /\ reg'[t].attempt = reg[t].attempt
                   /\ reg'[t].status = "absent" <=> reg[t].status = "absent"

\* One status is set.
LEMMA StatusIs ==
  ASSUME RegOK, NEW t \in Tasks, NEW s \in TaskStatus, reg' = [reg EXCEPT ![t].status = s]
  PROVE  /\ RegOK' /\ reg'[t].status = s
         /\ reg'[t].mate = reg[t].mate /\ reg'[t].attempt = reg[t].attempt
         /\ reg'[t].cancelled = reg[t].cancelled
         /\ \A u \in Tasks : u # t => reg'[u] = reg[u]
  BY DEF RegOK, Records

LEMMA StatusAlike ==
  ASSUME RegOK, NEW t \in Tasks, Known(t), NEW s \in TaskStatus \ {"absent"},
         reg' = [reg EXCEPT ![t].status = s]
  PROVE  RegOK' /\ Alike
  BY StatusIs DEF Alike, Known

LEMMA FlagAlike ==
  ASSUME RegOK, NEW ts, Flag(ts)
  PROVE  RegOK' /\ Alike
  BY FlagIs DEF Alike

LEMMA SameAlike ==
  ASSUME RegOK, reg' = reg
  PROVE  RegOK' /\ Alike
  BY DEF RegOK, Alike

\* A snapshot keeps its attempt or has that of a record.
Follows ==
  \A t \in Tasks : \/ snap'[t].attempt = snap[t].attempt
                   \/ reg'[t].status # "absent" /\ snap'[t].attempt = reg'[t].attempt

LEMMA WriteFollows ==
  ASSUME FileOK, RegOK', NEW t \in Tasks, reg'[t].status # "absent", WriteSnapshot(t)
  PROVE  snap' \in [Tasks -> Snapshots] /\ Follows
  BY WriteIs DEF Follows, FileOK

LEMMA SameFollows ==
  ASSUME FileOK, snap' = snap
  PROVE  snap' \in [Tasks -> Snapshots] /\ Follows
  BY DEF Follows, FileOK

LEMMA AttemptsKept ==
  ASSUME TypeInv, RegOK', FileOK', Alike, Follows, boots' = boots,
         lead'.pc # "down" => lead.pc # "down"
  PROVE  Attempts'
  <1> USE TypeParts, Sizes
  <1>1. \A t \in Tasks : /\ reg[t].attempt \in Nat /\ snap[t].attempt \in Nat
                         /\ reg'[t].attempt \in Nat /\ snap'[t].attempt \in Nat
    BY DEF TypeInv, RegOK, FileOK, Records, Snapshots
  <1>2. boots \in Nat
    BY DEF TypeInv, CountOK
  <1>3. Attempts
    BY DEF TypeInv
  <1> QED
    BY <1>1, <1>2, <1>3 DEF Attempts, AttemptsOf, Alike, Follows

LEMMA RefsKept ==
  ASSUME TypeInv, Alike, disp' = disp,
         \A m \in Mates : \/ exec'[m] \in {exec[m], NoExecutor}
                          \/ exec'[m].pc # "none" /\ Known(exec'[m].task),
         \A m \in Mates : loops'[m] = "opening" => Known(desc'[m].task),
         lead'.pc \in {"created", "cancelling", "cancelled"} => Known(lead'.task)
  PROVE  Refs'
  <1>0. Refs
    BY DEF TypeInv
  <1>1. \A t : Known(t) => Known(t)'
    BY DEF Known, Alike
  <1>2. ExecKnown'
    BY <1>0, <1>1 DEF Refs, ExecKnown
  <1>3. OpenKnown'
    BY <1>1 DEF OpenKnown
  <1>4. LeadKnown'
    BY <1>1 DEF LeadKnown
  <1>5. DispKnown'
    <2>1. SUFFICES ASSUME disp # NoDispatch PROVE DispKnown'
      BY DEF DispKnown
    <2>2. /\ Known(disp.task) /\ reg[disp.task].mate \in Mates /\ reg[disp.task].attempt >= 1
          /\ \A t \in disp.todo : Known(t) /\ reg[t].mate = None
      BY <1>0, <2>1 DEF Refs, DispKnown
    <2>3. reg'[disp.task].mate = reg[disp.task].mate /\ reg'[disp.task].attempt = reg[disp.task].attempt
      BY <2>2 DEF Alike, Known
    <2>4. \A t \in disp.todo : reg'[t].mate = None
      BY <2>2 DEF Alike, Known
    <2> QED
      BY <1>1, <2>2, <2>3, <2>4 DEF DispKnown
  <1> QED
    BY <1>2, <1>3, <1>4, <1>5 DEF Refs

\* A step that keeps the counts and ends nothing.
LEMMA RestartsKept ==
  ASSUME TypeInv, UNCHANGED <<boots, faults>>,
         lead'.pc \in {"stopping", "draining", "off", "down"} =>
           lead.pc \in {"stopping", "draining", "off", "down"}
  PROVE  Restarts' /\ CountOK'
  BY TypeParts DEF TypeInv, Restarts, CountOK

\* A step that counts a cancellation, a crash or an end.
LEMMA FaultCounts ==
  ASSUME TypeInv, boots' = boots, faults' = faults + 1, faults < MaxFaults
  PROVE  CountOK' /\ Restarts'
  <1>1. boots \in Nat /\ boots \in Boots /\ faults \in 0 .. MaxFaults /\ boots <= faults + 1
    BY TypeParts, Sizes DEF TypeInv, CountOK, Restarts
  <1>2. faults' \in 0 .. MaxFaults
    BY <1>1, Sizes
  <1> QED
    BY <1>1, <1>2 DEF CountOK, Restarts

LEMMA PendingIs ==
  ASSUME NEW n \in 0 .. MaxFaults + 1
  PROVE  /\ PendingRecord(n) = [status |-> "pending", mate |-> None, attempt |-> n, cancelled |-> FALSE]
         /\ PendingRecord(n) \in Records
  <1>1. PendingRecord(n) = [status |-> "pending", mate |-> None, attempt |-> n, cancelled |-> FALSE]
    BY DEF PendingRecord
  <1>2. "pending" \in TaskStatus /\ None \in Mates \cup {None} /\ FALSE \in BOOLEAN
    BY DEF TaskStatus
  <1> QED
    BY <1>1, <1>2 DEF Records

\* The mailbox operations.
LEMMA SendTypes ==
  ASSUME MailOK, NEW m \in Mates, NEW msg \in Messages, Send(m, msg)
  PROVE  MailOK'
  <1>1. inbox[m] \in Box /\ posted[m] \in SUBSET (Messages \X Messages)
    BY DEF MailOK, Box
  <1>2. Sent(inbox[m], msg) \in Box
    BY <1>1, SentIs
  <1>3. Appended(m, msg) \in SUBSET (Messages \X Messages)
    BY <1>1 DEF Appended, OpenMail
  <1> QED
    BY <1>1, <1>2, <1>3 DEF Send, MailOK, Box

LEMMA AckTypes ==
  ASSUME MailOK, NEW m \in Mates, NEW box \in Box, NEW ms, Acknowledge(m, box, ms)
  PROVE  MailOK'
  <1>1. Acked(box, ms) \in Box
    BY AckedIs
  <1>2. inbox' \in [Mates -> [Messages -> Message(Boots)]]
    BY <1>1 DEF Acknowledge, MailOK, Box
  <1>3. posted' \in [Mates -> SUBSET (Messages \X Messages)]
    BY DEF Acknowledge, MailOK
  <1> QED
    BY <1>2, <1>3 DEF MailOK

LEMMA InboxIs ==
  ASSUME MailOK, NEW m \in Mates
  PROVE  inbox[m] \in Box
  BY DEF MailOK, Box

(***************************************************************************)
(* The supervisor's tools and the end of the run.                          *)
(***************************************************************************)
LEMMA StartType ==
  ASSUME TypeInv, StartResearchTask
  PROVE  TypeInv'
  <1> USE TypeParts, Sizes
  <1>0. TypeOK /\ Refs /\ Attempts /\ Restarts
    BY DEF TypeInv
  <1>1. PICK t \in Tasks : t = First(Unused) /\ reg[t].status = "absent" /\ snap[t].status = "absent"
    <2>1. Unused \in SUBSET Nat /\ Unused # {}
      BY DEF Unused, StartResearchTask
    <2>2. First(Unused) \in Unused
      BY <2>1, FirstIn
    <2> QED
      BY <2>2 DEF Unused
  <1>2. /\ reg' = [reg EXCEPT ![t] = PendingRecord(0)] /\ lead' = At("created", t)
        /\ UNCHANGED <<loops, desc, exec, disp, snap, ckpt, stored, inbox, posted, boots, faults>>
    BY <1>1 DEF StartResearchTask, durable
  <1>3. PendingRecord(0) \in Records /\ PendingRecord(0).status = "pending"
        /\ PendingRecord(0).mate = None /\ PendingRecord(0).attempt = 0
    <2>1. 0 \in 0 .. MaxFaults + 1
      OBVIOUS
    <2> QED
      BY <2>1, PendingIs
  <1>4. RegOK'
    BY <1>0, <1>2, <1>3 DEF RegOK
  <1>5. /\ reg'[t] = PendingRecord(0)
        /\ \A u \in Tasks : u # t => reg'[u] = reg[u]
    BY <1>0, <1>1, <1>2 DEF RegOK
  <1>6. CallOK'
    BY <1>0, <1>1, <1>2 DEF CallOK, At
  <1>7. MateOK' /\ FileOK' /\ MailOK' /\ CountOK'
    BY <1>0, <1>2 DEF MateOK, FileOK, MailOK, CountOK
  <1>8. \A u : Known(u) => Known(u)'
    BY <1>1, <1>3, <1>5 DEF Known
  <1>9. Refs'
    <2>1. ExecKnown' /\ OpenKnown'
      BY <1>0, <1>2, <1>8 DEF Refs, ExecKnown, OpenKnown
    <2>2. LeadKnown'
      BY <1>1, <1>2, <1>3, <1>5 DEF LeadKnown, At, Known
    <2>3. DispKnown'
      <3>1. SUFFICES ASSUME disp # NoDispatch PROVE DispKnown'
        BY <1>2 DEF DispKnown
      <3>2. /\ Known(disp.task) /\ reg[disp.task].mate \in Mates /\ reg[disp.task].attempt >= 1
            /\ \A u \in disp.todo : Known(u) /\ reg[u].mate = None
        BY <1>0, <3>1 DEF Refs, DispKnown
      <3>3. disp.task # t /\ t \notin disp.todo
        BY <1>1, <3>2 DEF Known
      <3>4. reg'[disp.task] = reg[disp.task] /\ \A u \in disp.todo : reg'[u] = reg[u]
        BY <1>5, <3>2, <3>3 DEF Known
      <3> QED
        BY <1>2, <1>8, <3>2, <3>4 DEF DispKnown
    <2> QED
      BY <2>1, <2>2, <2>3 DEF Refs
  <1>10. Attempts'
    <2>1. \A u \in Tasks : snap'[u] = snap[u] /\ boots' = boots /\ lead'.pc # "down" /\ lead.pc # "down"
      BY <1>2 DEF At, StartResearchTask
    <2>2. boots \in Nat /\ boots >= 1
      BY <1>0 DEF CountOK
    <2>3. \A u \in Tasks : u # t => AttemptsOf(u)'
      BY <1>0, <1>5, <2>1 DEF Attempts, AttemptsOf
    <2>4. snap[t].attempt < boots
      BY <1>0, <1>1, <2>1 DEF Attempts, AttemptsOf
    <2>5. AttemptsOf(t)'
      BY <1>0, <1>1, <1>3, <1>5, <2>1, <2>2, <2>4 DEF Attempts, AttemptsOf
    <2> QED
      BY <2>3, <2>5 DEF Attempts
  <1>11. Restarts'
    BY <1>0, <1>2 DEF Restarts, At
  <1> QED
    BY <1>4, <1>6, <1>7, <1>9, <1>10, <1>11 DEF TypeInv

\* The snapshot of the task a tool call is about is written.
LEMMA SaveType ==
  ASSUME TypeInv, Submit \/ SaveCancel
  PROVE  TypeInv'
  <1> USE TypeParts, Sizes
  <1>0. TypeOK /\ Refs /\ Attempts /\ Restarts
    BY DEF TypeInv
  <1>1. Known(lead.task) /\ lead.pc \in {"created", "cancelled"}
    BY <1>0 DEF Refs, LeadKnown, Submit, SaveCancel
  <1>2. /\ WriteSnapshot(lead.task)
        /\ lead' \in {At("dispatch", None), At("ready", None)}
        /\ UNCHANGED <<reg, loops, desc, exec, disp, ckpt, stored, inbox, posted, boots, faults>>
    BY DEF Submit, SaveCancel
  <1>3. RegOK' /\ Alike
    BY <1>0, <1>2, SameAlike
  <1>4. snap' \in [Tasks -> Snapshots] /\ Follows
    BY <1>0, <1>1, <1>2, <1>3, WriteFollows DEF Known
  <1>5. FileOK' /\ MateOK' /\ MailOK'
    BY <1>0, <1>2, <1>4 DEF FileOK, MateOK, MailOK
  <1>6. CallOK' /\ lead'.pc \in {"dispatch", "ready"}
    BY <1>0, <1>2 DEF CallOK, At
  <1>7. Refs'
    BY <1>0, <1>2, <1>3, <1>6, RefsKept DEF Refs, OpenKnown
  <1>8. Attempts'
    BY <1>1, <1>2, <1>3, <1>4, <1>5, <1>6, AttemptsKept
  <1>9. Restarts' /\ CountOK'
    BY <1>2, <1>6, RestartsKept
  <1> QED
    BY <1>3, <1>5, <1>6, <1>7, <1>8, <1>9 DEF TypeInv

LEMMA CancelType ==
  ASSUME TypeInv, NEW t \in Tasks, CancelResearchTask(t)
  PROVE  TypeInv'
  <1> USE TypeParts, Sizes
  <1>0. TypeOK /\ Refs /\ Attempts /\ Restarts
    BY DEF TypeInv
  <1>1. /\ lead.pc = "ready" /\ faults < MaxFaults /\ reg[t].status # "absent" /\ reg[t].mate # None
        /\ Send(reg[t].mate, CancelRequest(t))
        /\ lead' = At("cancelling", t) /\ faults' = faults + 1
        /\ UNCHANGED <<reg, loops, desc, exec, disp, snap, ckpt, stored, boots>>
    BY DEF CancelResearchTask, FaultsLeft, ActiveStatus
  <1>2. RegOK' /\ Alike
    BY <1>0, <1>1, SameAlike
  <1>3. snap' \in [Tasks -> Snapshots] /\ Follows
    BY <1>0, <1>1, SameFollows
  <1>4. reg[t].mate \in Mates
    BY <1>0, <1>1 DEF RegOK, Records
  <1>5. MailOK'
    BY <1>0, <1>1, <1>4, SendTypes, Kinds
  <1>6. FileOK' /\ MateOK'
    BY <1>0, <1>1 DEF FileOK, MateOK
  <1>7. CallOK' /\ lead' = At("cancelling", t) /\ lead'.pc = "cancelling" /\ lead'.task = t
    BY <1>0, <1>1 DEF CallOK, At
  <1>8. CountOK' /\ Restarts'
    BY <1>1, FaultCounts
  <1>9. Refs'
    BY <1>0, <1>1, <1>2, <1>7, RefsKept DEF Refs, OpenKnown, Known
  <1>10. Attempts'
    BY <1>1, <1>2, <1>3, <1>6, <1>7, AttemptsKept
  <1> QED
    BY <1>2, <1>5, <1>6, <1>7, <1>8, <1>9, <1>10 DEF TypeInv

LEMMA RecordCancelType ==
  ASSUME TypeInv, RecordCancel
  PROVE  TypeInv'
  <1> USE TypeParts, Sizes
  <1>0. TypeOK /\ Refs /\ Attempts /\ Restarts
    BY DEF TypeInv
  <1>1. /\ lead.pc = "cancelling" /\ reg' = [reg EXCEPT ![lead.task].status = "cancelled"]
        /\ lead' = [lead EXCEPT !.pc = "cancelled"]
        /\ UNCHANGED <<loops, desc, exec, disp, snap, ckpt, stored, inbox, posted, boots, faults>>
    BY DEF RecordCancel, durable
  <1>2. Known(lead.task)
    BY <1>0, <1>1 DEF Refs, LeadKnown
  <1>3. RegOK' /\ Alike
    BY <1>0, <1>1, <1>2, StatusAlike DEF Known, TaskStatus, Terminal
  <1>4. snap' \in [Tasks -> Snapshots] /\ Follows
    BY <1>0, <1>1, SameFollows
  <1>5. FileOK' /\ MateOK' /\ MailOK'
    BY <1>0, <1>1 DEF FileOK, MateOK, MailOK
  <1>6. CallOK' /\ lead'.pc = "cancelled" /\ lead'.task = lead.task
    BY <1>0, <1>1 DEF CallOK
  <1>7. Refs'
    BY <1>0, <1>1, <1>2, <1>3, <1>6, RefsKept DEF Refs, OpenKnown
  <1>8. Attempts' /\ Restarts' /\ CountOK'
    BY <1>1, <1>3, <1>4, <1>5, <1>6, AttemptsKept, RestartsKept
  <1> QED
    BY <1>3, <1>5, <1>6, <1>7, <1>8 DEF TypeInv

LEMMA BeginShutdownType ==
  ASSUME TypeInv, BeginShutdown
  PROVE  TypeInv'
  <1> USE TypeParts, Sizes
  <1>0. TypeOK /\ Refs /\ Attempts /\ Restarts
    BY DEF TypeInv
  <1>1. /\ lead.pc = "ready" /\ faults < MaxFaults /\ faults' = faults + 1
        /\ Flag({desc[m].task : m \in Runtimes})
        /\ exec' = [m \in Mates |-> IF exec[m] = NoExecutor THEN NoExecutor ELSE Moved(m, "done")[m]]
        /\ lead' = At("stopping", None)
        /\ UNCHANGED <<loops, desc, disp, snap, ckpt, stored, inbox, posted, boots>>
    BY DEF BeginShutdown, FaultsLeft, durable
  <1>2. RegOK' /\ Alike
    BY <1>0, <1>1, FlagAlike
  <1>3. snap' \in [Tasks -> Snapshots] /\ Follows
    BY <1>0, <1>1, SameFollows
  <1>4. \A m \in Mates : \/ exec[m] = NoExecutor /\ exec'[m] = NoExecutor
                         \/ /\ exec[m] # NoExecutor
                            /\ exec'[m] = [task |-> exec[m].task, pc |-> "done"]
    BY <1>0, <1>1 DEF MateOK, Moved
  <1>5. MateOK'
    <2>1. \A m \in Mates : exec[m].task \in Tasks \cup {None}
      BY <1>0 DEF MateOK
    <2>2. \A m \in Mates : exec'[m] \in [task : Tasks \cup {None},
             pc : {"none", "created", "saving", "researching", "ending", "done"}]
      <3> SUFFICES ASSUME NEW m \in Mates
                   PROVE  exec'[m] \in [task : Tasks \cup {None},
             pc : {"none", "created", "saving", "researching", "ending", "done"}]
        OBVIOUS
      <3>1. CASE exec'[m] = NoExecutor
        BY <3>1 DEF NoExecutor
      <3>2. CASE exec'[m] = [task |-> exec[m].task, pc |-> "done"]
        <4>1. exec[m].task \in Tasks \cup {None}
          BY <2>1
        <4>2. \A u \in Tasks \cup {None} : [task |-> u, pc |-> "done"] \in [task : Tasks \cup {None},
             pc : {"none", "created", "saving", "researching", "ending", "done"}]
          OBVIOUS
        <4> QED
          BY <3>2, <4>1, <4>2
      <3> QED
        BY <3>1, <3>2, <1>4
    <2>3. exec' = [m \in Mates |-> exec'[m]]
      BY <1>1
    <2>4. exec' \in [Mates -> [task : Tasks \cup {None},
             pc : {"none", "created", "saving", "researching", "ending", "done"}]]
      BY <2>2, <2>3
    <2> QED
      BY <1>0, <1>1, <2>4 DEF MateOK
  <1>6. FileOK' /\ MailOK'
    BY <1>0, <1>1 DEF FileOK, MailOK
  <1>7. CallOK' /\ lead'.pc = "stopping"
    BY <1>0, <1>1 DEF CallOK, At
  <1>8. CountOK' /\ Restarts'
    BY <1>1, FaultCounts
  <1>9. Refs'
    <2>1. \A m \in Mates : exec'[m] = NoExecutor \/ (exec'[m].pc # "none" /\ Known(exec'[m].task))
      <3> SUFFICES ASSUME NEW m \in Mates, exec'[m] # NoExecutor
                   PROVE  exec'[m].pc # "none" /\ Known(exec'[m].task)
        OBVIOUS
      <3>1. exec[m] # NoExecutor /\ exec'[m] = [task |-> exec[m].task, pc |-> "done"]
        BY <1>4
      <3>2. Known(exec[m].task)
        BY <1>0, <3>1 DEF Refs, ExecKnown
      <3>3. exec'[m].pc = "done" /\ exec'[m].task = exec[m].task
        BY <3>1
      <3> QED
        BY <3>2, <3>3
    <2>2. \A m \in Mates : loops'[m] = "opening" => Known(desc'[m].task)
      BY <1>0, <1>1 DEF Refs, OpenKnown
    <2> QED
      BY <1>1, <1>2, <1>7, <2>1, <2>2, RefsKept
  <1>10. Attempts'
    BY <1>1, <1>2, <1>3, <1>6, <1>7, AttemptsKept
  <1> QED
    BY <1>2, <1>5, <1>6, <1>7, <1>8, <1>9, <1>10 DEF TypeInv

LEMMA RequestShutdownType ==
  ASSUME TypeInv, RequestShutdown
  PROVE  TypeInv'
  <1> USE TypeParts, Sizes
  <1>0. TypeOK /\ Refs /\ Attempts /\ Restarts
    BY DEF TypeInv
  <1>1. /\ lead.pc = "stopping" /\ lead' = At("draining", None)
        /\ UNCHANGED <<reg, loops, desc, exec, disp, snap, ckpt, stored, boots, faults>>
    BY DEF RequestShutdown
  <1>2. RegOK' /\ Alike
    BY <1>0, <1>1, SameAlike
  <1>3. snap' \in [Tasks -> Snapshots] /\ Follows
    BY <1>0, <1>1, SameFollows
  <1>4. FileOK' /\ MateOK'
    BY <1>0, <1>1 DEF FileOK, MateOK
  <1>5. CallOK' /\ lead'.pc = "draining"
    BY <1>0, <1>1 DEF CallOK, At
  <1>6. MailOK'
    <2>1. \A m \in Mates : /\ Sent(inbox[m], ShutdownRequest) \in Box /\ inbox[m] \in Box
                           /\ Appended(m, ShutdownRequest) \in SUBSET (Messages \X Messages)
                           /\ posted[m] \in SUBSET (Messages \X Messages)
      <3> SUFFICES ASSUME NEW m \in Mates
                   PROVE  /\ Sent(inbox[m], ShutdownRequest) \in Box /\ inbox[m] \in Box
                          /\ Appended(m, ShutdownRequest) \in SUBSET (Messages \X Messages)
                          /\ posted[m] \in SUBSET (Messages \X Messages)
        OBVIOUS
      <3>1. inbox[m] \in Box /\ posted[m] \in SUBSET (Messages \X Messages)
        BY <1>0, InboxIs DEF MailOK
      <3>2. Sent(inbox[m], ShutdownRequest) \in Box
        BY <3>1, SentIs, Kinds
      <3>3. Appended(m, ShutdownRequest) \in SUBSET (Messages \X Messages)
        BY <3>1, Kinds DEF Appended, OpenMail
      <3> QED
        BY <3>1, <3>2, <3>3
    <2>2. inbox' \in [Mates -> Box]
      BY <2>1 DEF RequestShutdown
    <2>3. posted' \in [Mates -> SUBSET (Messages \X Messages)]
      BY <2>1 DEF RequestShutdown
    <2> QED
      BY <2>2, <2>3 DEF MailOK, Box
  <1>7. Refs'
    BY <1>0, <1>1, <1>2, <1>5, RefsKept DEF Refs, OpenKnown
  <1>8. Attempts'
    BY <1>1, <1>2, <1>3, <1>4, <1>5, AttemptsKept
  <1>9. Restarts' /\ CountOK'
    BY <1>1, <1>5, RestartsKept
  <1> QED
    BY <1>2, <1>4, <1>5, <1>6, <1>7, <1>8, <1>9 DEF TypeInv

LEMMA FinalizeType ==
  ASSUME TypeInv, FinalizeSnapshots
  PROVE  TypeInv'
  <1> USE TypeParts, Sizes
  <1>0. TypeOK /\ Refs /\ Attempts /\ Restarts
    BY DEF TypeInv
  <1>1. /\ lead.pc = "draining" /\ lead' = At("off", None)
        /\ snap' = [t \in Tasks |-> IF t \in OpenSnapshots
                                THEN [snap[t] EXCEPT !.status = "cancelled"] ELSE snap[t]]
        /\ loops' = [m \in Mates |-> IF m \in Runtimes THEN "off" ELSE loops[m]]
        /\ desc' = [m \in Mates |-> Idle]
        /\ UNCHANGED <<reg, exec, disp, ckpt, stored, inbox, posted, boots, faults>>
    BY DEF FinalizeSnapshots
  <1>2. RegOK' /\ Alike
    BY <1>0, <1>1, SameAlike
  <1>3. snap' \in [Tasks -> Snapshots] /\ Follows
    <2>1. \A t \in Tasks : /\ [snap[t] EXCEPT !.status = "cancelled"] \in Snapshots
                           /\ [snap[t] EXCEPT !.status = "cancelled"].attempt = snap[t].attempt
                           /\ snap[t] \in Snapshots
      BY <1>0 DEF FileOK, Snapshots, TaskStatus, Terminal
    <2> QED
      BY <1>1, <2>1 DEF Follows
  <1>4. FileOK'
    BY <1>0, <1>1, <1>3 DEF FileOK
  <1>5. MateOK' /\ \A m \in Mates : loops'[m] # "opening"
    <2>1. Idle \in [status : {"idle", "reserved", "busy"}, task : Tasks \cup {None}]
      BY DEF Idle
    <2>2. loops' \in [Mates -> {"unborn", "off", "poll", "opening", "acking", "dispatch", "gone"}]
      BY <1>0, <1>1 DEF MateOK
    <2>3. desc' \in [Mates -> [status : {"idle", "reserved", "busy"}, task : Tasks \cup {None}]]
      BY <1>1, <2>1
    <2>4. \A m \in Mates : loops'[m] # "opening"
      BY <1>1 DEF Runtimes
    <2> QED
      BY <1>0, <1>1, <2>2, <2>3, <2>4 DEF MateOK
  <1>6. CallOK' /\ lead'.pc = "off" /\ MailOK'
    BY <1>0, <1>1 DEF CallOK, MailOK, At
  <1>7. Refs'
    BY <1>0, <1>1, <1>2, <1>5, <1>6, RefsKept
  <1>8. Attempts'
    BY <1>1, <1>2, <1>3, <1>4, <1>6, AttemptsKept
  <1>9. Restarts' /\ CountOK'
    BY <1>1, <1>6, RestartsKept
  <1> QED
    BY <1>2, <1>4, <1>5, <1>6, <1>7, <1>8, <1>9 DEF TypeInv

LEMMA CrashType ==
  ASSUME TypeInv, Crash
  PROVE  TypeInv'
  <1> USE TypeParts, Sizes
  <1>0. TypeOK /\ Refs /\ Attempts /\ Restarts
    BY DEF TypeInv
  <1>1. /\ faults < MaxFaults /\ faults' = faults + 1
        /\ reg' = [t \in Tasks |-> NoRecord]
        /\ loops' = [m \in Mates |-> IF m \in Runtimes THEN "off" ELSE loops[m]]
        /\ desc' = [m \in Mates |-> Idle]
        /\ exec' = [m \in Mates |-> NoExecutor]
        /\ disp' = NoDispatch
        /\ lead' = At("down", None)
        /\ UNCHANGED <<snap, ckpt, inbox, posted, boots>>
    BY DEF Crash, FaultsLeft
  <1>2. stored' \subseteq Tasks
    <2>1. PICK done \in {{}} \cup {{exec[m].task} : m \in {n \in Mates : Doing(n, "researching")}} :
            stored' = stored \cup done
      BY DEF Crash
    <2>2. \A m \in Mates : Doing(m, "researching") => exec[m].task \in Tasks
      BY <1>0 DEF Refs, ExecKnown, Known, Doing, NoExecutor
    <2>3. done \subseteq Tasks
      BY <2>1, <2>2
    <2> QED
      BY <1>0, <2>1, <2>3 DEF FileOK
  <1>3. FileOK' /\ MailOK'
    BY <1>0, <1>1, <1>2 DEF FileOK, MailOK
  <1>4. RegOK'
    <2>1. NoRecord \in Records
      BY DEF NoRecord, Records, TaskStatus
    <2> QED
      BY <1>1, <2>1 DEF RegOK
  <1>5. MateOK' /\ \A m \in Mates : loops'[m] # "opening"
    <2>1. /\ Idle \in [status : {"idle", "reserved", "busy"}, task : Tasks \cup {None}]
          /\ NoExecutor \in [task : Tasks \cup {None},
               pc : {"none", "created", "saving", "researching", "ending", "done"}]
      BY DEF Idle, NoExecutor
    <2>2. loops' \in [Mates -> {"unborn", "off", "poll", "opening", "acking", "dispatch", "gone"}]
      BY <1>0, <1>1 DEF MateOK
    <2>3. desc' \in [Mates -> [status : {"idle", "reserved", "busy"}, task : Tasks \cup {None}]]
      BY <1>1, <2>1
    <2>4. exec' \in [Mates -> [task : Tasks \cup {None},
               pc : {"none", "created", "saving", "researching", "ending", "done"}]]
      BY <1>1, <2>1
    <2>5. \A m \in Mates : loops'[m] # "opening"
      BY <1>1 DEF Runtimes
    <2> QED
      BY <2>2, <2>3, <2>4, <2>5 DEF MateOK
  <1>6. CallOK' /\ lead'.pc = "down"
    BY <1>1 DEF CallOK, At, NoDispatch
  <1>7. Refs'
    <2>1. ExecKnown' /\ OpenKnown'
      BY <1>1, <1>5 DEF ExecKnown, OpenKnown
    <2>2. LeadKnown' /\ DispKnown'
      BY <1>1, <1>6 DEF LeadKnown, DispKnown
    <2> QED
      BY <2>1, <2>2 DEF Refs
  <1>8. CountOK' /\ Restarts'
    BY <1>1, FaultCounts
  <1>9. Attempts'
    <2>1. \A t \in Tasks : reg'[t] = NoRecord /\ snap[t].attempt <= boots
      BY <1>0, <1>1 DEF Attempts, AttemptsOf
    <2>2. NoRecord.attempt = 0 /\ boots \in Nat /\ boots >= 1
      BY <1>0 DEF NoRecord, CountOK
    <2>3. \A t \in Tasks : AttemptsOf(t)'
      BY <1>1, <1>6, <2>1, <2>2 DEF AttemptsOf
    <2> QED
      BY <2>3 DEF Attempts
  <1> QED
    BY <1>3, <1>4, <1>5, <1>6, <1>7, <1>8, <1>9 DEF TypeInv

LEMMA ResumeType ==
  ASSUME TypeInv, Resume
  PROVE  TypeInv'
  <1> USE TypeParts, Sizes
  <1>0. TypeOK /\ Refs /\ Attempts /\ Restarts
    BY DEF TypeInv
  <1>1. /\ lead.pc \in {"off", "down"}
        /\ reg' = [t \in Tasks |-> IF reg[t].status = "absent" THEN RestoredRecord(t) ELSE reg[t]]
        /\ loops' = [m \in Mates |-> IF loops[m] = "off" THEN "poll" ELSE loops[m]]
        /\ lead' = At("restoring", None)
        /\ boots' = boots + 1
        /\ UNCHANGED <<desc, exec, disp, snap, ckpt, stored, inbox, posted, faults>>
    BY DEF Resume, durable
  <1>2. \A t \in Tasks : /\ RestoredRecord(t) \in Records
                         /\ RestoredRecord(t).attempt = 0
    <2> SUFFICES ASSUME NEW t \in Tasks
                 PROVE  RestoredRecord(t) \in Records /\ RestoredRecord(t).attempt = 0
      OBVIOUS
    <2>1. NoRecord \in Records /\ NoRecord.attempt = 0
      BY DEF NoRecord, Records, TaskStatus
    <2>2. snap[t].mate \in Mates \cup {None}
      BY <1>0 DEF FileOK, Snapshots
    <2>3. /\ CompletedRecord(snap[t].mate) \in Records
          /\ CompletedRecord(snap[t].mate).attempt = 0
      BY <2>2 DEF CompletedRecord, Records, TaskStatus, Terminal
    <2>4. PendingRecord(0) \in Records /\ PendingRecord(0).attempt = 0
      <3>1. 0 \in 0 .. MaxFaults + 1
        OBVIOUS
      <3> QED
        BY <3>1, PendingIs
    <2> QED
      BY <2>1, <2>3, <2>4 DEF RestoredRecord
  <1>3. RegOK'
    BY <1>0, <1>1, <1>2 DEF RegOK
  <1>4. FileOK' /\ MailOK' /\ MateOK'
    BY <1>0, <1>1 DEF FileOK, MailOK, MateOK
  <1>5. CallOK' /\ lead'.pc = "restoring"
    BY <1>0, <1>1 DEF CallOK, At
  <1>6. CountOK' /\ Restarts' /\ boots \in Nat /\ boots >= 1
    <2>1. boots \in Boots /\ boots \in Nat /\ boots <= faults /\ faults \in 0 .. MaxFaults
      BY <1>0, <1>1 DEF Restarts, CountOK
    <2>2. boots + 1 \in Boots
      BY <2>1 DEF Boots
    <2> QED
      BY <1>1, <1>5, <2>1, <2>2 DEF CountOK, Restarts
  <1>7. Refs'
    <2>1. \A t : Known(t) => Known(t)' /\ reg'[t] = reg[t]
      BY <1>1 DEF Known
    <2>2. ExecKnown' /\ OpenKnown' /\ LeadKnown'
      BY <1>0, <1>1, <1>4, <1>5, <2>1 DEF Refs, ExecKnown, OpenKnown, LeadKnown, MateOK
    <2>3. DispKnown'
      BY <1>0, <1>1, <2>1 DEF Refs, DispKnown
    <2> QED
      BY <2>2, <2>3 DEF Refs
  <1>8. Attempts'
    <2> SUFFICES ASSUME NEW t \in Tasks PROVE AttemptsOf(t)'
      BY DEF Attempts
    <2>1. reg[t].attempt <= boots /\ snap[t].attempt <= boots
      BY <1>0 DEF Attempts, AttemptsOf
    <2>2. reg[t].attempt \in Nat /\ snap[t].attempt \in Nat
      BY <1>0 DEF RegOK, FileOK, Records, Snapshots
    <2>3. reg'[t] = reg[t] \/ reg'[t].attempt = 0
      BY <1>1, <1>2
    <2> QED
      BY <1>1, <1>6, <2>1, <2>2, <2>3 DEF AttemptsOf
  <1> QED
    BY <1>3, <1>4, <1>5, <1>6, <1>7, <1>8 DEF TypeInv

LEMMA RestoreType ==
  ASSUME TypeInv, RestorePending
  PROVE  TypeInv'
  <1> USE TypeParts, Sizes
  <1>0. TypeOK /\ Refs /\ Attempts /\ Restarts
    BY DEF TypeInv
  <1>1. /\ lead.pc = "restoring"
        /\ reg' = [t \in Tasks |-> IF reg[t].status = "absent" /\ t \in OpenSnapshots
                                     THEN PendingRecord(snap[t].attempt) ELSE reg[t]]
        /\ lead' = At("dispatch", None)
        /\ UNCHANGED <<loops, desc, exec, disp, snap, ckpt, stored, inbox, posted, boots, faults>>
    BY DEF RestorePending, durable
  <1>2. \A t \in Tasks : /\ PendingRecord(snap[t].attempt) \in Records
                         /\ PendingRecord(snap[t].attempt).attempt = snap[t].attempt
                         /\ PendingRecord(snap[t].attempt).status = "pending"
    BY <1>0, PendingIs DEF FileOK, Snapshots
  <1>3. RegOK'
    BY <1>0, <1>1, <1>2 DEF RegOK
  <1>4. FileOK' /\ MailOK' /\ MateOK'
    BY <1>0, <1>1 DEF FileOK, MailOK, MateOK
  <1>5. CallOK' /\ lead'.pc = "dispatch"
    BY <1>0, <1>1 DEF CallOK, At
  <1>6. CountOK' /\ Restarts'
    BY <1>1, <1>5, RestartsKept
  <1>7. Refs'
    <2>1. \A t : Known(t) => Known(t)' /\ reg'[t] = reg[t]
      BY <1>1 DEF Known
    <2>2. ExecKnown' /\ OpenKnown' /\ LeadKnown'
      BY <1>0, <1>1, <1>5, <2>1 DEF Refs, ExecKnown, OpenKnown, LeadKnown
    <2>3. DispKnown'
      BY <1>0, <1>1, <2>1 DEF Refs, DispKnown
    <2> QED
      BY <2>2, <2>3 DEF Refs
  <1>8. Attempts'
    <2> SUFFICES ASSUME NEW t \in Tasks PROVE AttemptsOf(t)'
      BY DEF Attempts
    <2>1. AttemptsOf(t)
      BY <1>0 DEF Attempts
    <2>2. \/ reg'[t] = reg[t]
          \/ /\ reg[t].status = "absent" /\ reg'[t].status = "pending"
             /\ reg'[t].attempt = snap[t].attempt
      BY <1>1, <1>2
    <2>3. CASE reg'[t] = reg[t]
      BY <1>1, <1>5, <2>1, <2>3 DEF AttemptsOf
    <2>4. CASE /\ reg[t].status = "absent" /\ reg'[t].status = "pending"
               /\ reg'[t].attempt = snap[t].attempt
      BY <1>1, <1>5, <2>1, <2>4 DEF AttemptsOf
    <2> QED
      BY <2>2, <2>3, <2>4
  <1> QED
    BY <1>3, <1>4, <1>5, <1>6, <1>7, <1>8 DEF TypeInv

LEMMA LapseType ==
  ASSUME TypeInv, NEW m \in Mates, LapseClaim(m)
  PROVE  TypeInv'
  <1> USE TypeParts, Sizes
  <1>0. TypeOK /\ Refs /\ Attempts /\ Restarts
    BY DEF TypeInv
  <1>1. UNCHANGED <<reg, loops, desc, exec, disp, lead, snap, ckpt, stored, posted, boots, faults>>
    BY DEF LapseClaim, memory
  <1>2. PICK left : inbox' = [inbox EXCEPT ![m] = [msg \in Messages |->
                    IF msg \in left THEN [@[msg] EXCEPT !.live = FALSE] ELSE @[msg]]]
    BY DEF LapseClaim
  <1>3. MailOK'
    <2>1. \A msg \in Messages : inbox[m][msg] \in Message(Boots) /\ [inbox[m][msg] EXCEPT !.live = FALSE] \in Message(Boots)
      <3>1. \A msg \in Messages : inbox[m][msg] \in Message(Boots)
        BY <1>0 DEF MailOK
      <3>2. \A e \in Message(Boots) : [e EXCEPT !.live = FALSE] \in Message(Boots)
        BY DEF Message
      <3> QED
        BY <3>1, <3>2
    <2>2. [msg \in Messages |-> IF msg \in left THEN [inbox[m][msg] EXCEPT !.live = FALSE]
                                  ELSE inbox[m][msg]] \in Box
      BY <2>1 DEF Box
    <2>3. inbox' \in [Mates -> Box]
      BY <1>0, <1>2, <2>2 DEF MailOK, Box
    <2> QED
      BY <1>0, <1>1, <2>3 DEF MailOK, Box
  <1>4. RegOK' /\ MateOK' /\ CallOK' /\ FileOK' /\ CountOK'
    BY <1>0, <1>1 DEF RegOK, MateOK, CallOK, FileOK, CountOK
  <1>5. Refs' /\ Attempts' /\ Restarts'
    BY <1>0, <1>1 DEF Refs, ExecKnown, OpenKnown, LeadKnown, DispKnown, Known,
                      Attempts, AttemptsOf, Restarts
  <1> QED
    BY <1>3, <1>4, <1>5 DEF TypeInv

(***************************************************************************)
(* The worker loops.                                                       *)
(***************************************************************************)
LEMMA TakeType ==
  ASSUME TypeInv, NEW m \in Mates, Take(m)
  PROVE  TypeInv'
  <1> USE TypeParts, Sizes
  <1>0. TypeOK /\ Refs /\ Attempts /\ Restarts
    BY DEF TypeInv
  <1>1. /\ inbox' = [inbox EXCEPT ![m] = Claimed(@, boots)]
        /\ Flag(Cancelling(Claimable(inbox[m])))
        /\ UNCHANGED <<exec, disp, lead, snap, ckpt, stored, posted, boots, faults>>
    BY DEF Take
  <1>2. RegOK' /\ Alike
    BY <1>0, <1>1, FlagAlike
  <1>3. snap' \in [Tasks -> Snapshots] /\ Follows
    BY <1>0, <1>1, SameFollows
  <1>4. MailOK'
    <2>1. Claimed(inbox[m], boots) \in Box
      BY <1>0, InboxIs, ClaimedIs DEF CountOK
    <2> QED
      BY <1>0, <1>1, <2>1 DEF MailOK, Box
  <1>5. \/ \E t \in Tasks : /\ Known(t) /\ desc' = [desc EXCEPT ![m] = [status |-> "busy", task |-> t]]
                            /\ loops' = [loops EXCEPT ![m] = "opening"]
        \/ loops' = [loops EXCEPT ![m] = "acking"] /\ UNCHANGED desc
    <2>1. ASSUME NEW first \in Claimable(inbox[m]), Startable(first)
          PROVE  TaskOf(first) \in Tasks /\ Known(TaskOf(first))
      <3>1. first \in Messages
        BY <1>0, InboxIs, ClaimableIs
      <3>2. TaskOf(first) \in Tasks
        BY <2>1, <3>1, Kinds DEF Startable
      <3> QED
        BY <2>1, <3>2 DEF Startable, Known
    <2> QED
      BY <2>1 DEF Take
  <1>6. MateOK'
    BY <1>0, <1>1, <1>5 DEF MateOK
  <1>7. \A n \in Mates : loops'[n] = "opening" => Known(desc'[n].task)
    BY <1>0, <1>5 DEF Refs, OpenKnown, MateOK
  <1>8. FileOK' /\ CallOK'
    BY <1>0, <1>1 DEF FileOK, CallOK
  <1>9. Refs'
    BY <1>0, <1>1, <1>2, <1>7, RefsKept DEF Refs, LeadKnown
  <1>10. Attempts'
    BY <1>1, <1>2, <1>3, <1>8, AttemptsKept
  <1>11. Restarts' /\ CountOK'
    BY <1>1, RestartsKept
  <1> QED
    BY <1>2, <1>4, <1>6, <1>8, <1>9, <1>10, <1>11 DEF TypeInv

\* Steps of a loop that leave the records and the snapshots.
LEMMA LoopType ==
  ASSUME TypeInv, NEW m \in Mates, Open(m) \/ Ack(m) \/ Reap(m)
  PROVE  TypeInv'
  <1> USE TypeParts, Sizes
  <1>0. TypeOK /\ Refs /\ Attempts /\ Restarts
    BY DEF TypeInv
  <1>1. UNCHANGED <<reg, disp, lead, snap, ckpt, stored, boots, faults>>
    BY DEF Open, Ack, Reap, durable
  <1>2. RegOK' /\ Alike
    BY <1>0, <1>1, SameAlike
  <1>3. snap' \in [Tasks -> Snapshots] /\ Follows
    BY <1>0, <1>1, SameFollows
  <1>4. /\ MateOK' /\ MailOK'
        /\ \A n \in Mates : \/ exec'[n] \in {exec[n], NoExecutor}
                            \/ exec'[n].pc # "none" /\ Known(exec'[n].task)
        /\ \A n \in Mates : loops'[n] = "opening" => Known(desc'[n].task)
    <2>1. CASE Open(m)
      <3>1. Known(desc[m].task)
        BY <1>0, <2>1 DEF Open, Refs, OpenKnown
      <3> QED
        BY <1>0, <2>1, <3>1 DEF Open, MateOK, MailOK, durable, Refs, OpenKnown, Known
    <2>2. CASE Ack(m)
      <3>1. MailOK'
        BY <1>0, <2>2, AckTypes, InboxIs DEF Ack
      <3> QED
        BY <1>0, <2>2, <3>1 DEF Ack, MateOK, Refs, OpenKnown
    <2>3. CASE Reap(m)
      BY <1>0, <2>3 DEF Reap, MateOK, MailOK, durable, Refs, OpenKnown, NoExecutor, Idle
    <2> QED
      BY <2>1, <2>2, <2>3
  <1>5. FileOK' /\ CallOK'
    BY <1>0, <1>1 DEF FileOK, CallOK
  <1>6. Refs'
    BY <1>0, <1>1, <1>2, <1>4, RefsKept DEF Refs, LeadKnown
  <1>7. Attempts'
    BY <1>1, <1>2, <1>3, <1>5, AttemptsKept
  <1>8. Restarts' /\ CountOK'
    BY <1>1, RestartsKept
  <1> QED
    BY <1>2, <1>4, <1>5, <1>6, <1>7, <1>8 DEF TypeInv

LEMMA LeaveType ==
  ASSUME TypeInv, NEW m \in Mates, Leave(m)
  PROVE  TypeInv'
  <1> USE TypeParts, Sizes
  <1>0. TypeOK /\ Refs /\ Attempts /\ Restarts
    BY DEF TypeInv
  <1>1. /\ exec' = [exec EXCEPT ![m] = NoExecutor]
        /\ loops' = [loops EXCEPT ![m] = "gone"]
        /\ UNCHANGED <<desc, disp, lead, snap, ckpt, stored, boots, faults>>
    BY DEF Leave
  <1>2. PICK before : Flag(Cancelling(before)) /\ Acknowledge(m, Claimed(inbox[m], boots), before)
    BY DEF Leave
  <1>3. RegOK' /\ Alike
    BY <1>0, <1>2, FlagAlike
  <1>4. snap' \in [Tasks -> Snapshots] /\ Follows
    BY <1>0, <1>1, SameFollows
  <1>5. MailOK'
    <2>1. Claimed(inbox[m], boots) \in Box
      BY <1>0, InboxIs, ClaimedIs DEF CountOK
    <2> QED
      BY <1>0, <1>2, <2>1, AckTypes
  <1>6. MateOK' /\ \A n \in Mates : loops'[n] = "opening" => loops[n] = "opening"
    BY <1>0, <1>1 DEF MateOK, NoExecutor
  <1>7. FileOK' /\ CallOK'
    BY <1>0, <1>1 DEF FileOK, CallOK
  <1>8. Refs'
    <2>1. \A n \in Mates : exec'[n] \in {exec[n], NoExecutor}
      BY <1>0, <1>1 DEF MateOK
    <2> QED
      BY <1>0, <1>1, <1>3, <1>6, <2>1, RefsKept DEF Refs, LeadKnown, OpenKnown
  <1>9. Attempts'
    BY <1>1, <1>3, <1>4, <1>7, AttemptsKept
  <1>10. Restarts' /\ CountOK'
    BY <1>1, RestartsKept
  <1> QED
    BY <1>3, <1>5, <1>6, <1>7, <1>8, <1>9, <1>10 DEF TypeInv

(***************************************************************************)
(* The executor.                                                           *)
(***************************************************************************)
\* A step of the executor of m, which stays at its task.
LEMMA ExecutorType ==
  ASSUME TypeInv, NEW m \in Mates, exec[m].pc # "none",
         RegOK', Alike, Follows, FileOK',
         NEW pc \in {"created", "saving", "researching", "ending", "done"}, exec' = Moved(m, pc),
         UNCHANGED <<loops, desc, disp, lead, inbox, posted, boots, faults>>
  PROVE  TypeInv'
  <1> USE TypeParts, Sizes
  <1>0. TypeOK /\ Refs /\ Attempts /\ Restarts
    BY DEF TypeInv
  <1>1. Known(exec[m].task)
    BY <1>0 DEF Refs, ExecKnown, NoExecutor
  <1>2. MateOK'
    BY <1>0 DEF MateOK, Moved
  <1>3. MailOK' /\ CallOK'
    BY <1>0 DEF MailOK, CallOK
  <1>4. \A n \in Mates : exec'[n] = exec[n] \/ (exec'[n].pc # "none" /\ Known(exec'[n].task))
    BY <1>0, <1>1 DEF MateOK, Moved
  <1>5. Refs'
    BY <1>0, <1>4, RefsKept DEF Refs, OpenKnown, LeadKnown
  <1>6. Attempts'
    BY AttemptsKept
  <1>7. Restarts' /\ CountOK'
    BY RestartsKept
  <1> QED
    BY <1>2, <1>3, <1>5, <1>6, <1>7 DEF TypeInv

LEMMA DoingKnown ==
  ASSUME TypeInv, NEW m \in Mates, exec[m].pc # "none"
  PROVE  Known(exec[m].task) /\ exec[m].task \in Tasks
  BY DEF TypeInv, Refs, ExecKnown, NoExecutor, Known

LEMMA BeginType ==
  ASSUME TypeInv, NEW m \in Mates, Begin(m)
  PROVE  TypeInv'
  <1> USE TypeParts, Sizes
  <1>0. TypeOK
    BY DEF TypeInv
  <1>1. /\ exec[m].pc = "created" /\ SetStatus(m, "running") /\ WriteSnapshot(exec[m].task)
        /\ exec' = Moved(m, "saving")
        /\ UNCHANGED <<loops, desc, disp, lead, ckpt, stored, inbox, posted, boots, faults>>
    BY DEF Begin, Doing
  <1>2. Known(exec[m].task) /\ exec[m].task \in Tasks
    BY <1>1, DoingKnown
  <1>3. RegOK' /\ Alike
    <2>1. "running" \in TaskStatus \ {"absent"}
      BY DEF TaskStatus
    <2> QED
      BY <1>0, <1>1, <1>2, <2>1, StatusAlike DEF SetStatus
  <1>4. snap' \in [Tasks -> Snapshots] /\ Follows
    BY <1>0, <1>1, <1>2, <1>3, WriteFollows DEF Alike, Known
  <1>5. FileOK'
    BY <1>0, <1>1, <1>4 DEF FileOK
  <1> QED
    BY <1>1, <1>3, <1>4, <1>5, ExecutorType

LEMMA CheckpointType ==
  ASSUME TypeInv, NEW m \in Mates, FirstCheckpoint(m) \/ Checkpoint(m) \/ GiveUp(m)
  PROVE  TypeInv'
  <1> USE TypeParts, Sizes
  <1>0. TypeOK
    BY DEF TypeInv
  <1>1. PICK pc \in {"researching", "done"} :
          /\ exec' = Moved(m, pc) /\ exec[m].pc # "none" /\ SaveCheckpoint(m)
          /\ UNCHANGED <<loops, desc, disp, lead, stored, inbox, posted, boots, faults>>
    <2>1. CASE FirstCheckpoint(m)
      BY <2>1 DEF FirstCheckpoint, Doing
    <2>2. CASE Checkpoint(m)
      <3>1. exec' = exec /\ exec[m].pc = "researching" /\ SaveCheckpoint(m)
            /\ UNCHANGED <<loops, desc, disp, lead, stored, inbox, posted, boots, faults>>
        BY <2>2 DEF Checkpoint, Doing
      <3>2. exec' = Moved(m, "researching")
        BY <1>0, <3>1 DEF Moved, MateOK
      <3> QED
        BY <3>1, <3>2
    <2>3. CASE GiveUp(m)
      BY <2>3 DEF GiveUp, Doing
    <2> QED
      BY <2>1, <2>2, <2>3
  <1>2. Known(exec[m].task) /\ exec[m].task \in Tasks
    BY <1>1, DoingKnown
  <1>3. RegOK' /\ Alike
    BY <1>0, <1>1, SameAlike DEF SaveCheckpoint
  <1>4. snap' \in [Tasks -> Snapshots] /\ Follows
    BY <1>0, <1>1, <1>2, <1>3, WriteFollows DEF Alike, Known, SaveCheckpoint
  <1>5. FileOK'
    BY <1>0, <1>1, <1>2, <1>4 DEF FileOK, SaveCheckpoint
  <1> QED
    BY <1>1, <1>3, <1>4, <1>5, ExecutorType

LEMMA EndType ==
  ASSUME TypeInv, NEW m \in Mates, Finish(m) \/ Fail(m)
  PROVE  TypeInv'
  <1> USE TypeParts, Sizes
  <1>0. TypeOK
    BY DEF TypeInv
  <1>1. PICK s \in {"completed", "failed"} :
          /\ SetStatus(m, s) /\ exec' = Moved(m, "ending") /\ exec[m].pc = "researching"
          /\ UNCHANGED <<loops, desc, disp, lead, snap, inbox, posted, boots, faults>>
          /\ stored' \subseteq stored \cup {exec[m].task} /\ ckpt' \subseteq ckpt \cup {exec[m].task}
    BY DEF Finish, Fail, Doing
  <1>2. Known(exec[m].task) /\ exec[m].task \in Tasks
    BY <1>1, DoingKnown
  <1>3. RegOK' /\ Alike
    BY <1>0, <1>1, <1>2, StatusAlike DEF SetStatus, TaskStatus, Terminal
  <1>4. snap' \in [Tasks -> Snapshots] /\ Follows
    BY <1>0, <1>1, SameFollows
  <1>5. FileOK'
    BY <1>0, <1>1, <1>2, <1>4 DEF FileOK
  <1> QED
    BY <1>1, <1>3, <1>4, <1>5, ExecutorType

LEMMA ReportType ==
  ASSUME TypeInv, NEW m \in Mates, ReportEnd(m)
  PROVE  TypeInv'
  <1> USE TypeParts, Sizes
  <1>0. TypeOK
    BY DEF TypeInv
  <1>1. /\ exec[m].pc = "ending" /\ reg' = reg /\ WriteSnapshot(exec[m].task) /\ exec' = Moved(m, "done")
        /\ UNCHANGED <<loops, desc, disp, lead, ckpt, stored, inbox, posted, boots, faults>>
    BY DEF ReportEnd, Doing
  <1>2. Known(exec[m].task) /\ exec[m].task \in Tasks
    BY <1>1, DoingKnown
  <1>3. RegOK' /\ Alike
    BY <1>0, <1>1, SameAlike
  <1>4. snap' \in [Tasks -> Snapshots] /\ Follows
    BY <1>0, <1>1, <1>2, <1>3, WriteFollows DEF Alike, Known
  <1>5. FileOK'
    BY <1>0, <1>1, <1>4 DEF FileOK
  <1> QED
    BY <1>1, <1>3, <1>4, <1>5, ExecutorType

(***************************************************************************)
(* The dispatch.                                                           *)
(***************************************************************************)
\* Who is reserved.
Chosen == IF IdleRuntimes # {} THEN First(IdleRuntimes) ELSE First(Unborn)

LEMMA ChosenIs ==
  ASSUME IdleRuntimes \cup Unborn # {}
  PROVE  /\ Chosen \in Mates
         /\ Chosen \in IdleRuntimes \/ Chosen \in Unborn
  <1>1. IdleRuntimes \in SUBSET Nat /\ Unborn \in SUBSET Nat
    BY Sizes DEF IdleRuntimes, Runtimes, Unborn
  <1>2. Chosen \in IdleRuntimes \/ Chosen \in Unborn
    BY <1>1, FirstIn DEF Chosen
  <1> QED
    BY <1>2 DEF IdleRuntimes, Runtimes, Unborn

\* What Reserve does, to a task t and a teammate m.
ReservedFor(c, todo, t, m) ==
  /\ reg' = [reg EXCEPT ![t] = Given(@, m)]
  /\ desc' = [desc EXCEPT ![m] = [status |-> "reserved", task |-> t]]
  /\ loops' = [loops EXCEPT ![m] = IF @ = "unborn" THEN "poll" ELSE @]
  /\ WriteSnapshot(t)
  /\ disp' = [by |-> c, task |-> t, todo |-> todo \ {t}]
  /\ UNCHANGED lead

LEMMA ReserveIs ==
  ASSUME RegOK, NEW c, NEW todo \in SUBSET Tasks, IdleRuntimes \cup Unborn # {}, Reserve(c, todo)
  PROVE  \E t \in todo, m \in Mates :
           /\ m = Chosen /\ ReservedFor(c, todo, t, m)
           /\ reg'[t] = Given(reg[t], m)
           /\ \A u \in Tasks : u # t => reg'[u] = reg[u]
  <1>1. PICK t \in todo : ReservedFor(c, todo, t, Chosen)
    BY DEF Reserve, Chosen, ReservedFor
  <1>2. PICK m \in Mates : m = Chosen
    BY ChosenIs
  <1>3. ReservedFor(c, todo, t, m)
    BY <1>1, <1>2
  <1> QED
    BY <1>2, <1>3 DEF ReservedFor, RegOK

LEMMA ReserveType ==
  ASSUME TypeInv, NEW c \in Mates \cup {Lead}, NEW todo \in SUBSET Tasks,
         \A t \in todo : Known(t) /\ reg[t].mate = None,
         IdleRuntimes \cup Unborn # {}, Reserve(c, todo),
         UNCHANGED <<exec, ckpt, stored, boots, faults>>, MailOK'
  PROVE  TypeInv'
  <1> USE TypeParts, Sizes
  <1>0. TypeOK /\ Refs /\ Attempts /\ Restarts
    BY DEF TypeInv
  <1>1. PICK t \in todo, m \in Mates :
          /\ ReservedFor(c, todo, t, m)
          /\ reg'[t] = Given(reg[t], m)
          /\ \A u \in Tasks : u # t => reg'[u] = reg[u]
    BY <1>0, ReserveIs
  <1>2. t \in Tasks /\ Known(t) /\ reg[t].mate = None /\ reg[t] \in Records
    BY <1>0 DEF RegOK
  <1>3. reg[t].attempt < boots /\ reg[t].attempt \in Nat /\ boots \in Nat /\ boots \in Boots
    <2>1. AttemptsOf(t)
      BY <1>0, <1>2 DEF Attempts
    <2>2. reg[t].attempt \in Nat
      BY <1>2 DEF Records
    <2> QED
      BY <1>0, <1>2, <2>1, <2>2 DEF AttemptsOf, CountOK
  <1>4. reg[t].attempt + 1 \in 0 .. MaxFaults + 1
    BY <1>3
  <1>5. /\ reg'[t] \in Records /\ reg'[t].status = reg[t].status /\ reg'[t].mate = m
        /\ reg'[t].attempt = reg[t].attempt + 1
    BY <1>1, <1>2, <1>4 DEF Given, Records
  <1>6. RegOK'
    <2>1. \A u \in Tasks : reg'[u] \in Records
      BY <1>0, <1>1, <1>5 DEF RegOK
    <2>2. reg' = [u \in Tasks |-> reg'[u]]
      BY <1>0, <1>1 DEF ReservedFor, RegOK
    <2>3. reg' \in [Tasks -> Records]
      BY <2>1, <2>2
    <2> QED
      BY <2>3 DEF RegOK
  <1>7. \A u : Known(u) => Known(u)'
    BY <1>1, <1>2, <1>5 DEF Known
  <1>8. /\ snap' \in [Tasks -> Snapshots]
        /\ \A u \in Tasks : u # t => snap'[u] = snap[u]
        /\ snap'[t].attempt \in {snap[t].attempt, reg'[t].attempt}
    BY <1>0, <1>1, <1>2, <1>6, WriteIs DEF ReservedFor, FileOK
  <1>9. FileOK' /\ CountOK'
    BY <1>0, <1>8 DEF FileOK, CountOK
  <1>10. MateOK' /\ \A n \in Mates : loops'[n] = "opening" => loops[n] = "opening" /\ (n # m => desc'[n] = desc[n])
    BY <1>0, <1>1 DEF MateOK, ReservedFor
  <1>11. CallOK'
    BY <1>0, <1>1, <1>2 DEF CallOK, ReservedFor
  <1>12. ExecKnown'
    BY <1>0, <1>7 DEF Refs, ExecKnown
  <1>13. OpenKnown'
    <2>1. desc'[m].task = t
      BY <1>0, <1>1 DEF MateOK, ReservedFor
    <2> QED
      BY <1>0, <1>2, <1>7, <1>10, <2>1 DEF Refs, OpenKnown
  <1>14. LeadKnown'
    BY <1>0, <1>1, <1>7 DEF Refs, LeadKnown, ReservedFor
  <1>15. DispKnown'
    <2>1. disp'.task = t /\ disp'.todo = todo \ {t}
      BY <1>1 DEF ReservedFor
    <2>2. \A u \in todo \ {t} : Known(u)' /\ reg'[u].mate = None
      BY <1>1, <1>7 DEF Known
    <2>3. Known(t)' /\ reg'[t].mate \in Mates /\ reg'[t].attempt >= 1
      BY <1>2, <1>3, <1>5, <1>7
    <2> QED
      BY <2>1, <2>2, <2>3 DEF DispKnown
  <1>16. Attempts'
    <2> SUFFICES ASSUME NEW u \in Tasks PROVE AttemptsOf(u)'
      BY DEF Attempts
    <2>1. AttemptsOf(u) /\ lead' = lead
      BY <1>0, <1>1 DEF Attempts, ReservedFor
    <2>2. CASE u # t
      BY <1>1, <1>8, <2>1, <2>2 DEF AttemptsOf
    <2>3. CASE u = t
      <3>1. reg'[t].attempt <= boots /\ snap[t].attempt <= boots /\ reg'[t].mate # None
        BY <1>3, <1>5, <2>1, <2>3 DEF AttemptsOf
      <3>2. reg'[t].status # "absent"
        BY <1>2, <1>5 DEF Known
      <3> QED
        BY <1>8, <2>3, <3>1, <3>2 DEF AttemptsOf
    <2> QED
      BY <2>2, <2>3
  <1>17. Restarts'
    BY <1>0, <1>1 DEF Restarts, ReservedFor
  <1> QED
    BY <1>6, <1>9, <1>10, <1>11, <1>12, <1>13, <1>14, <1>15, <1>16, <1>17 DEF TypeInv, Refs

LEMMA ReleaseType ==
  ASSUME TypeInv, NEW c \in Mates \cup {Lead}, Release(c), c = Lead => lead.pc = "dispatch",
         UNCHANGED <<exec, ckpt, stored, boots, faults>>, MailOK'
  PROVE  TypeInv'
  <1> USE TypeParts, Sizes
  <1>0. TypeOK /\ Refs /\ Attempts /\ Restarts
    BY DEF TypeInv
  <1>1. /\ disp' = NoDispatch /\ UNCHANGED <<reg, desc, snap>>
        /\ \/ lead.pc = "dispatch" /\ lead' = At("ready", None) /\ lead'.pc = "ready" /\ loops' = loops
           \/ c \in Mates /\ loops' = [loops EXCEPT ![c] = "poll"] /\ lead' = lead
    BY DEF Release, At
  <1>2. RegOK' /\ Alike
    BY <1>0, <1>1, SameAlike
  <1>3. snap' \in [Tasks -> Snapshots] /\ Follows
    BY <1>0, <1>1, SameFollows
  <1>4. FileOK' /\ MateOK'
    BY <1>0, <1>1, <1>3 DEF FileOK, MateOK
  <1>5. CallOK'
    BY <1>0, <1>1 DEF CallOK, NoDispatch, At
  <1>6. Refs'
    <2>1. ExecKnown' /\ OpenKnown'
      BY <1>0, <1>1 DEF Refs, ExecKnown, OpenKnown, Known, MateOK
    <2>2. LeadKnown' /\ DispKnown'
      BY <1>0, <1>1 DEF Refs, LeadKnown, DispKnown, Known
    <2> QED
      BY <2>1, <2>2 DEF Refs
  <1>7. Attempts'
    BY <1>1, <1>2, <1>3, <1>4, AttemptsKept
  <1>8. Restarts' /\ CountOK'
    BY <1>1, RestartsKept
  <1> QED
    BY <1>2, <1>4, <1>5, <1>6, <1>7, <1>8 DEF TypeInv

LEMMA GoOnType ==
  ASSUME TypeInv, NEW c \in Mates \cup {Lead}, c = Lead => lead.pc = "dispatch",
         NEW todo \in SUBSET Tasks, \A t \in todo : Known(t) /\ reg[t].mate = None,
         GoOn(c, todo), UNCHANGED <<exec, ckpt, stored, boots, faults>>, MailOK'
  PROVE  TypeInv'
  <1>1. CASE todo = {} \/ IdleRuntimes \cup Unborn = {}
    BY <1>1, ReleaseType DEF GoOn
  <1>2. CASE ~ (todo = {} \/ IdleRuntimes \cup Unborn = {})
    BY <1>2, ReserveType DEF GoOn
  <1> QED
    BY <1>1, <1>2

LEMMA AcquireType ==
  ASSUME TypeInv, AcquireLock
  PROVE  TypeInv'
  <1>1. PICK c \in Mates \cup {Lead} :
          Waiting(c) /\ GoOn(c, {t \in Tasks : reg[t].status = "pending" /\ reg[t].mate = None})
    BY DEF AcquireLock
  <1>2. c = Lead => lead.pc = "dispatch"
    BY <1>1 DEF Waiting
  <1>3. UNCHANGED <<exec, ckpt, stored, boots, faults>> /\ MailOK'
    BY TypeParts DEF AcquireLock, TypeInv, MailOK
  <1> DEFINE todo == {t \in Tasks : reg[t].status = "pending" /\ reg[t].mate = None}
  <1>4. todo \in SUBSET Tasks /\ \A t \in todo : Known(t) /\ reg[t].mate = None
    BY DEF Known
  <1> HIDE DEF todo
  <1>5. GoOn(c, todo)
    BY <1>1 DEF todo
  <1> QED
    BY <1>2, <1>3, <1>4, <1>5, GoOnType

\* The dispatch that sends holds the lock for a caller that waits.
LEMMA SendingIs ==
  ASSUME TypeInv, LockHeld, disp # NoDispatch
  PROVE  /\ disp.by \in Mates \cup {Lead}
         /\ disp.by = Lead => lead.pc = "dispatch"
         /\ disp.by \in Mates => loops[disp.by] = "dispatch"
         /\ Known(disp.task) /\ disp.task \in Tasks
         /\ reg[disp.task].mate \in Mates
         /\ reg[disp.task].attempt \in Boots
         /\ disp.todo \in SUBSET Tasks
         /\ \A t \in disp.todo : Known(t) /\ reg[t].mate = None
  <1>1. LockHeld /\ DispKnown /\ CallOK /\ RegOK
    BY TypeParts DEF TypeInv, Refs
  <1>2. disp.todo \in SUBSET Tasks
    BY <1>1 DEF CallOK
  <1>3. disp.task \in Tasks /\ reg[disp.task].attempt >= 1
    BY <1>1 DEF DispKnown, Known
  <1>4. reg[disp.task].attempt \in 0 .. MaxFaults + 1
    BY <1>1, <1>3 DEF RegOK, Records
  <1>5. reg[disp.task].attempt \in Boots
    BY <1>3, <1>4, Sizes DEF Boots
  <1> QED
    BY <1>1, <1>2, <1>3, <1>5, Sizes DEF LockHeld, DispKnown

LEMMA SendType ==
  ASSUME TypeInv, LockHeld, SendAssignment
  PROVE  TypeInv'
  <1>1. /\ disp # NoDispatch
        /\ Send(reg[disp.task].mate, Assignment(disp.task, reg[disp.task].attempt))
        /\ GoOn(disp.by, disp.todo)
        /\ UNCHANGED <<exec, ckpt, stored, boots, faults>>
    BY DEF SendAssignment
  <1>2. Assignment(disp.task, reg[disp.task].attempt) \in Messages
    BY <1>1, SendingIs, Kinds
  <1>3. MailOK
    BY TypeParts DEF TypeInv
  <1>4. MailOK'
    BY <1>1, <1>2, <1>3, SendingIs, SendTypes
  <1>5. PICK c \in Mates \cup {Lead}, todo \in SUBSET Tasks : c = disp.by /\ todo = disp.todo
    BY <1>1, SendingIs
  <1>6. /\ GoOn(c, todo)
        /\ c = Lead => lead.pc = "dispatch"
        /\ \A t \in todo : Known(t) /\ reg[t].mate = None
    BY <1>1, <1>5, SendingIs
  <1> QED
    BY <1>1, <1>4, <1>6, GoOnType

\* The initial state, and the step.
LEMMA TypeInit ==
  Init => TypeInv
  <1> SUFFICES ASSUME Init PROVE TypeInv
    OBVIOUS
  <1> USE Sizes DEF Init
  <1>1. RegOK
    <2>1. NoRecord \in Records
      BY DEF NoRecord, Records, TaskStatus
    <2> QED
      BY <2>1 DEF RegOK
  <1>2. MateOK
    BY DEF MateOK, Idle, NoExecutor
  <1>3. CallOK
    BY DEF CallOK, NoDispatch, At
  <1>4. FileOK
    BY DEF FileOK, NoSnapshot, Snapshots, TaskStatus
  <1>5. MailOK
    <2>1. Absent \in Message(Boots)
      BY TaskPoolAssumption DEF Absent, Message, MessageStatus
    <2> QED
      BY <2>1 DEF MailOK
  <1>6. CountOK
    BY DEF CountOK
  <1>7. ExecKnown /\ OpenKnown
    BY DEF ExecKnown, OpenKnown
  <1>8. LeadKnown /\ DispKnown
    BY DEF LeadKnown, DispKnown, At
  <1>9. Attempts
    BY DEF Attempts, AttemptsOf, NoRecord, NoSnapshot
  <1>10. Restarts
    BY DEF Restarts, At
  <1> QED
    BY <1>1, <1>2, <1>3, <1>4, <1>5, <1>6, <1>7, <1>8, <1>9, <1>10, TypeParts DEF TypeInv, Refs

LEMMA TypeStep ==
  ASSUME TypeInv, LockHeld, Next
  PROVE  TypeInv'
  <1>1. CASE StartResearchTask
    BY <1>1, StartType
  <1>2. ASSUME NEW t \in Tasks, CancelResearchTask(t) PROVE TypeInv'
    BY <1>2, CancelType
  <1>3. CASE ToolCall
    BY <1>3, SaveType, RecordCancelType, RestoreType DEF ToolCall
  <1>4. CASE Dispatch
    BY <1>4, AcquireType, SendType DEF Dispatch
  <1>5. ASSUME NEW m \in Mates, Loop(m) PROVE TypeInv'
    BY <1>5, TakeType, LoopType, LeaveType DEF Loop
  <1>6. ASSUME NEW m \in Mates, Execute(m) \/ Checkpoint(m) PROVE TypeInv'
    BY <1>6, BeginType, CheckpointType, EndType, ReportType DEF Execute
  <1>7. CASE BeginShutdown \/ End
    BY <1>7, BeginShutdownType, RequestShutdownType, FinalizeType DEF End
  <1>8. CASE Crash \/ Resume
    BY <1>8, CrashType, ResumeType
  <1>9. ASSUME NEW m \in Mates, LapseClaim(m) PROVE TypeInv'
    BY <1>9, LapseType
  <1> QED
    BY <1>1, <1>2, <1>3, <1>4, <1>5, <1>6, <1>7, <1>8, <1>9 DEF Next

\* Who waits for the lock waits until it is released.
LEMMA LockKept ==
  ASSUME LockHeld, disp' \in {disp, NoDispatch},
         lead.pc = "dispatch" => lead'.pc = "dispatch",
         \A m \in Mates : loops[m] = "dispatch" => loops'[m] = "dispatch"
  PROVE  LockHeld'
  BY DEF LockHeld

LEMMA GoOnLock ==
  ASSUME TypeInv, NEW c \in Mates \cup {Lead}, NEW todo \in SUBSET Tasks, GoOn(c, todo),
         c = Lead => lead.pc = "dispatch", c \in Mates => loops[c] = "dispatch"
  PROVE  LockHeld'
  <1>1. CASE todo = {} \/ IdleRuntimes \cup Unborn = {}
    BY <1>1 DEF GoOn, Release, LockHeld
  <1>2. CASE ~ (todo = {} \/ IdleRuntimes \cup Unborn = {})
    <2>1. RegOK /\ MateOK
      BY TypeParts DEF TypeInv
    <2>2. PICK t \in todo, m \in Mates : ReservedFor(c, todo, t, m)
      BY <1>2, <2>1, ReserveIs DEF GoOn
    <2>3. /\ disp'.by = c /\ lead' = lead
          /\ \A n \in Mates : loops[n] = "dispatch" => loops'[n] = "dispatch"
      BY <2>1, <2>2 DEF ReservedFor, MateOK
    <2> QED
      BY <2>3 DEF LockHeld
  <1> QED
    BY <1>1, <1>2

LEMMA LockStep ==
  ASSUME TypeInv, LockHeld, Next
  PROVE  LockHeld'
  <1>0. MateOK /\ CallOK
    BY TypeParts DEF TypeInv
  <1>1. CASE StartResearchTask
    BY <1>1, LockKept DEF StartResearchTask
  <1>2. ASSUME NEW t \in Tasks, CancelResearchTask(t) PROVE LockHeld'
    BY <1>2, LockKept DEF CancelResearchTask
  <1>3. CASE ToolCall
    BY <1>3, LockKept DEF ToolCall, Submit, RecordCancel, SaveCancel, RestorePending
  <1>4. CASE AcquireLock
    <2>1. PICK c \in Mates \cup {Lead} :
            Waiting(c) /\ GoOn(c, {t \in Tasks : reg[t].status = "pending" /\ reg[t].mate = None})
      BY <1>4 DEF AcquireLock
    <2>2. PICK todo \in SUBSET Tasks : GoOn(c, todo)
      BY <2>1
    <2> QED
      BY <2>1, <2>2, GoOnLock, Sizes DEF Waiting
  <1>5. CASE SendAssignment
    <2>1. PICK c \in Mates \cup {Lead}, todo \in SUBSET Tasks : c = disp.by /\ todo = disp.todo
      BY <1>5, SendingIs DEF SendAssignment
    <2>2. GoOn(c, todo)
      BY <1>5, <2>1 DEF SendAssignment
    <2>3. /\ c = Lead => lead.pc = "dispatch"
          /\ c \in Mates => loops[c] = "dispatch"
      BY <1>5, <2>1, SendingIs DEF SendAssignment
    <2> QED
      BY <2>2, <2>3, GoOnLock
  <1>6. ASSUME NEW m \in Mates, Loop(m) PROVE LockHeld'
    <2>1. /\ disp' = disp /\ lead' = lead /\ loops[m] # "dispatch"
          /\ \E pc : loops' = [loops EXCEPT ![m] = pc]
      BY <1>6 DEF Loop, Take, Open, Ack, Leave, Reap
    <2> QED
      BY <1>0, <2>1, LockKept DEF MateOK
  <1>7. ASSUME NEW m \in Mates, Execute(m) \/ Checkpoint(m) PROVE LockHeld'
    <2>1. UNCHANGED <<disp, lead, loops>>
      BY <1>7 DEF Execute, Begin, FirstCheckpoint, GiveUp, Finish, Fail, ReportEnd, Checkpoint
    <2> QED
      BY <2>1, LockKept
  <1>8. CASE BeginShutdown
    BY <1>8, LockKept DEF BeginShutdown
  <1>9. CASE End
    <2>1. CASE RequestShutdown
      BY <2>1, LockKept DEF RequestShutdown
    <2>2. CASE FinalizeSnapshots
      <3>1. \A m \in Mates : loops[m] # "dispatch"
        BY <2>2 DEF FinalizeSnapshots, Runtimes
      <3> QED
        BY <2>2, <3>1, LockKept DEF FinalizeSnapshots
    <2> QED
      BY <1>9, <2>1, <2>2 DEF End
  <1>10. CASE Crash
    BY <1>10 DEF Crash, LockHeld
  <1>11. CASE Resume
    BY <1>0, <1>11, LockKept DEF Resume, MateOK
  <1>12. ASSUME NEW m \in Mates, LapseClaim(m) PROVE LockHeld'
    BY <1>12, LockKept DEF LapseClaim, memory
  <1> QED
    BY <1>1, <1>2, <1>3, <1>4, <1>5, <1>6, <1>7, <1>8, <1>9, <1>10, <1>11, <1>12 DEF Next, Dispatch

LEMMA TypeStutter ==
  ASSUME TypeInv, LockHeld, UNCHANGED vars
  PROVE  TypeInv' /\ LockHeld'
  <1>1. UNCHANGED <<reg, loops, desc, exec, disp, lead, snap, ckpt, stored, inbox, posted, boots, faults>>
    BY DEF vars, memory, durable
  <1>2. TypeOK'
    BY <1>1 DEF TypeOK, TypeInv
  <1>3. Refs'
    BY <1>1 DEF TypeInv, Refs, ExecKnown, OpenKnown, LeadKnown, DispKnown, Known
  <1>4. Attempts' /\ Restarts'
    BY <1>1 DEF TypeInv, Attempts, AttemptsOf, Restarts
  <1>5. LockHeld'
    BY <1>1 DEF LockHeld
  <1> QED
    BY <1>2, <1>3, <1>4, <1>5 DEF TypeInv

LEMMA TypeAlways ==
  Spec => [](TypeInv /\ LockHeld)
  <1>1. Init => TypeInv /\ LockHeld
    <2>1. Init => LockHeld
      BY DEF Init, LockHeld
    <2> QED
      BY <2>1, TypeInit
  <1>2. TypeInv /\ LockHeld /\ [Next]_vars => TypeInv' /\ LockHeld'
    BY TypeStep, LockStep, TypeStutter
  <1> QED
    BY <1>1, <1>2, PTL DEF Spec

\* Types: every variable keeps its type, in every process that serves the run.
THEOREM TypeCorrect == Spec => []TypeOK
  <1>1. TypeInv => TypeOK
    BY DEF TypeInv
  <1> QED
    BY <1>1, TypeAlways, PTL

(***************************************************************************)
(* Results.                                                                *)
(***************************************************************************)
\* Nothing is reported completed before it is stored.
LEMMA StoredKept ==
  ASSUME ResultStored, stored \subseteq stored',
         \A t \in Tasks : reg'[t].status = "completed" => reg[t].status = "completed" \/ t \in stored',
         \A t \in Tasks : snap'[t].status \in {snap[t].status, reg'[t].status, "cancelled"}
  PROVE  ResultStored'
  BY DEF ResultStored

LEMMA WriteStatus ==
  ASSUME TypeInv, RegOK', NEW t \in Tasks, WriteSnapshot(t)
  PROVE  \A u \in Tasks : snap'[u].status \in {snap[u].status, reg'[u].status, "cancelled"}
  BY WriteIs, TypeParts DEF TypeInv, FileOK

LEMMA GoOnStatus ==
  ASSUME TypeInv, TypeInv', NEW c, NEW todo \in SUBSET Tasks, GoOn(c, todo)
  PROVE  /\ \A t \in Tasks : reg'[t].status = reg[t].status
         /\ \A t \in Tasks : snap'[t].status \in {snap[t].status, reg'[t].status, "cancelled"}
  <1>1. CASE todo = {} \/ IdleRuntimes \cup Unborn = {}
    BY <1>1 DEF GoOn, Release
  <1>2. CASE ~ (todo = {} \/ IdleRuntimes \cup Unborn = {})
    <2>1. RegOK /\ RegOK'
      BY TypeParts DEF TypeInv
    <2>2. PICK t \in todo, m \in Mates :
            /\ ReservedFor(c, todo, t, m)
            /\ reg'[t] = Given(reg[t], m)
            /\ \A u \in Tasks : u # t => reg'[u] = reg[u]
      BY <1>2, <2>1, ReserveIs DEF GoOn
    <2> QED
      BY <2>1, <2>2, WriteStatus DEF ReservedFor, Given
  <1> QED
    BY <1>1, <1>2

LEMMA StoredStep ==
  ASSUME TypeInv, LockHeld, TypeInv', ResultStored, Next
  PROVE  ResultStored'
  <1>0. RegOK /\ RegOK' /\ MateOK /\ FileOK
    BY TypeParts DEF TypeInv
  <1>1. CASE StartResearchTask
    <2>1. PICK t \in Tasks : reg' = [reg EXCEPT ![t] = PendingRecord(0)]
      <3>1. First(Unused) \in Unused
        BY <1>1, FirstIn, Sizes DEF StartResearchTask, Unused
      <3> QED
        BY <1>1, <3>1 DEF StartResearchTask, Unused
    <2> QED
      BY <1>0, <1>1, <2>1, StoredKept DEF StartResearchTask, durable, RegOK, PendingRecord
  <1>2. ASSUME NEW t \in Tasks, CancelResearchTask(t) PROVE ResultStored'
    BY <1>2, StoredKept DEF CancelResearchTask
  <1>3. CASE Submit \/ SaveCancel
    <2>1. PICK t \in Tasks : t = lead.task
      BY <1>3 DEF TypeInv, Refs, LeadKnown, Known, Submit, SaveCancel
    <2> QED
      BY <1>0, <1>3, <2>1, StoredKept, WriteStatus DEF Submit, SaveCancel
  <1>4. CASE RecordCancel
    <2>1. lead.task \in Tasks
      BY <1>4 DEF TypeInv, Refs, LeadKnown, Known, RecordCancel
    <2>2. \A t \in Tasks : reg'[t].status \in {reg[t].status, "cancelled"}
      BY <1>0, <1>4, <2>1 DEF RecordCancel, RegOK, Records
    <2> QED
      BY <1>4, <2>2, StoredKept DEF RecordCancel, durable
  <1>5. CASE RestorePending
    <2>1. \A t \in Tasks : reg'[t].status \in {reg[t].status, "pending"}
      BY <1>5 DEF RestorePending, PendingRecord
    <2> QED
      BY <1>5, <2>1, StoredKept DEF RestorePending, durable
  <1>6. CASE Dispatch
    <2>1. \E c : \E todo \in SUBSET Tasks : GoOn(c, todo)
      <3>1. CASE AcquireLock
        <4>1. PICK c \in Mates \cup {Lead} :
                GoOn(c, {t \in Tasks : reg[t].status = "pending" /\ reg[t].mate = None})
          BY <3>1 DEF AcquireLock
        <4>2. PICK todo \in SUBSET Tasks :
                todo = {t \in Tasks : reg[t].status = "pending" /\ reg[t].mate = None}
          OBVIOUS
        <4> QED
          BY <4>1, <4>2
      <3>2. CASE SendAssignment
        <4>1. GoOn(disp.by, disp.todo) /\ disp.todo \in SUBSET Tasks
          BY <3>2, SendingIs DEF SendAssignment
        <4>2. PICK c : c = disp.by
          OBVIOUS
        <4>3. PICK todo \in SUBSET Tasks : todo = disp.todo
          BY <4>1
        <4> QED
          BY <4>1, <4>2, <4>3
      <3> QED
        BY <1>6, <3>1, <3>2 DEF Dispatch
    <2>2. stored' = stored
      BY <1>6 DEF Dispatch, AcquireLock, SendAssignment
    <2> QED
      BY <2>1, <2>2, GoOnStatus, StoredKept
  <1>7. ASSUME NEW m \in Mates, Loop(m) PROVE ResultStored'
    <2>1. UNCHANGED <<snap, stored>>
      BY <1>7 DEF Loop, Take, Open, Ack, Leave, Reap, durable
    <2>2. \A t \in Tasks : reg'[t].status = reg[t].status
      <3>1. \A ts : Flag(ts) => \A t \in Tasks : reg'[t].status = reg[t].status
        BY <1>0, FlagIs
      <3> QED
        BY <1>7, <3>1 DEF Loop, Take, Open, Ack, Leave, Reap
    <2> QED
      BY <2>1, <2>2, StoredKept
  <1>8. ASSUME NEW m \in Mates, Execute(m) \/ Checkpoint(m) PROVE ResultStored'
    <2>1. PICK u \in Tasks : u = exec[m].task
      BY <1>8, DoingKnown DEF Execute, Begin, FirstCheckpoint, GiveUp, Finish, Fail, ReportEnd,
                              Checkpoint, Doing
    <2>2. \A s \in TaskStatus : SetStatus(m, s) =>
            reg'[u].status = s /\ \A t \in Tasks : t # u => reg'[t] = reg[t]
      BY <1>0, <2>1, StatusIs DEF SetStatus
    <2>3. CASE Begin(m)
      <3>1. "running" \in TaskStatus
        BY DEF TaskStatus
      <3> QED
        BY <1>0, <2>1, <2>2, <2>3, <3>1, WriteStatus, StoredKept DEF Begin
    <2>4. CASE FirstCheckpoint(m) \/ Checkpoint(m) \/ GiveUp(m) \/ ReportEnd(m)
      BY <1>0, <2>1, <2>4, WriteStatus, StoredKept
         DEF FirstCheckpoint, Checkpoint, GiveUp, ReportEnd, SaveCheckpoint
    <2>5. CASE Finish(m)
      <3>1. "completed" \in TaskStatus
        BY DEF TaskStatus, Terminal
      <3> QED
        BY <2>1, <2>2, <2>5, <3>1, StoredKept DEF Finish
    <2>6. CASE Fail(m)
      <3>1. "failed" \in TaskStatus
        BY DEF TaskStatus, Terminal
      <3> QED
        BY <2>1, <2>2, <2>6, <3>1, StoredKept DEF Fail
    <2> QED
      BY <1>8, <2>3, <2>4, <2>5, <2>6 DEF Execute
  <1>9. CASE BeginShutdown
    <2>1. \A t \in Tasks : reg'[t].status = reg[t].status
      BY <1>0, <1>9, FlagIs DEF BeginShutdown
    <2> QED
      BY <1>9, <2>1, StoredKept DEF BeginShutdown, durable
  <1>10. CASE RequestShutdown
    BY <1>10, StoredKept DEF RequestShutdown
  <1>11. CASE FinalizeSnapshots
    <2>1. \A t \in Tasks : snap'[t].status \in {snap[t].status, "cancelled"}
      BY <1>0, <1>11 DEF FinalizeSnapshots, FileOK, Snapshots
    <2> QED
      BY <1>11, <2>1, StoredKept DEF FinalizeSnapshots
  <1>12. CASE Crash
    BY <1>12, StoredKept DEF Crash, NoRecord
  <1>13. CASE Resume
    <2>1. \A t \in Tasks : reg'[t].status = "completed" => reg[t].status = "completed" \/ t \in stored
      BY <1>13 DEF Resume, RestoredRecord, PendingRecord, NoRecord
    <2> QED
      BY <1>13, <2>1, StoredKept DEF Resume, durable
  <1>14. ASSUME NEW m \in Mates, LapseClaim(m) PROVE ResultStored'
    BY <1>14, StoredKept DEF LapseClaim, memory
  <1> QED
    BY <1>1, <1>2, <1>3, <1>4, <1>5, <1>6, <1>7, <1>8, <1>9, <1>10, <1>11, <1>12, <1>13, <1>14
       DEF Next, ToolCall, End

\* A snapshot says completed only once the result is stored, wherever the
\* process dies and however many executors a task had.
THEOREM CompletedAlwaysHasResult == Spec => []CompletedHasResult
  <1>1. Init => ResultStored
    BY DEF Init, ResultStored, NoRecord, NoSnapshot
  <1>2. TypeInv /\ LockHeld /\ TypeInv' /\ ResultStored /\ [Next]_vars => ResultStored'
    <2>1. ASSUME ResultStored, UNCHANGED vars PROVE ResultStored'
      BY <2>1 DEF ResultStored, vars, memory, durable
    <2> QED
      BY <2>1, StoredStep
  <1>3. ResultStored => CompletedHasResult
    BY DEF ResultStored, CompletedHasResult
  <1> QED
    BY <1>1, <1>2, <1>3, TypeAlways, PTL DEF Spec

\* The executor deletes a checkpoint only for a result that is stored.
THEOREM CheckpointGivesWay == Spec => CheckpointGivesWayToResult
  <1>1. Next => ckpt \ ckpt' \subseteq stored'
    <2> SUFFICES ASSUME Next PROVE ckpt \ ckpt' \subseteq stored'
      OBVIOUS
    <2>1. \/ ckpt \subseteq ckpt'
          \/ \E m \in Mates : stored' = stored \cup {exec[m].task} /\ ckpt' = ckpt \ {exec[m].task}
      <3>1. CASE \E m \in Mates : Loop(m) \/ Execute(m) \/ Checkpoint(m)
        BY <3>1 DEF Loop, Take, Open, Ack, Leave, Reap, durable, Execute, Begin, FirstCheckpoint, GiveUp,
                    Finish, Fail, ReportEnd, Checkpoint, SaveCheckpoint
      <3>2. CASE \/ StartResearchTask \/ ToolCall \/ Dispatch \/ BeginShutdown \/ End \/ Crash \/ Resume
                 \/ \E t \in Tasks : CancelResearchTask(t)
                 \/ \E m \in Mates : LapseClaim(m)
        BY <3>2 DEF StartResearchTask, ToolCall, Submit, RecordCancel, SaveCancel, RestorePending,
                    Dispatch, AcquireLock, SendAssignment, BeginShutdown, End, RequestShutdown,
                    FinalizeSnapshots, Crash, Resume, CancelResearchTask, LapseClaim, durable
      <3> QED
        BY <3>1, <3>2 DEF Next
    <2> QED
      BY <2>1
  <1>2. [Next]_vars => [ckpt \ ckpt' \subseteq stored']_vars
    BY <1>1
  <1> QED
    BY <1>2, PTL DEF Spec, CheckpointGivesWayToResult

(***************************************************************************)
(* The store follows the records.                                          *)
(***************************************************************************)
\* What the steps of coroutines do to their own place only.
LEMMA OwnPlace ==
  ASSUME TypeInv, NEW m \in Mates, Loop(m) \/ Execute(m) \/ Checkpoint(m)
  PROVE  /\ UNCHANGED <<disp, lead, boots, faults>>
         /\ \A n \in Mates : n # m => exec'[n] = exec[n] /\ loops'[n] = loops[n]
         /\ \A n \in Mates : n # m => inbox'[n] = inbox[n]
  <1>1. MateOK /\ MailOK
    BY TypeParts DEF TypeInv
  <1>2. CASE Loop(m)
    BY <1>1, <1>2 DEF Loop, Take, Open, Ack, Leave, Reap, durable, MateOK, MailOK, Acknowledge
  <1>3. CASE Execute(m) \/ Checkpoint(m)
    BY <1>1, <1>3 DEF Execute, Begin, FirstCheckpoint, GiveUp, Finish, Fail, ReportEnd, Checkpoint,
                      MateOK, Moved
  <1> QED
    BY <1>2, <1>3

\* A dispatch starts loops and ends a wait, and touches no executor.
LEMMA DispatchPlace ==
  ASSUME TypeInv, LockHeld, Dispatch
  PROVE  /\ UNCHANGED <<exec, ckpt, stored, boots, faults>>
         /\ \A n \in Mates : loops'[n] = loops[n] \/ loops'[n] = "poll"
         /\ lead' = lead \/ (lead.pc = "dispatch" /\ lead' = At("ready", None))
         /\ disp # NoDispatch \/ lead.pc = "dispatch" \/ \E n \in Mates : loops[n] = "dispatch"
  <1>1. ASSUME NEW c \in Mates \cup {Lead}, NEW todo \in SUBSET Tasks, GoOn(c, todo),
               c = Lead => lead.pc = "dispatch"
        PROVE  /\ \A n \in Mates : loops'[n] = loops[n] \/ loops'[n] = "poll"
               /\ lead' = lead \/ (lead.pc = "dispatch" /\ lead' = At("ready", None))
    <2>0. RegOK /\ MateOK
      BY TypeParts DEF TypeInv
    <2>1. CASE todo = {} \/ IdleRuntimes \cup Unborn = {}
      BY <1>1, <2>0, <2>1 DEF GoOn, Release, MateOK
    <2>2. CASE ~ (todo = {} \/ IdleRuntimes \cup Unborn = {})
      <3>1. PICK t \in todo, m \in Mates : ReservedFor(c, todo, t, m)
        BY <1>1, <2>0, <2>2, ReserveIs DEF GoOn
      <3> QED
        BY <2>0, <3>1 DEF ReservedFor, MateOK
    <2> QED
      BY <2>1, <2>2
  <1>2. CASE AcquireLock
    <2>1. PICK c \in Mates \cup {Lead} :
            Waiting(c) /\ GoOn(c, {t \in Tasks : reg[t].status = "pending" /\ reg[t].mate = None})
      BY <1>2 DEF AcquireLock
    <2>2. PICK todo \in SUBSET Tasks : GoOn(c, todo)
      BY <2>1
    <2> QED
      BY <1>1, <1>2, <2>1, <2>2, Sizes DEF Waiting, AcquireLock
  <1>3. CASE SendAssignment
    <2>1. PICK c \in Mates \cup {Lead}, todo \in SUBSET Tasks : c = disp.by /\ todo = disp.todo
      BY <1>3, SendingIs DEF SendAssignment
    <2>2. GoOn(c, todo)
      BY <1>3, <2>1 DEF SendAssignment
    <2>3. c = Lead => lead.pc = "dispatch"
      BY <1>3, <2>1, SendingIs DEF SendAssignment
    <2> QED
      BY <1>1, <1>3, <2>2, <2>3 DEF SendAssignment
  <1> QED
    BY <1>2, <1>3 DEF Dispatch

\* The steps of the supervisor while the run is served.
LeadStep ==
  \/ StartResearchTask \/ Submit \/ RecordCancel \/ SaveCancel \/ RestorePending
  \/ \E t \in Tasks : CancelResearchTask(t)

LEMMA LeadPlace ==
  ASSUME LeadStep
  PROVE  /\ UNCHANGED <<loops, desc, exec, disp, ckpt, stored, boots>>
         /\ lead.pc \in {"ready", "created", "cancelling", "cancelled", "restoring"}
         /\ lead'.pc \in {"created", "dispatch", "cancelling", "cancelled", "ready"}
  <1>1. CASE StartResearchTask \/ Submit \/ SaveCancel \/ RestorePending \/ \E t \in Tasks : CancelResearchTask(t)
    BY <1>1 DEF StartResearchTask, Submit, SaveCancel, RestorePending, CancelResearchTask, durable, At
  <1>2. CASE RecordCancel
    BY <1>2 DEF RecordCancel, durable
  <1> QED
    BY <1>1, <1>2 DEF LeadStep

\* The steps there are.
LEMMA Steps ==
  Next => \/ LeadStep \/ Dispatch
          \/ \E m \in Mates : Loop(m) \/ Execute(m) \/ Checkpoint(m)
          \/ BeginShutdown \/ RequestShutdown \/ FinalizeSnapshots \/ Crash \/ Resume
          \/ \E m \in Mates : LapseClaim(m)
  BY DEF Next, ToolCall, End, LeadStep

LEMMA NoExecutorStep ==
  ASSUME TypeInv, LockHeld, NoLoopNoExecutor, Next
  PROVE  NoLoopNoExecutor'
  <1>0. MateOK /\ NoExecutor.pc = "none"
    BY TypeParts DEF TypeInv, NoExecutor
  <1>1. CASE LeadStep
    BY <1>1, LeadPlace DEF NoLoopNoExecutor
  <1>2. CASE Dispatch
    BY <1>2, DispatchPlace DEF NoLoopNoExecutor
  <1>3. ASSUME NEW m \in Mates, Loop(m) \/ Execute(m) \/ Checkpoint(m)
        PROVE  NoLoopNoExecutor'
    <2>1. loops'[m] \in {"unborn", "off", "gone", "opening"} => exec'[m] = NoExecutor
      <3>1. CASE Loop(m)
        BY <1>0, <3>1 DEF Loop, Take, Open, Ack, Leave, Reap, MateOK
      <3>2. CASE Execute(m) \/ Checkpoint(m)
        <4>1. exec[m].pc # "none" /\ loops' = loops
          BY <3>2 DEF Execute, Begin, FirstCheckpoint, GiveUp, Finish, Fail, ReportEnd, Checkpoint, Doing
        <4> QED
          BY <1>0, <4>1 DEF NoLoopNoExecutor
      <3> QED
        BY <1>3, <3>1, <3>2
    <2> QED
      BY <1>3, <2>1, OwnPlace DEF NoLoopNoExecutor
  <1>4. CASE BeginShutdown \/ RequestShutdown
    BY <1>4 DEF BeginShutdown, RequestShutdown, NoLoopNoExecutor
  <1>5. CASE FinalizeSnapshots
    BY <1>0, <1>5 DEF FinalizeSnapshots, NoLoopNoExecutor, Runtimes
  <1>6. CASE Crash
    BY <1>6 DEF Crash, NoLoopNoExecutor
  <1>7. CASE Resume
    BY <1>0, <1>7 DEF Resume, NoLoopNoExecutor, MateOK
  <1>8. ASSUME NEW m \in Mates, LapseClaim(m) PROVE NoLoopNoExecutor'
    BY <1>8 DEF LapseClaim, memory, NoLoopNoExecutor
  <1> QED
    BY <1>1, <1>2, <1>3, <1>4, <1>5, <1>6, <1>7, <1>8, Steps

LEMMA OverStep ==
  ASSUME TypeInv, LockHeld, NoLoopNoExecutor, Over, Next
  PROVE  Over'
  <1>0. MateOK /\ NoExecutor.pc = "none"
    BY TypeParts DEF TypeInv, NoExecutor
  <1>1. CASE LeadStep
    BY <1>1, LeadPlace DEF Over
  <1>2. CASE Dispatch
    BY <1>2, DispatchPlace DEF Over, At
  <1>3. ASSUME NEW m \in Mates, Loop(m) \/ Execute(m) \/ Checkpoint(m)
        PROVE  Over'
    <2>1. loops[m] \notin {"unborn", "off"}
      <3>1. CASE Loop(m)
        BY <3>1 DEF Loop, Take, Open, Ack, Leave, Reap
      <3>2. CASE Execute(m) \/ Checkpoint(m)
        <4>1. exec[m].pc # "none"
          BY <3>2 DEF Execute, Begin, FirstCheckpoint, GiveUp, Finish, Fail, ReportEnd, Checkpoint, Doing
        <4> QED
          BY <1>0, <4>1 DEF NoLoopNoExecutor
      <3> QED
        BY <1>3, <3>1, <3>2
    <2> QED
      BY <1>3, <2>1, OwnPlace DEF Over
  <1>4. CASE BeginShutdown \/ RequestShutdown
    BY <1>4 DEF BeginShutdown, RequestShutdown, Over, At
  <1>5. CASE FinalizeSnapshots
    <2>1. disp' = NoDispatch
      BY <1>5 DEF FinalizeSnapshots, LockHeld, Runtimes
    <2>2. \A m \in Mates : loops'[m] \in {"unborn", "off"}
      BY <1>5 DEF FinalizeSnapshots, Runtimes
    <2> QED
      BY <2>1, <2>2 DEF Over
  <1>6. CASE Crash
    BY <1>6 DEF Crash, Over, Runtimes
  <1>7. CASE Resume
    BY <1>7 DEF Resume, Over, At
  <1>8. ASSUME NEW m \in Mates, LapseClaim(m) PROVE Over'
    BY <1>8 DEF LapseClaim, memory, Over
  <1> QED
    BY <1>1, <1>2, <1>3, <1>4, <1>5, <1>6, <1>7, <1>8, Steps

LEMMA ClosedStep ==
  ASSUME TypeInv, LockHeld, NoLoopNoExecutor, Over, Closed, Next
  PROVE  Closed'
  <1>0. MateOK /\ FileOK /\ NoExecutor.pc = "none"
    BY TypeParts DEF TypeInv, NoExecutor
  <1>1. CASE LeadStep
    BY <1>1, LeadPlace DEF Closed
  <1>2. CASE Dispatch
    BY <1>2, DispatchPlace DEF Closed, Over, At
  <1>3. ASSUME NEW m \in Mates, Loop(m) \/ Execute(m) \/ Checkpoint(m)
        PROVE  Closed'
    <2>1. loops[m] \notin {"unborn", "off"}
      <3>1. CASE Loop(m)
        BY <3>1 DEF Loop, Take, Open, Ack, Leave, Reap
      <3>2. CASE Execute(m) \/ Checkpoint(m)
        <4>1. exec[m].pc # "none"
          BY <3>2 DEF Execute, Begin, FirstCheckpoint, GiveUp, Finish, Fail, ReportEnd, Checkpoint, Doing
        <4> QED
          BY <1>0, <4>1 DEF NoLoopNoExecutor
      <3> QED
        BY <1>3, <3>1, <3>2
    <2> QED
      BY <1>3, <2>1, OwnPlace DEF Over, Closed
  <1>4. CASE BeginShutdown \/ RequestShutdown
    BY <1>4 DEF BeginShutdown, RequestShutdown, Closed, At
  <1>5. CASE FinalizeSnapshots
    <2>1. \A t \in Tasks : snap'[t].status \notin ActiveStatus
      BY <1>0, <1>5 DEF FinalizeSnapshots, OpenSnapshots, FileOK, Snapshots, ActiveStatus
    <2>2. lead'.pc = "off"
      BY <1>5 DEF FinalizeSnapshots, At
    <2> QED
      BY <2>1, <2>2 DEF Closed, OpenSnapshots
  <1>6. CASE Crash
    BY <1>6 DEF Crash, Closed, At, NoRecord
  <1>7. CASE Resume
    BY <1>7 DEF Resume, Closed, At
  <1>8. ASSUME NEW m \in Mates, LapseClaim(m) PROVE Closed'
    BY <1>8 DEF LapseClaim, memory, Closed, OpenSnapshots
  <1> QED
    BY <1>1, <1>2, <1>3, <1>4, <1>5, <1>6, <1>7, <1>8, Steps

\* The request of a teammate: it stays what it is, is sent by RequestShutdown
\* or is acknowledged by the loop that leaves.
RequestStays(m) ==
  /\ inbox'[m][ShutdownRequest].status = inbox[m][ShutdownRequest].status
  /\ inbox'[m][ShutdownRequest].attempts = inbox[m][ShutdownRequest].attempts

LEMMA SendStays ==
  ASSUME MailOK, NEW m \in Mates, NEW msg \in Messages \ {ShutdownRequest}, Send(m, msg)
  PROVE  \A n \in Mates : RequestStays(n)
  <1>1. inbox[m] \in Box /\ ShutdownRequest \in Messages
    BY InboxIs, Kinds
  <1>2. Sent(inbox[m], msg)[ShutdownRequest] = inbox[m][ShutdownRequest]
    BY <1>1, SentIs
  <1>3. \A n \in Mates : inbox'[n] = IF n = m THEN Sent(inbox[m], msg) ELSE inbox[n]
    BY DEF Send, MailOK
  <1> QED
    BY <1>2, <1>3 DEF RequestStays

LEMMA RequestIs ==
  ASSUME TypeInv, LockHeld, ShutdownMail, Next, NEW m \in Mates
  PROVE  \/ RequestStays(m)
         \/ /\ RequestShutdown /\ inbox[m][ShutdownRequest].status = "absent"
            /\ inbox'[m][ShutdownRequest].status = "pending"
            /\ inbox'[m][ShutdownRequest].attempts = inbox[m][ShutdownRequest].attempts
         \/ Leave(m) /\ inbox'[m][ShutdownRequest].status = "acked"
  <1> USE Kinds
  <1>0. MailOK /\ RegOK /\ CountOK /\ inbox[m] \in Box /\ inbox[m][ShutdownRequest] \in Message(Boots)
    BY TypeParts, InboxIs DEF TypeInv, MailOK
  <1>1. CASE UNCHANGED inbox
    BY <1>1 DEF RequestStays
  <1>2. ASSUME NEW t \in Tasks, CancelResearchTask(t) PROVE RequestStays(m)
    <2>1. reg[t].mate \in Mates
      BY <1>0, <1>2 DEF CancelResearchTask, RegOK, Records
    <2>2. CancelRequest(t) \in Messages \ {ShutdownRequest}
      OBVIOUS
    <2> QED
      BY <1>0, <1>2, <2>1, <2>2, SendStays DEF CancelResearchTask
  <1>3. CASE SendAssignment
    <2>1. reg[disp.task].mate \in Mates /\ Assignment(disp.task, reg[disp.task].attempt) \in Messages \ {ShutdownRequest}
      BY <1>3, SendingIs DEF SendAssignment
    <2> QED
      BY <1>0, <1>3, <2>1, SendStays DEF SendAssignment
  <1>4. ASSUME NEW n \in Mates, n # m, Loop(n) \/ Execute(n) \/ Checkpoint(n)
        PROVE  RequestStays(m)
    BY <1>4, OwnPlace DEF RequestStays
  <1>5. CASE Take(m)
    <2>1. Recovered(inbox[m][ShutdownRequest]).status # "pending"
      BY <1>0, <1>5 DEF Take, Claimable, Box
    <2>2. inbox[m][ShutdownRequest].status \in {"absent", "acked"}
      BY <1>0, <2>1, RecoveredIs, TaskPoolAssumption DEF ShutdownMail
    <2>3. Claimed(inbox[m], boots)[ShutdownRequest] = inbox[m][ShutdownRequest]
      BY <1>0, <2>1, <2>2, ClaimedIs, RecoveredIs DEF CountOK
    <2> QED
      BY <1>0, <1>5, <2>3 DEF Take, RequestStays, MailOK
  <1>6. CASE Ack(m)
    <2>1. PICK ms : ~ (ShutdownRequest \in ms) /\ inbox' = [inbox EXCEPT ![m] = Acked(inbox[m], ms)]
      BY <1>6 DEF Ack, Acknowledge, Held, ShutdownMail
    <2>2. Acked(inbox[m], ms)[ShutdownRequest] = inbox[m][ShutdownRequest]
      BY <1>0, <2>1, AckedIs
    <2> QED
      BY <1>0, <2>1, <2>2 DEF RequestStays, MailOK
  <1>7. CASE Leave(m)
    <2>1. PICK ms : ShutdownRequest \in ms /\ inbox' = [inbox EXCEPT ![m] = Acked(Claimed(inbox[m], boots), ms)]
      BY <1>7 DEF Leave, Acknowledge
    <2>2. Claimed(inbox[m], boots) \in Box
      BY <1>0, ClaimedIs DEF CountOK
    <2>3. Acked(Claimed(inbox[m], boots), ms)[ShutdownRequest].status = "acked"
      BY <2>1, <2>2, AckedIs
    <2> QED
      BY <1>0, <1>7, <2>1, <2>3 DEF MailOK
  <1>8. CASE RequestShutdown
    <2>1. inbox'[m] = inbox[m] \/ inbox'[m] = Sent(inbox[m], ShutdownRequest)
      BY <1>8 DEF RequestShutdown
    <2> QED
      BY <1>0, <1>8, <2>1, SentIs DEF RequestStays, Sent
  <1>9. ASSUME NEW n \in Mates, LapseClaim(n) PROVE RequestStays(m)
    <2>1. PICK left : inbox' = [inbox EXCEPT ![n] = [msg \in Messages |->
                    IF msg \in left THEN [@[msg] EXCEPT !.live = FALSE] ELSE @[msg]]]
      BY <1>9 DEF LapseClaim
    <2>2. [inbox[m][ShutdownRequest] EXCEPT !.live = FALSE].status = inbox[m][ShutdownRequest].status
          /\ [inbox[m][ShutdownRequest] EXCEPT !.live = FALSE].attempts = inbox[m][ShutdownRequest].attempts
      BY <1>0 DEF Message
    <2>3. \/ inbox'[m][ShutdownRequest] = inbox[m][ShutdownRequest]
          \/ inbox'[m][ShutdownRequest] = [inbox[m][ShutdownRequest] EXCEPT !.live = FALSE]
      BY <1>0, <2>1 DEF MailOK
    <2> QED
      BY <2>2, <2>3 DEF RequestStays
  <1>10. ASSUME Loop(m), ~ Take(m), ~ Ack(m), ~ Leave(m) PROVE UNCHANGED inbox
    BY <1>10 DEF Loop, Open, Reap, durable
  <1>11. ASSUME Execute(m) \/ Checkpoint(m) PROVE UNCHANGED inbox
    BY <1>11 DEF Execute, Begin, FirstCheckpoint, GiveUp, Finish, Fail, ReportEnd, Checkpoint
  <1>12. ASSUME \/ StartResearchTask \/ Submit \/ RecordCancel \/ SaveCancel \/ RestorePending
                \/ AcquireLock \/ BeginShutdown \/ FinalizeSnapshots \/ Crash \/ Resume
         PROVE  UNCHANGED inbox
    BY <1>12 DEF StartResearchTask, Submit, RecordCancel, SaveCancel, RestorePending, AcquireLock,
                 BeginShutdown, FinalizeSnapshots, Crash, Resume, durable
  <1>13. \/ UNCHANGED inbox \/ SendAssignment \/ Take(m) \/ Ack(m) \/ Leave(m) \/ RequestShutdown
         \/ \E t \in Tasks : CancelResearchTask(t)
         \/ \E n \in Mates : n # m /\ (Loop(n) \/ Execute(n) \/ Checkpoint(n))
         \/ \E n \in Mates : LapseClaim(n)
    BY <1>10, <1>11, <1>12, Steps DEF LeadStep, Dispatch
  <1> QED
    BY <1>1, <1>2, <1>3, <1>4, <1>5, <1>6, <1>7, <1>8, <1>9, <1>13

LEMMA ShutdownMailStep ==
  ASSUME TypeInv, LockHeld, ShutdownMail, Next
  PROVE  ShutdownMail'
  <1> SUFFICES ASSUME NEW m \in Mates
               PROVE  /\ inbox'[m][ShutdownRequest].status \in {"absent", "pending", "acked"}
                      /\ inbox'[m][ShutdownRequest].status # "acked" => inbox'[m][ShutdownRequest].attempts = 0
    BY DEF ShutdownMail, ShutdownRequest
  <1> QED
    BY RequestIs DEF ShutdownMail, RequestStays

LEMMA ShutdownFirstStep ==
  ASSUME TypeInv, LockHeld, NoLoopNoExecutor, Over, ShutdownMail, ShutdownFirst, Next
  PROVE  ShutdownFirst'
  <1>0. MateOK /\ MailOK /\ NoExecutor.pc = "none"
    BY TypeParts DEF TypeInv, NoExecutor
  <1>1. CASE RequestShutdown \/ BeginShutdown \/ FinalizeSnapshots \/ Crash
    BY <1>1 DEF RequestShutdown, BeginShutdown, FinalizeSnapshots, Crash, At, ShutdownFirst, Running, Serving
  <1>2. CASE ~ (RequestShutdown \/ BeginShutdown \/ FinalizeSnapshots \/ Crash)
    <2> SUFFICES ASSUME Running', NEW m \in Mates, inbox'[m][ShutdownRequest].status = "pending"
                 PROVE  exec'[m] = NoExecutor /\ loops'[m] \notin {"opening", "acking"}
      BY DEF ShutdownFirst, ShutdownRequest
    <2>1. inbox[m][ShutdownRequest].status = "pending"
      BY <1>2, RequestIs DEF RequestStays
    <2>2. CASE Resume
      BY <1>0, <2>2 DEF Resume, Over, NoLoopNoExecutor, MateOK
    <2>3. CASE ~ Resume
      <3>1. Running
        <4>1. LeadStep => Running
          BY LeadPlace DEF Running, Serving
        <4>2. Dispatch => Running
          BY DispatchPlace DEF Running, Serving
        <4>3. \A n \in Mates : Loop(n) \/ Execute(n) \/ Checkpoint(n) \/ LapseClaim(n) => lead' = lead
          BY OwnPlace DEF LapseClaim, memory
        <4> QED
          BY <1>2, <2>3, <4>1, <4>2, <4>3, Steps DEF Running, Serving
      <3>2. exec[m] = NoExecutor /\ loops[m] \notin {"opening", "acking"}
        BY <2>1, <3>1 DEF ShutdownFirst
      <3>3. ASSUME LeadStep \/ Dispatch \/ \E n \in Mates : LapseClaim(n)
            PROVE  exec'[m] = exec[m] /\ (loops'[m] = loops[m] \/ loops'[m] = "poll")
        BY <3>3, LeadPlace, DispatchPlace DEF LapseClaim, memory
      <3>4. ASSUME NEW n \in Mates, n # m, Loop(n) \/ Execute(n) \/ Checkpoint(n)
            PROVE  exec'[m] = exec[m] /\ loops'[m] = loops[m]
        BY <3>4, OwnPlace
      <3>5. ~ Take(m)
        <4>1. Recovered(inbox[m][ShutdownRequest]).status = "pending"
          BY <1>0, <2>1, RecoveredIs, Kinds, TaskPoolAssumption DEF ShutdownMail, MailOK
        <4>2. ShutdownRequest \in Claimable(inbox[m])
          BY <1>0, <4>1, Kinds DEF Claimable, MailOK
        <4> QED
          BY <4>2 DEF Take
      <3>6. ~ (Open(m) \/ Ack(m) \/ Execute(m) \/ Checkpoint(m) \/ Reap(m))
        BY <1>0, <3>2 DEF Open, Ack, Reap, Execute, Begin, FirstCheckpoint, GiveUp, Finish, Fail, ReportEnd,
                          Checkpoint, Doing
      <3>7. CASE Leave(m)
        BY <1>0, <3>7 DEF Leave, MateOK
      <3> QED
        BY <1>2, <2>3, <3>2, <3>3, <3>4, <3>5, <3>6, <3>7, Steps DEF Loop
    <2> QED
      BY <2>2, <2>3
  <1> QED
    BY <1>1, <1>2

\* A task whose snapshot and record are left is followed as before.
LEMMA FollowKept ==
  ASSUME NEW t \in Tasks, FollowedOf(t), snap'[t].status = snap[t].status,
         reg'[t].status = reg[t].status, Reporting(t) => Reporting(t)',
         lead.pc = "restoring" => lead'.pc = "restoring"
  PROVE  FollowedOf(t)'
  BY DEF FollowedOf

\* A task whose snapshot is written has its record's status there, or its end.
LEMMA WriteFollowed ==
  ASSUME TypeInv, TypeInv', NEW t \in Tasks, WriteSnapshot(t)
  PROVE  /\ FollowedOf(t)'
         /\ \A u \in Tasks : u # t => snap'[u] = snap[u]
  <1>1. RegOK' /\ snap \in [Tasks -> Snapshots]
    BY TypeParts DEF TypeInv, FileOK
  <1> QED
    BY <1>1, WriteIs DEF FollowedOf, ActiveStatus, Terminal

LEMMA ReportKept ==
  ASSUME NEW t \in Tasks, lead = At("cancelled", t) => lead' = lead,
         \A m \in Mates : exec[m] = [task |-> t, pc |-> "ending"] => exec'[m] = exec[m]
  PROVE  Reporting(t) => Reporting(t)'
  BY DEF Reporting

LEMMA GoOnFollowed ==
  ASSUME TypeInv, TypeInv', NEW c, NEW todo \in SUBSET Tasks, GoOn(c, todo),
         exec' = exec, lead' = lead \/ (lead.pc = "dispatch" /\ lead' = At("ready", None)),
         lead.pc # "restoring" \/ lead' = lead,
         NEW t \in Tasks, FollowedOf(t)
  PROVE  FollowedOf(t)'
  <1>1. \A u \in Tasks : reg'[u].status = reg[u].status
    BY GoOnStatus
  <1>2. Reporting(t) => Reporting(t)'
    <2>1. lead = At("cancelled", t) => lead' = lead
      BY DEF At
    <2> QED
      BY <2>1, ReportKept
  <1>3. CASE todo = {} \/ IdleRuntimes \cup Unborn = {}
    BY <1>1, <1>2, <1>3, FollowKept DEF GoOn, Release
  <1>4. CASE ~ (todo = {} \/ IdleRuntimes \cup Unborn = {})
    <2>1. RegOK
      BY TypeParts DEF TypeInv
    <2>2. PICK u \in todo, m \in Mates : ReservedFor(c, todo, u, m)
      BY <1>4, <2>1, ReserveIs DEF GoOn
    <2>3. FollowedOf(u)' /\ (u # t => snap'[t] = snap[t])
      BY <2>2, WriteFollowed DEF ReservedFor
    <2>4. CASE u = t
      BY <2>3, <2>4
    <2>5. CASE u # t
      BY <1>1, <1>2, <2>3, <2>5, FollowKept
    <2> QED
      BY <2>4, <2>5
  <1> QED
    BY <1>3, <1>4

LEMMA LeadFollowed ==
  ASSUME TypeInv, TypeInv', LeadStep, NEW t \in Tasks, FollowedOf(t)
  PROVE  FollowedOf(t)'
  <1>0. RegOK /\ MateOK /\ CallOK /\ LeadKnown
    BY TypeParts DEF TypeInv, Refs
  <1>1. \A m \in Mates : exec'[m] = exec[m]
    BY LeadPlace
  <1>2. CASE StartResearchTask
    <2>1. PICK u \in Unused : reg' = [reg EXCEPT ![u] = PendingRecord(0)]
      <3>1. First(Unused) \in Unused
        BY <1>2, FirstIn, Sizes DEF StartResearchTask, Unused
      <3> QED
        BY <1>2, <3>1 DEF StartResearchTask
    <2>2. u \in Tasks /\ snap[u].status = "absent" /\ snap' = snap /\ lead.pc = "ready"
      BY <1>2, <2>1 DEF Unused, StartResearchTask, durable
    <2>3. CASE t = u
      BY <2>2, <2>3 DEF FollowedOf, ActiveStatus
    <2>4. CASE t # u
      <3>1. reg'[t] = reg[t]
        BY <1>0, <2>1, <2>4 DEF RegOK
      <3>2. lead # At("cancelled", t)
        BY <2>2 DEF At
      <3> QED
        BY <1>1, <2>2, <3>1, <3>2, FollowKept, ReportKept
    <2> QED
      BY <2>3, <2>4
  <1>3. CASE Submit \/ SaveCancel
    <2>1. PICK u \in Tasks : u = lead.task
      BY <1>0, <1>3 DEF LeadKnown, Known, Submit, SaveCancel
    <2>2. WriteSnapshot(u) /\ reg' = reg /\ lead.pc \in {"created", "cancelled"}
      BY <1>3, <2>1 DEF Submit, SaveCancel
    <2>3. CASE t = u
      BY <2>2, <2>3, WriteFollowed
    <2>4. CASE t # u
      <3>1. lead # At("cancelled", t)
        BY <2>1, <2>4 DEF At
      <3>2. snap'[t] = snap[t]
        BY <2>2, <2>4, WriteFollowed
      <3> QED
        BY <1>1, <2>2, <3>1, <3>2, FollowKept, ReportKept
    <2> QED
      BY <2>3, <2>4
  <1>4. CASE RecordCancel
    <2>1. PICK u \in Tasks : u = lead.task
      BY <1>0, <1>4 DEF LeadKnown, Known, RecordCancel
    <2>2. /\ reg' = [reg EXCEPT ![u].status = "cancelled"] /\ snap' = snap
          /\ lead.pc = "cancelling" /\ lead'.pc = "cancelled" /\ lead' = At("cancelled", u)
      BY <1>0, <1>4, <2>1 DEF RecordCancel, durable, CallOK, At
    <2>3. CASE t = u
      <3>1. reg'[t].status = "cancelled"
        BY <1>0, <2>2, <2>3 DEF RegOK, Records
      <3>2. Reporting(t)'
        BY <2>2, <2>3 DEF Reporting, At
      <3> QED
        BY <3>1, <3>2 DEF FollowedOf, Terminal
    <2>4. CASE t # u
      <3>1. reg'[t] = reg[t]
        BY <1>0, <2>2, <2>4 DEF RegOK
      <3>2. lead # At("cancelled", t)
        BY <2>2 DEF At
      <3> QED
        BY <1>1, <2>2, <3>1, <3>2, FollowKept, ReportKept
    <2> QED
      BY <2>3, <2>4
  <1>5. CASE RestorePending
    <2>1. /\ snap' = snap /\ lead.pc = "restoring" /\ lead'.pc = "dispatch"
          /\ reg'[t] = IF reg[t].status = "absent" /\ t \in OpenSnapshots
                               THEN PendingRecord(snap[t].attempt) ELSE reg[t]
      BY <1>5 DEF RestorePending, durable, At
    <2>2. lead # At("cancelled", t)
      BY <2>1 DEF At
    <2>3. Reporting(t) => Reporting(t)'
      BY <1>1, <2>2, ReportKept
    <2> QED
      BY <2>1, <2>3 DEF FollowedOf, OpenSnapshots, PendingRecord, ActiveStatus, Terminal
  <1>6. CASE \E u \in Tasks : CancelResearchTask(u)
    <2>1. snap' = snap /\ reg' = reg /\ lead.pc = "ready"
      BY <1>6 DEF CancelResearchTask
    <2>2. lead # At("cancelled", t)
      BY <2>1 DEF At
    <2> QED
      BY <1>1, <2>1, <2>2, FollowKept, ReportKept
  <1> QED
    BY <1>2, <1>3, <1>4, <1>5, <1>6 DEF LeadStep

LEMMA MateFollowed ==
  ASSUME TypeInv, TypeInv', NoLoopNoExecutor, ShutdownMail, ShutdownFirst, Running,
         NEW m \in Mates, Loop(m) \/ Execute(m) \/ Checkpoint(m), NEW t \in Tasks, FollowedOf(t)
  PROVE  FollowedOf(t)'
  <1>0. RegOK /\ MateOK /\ MailOK /\ NoExecutor.pc = "none"
    BY TypeParts DEF TypeInv, NoExecutor
  <1>1. lead' = lead /\ \A n \in Mates : n # m => exec'[n] = exec[n]
    BY OwnPlace
  <1>2. CASE Loop(m)
    <2>1. snap' = snap /\ \A u \in Tasks : reg'[u].status = reg[u].status
      <3>1. \A ts : Flag(ts) => \A u \in Tasks : reg'[u].status = reg[u].status
        BY <1>0, FlagIs
      <3> QED
        BY <1>2, <3>1 DEF Loop, Take, Open, Ack, Leave, Reap, durable
    <2>2. exec'[m] = exec[m] \/ exec[m].pc # "ending"
      <3>1. CASE Take(m) \/ Ack(m)
        BY <3>1 DEF Take, Ack
      <3>2. CASE Open(m)
        BY <1>0, <3>2 DEF Open, NoLoopNoExecutor
      <3>3. CASE Leave(m)
        <4>1. Recovered(inbox[m][ShutdownRequest]).status = "pending"
          BY <1>0, <3>3, InboxIs, ClaimableIs DEF Leave
        <4>2. inbox[m][ShutdownRequest].status = "pending"
          <5>1. inbox[m][ShutdownRequest] \in Message(Boots)
            BY <1>0, Kinds DEF MailOK
          <5> QED
            BY <4>1, <5>1, RecoveredIs DEF ShutdownMail
        <4> QED
          BY <1>0, <4>2 DEF ShutdownFirst
      <3>4. CASE Reap(m)
        BY <3>4 DEF Reap
      <3> QED
        BY <1>2, <3>1, <3>2, <3>3, <3>4 DEF Loop
    <2>3. Reporting(t) => Reporting(t)'
      <3>1. exec[m] = [task |-> t, pc |-> "ending"] => exec[m].pc = "ending"
        OBVIOUS
      <3>2. \A n \in Mates : exec[n] = [task |-> t, pc |-> "ending"] => exec'[n] = exec[n]
        BY <1>1, <2>2, <3>1
      <3> QED
        BY <1>1, <3>2, ReportKept
    <2> QED
      BY <1>1, <2>1, <2>3, FollowKept
  <1>3. CASE Execute(m) \/ Checkpoint(m)
    <2>1. PICK u \in Tasks : u = exec[m].task
      BY <1>3, DoingKnown DEF Execute, Begin, FirstCheckpoint, GiveUp, Finish, Fail, ReportEnd,
                              Checkpoint, Doing
    <2>2. t # u => (Reporting(t) => Reporting(t)')
      <3>1. exec[m] = [task |-> t, pc |-> "ending"] => t = u
        BY <2>1
      <3>2. t # u => \A n \in Mates : exec[n] = [task |-> t, pc |-> "ending"] => exec'[n] = exec[n]
        BY <1>1, <3>1
      <3> QED
        BY <1>1, <3>2, ReportKept
    <2>3. CASE Begin(m)
      <3>1. "running" \in TaskStatus
        BY DEF TaskStatus
      <3>2. WriteSnapshot(u) /\ \A v \in Tasks : v # u => reg'[v] = reg[v]
        BY <1>0, <2>1, <2>3, <3>1, StatusIs DEF Begin, SetStatus
      <3> QED
        BY <1>1, <2>2, <3>2, WriteFollowed, FollowKept
    <2>4. CASE FirstCheckpoint(m) \/ Checkpoint(m) \/ GiveUp(m) \/ ReportEnd(m)
      <3>1. WriteSnapshot(u) /\ reg' = reg
        BY <2>1, <2>4 DEF FirstCheckpoint, Checkpoint, GiveUp, ReportEnd, SaveCheckpoint
      <3> QED
        BY <1>1, <2>2, <3>1, WriteFollowed, FollowKept
    <2>5. CASE Finish(m) \/ Fail(m)
      <3>1. {"completed", "failed"} \subseteq TaskStatus
        BY DEF TaskStatus, Terminal
      <3>2. snap' = snap /\ exec' = Moved(m, "ending")
        BY <2>5 DEF Finish, Fail
      <3>3. /\ reg'[u].status \in {"completed", "failed"}
            /\ \A v \in Tasks : v # u => reg'[v] = reg[v]
        BY <1>0, <2>1, <2>5, <3>1, StatusIs DEF Finish, Fail, SetStatus
      <3>4. exec'[m] = [task |-> u, pc |-> "ending"]
        BY <1>0, <2>1, <3>2 DEF Moved, MateOK
      <3>5. Reporting(u)'
        BY <3>4 DEF Reporting
      <3>6. CASE t = u
        BY <3>3, <3>5, <3>6 DEF FollowedOf, Terminal
      <3>7. CASE t # u
        BY <1>1, <2>2, <3>2, <3>3, <3>7, FollowKept
      <3> QED
        BY <3>6, <3>7
    <2> QED
      BY <1>3, <2>3, <2>4, <2>5 DEF Execute
  <1> QED
    BY <1>2, <1>3

LEMMA FollowedStep ==
  ASSUME TypeInv, TypeInv', LockHeld, FollowInv, Next
  PROVE  Followed'
  <1>0. NoLoopNoExecutor /\ Over /\ Closed /\ ShutdownMail /\ ShutdownFirst /\ Followed
    BY DEF FollowInv
  <1> SUFFICES ASSUME Running', NEW t \in Tasks PROVE FollowedOf(t)'
    BY DEF Followed
  <1>1. CASE LeadStep
    BY <1>0, <1>1, LeadPlace, LeadFollowed DEF Followed, Running, Serving
  <1>2. CASE Dispatch
    <2>1. exec' = exec /\ (lead' = lead \/ (lead.pc = "dispatch" /\ lead' = At("ready", None)))
      BY <1>2, DispatchPlace
    <2>2. FollowedOf(t)
      BY <1>0, <2>1 DEF Followed, Running, Serving
    <2>3. \E c : \E todo \in SUBSET Tasks : GoOn(c, todo)
      <3>1. CASE AcquireLock
        <4>1. PICK c \in Mates \cup {Lead} :
                GoOn(c, {u \in Tasks : reg[u].status = "pending" /\ reg[u].mate = None})
          BY <3>1 DEF AcquireLock
        <4>2. PICK todo \in SUBSET Tasks :
                todo = {u \in Tasks : reg[u].status = "pending" /\ reg[u].mate = None}
          OBVIOUS
        <4> QED
          BY <4>1, <4>2
      <3>2. CASE SendAssignment
        <4>1. GoOn(disp.by, disp.todo) /\ disp.todo \in SUBSET Tasks
          BY <3>2, SendingIs DEF SendAssignment
        <4> QED
          BY <4>1
      <3> QED
        BY <1>2, <3>1, <3>2 DEF Dispatch
    <2> QED
      BY <2>1, <2>2, <2>3, GoOnFollowed
  <1>3. ASSUME NEW m \in Mates, Loop(m) \/ Execute(m) \/ Checkpoint(m)
        PROVE  FollowedOf(t)'
    <2>1. lead' = lead
      BY <1>3, OwnPlace
    <2>2. Running /\ FollowedOf(t)
      BY <1>0, <2>1 DEF Running, Serving, Followed
    <2> QED
      BY <1>0, <1>3, <2>2, MateFollowed
  <1>4. CASE BeginShutdown \/ RequestShutdown \/ FinalizeSnapshots \/ Crash
    BY <1>4 DEF BeginShutdown, RequestShutdown, FinalizeSnapshots, Crash, Running, Serving, At
  <1>5. CASE Resume
    <2>1. /\ snap' = snap /\ lead'.pc = "restoring" /\ lead.pc \in {"off", "down"}
          /\ reg'[t] = IF reg[t].status = "absent" THEN RestoredRecord(t) ELSE reg[t]
      BY <1>5 DEF Resume, durable, At
    <2>2. CASE lead.pc = "off"
      BY <1>0, <2>1, <2>2 DEF Closed, OpenSnapshots, FollowedOf
    <2>3. CASE lead.pc = "down"
      <3>1. reg'[t] = RestoredRecord(t)
        BY <1>0, <2>1, <2>3 DEF Closed
      <3> QED
        BY <2>1, <3>1 DEF FollowedOf, RestoredRecord, PendingRecord, NoRecord, ActiveStatus
    <2> QED
      BY <2>1, <2>2, <2>3
  <1>6. ASSUME NEW m \in Mates, LapseClaim(m) PROVE FollowedOf(t)'
    <2>1. UNCHANGED <<reg, snap, lead, exec>>
      BY <1>6 DEF LapseClaim, memory
    <2> QED
      BY <1>0, <2>1 DEF FollowedOf, Followed, Running, Serving, Reporting
  <1> QED
    BY <1>1, <1>2, <1>3, <1>4, <1>5, <1>6, Steps

LEMMA FollowStep ==
  ASSUME TypeInv, TypeInv', LockHeld, FollowInv, Next
  PROVE  FollowInv'
  BY NoExecutorStep, OverStep, ClosedStep, ShutdownMailStep, ShutdownFirstStep, FollowedStep DEF FollowInv

LEMMA FollowAlways ==
  Spec => []FollowInv
  <1>1. Init => FollowInv
    <2> SUFFICES ASSUME Init PROVE FollowInv
      OBVIOUS
    <2>1. NoLoopNoExecutor /\ Over /\ Closed
      BY DEF Init, NoLoopNoExecutor, Over, Closed, At
    <2>2. \A m \in Mates : inbox[m][ShutdownRequest].status = "absent" /\ inbox[m][ShutdownRequest].attempts = 0
      BY Kinds DEF Init, Absent
    <2>3. ShutdownMail /\ ShutdownFirst
      BY <2>2 DEF ShutdownMail, ShutdownFirst
    <2>4. Followed
      BY DEF Init, Followed, FollowedOf, NoSnapshot, ActiveStatus
    <2> QED
      BY <2>1, <2>3, <2>4 DEF FollowInv
  <1>2. TypeInv /\ LockHeld /\ TypeInv' /\ FollowInv /\ [Next]_vars => FollowInv'
    <2>1. ASSUME FollowInv, UNCHANGED vars PROVE FollowInv'
      <3>1. UNCHANGED <<reg, loops, desc, exec, disp, lead, snap, ckpt, stored, inbox, posted, boots, faults>>
        BY <2>1 DEF vars, memory, durable
      <3>2. NoLoopNoExecutor' /\ Over' /\ Closed'
        BY <2>1, <3>1 DEF FollowInv, NoLoopNoExecutor, Over, Closed, OpenSnapshots
      <3>3. ShutdownMail' /\ ShutdownFirst'
        BY <2>1, <3>1 DEF FollowInv, ShutdownMail, ShutdownFirst, Running, Serving
      <3>4. Followed'
        BY <2>1, <3>1 DEF FollowInv, Followed, FollowedOf, Running, Serving, Reporting
      <3> QED
        BY <3>2, <3>3, <3>4 DEF FollowInv
    <2> QED
      BY <2>1, FollowStep
  <1> QED
    BY <1>1, <1>2, TypeAlways, PTL DEF Spec

\* A task the store has open is known to the process, or its end is about to
\* be written, while the supervisor works: it does not wait for ever.
THEOREM StoreFollowsRegistryAlways == Spec => []StoreFollowsRegistry
  <1>1. FollowInv => StoreFollowsRegistry
    BY DEF FollowInv, Followed, FollowedOf, StoreFollowsRegistry, OpenSnapshots, Running, Serving
  <1> QED
    BY <1>1, FollowAlways, PTL

(***************************************************************************)
(* Where an assignment of the first process is.                            *)
(***************************************************************************)
\* A fresh entry is claimable if it is pending, and recovered as it is.
LEMMA FreshIs ==
  ASSUME NEW e \in Message(Boots), FreshEntry(e)
  PROVE  /\ Recovered(e).status = "pending" <=> e.status = "pending"
         /\ e.status # "pending" => Recovered(e) = e
  BY RecoveredIs, TaskPoolAssumption DEF FreshEntry

\* Mail that a step leaves, or that it sends and that assigns nothing.
OtherMail ==
  \A m \in Mates : \A msg \in Messages :
    \/ inbox'[m][msg] = inbox[m][msg]
    \/ /\ msg # ShutdownRequest /\ \A t \in Tasks, n \in Boots : msg # Assignment(t, n)
       /\ inbox[m][msg].status = "absent" /\ inbox'[m][msg].status = "pending"
       /\ inbox'[m][msg].attempts = inbox[m][msg].attempts /\ ~ inbox'[m][msg].live

\* A step that reserves, claims and acknowledges nothing.
LEMMA FirstKept ==
  ASSUME TypeInv, FirstOK, Alike,
         \A t \in Tasks : reg'[t].status = "pending" => reg[t].status = "pending",
         UNCHANGED <<desc, disp, loops, boots>>, OtherMail,
         \A m \in Mates : /\ exec'[m].task = exec[m].task
                          /\ exec'[m] = NoExecutor <=> exec[m] = NoExecutor
                          /\ exec'[m].pc # "created" =>
                               exec[m].pc # "created" \/ reg'[exec[m].task].status # "pending"
  PROVE  FirstOK'
  <1>0. /\ FreshMail /\ OwnMail /\ OneAttempt /\ Reserved /\ Busy /\ HeldMail /\ Reaches
        /\ RegOK /\ ExecKnown
    BY TypeParts DEF FirstOK, TypeInv, Refs
  <1>1. FreshMail'
    BY <1>0 DEF FreshMail, FreshEntry, OtherMail
  <1>2. \A m \in Mates, t \in Tasks, n \in Boots :
          inbox'[m][Assignment(t, n)] = inbox[m][Assignment(t, n)]
    BY Kinds DEF OtherMail
  <1>3. OwnMail'
    BY <1>0, <1>2 DEF OwnMail, Alike
  <1>4. OneAttempt'
    BY <1>0 DEF OneAttempt, Alike
  <1>5. Reserved'
    BY <1>0 DEF Reserved, Alike
  <1>6. Busy'
    <2> SUFFICES ASSUME NEW m \in Mates
                 PROVE  /\ loops'[m] = "unborn" => desc'[m].status = "idle"
                        /\ desc'[m].status = "idle" => exec'[m] = NoExecutor /\ loops'[m] # "opening"
                        /\ exec'[m] # NoExecutor =>
                             /\ desc'[m].task = exec'[m].task
                             /\ exec'[m].pc # "created" => reg'[exec'[m].task].status # "pending"
      BY DEF Busy
    <2>1. exec[m] # NoExecutor => exec[m].task \in Tasks
      BY <1>0 DEF ExecKnown, Known
    <2> QED
      BY <1>0, <2>1 DEF Busy
  <1>7. HeldMail'
    <2> SUFFICES ASSUME NEW m \in Mates
                 PROVE  /\ loops'[m] \notin {"opening", "acking"} =>
                             \A msg \in Messages : inbox'[m][msg].status # "processing"
                        /\ loops'[m] = "acking" => \A t \in Tasks : \A n \in Boots :
                             inbox'[m][Assignment(t, n)].status = "processing" /\ reg'[t].status = "pending"
                               => exec'[m].task = t
                        /\ inbox'[m][ShutdownRequest].status = "absent"
      BY DEF HeldMail, ShutdownRequest, Assignment
    <2>1. \A msg \in Messages : inbox'[m][msg].status = "processing" => inbox[m][msg].status = "processing"
      BY DEF OtherMail
    <2>2. inbox'[m][ShutdownRequest] = inbox[m][ShutdownRequest]
      BY Kinds DEF OtherMail
    <2> QED
      BY <1>0, <1>2, <2>1, <2>2 DEF HeldMail
  <1>8. Reaches'
    <2> SUFFICES ASSUME NEW t \in Tasks PROVE ReachesOf(t)'
      BY DEF Reaches
    <2>1. reg'[t].mate = reg[t].mate /\ reg'[t].attempt = reg[t].attempt /\ ReachesOf(t)
      BY <1>0 DEF Reaches, Alike
    <2>2. reg[t].mate \in Mates \cup {None} /\ reg[t].attempt \in 0 .. MaxFaults + 1
      BY <1>0 DEF RegOK, Records
    <2>3. reg[t].mate # None => reg[t].attempt = 1
      BY <1>0 DEF OneAttempt
    <2>4. reg[t].mate # None =>
            inbox'[reg[t].mate][Assignment(t, reg[t].attempt)] = inbox[reg[t].mate][Assignment(t, reg[t].attempt)]
      BY <1>2, <2>2, <2>3, Sizes
    <2> QED
      BY <2>1, <2>2, <2>4 DEF ReachesOf, Held
  <1> QED
    BY <1>1, <1>3, <1>4, <1>5, <1>6, <1>7, <1>8 DEF FirstOK

\* No mail moves.
LEMMA SameMail ==
  ASSUME inbox' = inbox
  PROVE  OtherMail
  BY DEF OtherMail

LEMMA CancelMail ==
  ASSUME MailOK, NEW m \in Mates, NEW t \in Tasks, Send(m, CancelRequest(t))
  PROVE  OtherMail
  <1>1. inbox[m] \in Box /\ CancelRequest(t) \in Messages
    BY InboxIs, Kinds
  <1>2. \A n \in Mates : inbox'[n] = IF n = m THEN Sent(inbox[m], CancelRequest(t)) ELSE inbox[n]
    BY DEF Send, MailOK
  <1> SUFFICES ASSUME NEW n \in Mates, NEW msg \in Messages, inbox'[n][msg] # inbox[n][msg]
               PROVE  /\ msg # ShutdownRequest /\ \A u \in Tasks, k \in Boots : msg # Assignment(u, k)
                      /\ inbox[n][msg].status = "absent" /\ inbox'[n][msg].status = "pending"
                      /\ inbox'[n][msg].attempts = inbox[n][msg].attempts /\ ~ inbox'[n][msg].live
    BY DEF OtherMail
  <1>3. n = m /\ msg = CancelRequest(t)
    BY <1>1, <1>2, SentIs
  <1>4. inbox[m][msg].status = "absent"
    BY <1>1, <1>2, <1>3, SentIs
  <1> QED
    BY <1>1, <1>2, <1>3, <1>4, SentIs, Kinds

\* A tool call other than the start of a task.
LEMMA LeadFirst ==
  ASSUME TypeInv, TypeInv', FirstOK, FirstRun, LeadStep, ~ StartResearchTask
  PROVE  FirstOK'
  <1>0. RegOK /\ MailOK /\ LeadKnown
    BY TypeParts DEF TypeInv, Refs
  <1>1. UNCHANGED <<loops, desc, exec, disp, boots>>
    BY LeadPlace
  <1>2. ~ RestorePending
    BY DEF FirstRun, Serving, RestorePending
  <1>3. CASE Submit \/ SaveCancel
    <2>1. reg' = reg /\ inbox' = inbox
      BY <1>3 DEF Submit, SaveCancel
    <2>2. Alike /\ OtherMail
      BY <1>0, <2>1, SameAlike, SameMail
    <2> QED
      BY <1>1, <2>1, <2>2, FirstKept DEF FirstOK, Busy
  <1>4. CASE RecordCancel
    <2>1. PICK u \in Tasks : u = lead.task /\ Known(u)
      BY <1>0, <1>4 DEF LeadKnown, Known, RecordCancel
    <2>2. reg' = [reg EXCEPT ![u].status = "cancelled"] /\ inbox' = inbox
      BY <1>4, <2>1 DEF RecordCancel, durable
    <2>3. "cancelled" \in TaskStatus \ {"absent"}
      BY DEF TaskStatus, Terminal
    <2>4. Alike /\ OtherMail
      BY <1>0, <2>1, <2>2, <2>3, StatusAlike, SameMail
    <2>5. \A t \in Tasks : reg'[t].status = "pending" => reg[t].status = "pending"
      BY <1>0, <2>1, <2>2, <2>3, StatusIs
    <2> QED
      BY <1>1, <2>4, <2>5, FirstKept
  <1>5. ASSUME NEW t \in Tasks, CancelResearchTask(t) PROVE FirstOK'
    <2>1. reg[t].mate \in Mates /\ reg' = reg /\ Send(reg[t].mate, CancelRequest(t))
      BY <1>0, <1>5 DEF CancelResearchTask, RegOK, Records
    <2>2. Alike /\ OtherMail
      BY <1>0, <2>1, SameAlike, CancelMail
    <2> QED
      BY <1>1, <2>1, <2>2, FirstKept
  <1> QED
    BY <1>2, <1>3, <1>4, <1>5 DEF LeadStep

LEMMA ExecuteFirst ==
  ASSUME TypeInv, FirstOK, NEW m \in Mates, Execute(m) \/ Checkpoint(m)
  PROVE  FirstOK'
  <1>0. RegOK /\ MateOK /\ NoExecutor.pc = "none"
    BY TypeParts DEF TypeInv, NoExecutor
  <1>1. UNCHANGED <<desc, disp, loops, boots, inbox>>
    BY DEF Execute, Begin, FirstCheckpoint, GiveUp, Finish, Fail, ReportEnd, Checkpoint
  <1>2. PICK u \in Tasks : u = exec[m].task /\ Known(u)
    BY DoingKnown DEF Execute, Begin, FirstCheckpoint, GiveUp, Finish, Fail, ReportEnd, Checkpoint, Doing
  <1>3. PICK pc \in {"saving", "researching", "ending", "done"} :
          /\ exec[m].pc # "none" /\ exec' = Moved(m, pc)
          /\ exec[m].pc # "created" \/ Begin(m)
    <2>1. CASE Checkpoint(m)
      <3>1. exec' = exec /\ exec[m].pc = "researching"
        BY <2>1 DEF Checkpoint, Doing
      <3>2. exec' = Moved(m, "researching")
        BY <1>0, <3>1 DEF Moved, MateOK
      <3> QED
        BY <3>1, <3>2
    <2>2. CASE Execute(m)
      BY <2>2 DEF Execute, Begin, FirstCheckpoint, GiveUp, Finish, Fail, ReportEnd, Doing
    <2> QED
      BY <2>1, <2>2
  <1>4. /\ \A n \in Mates : n # m => exec'[n] = exec[n]
        /\ exec'[m].task = u /\ exec'[m].pc = pc
    BY <1>0, <1>2, <1>3 DEF Moved, MateOK
  <1>5. /\ Alike
        /\ \A t \in Tasks : reg'[t].status = "pending" => reg[t].status = "pending"
        /\ Begin(m) => reg'[u].status # "pending"
    <2>1. CASE reg' = reg /\ ~ Begin(m)
      BY <1>0, <2>1, SameAlike
    <2>2. ASSUME NEW s \in {"running", "completed", "failed"}, SetStatus(m, s)
          PROVE  /\ Alike
                 /\ \A t \in Tasks : reg'[t].status = "pending" => reg[t].status = "pending"
                 /\ reg'[u].status # "pending"
      <3>1. s \in TaskStatus \ {"absent", "pending"}
        BY DEF TaskStatus, Terminal
      <3> QED
        BY <1>0, <1>2, <2>2, <3>1, StatusIs, StatusAlike DEF SetStatus
    <2>3. \/ reg' = reg /\ ~ Begin(m)
          \/ \E s \in {"running", "completed", "failed"} : SetStatus(m, s)
      <3>1. CASE Begin(m)
        BY <3>1 DEF Begin
      <3>2. CASE ~ Begin(m)
        BY <3>2 DEF Execute, FirstCheckpoint, GiveUp, Finish, Fail, ReportEnd, Checkpoint, SaveCheckpoint
      <3> QED
        BY <3>1, <3>2
    <2> QED
      BY <2>1, <2>2, <2>3
  <1>6. OtherMail
    BY <1>1, SameMail
  <1>7. \A n \in Mates : /\ exec'[n].task = exec[n].task
                         /\ exec'[n] = NoExecutor <=> exec[n] = NoExecutor
                         /\ exec'[n].pc # "created" =>
                              exec[n].pc # "created" \/ reg'[exec[n].task].status # "pending"
    BY <1>0, <1>2, <1>3, <1>4, <1>5
  <1> QED
    BY <1>1, <1>5, <1>6, <1>7, FirstKept

\* A new record has no teammate and no mail.
LEMMA StartFirst ==
  ASSUME TypeInv, FirstOK, StartResearchTask
  PROVE  FirstOK'
  <1>0. /\ FreshMail /\ OwnMail /\ OneAttempt /\ Reserved /\ Busy /\ HeldMail /\ Reaches
        /\ RegOK /\ ExecKnown
    BY TypeParts DEF FirstOK, TypeInv, Refs
  <1>1. PICK u \in Tasks : reg[u].status = "absent" /\ reg' = [reg EXCEPT ![u] = PendingRecord(0)]
    <2>1. First(Unused) \in Unused
      BY FirstIn, Sizes DEF StartResearchTask, Unused
    <2> QED
      BY <2>1 DEF StartResearchTask, Unused
  <1>2. /\ UNCHANGED <<loops, desc, exec, disp, inbox, boots>>
        /\ reg'[u].mate = None /\ reg'[u].attempt = 0 /\ reg'[u].status = "pending"
        /\ \A t \in Tasks : t # u => reg'[t] = reg[t]
    BY <1>0, <1>1 DEF StartResearchTask, durable, RegOK, PendingRecord
  <1>3. \A m \in Mates : exec[m].task # u \/ exec[m] = NoExecutor
    BY <1>0, <1>1 DEF ExecKnown, Known
  <1>4. \A m \in Mates, n \in Boots : inbox[m][Assignment(u, n)].status = "absent"
    <2> SUFFICES ASSUME NEW m \in Mates, NEW n \in Boots, inbox[m][Assignment(u, n)].status # "absent"
                 PROVE  FALSE
      OBVIOUS
    <2>1. reg[u].mate = m
      BY <1>0 DEF OwnMail
    <2>2. reg[u].mate = None
      BY <1>0, <1>1 DEF OneAttempt
    <2> QED
      BY <2>1, <2>2, Sizes
  <1>5. FreshMail' /\ OneAttempt'
    BY <1>0, <1>2 DEF FreshMail, OneAttempt
  <1>6. OwnMail'
    BY <1>0, <1>2, <1>4 DEF OwnMail
  <1>7. Reserved'
    BY <1>0, <1>2 DEF Reserved
  <1>8. Busy'
    <2>1. \A m \in Mates : exec[m] # NoExecutor => exec[m].task \in Tasks /\ exec[m].task # u
      BY <1>0, <1>3 DEF ExecKnown, Known
    <2> QED
      BY <1>0, <1>2, <2>1 DEF Busy
  <1>9. HeldMail'
    <2>1. \A m \in Mates, t \in Tasks, n \in Boots :
            inbox[m][Assignment(t, n)].status = "processing" => t # u
      BY <1>4
    <2> QED
      BY <1>0, <1>2, <2>1 DEF HeldMail
  <1>10. Reaches'
    <2> SUFFICES ASSUME NEW t \in Tasks PROVE ReachesOf(t)'
      BY DEF Reaches
    <2>1. CASE t = u
      BY <1>2, <2>1 DEF ReachesOf
    <2>2. CASE t # u
      BY <1>0, <1>2, <2>2 DEF Reaches, ReachesOf, Held
    <2> QED
      BY <2>1, <2>2
  <1> QED
    BY <1>5, <1>6, <1>7, <1>8, <1>9, <1>10 DEF FirstOK

\* What a record keeps while a loop handles mail.
LEMMA LoopAlike ==
  ASSUME TypeInv, NEW m \in Mates, Loop(m)
  PROVE  /\ Alike /\ \A t \in Tasks : reg'[t].status = reg[t].status
         /\ UNCHANGED <<disp, lead, boots>>
         /\ \A n \in Mates : n # m => desc'[n] = desc[n]
  <1>0. RegOK /\ MateOK
    BY TypeParts DEF TypeInv
  <1>1. \/ reg' = reg \/ \E ts : Flag(ts)
    BY DEF Loop, Take, Open, Ack, Leave, Reap
  <1>2. Alike /\ \A t \in Tasks : reg'[t].status = reg[t].status
    BY <1>0, <1>1, FlagIs, FlagAlike, SameAlike
  <1> QED
    BY <1>0, <1>2 DEF Loop, Take, Open, Ack, Leave, Reap, MateOK

LEMMA TakeFirst ==
  ASSUME TypeInv, FirstOK, boots = 1, NEW m \in Mates, Take(m)
  PROVE  FirstOK'
  <1>0. /\ FreshMail /\ OwnMail /\ OneAttempt /\ Reserved /\ Busy /\ HeldMail /\ Reaches
        /\ RegOK /\ MateOK /\ MailOK /\ ExecKnown /\ boots \in Boots
    BY TypeParts DEF FirstOK, TypeInv, Refs, CountOK
  <1>1. /\ Alike /\ \A t \in Tasks : reg'[t].status = reg[t].status
        /\ UNCHANGED <<disp, boots, exec>>
        /\ \A n \in Mates : n # m => desc'[n] = desc[n] /\ loops'[n] = loops[n] /\ inbox'[n] = inbox[n]
    BY LoopAlike, OwnPlace DEF Loop, Take
  <1>2. /\ inbox[m] \in Box /\ inbox'[m] = Claimed(inbox[m], boots) /\ loops[m] = "poll"
        /\ loops'[m] \in {"opening", "acking"}
    BY <1>0, InboxIs DEF Take, MailOK, MateOK
  \* What is pending is claimed, and the rest is left.
  <1>3. ASSUME NEW msg \in Messages
        PROVE  /\ inbox[m][msg].status = "pending" =>
                    /\ inbox'[m][msg].status = "processing" /\ inbox'[m][msg].owner = 1 /\ inbox'[m][msg].live
                    /\ msg \in Claimable(inbox[m])
               /\ inbox[m][msg].status # "pending" => inbox'[m][msg] = inbox[m][msg]
    <2>1. inbox[m][msg] \in Message(Boots) /\ FreshEntry(inbox[m][msg])
      BY <1>0, <1>2 DEF Box, FreshMail
    <2>2. Recovered(inbox[m][msg]).status = "pending" => msg \in Claimable(inbox[m])
      BY <1>2 DEF Claimable, Box
    <2> QED
      BY <1>0, <1>2, <2>1, <2>2, FreshIs, ClaimedIs
  <1>4. FreshMail'
    <2> SUFFICES ASSUME NEW n \in Mates, NEW msg \in Messages PROVE FreshEntry(inbox'[n][msg])
      BY DEF FreshMail, FreshEntry
    <2>1. FreshEntry(inbox[n][msg])
      BY <1>0 DEF FreshMail
    <2> QED
      BY <1>1, <1>3, <2>1 DEF FreshEntry
  <1>5. OwnMail'
    <2> SUFFICES ASSUME NEW n \in Mates, NEW t \in Tasks, NEW k \in Boots,
                        inbox'[n][Assignment(t, k)].status # "absent"
                 PROVE  reg'[t].mate = n /\ k = reg'[t].attempt /\ t # disp'.task
      BY DEF OwnMail, Assignment
    <2>1. Assignment(t, k) \in Messages
      BY Kinds
    <2>2. inbox[n][Assignment(t, k)].status # "absent"
      BY <1>1, <1>3, <2>1
    <2> QED
      BY <1>0, <1>1, <2>2 DEF OwnMail, Alike
  <1>6. OneAttempt'
    BY <1>0, <1>1 DEF OneAttempt, Alike
  \* The assignment that starts an executor is of the descriptor's task.
  <1>7. ASSUME NEW msg \in Claimable(inbox[m]), Startable(msg)
        PROVE  desc[m].task = TaskOf(msg) /\ desc[m].status # "idle"
    <2>1. msg \in Messages /\ Kind(msg) = "task_assignment" /\ inbox[m][msg].status = "pending"
      <3>1. msg \in Messages /\ Recovered(inbox[m][msg]).status = "pending"
        BY <1>2, ClaimableIs
      <3>2. inbox[m][msg] \in Message(Boots) /\ FreshEntry(inbox[m][msg])
        BY <1>0, <3>1 DEF FreshMail, MailOK
      <3> QED
        BY <1>7, <3>1, <3>2, FreshIs DEF Startable
    <2>2. PICK k \in Boots : TaskOf(msg) \in Tasks /\ msg = Assignment(TaskOf(msg), k)
      BY <2>1, Kinds
    <2>3. PICK t \in Tasks : t = TaskOf(msg)
      BY <2>2
    <2>4. reg[t].mate = m
      <3>1. inbox[m][Assignment(t, k)].status # "absent"
        BY <2>1, <2>2, <2>3
      <3> QED
        BY <1>0, <3>1 DEF OwnMail
    <2>5. reg[t].status = "pending"
      BY <1>7, <2>3 DEF Startable
    <2> QED
      BY <1>0, <2>3, <2>4, <2>5, Sizes DEF Reserved
  <1>8. /\ desc'[m].task = desc[m].task
        /\ desc'[m].status = "idle" => desc[m].status = "idle" /\ loops'[m] # "opening"
        /\ desc[m].status = "idle" => desc'[m].status = "idle"
        /\ loops'[m] = "acking" => exec[m] # NoExecutor \/ \A msg \in Claimable(inbox[m]) : ~ Startable(msg)
    <2>1. CASE \E first \in Claimable(inbox[m]) :
                 /\ Startable(first) /\ desc' = [desc EXCEPT ![m] = [status |-> "busy", task |-> TaskOf(first)]]
                 /\ loops' = [loops EXCEPT ![m] = "opening"]
      BY <1>0, <1>7, <2>1 DEF MateOK
    <2>2. CASE desc' = desc /\ loops' = [loops EXCEPT ![m] = "acking"]
               /\ (exec[m] # NoExecutor \/ \A msg \in Claimable(inbox[m]) : ~ Startable(msg))
      BY <1>0, <2>2 DEF MateOK
    <2> QED
      BY <2>1, <2>2 DEF Take
  <1>9. Reserved'
    <2> SUFFICES ASSUME NEW t \in Tasks, reg'[t].status = "pending", reg'[t].mate # None
                 PROVE  desc'[reg'[t].mate].task = t /\ desc'[reg'[t].mate].status # "idle"
      BY DEF Reserved
    <2>1. /\ reg[t].mate = reg'[t].mate /\ reg[t].mate \in Mates
          /\ desc[reg[t].mate].task = t /\ desc[reg[t].mate].status # "idle"
      BY <1>0, <1>1 DEF Reserved, Alike, RegOK, Records
    <2> QED
      BY <1>1, <1>8, <2>1
  <1>10. Busy'
    <2> SUFFICES ASSUME NEW n \in Mates
                 PROVE  /\ loops'[n] = "unborn" => desc'[n].status = "idle"
                        /\ desc'[n].status = "idle" => exec'[n] = NoExecutor /\ loops'[n] # "opening"
                        /\ exec'[n] # NoExecutor =>
                             /\ desc'[n].task = exec'[n].task
                             /\ exec'[n].pc # "created" => reg'[exec'[n].task].status # "pending"
      BY DEF Busy
    <2>1. exec[n] # NoExecutor => exec[n].task \in Tasks
      BY <1>0 DEF ExecKnown, Known
    <2> QED
      BY <1>0, <1>1, <1>2, <1>8, <2>1 DEF Busy
  <1>11. HeldMail'
    <2>1. ASSUME NEW n \in Mates, n # m
          PROVE  /\ loops'[n] \notin {"opening", "acking"} => \A msg \in Messages : inbox'[n][msg].status # "processing"
                 /\ loops'[n] = "acking" => \A t \in Tasks : \A k \in Boots :
                      inbox'[n][Assignment(t, k)].status = "processing" /\ reg'[t].status = "pending"
                        => exec'[n].task = t
                 /\ inbox'[n][ShutdownRequest].status = "absent"
      BY <1>0, <1>1, <2>1 DEF HeldMail
    <2>2. ASSUME loops'[m] = "acking", NEW t \in Tasks, NEW k \in Boots,
                 inbox'[m][Assignment(t, k)].status = "processing", reg'[t].status = "pending"
          PROVE  exec'[m].task = t
      <3>1. Assignment(t, k) \in Messages /\ Kind(Assignment(t, k)) = "task_assignment" /\ TaskOf(Assignment(t, k)) = t
        BY Kinds
      <3>2. inbox[m][Assignment(t, k)].status # "processing"
        BY <1>0, <1>2, <3>1 DEF HeldMail
      <3>3. inbox[m][Assignment(t, k)].status = "pending" /\ Assignment(t, k) \in Claimable(inbox[m])
        BY <1>3, <2>2, <3>1, <3>2
      <3>4. Startable(Assignment(t, k))
        BY <1>1, <2>2, <3>1 DEF Startable
      <3>5. exec[m] # NoExecutor /\ desc[m].task = t
        BY <1>7, <1>8, <2>2, <3>1, <3>3, <3>4
      <3> QED
        BY <1>0, <1>1, <3>5 DEF Busy
    <2>3. inbox'[m][ShutdownRequest].status = "absent"
      <3>1. inbox[m][ShutdownRequest].status = "absent"
        BY <1>0 DEF HeldMail
      <3> QED
        BY <1>3, <3>1, Kinds
    <2> QED
      BY <1>2, <2>1, <2>2, <2>3 DEF HeldMail
  <1>12. Reaches'
    <2> SUFFICES ASSUME NEW t \in Tasks PROVE ReachesOf(t)'
      BY DEF Reaches
    <2> SUFFICES ASSUME reg'[t].status = "pending", reg'[t].mate # None
                 PROVE  \/ disp'.task = t
                        \/ inbox'[reg'[t].mate][Assignment(t, reg'[t].attempt)].status = "pending"
                        \/ Held(reg[t].mate, Assignment(t, reg[t].attempt))'
                        \/ exec'[reg'[t].mate].task = t
      BY DEF ReachesOf
    <2>1. /\ reg'[t].mate = reg[t].mate /\ reg'[t].attempt = reg[t].attempt /\ reg[t].attempt = 1
          /\ reg[t].mate \in Mates /\ ReachesOf(t)
      BY <1>0, <1>1 DEF Reaches, OneAttempt, Alike, RegOK, Records
    <2>2. Assignment(t, 1) \in Messages
      BY Kinds, Sizes
    <2>3. CASE disp.task = t \/ exec[reg[t].mate].task = t
      BY <1>1, <2>1, <2>3
    <2>4. CASE reg[t].mate # m
      BY <1>1, <2>1, <2>4 DEF ReachesOf, Held
    <2>5. CASE /\ reg[t].mate = m
               /\ \/ inbox[m][Assignment(t, 1)].status = "pending"
                  \/ inbox[m][Assignment(t, 1)].status = "processing"
      <3>1. inbox'[m][Assignment(t, 1)].status = "processing" /\ inbox'[m][Assignment(t, 1)].owner = 1
        <4>1. FreshEntry(inbox[m][Assignment(t, 1)])
          BY <1>0, <2>2 DEF FreshMail
        <4> QED
          BY <1>3, <2>2, <2>5, <4>1 DEF FreshEntry
      <3> QED
        BY <1>1, <2>1, <2>5, <3>1 DEF Held
    <2> QED
      BY <1>1, <2>1, <2>3, <2>4, <2>5 DEF ReachesOf, Held
  <1> QED
    BY <1>4, <1>5, <1>6, <1>9, <1>10, <1>11, <1>12 DEF FirstOK

\* Mail that is left or acknowledged by its teammate.
LEMMA MailFirst ==
  ASSUME FirstOK, Alike, UNCHANGED <<disp, boots>>,
         \A n \in Mates : \A msg \in Messages :
           \/ inbox'[n][msg] = inbox[n][msg]
           \/ inbox[n][msg].status = "processing" /\ inbox'[n][msg].status = "acked" /\ ~ inbox'[n][msg].live
  PROVE  FreshMail' /\ OwnMail' /\ OneAttempt'
  <1>0. FreshMail /\ OwnMail /\ OneAttempt
    BY DEF FirstOK
  <1>1. FreshMail'
    BY <1>0 DEF FreshMail, FreshEntry
  <1>2. OwnMail'
    <2> SUFFICES ASSUME NEW n \in Mates, NEW t \in Tasks, NEW k \in Boots,
                        inbox'[n][Assignment(t, k)].status # "absent"
                 PROVE  reg'[t].mate = n /\ k = reg'[t].attempt /\ t # disp'.task
      BY DEF OwnMail, Assignment
    <2>1. Assignment(t, k) \in Messages
      BY Kinds
    <2>2. inbox[n][Assignment(t, k)].status # "absent"
      BY <2>1
    <2> QED
      BY <1>0, <2>2 DEF OwnMail, Alike
  <1>3. OneAttempt'
    BY <1>0 DEF OneAttempt, Alike
  <1> QED
    BY <1>1, <1>2, <1>3

LEMMA OpenFirst ==
  ASSUME TypeInv, NoLoopNoExecutor, FirstOK, NEW m \in Mates, Open(m)
  PROVE  FirstOK'
  <1>0. /\ FreshMail /\ OwnMail /\ OneAttempt /\ Reserved /\ Busy /\ HeldMail /\ Reaches
        /\ RegOK /\ MateOK /\ ExecKnown /\ OpenKnown
    BY TypeParts DEF FirstOK, TypeInv, Refs
  <1>1. /\ UNCHANGED <<reg, desc, disp, inbox, boots>> /\ loops[m] = "opening" /\ loops'[m] = "acking"
        /\ exec'[m].task = desc[m].task /\ exec'[m].pc = "created" /\ exec[m] = NoExecutor
        /\ \A n \in Mates : n # m => exec'[n] = exec[n] /\ loops'[n] = loops[n]
    BY <1>0 DEF Open, durable, MateOK, NoLoopNoExecutor
  <1>2. FreshMail' /\ OwnMail' /\ OneAttempt'
    BY <1>0, <1>1, SameAlike, MailFirst
  <1>3. Reserved'
    BY <1>0, <1>1 DEF Reserved
  <1>4. Busy'
    <2>1. desc[m].status # "idle"
      BY <1>0, <1>1 DEF Busy
    <2> QED
      BY <1>0, <1>1, <2>1 DEF Busy
  <1>5. HeldMail'
    <2>1. ASSUME NEW t \in Tasks, NEW k \in Boots, inbox[m][Assignment(t, k)].status = "processing",
                 reg[t].status = "pending"
          PROVE  desc[m].task = t
      <3>1. reg[t].mate = m
        BY <1>0, <2>1 DEF OwnMail
      <3> QED
        BY <1>0, <2>1, <3>1, Sizes DEF Reserved
    <2> QED
      BY <1>0, <1>1, <2>1 DEF HeldMail
  <1>6. Reaches'
    <2> SUFFICES ASSUME NEW t \in Tasks PROVE ReachesOf(t)'
      BY DEF Reaches
    <2>1. exec[m].task # t
      BY <1>1, Sizes DEF NoExecutor
    <2> QED
      BY <1>0, <1>1, <2>1 DEF Reaches, ReachesOf, Held, RegOK, Records
  <1> QED
    BY <1>2, <1>3, <1>4, <1>5, <1>6 DEF FirstOK

LEMMA AckFirst ==
  ASSUME TypeInv, FirstOK, boots = 1, NEW m \in Mates, Ack(m)
  PROVE  FirstOK'
  <1>0. /\ FreshMail /\ OwnMail /\ OneAttempt /\ Reserved /\ Busy /\ HeldMail /\ Reaches
        /\ RegOK /\ MateOK /\ MailOK
    BY TypeParts DEF FirstOK, TypeInv, Refs
  <1>1. /\ UNCHANGED <<reg, desc, disp, exec, boots>> /\ loops[m] = "acking" /\ loops'[m] = "poll"
        /\ \A n \in Mates : n # m => inbox'[n] = inbox[n] /\ loops'[n] = loops[n]
        /\ inbox'[m] = Acked(inbox[m], {msg \in Messages : Held(m, msg)})
    BY <1>0 DEF Ack, Acknowledge, MateOK, MailOK
  <1>2. ASSUME NEW msg \in Messages
        PROVE  /\ inbox[m][msg].status = "processing" => inbox'[m][msg].status = "acked" /\ ~ inbox'[m][msg].live
               /\ inbox[m][msg].status # "processing" => inbox'[m][msg] = inbox[m][msg]
    <2>1. inbox[m] \in Box /\ FreshEntry(inbox[m][msg])
      BY <1>0, InboxIs DEF FreshMail
    <2>2. Held(m, msg) <=> inbox[m][msg].status = "processing"
      BY <2>1 DEF Held, FreshEntry
    <2>3. PICK ms : ms = {x \in Messages : Held(m, x)}
      OBVIOUS
    <2>4. inbox'[m] = Acked(inbox[m], ms) /\ (msg \in ms <=> Held(m, msg))
      BY <1>1, <2>3
    <2> QED
      BY <2>1, <2>2, <2>4, AckedIs
  <1>3. FreshMail' /\ OwnMail' /\ OneAttempt'
    <2>1. \A n \in Mates : \A msg \in Messages :
           \/ inbox'[n][msg] = inbox[n][msg]
           \/ inbox[n][msg].status = "processing" /\ inbox'[n][msg].status = "acked" /\ ~ inbox'[n][msg].live
      BY <1>1, <1>2
    <2> QED
      BY <1>0, <1>1, <2>1, SameAlike, MailFirst
  <1>4. Reserved'
    BY <1>0, <1>1 DEF Reserved
  <1>5. Busy'
    BY <1>0, <1>1 DEF Busy
  <1>6. HeldMail'
    <2>1. \A msg \in Messages : inbox'[m][msg].status # "processing"
      BY <1>2
    <2>2. inbox'[m][ShutdownRequest].status = "absent"
      BY <1>0, <1>2, Kinds DEF HeldMail
    <2> QED
      BY <1>0, <1>1, <2>1, <2>2 DEF HeldMail
  <1>7. Reaches'
    <2> SUFFICES ASSUME NEW t \in Tasks PROVE ReachesOf(t)'
      BY DEF Reaches
    <2> SUFFICES ASSUME reg[t].status = "pending", reg[t].mate # None
                 PROVE  \/ disp.task = t
                        \/ inbox'[reg[t].mate][Assignment(t, reg[t].attempt)].status = "pending"
                        \/ Held(reg[t].mate, Assignment(t, reg[t].attempt))'
                        \/ exec[reg[t].mate].task = t
      BY <1>1 DEF ReachesOf
    <2>1. ReachesOf(t) /\ reg[t].attempt = 1 /\ reg[t].mate \in Mates /\ Assignment(t, 1) \in Messages
      BY <1>0, Kinds, Sizes DEF Reaches, OneAttempt, RegOK, Records
    <2>2. CASE reg[t].mate # m
      BY <1>1, <2>1, <2>2 DEF ReachesOf, Held
    <2>3. CASE reg[t].mate = m /\ inbox[m][Assignment(t, 1)].status = "processing"
      BY <1>0, <1>1, <2>1, <2>3, Sizes DEF HeldMail
    <2>4. CASE reg[t].mate = m /\ inbox[m][Assignment(t, 1)].status # "processing"
      BY <1>1, <1>2, <2>1, <2>4 DEF ReachesOf, Held
    <2> QED
      BY <2>2, <2>3, <2>4
  <1> QED
    BY <1>3, <1>4, <1>5, <1>6, <1>7 DEF FirstOK

LEMMA ReapFirst ==
  ASSUME TypeInv, FirstOK, NEW m \in Mates, Reap(m)
  PROVE  FirstOK'
  <1>0. /\ FreshMail /\ OwnMail /\ OneAttempt /\ Reserved /\ Busy /\ HeldMail /\ Reaches
        /\ RegOK /\ MateOK /\ NoExecutor.pc = "none"
    BY TypeParts DEF FirstOK, TypeInv, NoExecutor
  <1>1. /\ UNCHANGED <<reg, disp, inbox, boots>> /\ loops[m] = "poll" /\ loops'[m] = "dispatch"
        /\ exec[m].pc = "done" /\ exec[m] # NoExecutor /\ exec'[m] = NoExecutor /\ desc'[m] = Idle
        /\ \A n \in Mates : n # m => exec'[n] = exec[n] /\ loops'[n] = loops[n] /\ desc'[n] = desc[n]
    BY <1>0 DEF Reap, durable, MateOK
  <1>2. FreshMail' /\ OwnMail' /\ OneAttempt'
    BY <1>0, <1>1, SameAlike, MailFirst
  <1>3. ASSUME NEW t \in Tasks, reg[t].status = "pending", reg[t].mate # None
        PROVE  reg[t].mate \in Mates \ {m}
    <2>1. reg[t].mate \in Mates /\ desc[reg[t].mate].task = t
      BY <1>0, <1>3 DEF Reserved, RegOK, Records
    <2>2. desc[m].task = exec[m].task /\ reg[exec[m].task].status # "pending"
      BY <1>0, <1>1 DEF Busy
    <2> QED
      BY <1>3, <2>1, <2>2
  <1>4. Reserved'
    BY <1>0, <1>1, <1>3 DEF Reserved
  <1>5. Busy'
    BY <1>0, <1>1 DEF Busy
  <1>6. HeldMail'
    BY <1>0, <1>1 DEF HeldMail
  <1>7. Reaches'
    <2> SUFFICES ASSUME NEW t \in Tasks PROVE ReachesOf(t)'
      BY DEF Reaches
    <2> QED
      BY <1>0, <1>1, <1>3 DEF Reaches, ReachesOf, Held
  <1> QED
    BY <1>2, <1>4, <1>5, <1>6, <1>7 DEF FirstOK

\* A dispatch sends the assignment of the task it holds, if it holds one.
SentMail ==
  /\ \A n \in Mates : \A msg \in Messages :
       \/ inbox'[n][msg] = inbox[n][msg]
       \/ /\ disp.task \in Tasks /\ n = reg[disp.task].mate
          /\ msg = Assignment(disp.task, reg[disp.task].attempt)
          /\ inbox[n][msg].status = "absent" /\ inbox'[n][msg].status = "pending"
          /\ inbox'[n][msg].attempts = inbox[n][msg].attempts /\ ~ inbox'[n][msg].live
  /\ disp.task \in Tasks =>
       /\ reg[disp.task].mate \in Mates /\ reg[disp.task].attempt \in Boots
       /\ inbox'[reg[disp.task].mate][Assignment(disp.task, reg[disp.task].attempt)].status = "pending"

\* What holds of the mail whatever the dispatch does next.
LEMMA SentFirst ==
  ASSUME FirstOK, SentMail, MailOK
  PROVE  /\ FreshMail'
         /\ \A n \in Mates : inbox'[n][ShutdownRequest].status = "absent"
         /\ \A n \in Mates : \A msg \in Messages :
              inbox'[n][msg].status = "processing" => inbox[n][msg].status = "processing"
         /\ \A n \in Mates : \A t \in Tasks : \A k \in Boots :
              inbox'[n][Assignment(t, k)].status # "absent" => reg[t].mate = n /\ k = reg[t].attempt
         /\ \A n \in Mates : \A t \in Tasks \ {disp.task} : \A k \in Boots :
              inbox'[n][Assignment(t, k)] = inbox[n][Assignment(t, k)]
  <1>0. FreshMail /\ OwnMail /\ HeldMail
    BY DEF FirstOK
  <1>1. FreshMail'
    <2> SUFFICES ASSUME NEW n \in Mates, NEW msg \in Messages PROVE FreshEntry(inbox'[n][msg])
      BY DEF FreshMail, FreshEntry
    <2>1. FreshEntry(inbox[n][msg])
      BY <1>0 DEF FreshMail
    <2> QED
      BY <2>1 DEF FreshEntry, SentMail
  <1>2. ASSUME NEW n \in Mates PROVE inbox'[n][ShutdownRequest].status = "absent"
    <2>1. inbox'[n][ShutdownRequest] = inbox[n][ShutdownRequest]
      BY Kinds DEF SentMail
    <2> QED
      BY <1>0, <2>1 DEF HeldMail
  <1>3. \A n \in Mates : \A msg \in Messages :
          inbox'[n][msg].status = "processing" => inbox[n][msg].status = "processing"
    BY DEF SentMail
  <1>4. ASSUME NEW n \in Mates, NEW t \in Tasks, NEW k \in Boots
        PROVE  \/ inbox'[n][Assignment(t, k)] = inbox[n][Assignment(t, k)]
               \/ t = disp.task /\ n = reg[t].mate /\ k = reg[t].attempt
    <2>1. Assignment(t, k) \in Messages
      BY Kinds
    <2>2. CASE inbox'[n][Assignment(t, k)] # inbox[n][Assignment(t, k)]
      <3>1. /\ disp.task \in Tasks /\ reg[disp.task].attempt \in Boots
            /\ n = reg[disp.task].mate /\ Assignment(t, k) = Assignment(disp.task, reg[disp.task].attempt)
        BY <2>1, <2>2 DEF SentMail
      <3>2. t = disp.task /\ k = reg[disp.task].attempt
        BY <3>1, Kinds
      <3> QED
        BY <3>1, <3>2
    <2> QED
      BY <2>2
  <1>5. ASSUME NEW n \in Mates, NEW t \in Tasks, NEW k \in Boots,
               inbox'[n][Assignment(t, k)].status # "absent"
        PROVE  reg[t].mate = n /\ k = reg[t].attempt
    <2>1. CASE inbox'[n][Assignment(t, k)] = inbox[n][Assignment(t, k)]
      BY <1>0, <1>5, <2>1 DEF OwnMail
    <2> QED
      BY <1>4, <2>1
  <1> QED
    BY <1>1, <1>2, <1>3, <1>4, <1>5

LEMMA ReleaseFirst ==
  ASSUME TypeInv, FirstOK, boots = 1, NEW c, c \in Mates => loops[c] = "dispatch",
         c # Lead => c \in Mates,
         Release(c), UNCHANGED <<exec, boots>>, SentMail
  PROVE  FirstOK'
  <1>0. /\ OneAttempt /\ Reserved /\ Busy /\ HeldMail /\ Reaches /\ RegOK /\ MateOK /\ MailOK
    BY TypeParts DEF FirstOK, TypeInv
  <1>1. /\ disp' = NoDispatch /\ UNCHANGED <<reg, desc, snap>>
        /\ \A n \in Mates : loops'[n] = loops[n] \/ (loops'[n] = "poll" /\ loops[n] = "dispatch")
    BY <1>0 DEF Release, MateOK
  <1>2. /\ FreshMail'
        /\ \A n \in Mates : inbox'[n][ShutdownRequest].status = "absent"
        /\ \A n \in Mates : \A msg \in Messages :
             inbox'[n][msg].status = "processing" => inbox[n][msg].status = "processing"
        /\ \A n \in Mates : \A t \in Tasks : \A k \in Boots :
             inbox'[n][Assignment(t, k)].status # "absent" => reg[t].mate = n /\ k = reg[t].attempt
        /\ \A n \in Mates : \A t \in Tasks \ {disp.task} : \A k \in Boots :
             inbox'[n][Assignment(t, k)] = inbox[n][Assignment(t, k)]
    BY <1>0, SentFirst
  <1>3. OwnMail'
    BY <1>1, <1>2, Sizes DEF OwnMail, NoDispatch
  <1>4. OneAttempt' /\ Reserved' /\ Busy'
    BY <1>0, <1>1 DEF OneAttempt, Reserved, Busy
  <1>5. HeldMail'
    <2> SUFFICES ASSUME NEW n \in Mates
                 PROVE  /\ loops'[n] \notin {"opening", "acking"} =>
                             \A msg \in Messages : inbox'[n][msg].status # "processing"
                        /\ loops'[n] = "acking" => \A t \in Tasks : \A k \in Boots :
                             inbox'[n][Assignment(t, k)].status = "processing" /\ reg'[t].status = "pending"
                               => exec'[n].task = t
                        /\ inbox'[n][ShutdownRequest].status = "absent"
      BY DEF HeldMail, ShutdownRequest, Assignment
    <2>1. \A t \in Tasks, k \in Boots : Assignment(t, k) \in Messages
      BY Kinds
    <2> QED
      BY <1>0, <1>1, <1>2, <2>1 DEF HeldMail
  <1>6. Reaches'
    <2> SUFFICES ASSUME NEW t \in Tasks, reg[t].status = "pending", reg[t].mate # None
                 PROVE  \/ inbox'[reg[t].mate][Assignment(t, reg[t].attempt)].status = "pending"
                        \/ Held(reg[t].mate, Assignment(t, reg[t].attempt))'
                        \/ exec'[reg[t].mate].task = t
      BY <1>1 DEF Reaches, ReachesOf
    <2>1. ReachesOf(t) /\ reg[t].attempt = 1 /\ reg[t].mate \in Mates /\ 1 \in Boots
      BY <1>0, Sizes DEF Reaches, OneAttempt, RegOK, Records
    <2>2. CASE disp.task = t
      BY <2>2 DEF SentMail
    <2>3. CASE disp.task # t
      BY <1>1, <1>2, <2>1, <2>3 DEF ReachesOf, Held
    <2> QED
      BY <2>2, <2>3
  <1> QED
    BY <1>2, <1>3, <1>4, <1>5, <1>6 DEF FirstOK

LEMMA ReserveFirst ==
  ASSUME TypeInv, FirstOK, boots = 1, NEW c, NEW todo \in SUBSET Tasks,
         \A t \in todo : Known(t) /\ reg[t].mate = None,
         IdleRuntimes \cup Unborn # {}, Reserve(c, todo), UNCHANGED <<exec, boots>>, SentMail
  PROVE  FirstOK'
  <1>0. /\ OneAttempt /\ Reserved /\ Busy /\ HeldMail /\ Reaches /\ RegOK /\ MateOK /\ MailOK /\ ExecKnown
    BY TypeParts DEF FirstOK, TypeInv, Refs
  <1>1. PICK u \in todo, m \in Mates :
          /\ m = Chosen /\ ReservedFor(c, todo, u, m)
          /\ reg'[u] = Given(reg[u], m)
          /\ \A t \in Tasks : t # u => reg'[t] = reg[t]
    BY <1>0, ReserveIs
  <1>2. /\ u \in Tasks /\ Known(u) /\ reg[u].mate = None /\ reg[u].attempt = 0
        /\ reg'[u].status = reg[u].status /\ reg'[u].mate = m /\ reg'[u].attempt = 1
    BY <1>0, <1>1 DEF OneAttempt, Given
  <1>3. desc[m].status = "idle" /\ exec[m] = NoExecutor /\ loops[m] # "opening"
    <2>1. m \in IdleRuntimes \/ m \in Unborn
      BY <1>1, ChosenIs
    <2> QED
      BY <1>0, <2>1 DEF Busy, IdleRuntimes, Unborn
  <1>4. /\ disp'.task = u /\ desc'[m] = [status |-> "reserved", task |-> u]
        /\ \A n \in Mates : n # m => desc'[n] = desc[n] /\ loops'[n] = loops[n]
        /\ loops'[m] = loops[m] \/ (loops'[m] = "poll" /\ loops[m] = "unborn")
        /\ loops'[m] # "unborn"
    <2>1. disp'.task = u
      BY <1>1 DEF ReservedFor
    <2>2. /\ desc'[m] = [status |-> "reserved", task |-> u]
          /\ \A n \in Mates : n # m => desc'[n] = desc[n]
      BY <1>0, <1>1 DEF ReservedFor, MateOK
    <2>3. /\ \A n \in Mates : n # m => loops'[n] = loops[n]
          /\ loops'[m] = IF loops[m] = "unborn" THEN "poll" ELSE loops[m]
      BY <1>0, <1>1 DEF ReservedFor, MateOK
    <2> QED
      BY <2>1, <2>2, <2>3
  <1>5. /\ FreshMail'
        /\ \A n \in Mates : inbox'[n][ShutdownRequest].status = "absent"
        /\ \A n \in Mates : \A msg \in Messages :
             inbox'[n][msg].status = "processing" => inbox[n][msg].status = "processing"
        /\ \A n \in Mates : \A t \in Tasks : \A k \in Boots :
             inbox'[n][Assignment(t, k)].status # "absent" => reg[t].mate = n /\ k = reg[t].attempt
        /\ \A n \in Mates : \A t \in Tasks \ {disp.task} : \A k \in Boots :
             inbox'[n][Assignment(t, k)] = inbox[n][Assignment(t, k)]
    BY <1>0, SentFirst
  <1>6. OwnMail'
    <2> SUFFICES ASSUME NEW n \in Mates, NEW t \in Tasks, NEW k \in Boots,
                        inbox'[n][Assignment(t, k)].status # "absent"
                 PROVE  reg'[t].mate = n /\ k = reg'[t].attempt /\ t # disp'.task
      BY DEF OwnMail, Assignment
    <2>1. reg[t].mate = n /\ k = reg[t].attempt
      BY <1>5
    <2>2. t # u
      BY <1>2, <2>1, Sizes
    <2> QED
      BY <1>1, <1>4, <2>1, <2>2
  <1>7. OneAttempt'
    <2> SUFFICES ASSUME NEW t \in Tasks
                 PROVE  /\ reg'[t].attempt = IF reg'[t].mate = None THEN 0 ELSE 1
                        /\ reg'[t].status = "absent" => reg'[t].mate = None
      BY DEF OneAttempt
    <2>1. m # None
      BY Sizes
    <2> QED
      BY <1>0, <1>1, <1>2, <2>1 DEF OneAttempt, Known
  <1>8. Reserved'
    <2> SUFFICES ASSUME NEW t \in Tasks, reg'[t].status = "pending", reg'[t].mate # None
                 PROVE  desc'[reg'[t].mate].task = t /\ desc'[reg'[t].mate].status # "idle"
      BY DEF Reserved
    <2>1. CASE t = u
      BY <1>2, <1>4, <2>1
    <2>2. CASE t # u
      <3>1. /\ reg'[t] = reg[t] /\ reg[t].mate \in Mates
            /\ desc[reg[t].mate].task = t /\ desc[reg[t].mate].status # "idle"
        BY <1>0, <1>1, <2>2 DEF Reserved, RegOK, Records
      <3> QED
        BY <1>3, <1>4, <3>1
    <2> QED
      BY <2>1, <2>2
  <1>9. \A t \in Tasks : reg'[t].status = reg[t].status
    BY <1>1, <1>2
  <1>10. Busy'
    <2> SUFFICES ASSUME NEW n \in Mates
                 PROVE  /\ loops'[n] = "unborn" => desc'[n].status = "idle"
                        /\ desc'[n].status = "idle" => exec'[n] = NoExecutor /\ loops'[n] # "opening"
                        /\ exec'[n] # NoExecutor =>
                             /\ desc'[n].task = exec'[n].task
                             /\ exec'[n].pc # "created" => reg'[exec'[n].task].status # "pending"
      BY DEF Busy
    <2>1. CASE n = m
      BY <1>3, <1>4, <2>1
    <2>2. CASE n # m
      <3>1. exec[n] # NoExecutor => exec[n].task \in Tasks
        BY <1>0 DEF ExecKnown, Known
      <3> QED
        BY <1>0, <1>4, <1>9, <2>2, <3>1 DEF Busy
    <2> QED
      BY <2>1, <2>2
  <1>11. HeldMail'
    <2> SUFFICES ASSUME NEW n \in Mates
                 PROVE  /\ loops'[n] \notin {"opening", "acking"} =>
                             \A msg \in Messages : inbox'[n][msg].status # "processing"
                        /\ loops'[n] = "acking" => \A t \in Tasks : \A k \in Boots :
                             inbox'[n][Assignment(t, k)].status = "processing" /\ reg'[t].status = "pending"
                               => exec'[n].task = t
                        /\ inbox'[n][ShutdownRequest].status = "absent"
      BY DEF HeldMail, ShutdownRequest, Assignment
    <2>1. \A t \in Tasks, k \in Boots : Assignment(t, k) \in Messages
      BY Kinds
    <2>2. loops'[n] \notin {"opening", "acking"} <=> loops[n] \notin {"opening", "acking"}
      BY <1>4
    <2>3. loops'[n] = "acking" => loops[n] = "acking"
      BY <1>4
    <2> QED
      BY <1>0, <1>5, <1>9, <2>1, <2>2, <2>3 DEF HeldMail
  <1>12. Reaches'
    <2> SUFFICES ASSUME NEW t \in Tasks PROVE ReachesOf(t)'
      BY DEF Reaches
    <2>1. CASE t = u
      BY <1>4, <2>1 DEF ReachesOf
    <2>2. CASE t # u
      <3> SUFFICES ASSUME reg[t].status = "pending", reg[t].mate # None
                   PROVE  \/ inbox'[reg[t].mate][Assignment(t, reg[t].attempt)].status = "pending"
                          \/ Held(reg[t].mate, Assignment(t, reg[t].attempt))'
                          \/ exec'[reg[t].mate].task = t
        BY <1>1, <2>2 DEF ReachesOf, Held
      <3>1. ReachesOf(t) /\ reg[t].attempt = 1 /\ reg[t].mate \in Mates /\ 1 \in Boots /\ reg'[t] = reg[t]
        BY <1>0, <1>1, <2>2, Sizes DEF Reaches, OneAttempt, RegOK, Records
      <3>2. CASE disp.task = t
        BY <3>2 DEF SentMail
      <3>3. CASE disp.task # t
        BY <1>5, <3>1, <3>3 DEF ReachesOf, Held
      <3> QED
        BY <3>2, <3>3
    <2> QED
      BY <2>1, <2>2
  <1> QED
    BY <1>5, <1>6, <1>7, <1>8, <1>10, <1>11, <1>12 DEF FirstOK

LEMMA DispatchFirst ==
  ASSUME TypeInv, LockHeld, FirstOK, boots = 1, Dispatch
  PROVE  FirstOK'
  <1>0. UNCHANGED <<exec, boots>> /\ MailOK /\ FreshMail /\ OwnMail /\ OneAttempt
    BY DispatchPlace, TypeParts DEF TypeInv, FirstOK
  <1>1. \E c \in Mates \cup {Lead} : \E todo \in SUBSET Tasks :
          /\ \A t \in todo : Known(t) /\ reg[t].mate = None
          /\ c \in Mates => loops[c] = "dispatch"
          /\ GoOn(c, todo)
    <2>1. CASE AcquireLock
      <3>1. PICK c \in Mates \cup {Lead} :
              Waiting(c) /\ GoOn(c, {t \in Tasks : reg[t].status = "pending" /\ reg[t].mate = None})
        BY <2>1 DEF AcquireLock
      <3>2. PICK todo \in SUBSET Tasks :
              todo = {t \in Tasks : reg[t].status = "pending" /\ reg[t].mate = None}
        OBVIOUS
      <3>3. /\ GoOn(c, todo)
            /\ \A t \in todo : Known(t) /\ reg[t].mate = None
            /\ c \in Mates => loops[c] = "dispatch"
        BY <3>1, <3>2, Sizes DEF Known, Waiting
      <3> QED
        BY <3>3
    <2>2. CASE SendAssignment
      <3>1. /\ GoOn(disp.by, disp.todo) /\ disp.todo \in SUBSET Tasks /\ disp.by \in Mates \cup {Lead}
            /\ disp.by \in Mates => loops[disp.by] = "dispatch"
        BY <2>2, SendingIs DEF SendAssignment
      <3>2. \A t \in disp.todo : Known(t) /\ reg[t].mate = None
        BY <2>2, SendingIs DEF SendAssignment
      <3> QED
        BY <2>2, <3>1, <3>2, SendingIs DEF SendAssignment
    <2> QED
      BY <2>1, <2>2 DEF Dispatch
  <1>2. SentMail
    <2>1. CASE AcquireLock
      BY <2>1, Sizes DEF AcquireLock, SentMail, NoDispatch
    <2>2. CASE SendAssignment
      <3>1. PICK t \in Tasks, m \in Mates, k \in Boots :
              t = disp.task /\ m = reg[t].mate /\ k = reg[t].attempt
        BY <2>2, SendingIs DEF SendAssignment
      <3>2. Send(m, Assignment(t, k)) /\ Assignment(t, k) \in Messages
        BY <2>2, <3>1, Kinds DEF SendAssignment
      <3>3. inbox[m] \in Box /\ inbox[m][Assignment(t, k)].status = "absent"
        BY <1>0, <3>1, InboxIs DEF OwnMail
      <3>4. \A n \in Mates : inbox'[n] = IF n = m THEN Sent(inbox[m], Assignment(t, k)) ELSE inbox[n]
        BY <1>0, <3>2 DEF Send, MailOK
      <3>5. /\ inbox'[m][Assignment(t, k)].status = "pending"
            /\ inbox'[m][Assignment(t, k)].attempts = inbox[m][Assignment(t, k)].attempts
            /\ ~ inbox'[m][Assignment(t, k)].live
        BY <3>2, <3>3, <3>4, SentIs
      <3>6. \A n \in Mates, msg \in Messages : n # m \/ msg # Assignment(t, k) => inbox'[n][msg] = inbox[n][msg]
        BY <3>2, <3>3, <3>4, SentIs
      <3> QED
        BY <3>1, <3>3, <3>5, <3>6 DEF SentMail
    <2> QED
      BY <2>1, <2>2, <1>0 DEF Dispatch
  <1> QED
    <2>1. PICK c \in Mates \cup {Lead}, todo \in SUBSET Tasks :
          /\ \A t \in todo : Known(t) /\ reg[t].mate = None
          /\ c \in Mates => loops[c] = "dispatch"
          /\ GoOn(c, todo)
      BY <1>1
    <2>2. CASE todo = {} \/ IdleRuntimes \cup Unborn = {}
      BY <1>0, <1>2, <2>1, <2>2, ReleaseFirst DEF GoOn
    <2>3. CASE ~ (todo = {} \/ IdleRuntimes \cup Unborn = {})
      BY <1>0, <1>2, <2>1, <2>3, ReserveFirst DEF GoOn
    <2> QED
      BY <2>2, <2>3

LEMMA AssignStep ==
  ASSUME TypeInv, TypeInv', LockHeld, FollowInv, AssignInv, Next
  PROVE  AssignInv'
  <1>0. NoLoopNoExecutor /\ CountOK /\ boots \in Nat /\ boots >= 1
    BY TypeParts, Sizes DEF TypeInv, FollowInv, CountOK
  <1>1. \A m \in Mates : Loop(m) \/ Execute(m) \/ Checkpoint(m) \/ LapseClaim(m) =>
          UNCHANGED <<lead, boots>>
    BY OwnPlace DEF LapseClaim, memory
  <1>2. (lead.pc = "restoring" => boots > 1)'
    <2>1. CASE Resume
      BY <1>0, <2>1 DEF Resume
    <2>2. CASE ~ Resume
      <3>1. lead'.pc = "restoring" => lead' = lead /\ boots' = boots
        <4>1. CASE LeadStep \/ Dispatch
          BY <4>1, LeadPlace, DispatchPlace DEF At
        <4>2. CASE BeginShutdown \/ RequestShutdown \/ FinalizeSnapshots \/ Crash
          BY <4>2 DEF BeginShutdown, RequestShutdown, FinalizeSnapshots, Crash, At
        <4> QED
          BY <1>1, <2>2, <4>1, <4>2, Steps
      <3> QED
        BY <3>1 DEF AssignInv
    <2> QED
      BY <2>1, <2>2
  <1>3. ASSUME FirstRun' PROVE FirstOK'
    <2>1. ~ (BeginShutdown \/ RequestShutdown \/ FinalizeSnapshots \/ Crash)
      BY <1>3 DEF FirstRun, Serving, BeginShutdown, RequestShutdown, FinalizeSnapshots, Crash, At
    <2>2. ~ Resume
      BY <1>0, <1>3 DEF FirstRun, Resume
    <2>3. FirstRun /\ boots' = boots
      <3>1. CASE LeadStep
        <4>1. boots = 1 /\ boots' = boots
          BY <1>3, <3>1, LeadPlace DEF FirstRun
        <4>2. lead.pc # "restoring"
          BY <4>1 DEF AssignInv
        <4> QED
          BY <3>1, <4>1, <4>2, LeadPlace DEF FirstRun, Serving
      <3>2. CASE Dispatch
        BY <1>3, <3>2, DispatchPlace DEF FirstRun, Serving
      <3>3. CASE \E m \in Mates : Loop(m) \/ Execute(m) \/ Checkpoint(m) \/ LapseClaim(m)
        BY <1>1, <1>3, <3>3 DEF FirstRun, Serving
      <3> QED
        BY <2>1, <2>2, <3>1, <3>2, <3>3, Steps
    <2>4. FirstOK /\ boots = 1
      BY <2>3 DEF AssignInv, FirstRun
    <2>5. CASE LeadStep
      BY <2>3, <2>4, <2>5, StartFirst, LeadFirst
    <2>6. CASE Dispatch
      BY <2>4, <2>6, DispatchFirst
    <2>7. ASSUME NEW m \in Mates, Loop(m) PROVE FirstOK'
      <3>1. ~ Leave(m)
        <4>1. /\ inbox[m][ShutdownRequest].status = "absent" /\ FreshEntry(inbox[m][ShutdownRequest])
              /\ inbox[m][ShutdownRequest] \in Message(Boots) /\ inbox[m] \in Box
          BY <2>4, InboxIs, Kinds, TypeParts DEF FirstOK, HeldMail, FreshMail, TypeInv, MailOK
        <4>2. ShutdownRequest \notin Claimable(inbox[m])
          BY <4>1, FreshIs, ClaimableIs
        <4> QED
          BY <4>2 DEF Leave
      <3> QED
        BY <1>0, <2>4, <2>7, <3>1, TakeFirst, OpenFirst, AckFirst, ReapFirst DEF Loop
    <2>8. ASSUME NEW m \in Mates, Execute(m) \/ Checkpoint(m) PROVE FirstOK'
      BY <2>4, <2>8, ExecuteFirst
    <2>9. ASSUME NEW m \in Mates, LapseClaim(m) PROVE FALSE
      <3>1. PICK msg \in Messages : inbox[m][msg].live /\ inbox[m][msg].owner # boots
        BY <2>9 DEF LapseClaim
      <3> QED
        BY <2>4, <3>1 DEF FirstOK, FreshMail, FreshEntry
    <2> QED
      BY <2>1, <2>2, <2>5, <2>6, <2>7, <2>8, <2>9, Steps
  <1> QED
    BY <1>2, <1>3 DEF AssignInv

LEMMA AssignInit ==
  ASSUME Init PROVE AssignInv
  <1> USE Sizes DEF Init
  <1>1. \A m \in Mates : \A msg \in Messages : inbox[m][msg] = Absent
    OBVIOUS
  <1>2. FreshMail
    BY <1>1 DEF FreshMail, FreshEntry, Absent
  <1>3. \A m \in Mates, t \in Tasks, n \in Boots : inbox[m][Assignment(t, n)].status = "absent"
    BY <1>1, Kinds DEF Absent
  <1>4. OwnMail
    BY <1>3 DEF OwnMail
  <1>5. OneAttempt /\ Reserved /\ Reaches
    BY DEF OneAttempt, Reserved, Reaches, ReachesOf, NoRecord
  <1>6. Busy
    BY DEF Busy, Idle
  <1>7. HeldMail
    BY <1>1, Kinds DEF HeldMail, Absent
  <1>8. lead.pc # "restoring"
    BY DEF At
  <1> QED
    BY <1>2, <1>4, <1>5, <1>6, <1>7, <1>8 DEF AssignInv, FirstOK

\* A pending task that was given to a teammate is seen by it: its assignment is
\* about to be sent, in the inbox, claimed, or has become an executor.
THEOREM AssignmentAlwaysReaches == Spec => []AssignmentReachesTeammate
  <1>1. Init => AssignInv
    BY AssignInit
  <1>2. TypeInv /\ LockHeld /\ TypeInv' /\ FollowInv /\ AssignInv /\ [Next]_vars => AssignInv'
    <2>1. ASSUME AssignInv, UNCHANGED vars PROVE AssignInv'
      <3>1. UNCHANGED <<reg, loops, desc, exec, disp, lead, snap, ckpt, stored, inbox, posted, boots, faults>>
        BY <2>1 DEF vars, memory, durable
      <3>2. FirstRun' => FirstRun /\ (lead.pc = "restoring" => boots > 1)'
        BY <2>1, <3>1 DEF FirstRun, Serving, AssignInv
      <3>3. ASSUME FirstOK PROVE FirstOK'
        <4>1. FreshMail' /\ OwnMail' /\ OneAttempt'
          BY <3>1, <3>3 DEF FirstOK, FreshMail, FreshEntry, OwnMail, OneAttempt
        <4>2. Reserved' /\ Busy' /\ HeldMail'
          BY <3>1, <3>3 DEF FirstOK, Reserved, Busy, HeldMail
        <4>3. Reaches'
          BY <3>1, <3>3 DEF FirstOK, Reaches, ReachesOf, Held
        <4> QED
          BY <4>1, <4>2, <4>3 DEF FirstOK
      <3> QED
        BY <2>1, <3>1, <3>2, <3>3 DEF AssignInv
    <2> QED
      BY <2>1, AssignStep
  <1>3. AssignInv => AssignmentReachesTeammate
    BY DEF AssignInv, FirstRun, FirstOK, Reaches, ReachesOf, AssignmentReachesTeammate
  <1> QED
    BY <1>1, <1>2, <1>3, TypeAlways, FollowAlways, PTL DEF Spec
================================================================================
