------------------------------- MODULE RunFiles -------------------------------
(***************************************************************************)
(* The durable files of one run under runs_dir, and what the locked writes *)
(* of RunContextStore (run_context.py) and RunEventStore (events/public.py)*)
(* do to them: the manifest (a fast index), the journal (the source of     *)
(* truth for recovery) and the public event stream.                        *)
(*                                                                         *)
(* Of a manifest the operators keep what decides recovery.  The owner that *)
(* goes with its fence token is left out: a token names one owner          *)
(* (LeaderLease!EpochHasOneOwner).  A manifest is replaced atomically, so  *)
(* it is never found damaged and the rebuild from the journal is left out; *)
(* the journal is appended to in place, so its last line may be torn.      *)
(***************************************************************************)
EXTENDS Naturals, Sequences, FiniteSets

\* The pipeline of QueryEngine._stream_execution, by the checkpoints that
\* recovery tells apart: the value of next_stage after each stage.
Following ==
  [received |-> "research", research |-> "report", report |-> "completed"]

WorkStages == {"research", "report"}
NextStages == WorkStages \cup {"completed", "cancelled", "terminated"}

Statuses == {"absent", "running", "interrupted", "failed", "completed", "cancelled"}

\* frozen: metadata.runtime_config_frozen of the config it holds.
Manifest ==
  [status : Statuses, next : NextStages, seq : Nat, token : Nat, frozen : BOOLEAN]

NoManifest ==
  [status |-> "absent", next |-> "research", seq |-> 0, token |-> 0, frozen |-> FALSE]

\* The status _update_manifest settles for when "new" is requested.
StatusAfter(old, new, failedResume) ==
  IF \/ old \in {"completed", "cancelled"}
     \/ old = "failed" /\ ~(failedResume /\ new = "running")
    THEN old ELSE new

WithStatus(m, new) == [m EXCEPT !.status = StatusAfter(m.status, new, FALSE)]

------------------------------------------------------------------------------
(* The journal                                                              *)

\* A record names the stage and the next_stage of a checkpoint; a run_status
\* record has next_stage "none", and a torn last line the sequence number 0.
\* writer is the fence token of the engine that appended it.
JournalRecord ==
  [seq : Nat, stage : NextStages \cup {"received", "failed", "torn"},
   next : NextStages \cup {"none"}, writer : Nat]

TornLine == [seq |-> 0, stage |-> "torn", next |-> "none", writer |-> 0]

\* _read_records_unlocked cuts a torn last line off.
Repaired(j) ==
  IF j # <<>> /\ j[Len(j)].seq = 0 THEN SubSeq(j, 1, Len(j) - 1) ELSE j

\* Otherwise a line out of sequence makes the journal "journal_corrupted".
Readable(j) == \A i \in DOMAIN Repaired(j) : Repaired(j)[i].seq = i

\* Mutant: the sequence number comes from the manifest alone.
NextSeq_FromManifest(m, j) == m.seq + 1

\* The manifest may lag behind the journal by the record a crash left there.
NextSeq(m, j) == (IF m.seq > Len(j) THEN m.seq ELSE Len(j)) + 1

\* One line appended by RunContextStore.append.
Appended(m, j, stage, next, writer) ==
  LET whole == Repaired(j) IN
    Append(whole, [seq |-> NextSeq(m, whole), stage |-> stage, next |-> next, writer |-> writer])

Checkpoints(j) == {i \in DOMAIN j : j[i].next # "none"}

\* Mutant: the fast index decides where to resume.
ReplayNext_FromManifest(m, j) == m.next

\* Where replay() says to continue: the last checkpoint of the journal.
ReplayNext(m, j) ==
  LET cs == Checkpoints(Repaired(j)) IN
    IF cs = {} THEN m.next ELSE j[CHOOSE i \in cs : \A k \in cs : k <= i].next

------------------------------------------------------------------------------
(* The public event stream                                                  *)

TerminalEvents == {"run.completed", "run.failed", "run.cancelled"}

\* A dedupe_key: its fixed text, and the count in run:resumed:<count>.
Key(name, n) == [name |-> name, n |-> n]

KeyNames ==
  {"run:created", "run:started", "run:resumed", "run:terminal", "run:interrupted",
   "run:interrupted:startup", "run:interrupted:shutdown"}

PublicEvent ==
  [type : TerminalEvents \cup {"run.created", "run.started", "run.resumed", "run.interrupted"},
   key : [name : KeyNames, n : Nat], writer : Nat]

Ended(evs) == \E i \in DOMAIN evs : evs[i].type \in TerminalEvents

WithKey(evs, key) == {i \in DOMAIN evs : evs[i].key = key}

\* Mutant: the end of the stream is not looked at.
Accepts_AfterTerminal(evs, type, key) == TRUE

\* _append_sync neither raises terminal_event_conflict nor run_already_terminal.
Accepts(evs, type, key) ==
  IF WithKey(evs, key) # {}
    THEN \A i \in WithKey(evs, key) :
           evs[i].type = type \/ {evs[i].type, type} \cap TerminalEvents = {}
    ELSE ~Ended(evs)

\* The stream after an accepted append: a key seen before adds nothing.
Published(evs, type, key, writer) ==
  IF WithKey(evs, key) # {} THEN evs
  ELSE Append(evs, [type |-> type, key |-> key, writer |-> writer])

Resumes(evs) == Cardinality({i \in DOMAIN evs : evs[i].type = "run.resumed"})
==============================================================================
