---------------------------- MODULE ModelCircuit ----------------------------
(***************************************************************************)
(* models/circuit.py: the process-local circuit breakers in front of the   *)
(* model providers, and the callers that use them: the query loop          *)
(* (agents/query.py), invoke_with_model_fallback (models/fallback.py) and  *)
(* invoke_model_with_retry_observability (observability/core.py).          *)
(*                                                                         *)
(* All of them run in one event loop and no breaker method awaits inside   *)
(* its lock, so each breaker method, and select_candidate_index as a whole,*)
(* is one step.  Between a selection, its before_call and its outcome any  *)
(* other caller may run.                                                   *)
(*                                                                         *)
(* Time is kept as ages: "age" is now - opened_at, a window entry's "age"  *)
(* is now - its timestamp, both up to the largest value the code compares  *)
(* them with.  Every method prunes the windows before it reads them, so    *)
(* pruning when time passes is the same to every reader.  A model that has *)
(* no breaker yet is treated by the code as callable, as a CLOSED one is.  *)
(***************************************************************************)
EXTENDS Integers, Sequences, FiniteSets

CONSTANTS Models, Callers,
          Chain,          \* the candidate chain every caller starts from
          Threshold,      \* failure_threshold
          Window,         \* failure_window_seconds
          BaseCooldown,   \* open_cooldown_seconds
          MaxCooldown,    \* max_cooldown_seconds
          MinSamples,     \* slow_min_samples
          SlowPercent,    \* slow_ratio_threshold
          Enforced,       \* first_packet_probe = "enforced"
          OverflowAt,     \* the exponent at which float * 2**n raises (1024)
          MaxGeneration,  \* bound: the generation beyond which a model stays OPEN
          MaxSamples      \* bound: first-token samples kept in one window

ASSUME ChainAssumption ==
  /\ Chain \in Seq(Models) /\ Chain # <<>>
  /\ \A i, j \in DOMAIN Chain : Chain[i] = Chain[j] => i = j

\* configuration.py:323-332 and its validator at 1783; the exponent is far
\* beyond the one that reaches the cap.
ASSUME PolicyAssumption ==
  /\ Threshold \in Nat \ {0} /\ MinSamples \in Nat \ {0} /\ Window \in Nat
  /\ BaseCooldown \in Nat \ {0} /\ MaxCooldown \in Nat
  /\ BaseCooldown <= MaxCooldown
  /\ OverflowAt \in Nat \ {0}
  /\ BaseCooldown * 2^(OverflowAt - 1) >= MaxCooldown

VARIABLES state,       \* _state of each model's breaker
          generation,  \* _generation
          probe,       \* _probe_in_flight
          backoff,     \* opened_at as an age, the cooldown, _consecutive_reopens
          failures,    \* the failure window, each entry with the generation of
          samples,     \*   its permit; the first-token window likewise
          call         \* what each caller is doing

breakers == <<state, generation, probe, backoff, failures, samples>>
vars == <<state, generation, probe, backoff, failures, samples, call>>

States == {"closed", "open", "half_open"}
Last == Len(Chain)
Promote(k) == [j \in 1..Last |-> IF j = 1 THEN Chain[k]
                                 ELSE IF j <= k THEN Chain[j - 1] ELSE Chain[j]]
Chains == {Chain} \cup {Promote(k) : k \in 2..Last}
Permits == [generation : Nat, probe : BOOLEAN]
NoPermit == [generation |-> 0, probe |-> FALSE]

\* "chosen": a candidate is selected and not yet called; "running": a provider
\* call under a permit; "failed": an availability error, before the fallback.
Calls == [phase : {"idle", "chosen", "running", "failed"},
          flow : {"query", "fallback"},
          chain : Chains, index : 1..Last, permit : Permits]

ModelOf(c) == call[c].chain[call[c].index]

Idle == [phase |-> "idle", flow |-> "query", chain |-> Chain, index |-> 1,
         permit |-> NoPermit]
Proceeds(c, phase) == call' = [call EXCEPT ![c].phase = phase, ![c].permit = NoPermit]
Ends(c) == call' = [call EXCEPT ![c] = Idle]
\* a query calls the same candidate again, without selecting
Repeats(c) == call[c].flow = "query" /\ Proceeds(c, "chosen")

Init ==
  /\ state = [m \in Models |-> "closed"]
  /\ generation = [m \in Models |-> 0]
  /\ probe = [m \in Models |-> FALSE]
  /\ backoff = [m \in Models |-> [age |-> 0, cooldown |-> BaseCooldown, reopens |-> 0]]
  /\ failures = [m \in Models |-> <<>>]
  /\ samples = [m \in Models |-> <<>>]
  /\ call = [c \in Callers |-> Idle]

-----------------------------------------------------------------------------
(* The breaker's decisions. *)

CoolingDown(m) == backoff[m].age < backoff[m].cooldown

\* ModelCircuitSnapshot.rejecting
Rejecting(m) == \/ state[m] = "half_open" /\ probe[m]
                \/ state[m] = "open" /\ CoolingDown(m)

Capped(n) == IF n < MaxCooldown THEN n ELSE MaxCooldown
Backoff(reopens) == Capped(BaseCooldown * 2^reopens)

\* Whether a permit is the outcome's current one: record_* ignore any other.
CurrentUnchecked(c) == TRUE
Current(c) == call[c].permit.generation = generation[ModelOf(c)]

\* every transition: the new state, a new generation and the probe slot
MovesInSameGeneration(m, to, slot) ==
  /\ state' = [state EXCEPT ![m] = to]
  /\ probe' = [probe EXCEPT ![m] = slot]
  /\ UNCHANGED generation
Moves(m, to, slot) ==
  /\ state' = [state EXCEPT ![m] = to]
  /\ generation' = [generation EXCEPT ![m] = @ + 1]
  /\ probe' = [probe EXCEPT ![m] = slot]

\* _open after too many failures or slow first tokens
OpenClosed(m) ==
  /\ Moves(m, "open", FALSE)
  /\ backoff' = [backoff EXCEPT ![m].age = 0, ![m].cooldown = BaseCooldown]

\* _open after a failed probe
Reopen(m) ==
  /\ Moves(m, "open", FALSE)
  /\ backoff' = [backoff EXCEPT ![m] =
       [age |-> 0, cooldown |-> Backoff(@.reopens + 1), reopens |-> @.reopens + 1]]

\* The multiplication in _open raises after the counter moved and before
\* anything else did; the caller logs it and goes on.
ReopenRaises(m) ==
  /\ backoff' = [backoff EXCEPT ![m].reopens = @ + 1]
  /\ UNCHANGED <<state, generation, probe>>

\* force_half_open
ForceHalfOpen(m) ==
  /\ state[m] = "open"
  /\ generation[m] < MaxGeneration[m]
  /\ Moves(m, "half_open", FALSE)
  /\ UNCHANGED <<backoff, failures, samples>>

-----------------------------------------------------------------------------
(* select_candidate_index over the candidates from "start" on. *)

Callable(chain, start) == {i \in start..Last : ~Rejecting(chain[i])}
Forceable(chain, start) == {i \in start..Last : state[chain[i]] = "open"}
First(S) == CHOOSE i \in S : \A j \in S : i <= j
Oldest(chain, S) ==
  First({i \in S : \A j \in S : backoff[chain[i]].age >= backoff[chain[j]].age})

\* Selects(chain, start, i, forced): the selection returns i.
Selects(chain, start, i, forced) ==
  LET callable == Callable(chain, start)
      forceable == Forceable(chain, start)
  IN \/ /\ callable # {} /\ i = First(callable) /\ ~forced
        /\ UNCHANGED breakers
     \/ /\ callable = {} /\ forceable = {} /\ i = start /\ ~forced
        /\ UNCHANGED breakers
     \/ /\ callable = {} /\ forceable # {} /\ i = Oldest(chain, forceable) /\ forced
        /\ ForceHalfOpen(chain[i])

\* The start of a query, and the preflight of invoke_with_model_fallback: the
\* query starts at the selected index, the fallback promotes a forced
\* candidate and otherwise starts at the head of its chain.
StartQuery(c) ==
  /\ call[c].phase = "idle"
  /\ \E i \in 1..Last, forced \in BOOLEAN :
       /\ Selects(Chain, 1, i, forced)
       /\ call' = [call EXCEPT ![c] = [phase |-> "chosen", flow |-> "query",
                     chain |-> Chain, index |-> i, permit |-> NoPermit]]

StartFallback(c) ==
  /\ call[c].phase = "idle"
  /\ \E i \in 1..Last, forced \in BOOLEAN :
       /\ Selects(Chain, 1, i, forced)
       /\ call' = [call EXCEPT ![c] = [phase |-> "chosen", flow |-> "fallback",
                     chain |-> IF forced /\ i > 1 THEN Promote(i) ELSE Chain,
                     index |-> 1, permit |-> NoPermit]]

\* After an availability error: the next candidate, selected again by the
\* query loop and taken in order by invoke_with_model_fallback.
FallBack(c) ==
  /\ call[c].phase = "failed" /\ call[c].index < Last
  /\ \/ /\ call[c].flow = "fallback"
        /\ call' = [call EXCEPT ![c].phase = "chosen", ![c].index = @ + 1]
        /\ UNCHANGED breakers
     \/ /\ call[c].flow = "query"
        /\ \E i \in 1..Last, forced \in BOOLEAN :
             /\ Selects(call[c].chain, call[c].index + 1, i, forced)
             /\ call' = [call EXCEPT ![c].phase = "chosen", ![c].index = i]

\* No candidate is left: the error is the caller's.
GiveUp(c) ==
  /\ call[c].phase = "failed" /\ call[c].index = Last
  /\ Ends(c)
  /\ UNCHANGED breakers

-----------------------------------------------------------------------------
(* before_call: a plain permit, the probe, or a CircuitOpenError. *)

Admits(c, isProbe) ==
  call' = [call EXCEPT ![c].phase = "running",
             ![c].permit = [generation |-> generation'[ModelOf(c)], probe |-> isProbe]]

AdmitPlain(c) ==
  /\ call[c].phase = "chosen"
  /\ state[ModelOf(c)] = "closed"
  /\ UNCHANGED breakers
  /\ Admits(c, FALSE)

AdmitAfterCooldown(c) ==
  LET m == ModelOf(c)
  IN /\ call[c].phase = "chosen"
     /\ state[m] = "open" /\ ~CoolingDown(m)
     /\ generation[m] < MaxGeneration[m]
     /\ Moves(m, "half_open", TRUE)
     /\ UNCHANGED <<backoff, failures, samples>>
     /\ Admits(c, TRUE)

AdmitForcedProbe(c) ==
  LET m == ModelOf(c)
  IN /\ call[c].phase = "chosen"
     /\ state[m] = "half_open" /\ ~probe[m]
     /\ probe' = [probe EXCEPT ![m] = TRUE]
     /\ UNCHANGED <<state, generation, backoff, failures, samples>>
     /\ Admits(c, TRUE)

\* classify_model_error makes the rejection an availability error
Reject(c) ==
  /\ call[c].phase = "chosen"
  /\ Rejecting(ModelOf(c))
  /\ call' = [call EXCEPT ![c].phase = "failed"]
  /\ UNCHANGED breakers

-----------------------------------------------------------------------------
(* The outcome of a provider call, after its transport retries. *)

\* A success ends the request or is followed by another call of the candidate:
\* the next turn of a query, the continuation of a truncated answer.
AfterSuccess(c) == Ends(c) \/ Proceeds(c, "chosen")

\* An availability error leads to the fallback; a query first retries a timeout.
AfterFailure(c) == Proceeds(c, "failed") \/ Repeats(c)

\* Any other error ends the request, but a query retries a prompt that was too
\* long.
AfterOtherError(c) == Ends(c) \/ Repeats(c)

Entry(c) == [age |-> 0, generation |-> call[c].permit.generation]
IsProbe(c) == call[c].permit.probe /\ state[ModelOf(c)] = "half_open"

\* what a successful probe leaves of the back-off
Recovered(m) == [age |-> 0, cooldown |-> BaseCooldown, reopens |-> 0]

\* record_success of the probe
ProbeSucceeds(c) ==
  LET m == ModelOf(c)
  IN /\ call[c].phase = "running" /\ Current(c) /\ IsProbe(c)
     /\ Moves(m, "closed", FALSE)
     /\ backoff' = [backoff EXCEPT ![m] = Recovered(m)]
     /\ failures' = [failures EXCEPT ![m] = <<>>]
     /\ samples' = [samples EXCEPT ![m] = <<>>]
     /\ AfterSuccess(c)

SlowCount(s) == Cardinality({i \in DOMAIN s : s[i].slow})
TooSlow(s) == /\ Enforced /\ Len(s) >= MinSamples /\ SlowCount(s) > 0
              /\ SlowCount(s) * 100 >= SlowPercent * Len(s)

\* record_success on a CLOSED circuit, with or without a first-token time
CallSucceeds(c) ==
  LET m == ModelOf(c)
  IN /\ call[c].phase = "running" /\ Current(c) /\ ~IsProbe(c) /\ state[m] = "closed"
     /\ \/ UNCHANGED samples
        \/ \E slow \in BOOLEAN :
             /\ Len(samples[m]) < MaxSamples[m]
             /\ samples' = [samples EXCEPT ![m] = Append(@,
                  [age |-> 0, generation |-> call[c].permit.generation, slow |-> slow])]
     /\ IF TooSlow(samples'[m]) THEN OpenClosed(m)
                                ELSE UNCHANGED <<state, generation, probe, backoff>>
     /\ UNCHANGED failures
     /\ AfterSuccess(c)

\* record_failure of the probe
ProbeFails(c) ==
  LET m == ModelOf(c)
  IN /\ call[c].phase = "running" /\ Current(c) /\ IsProbe(c)
     /\ failures' = [failures EXCEPT ![m] = Append(@, Entry(c))]
     /\ IF backoff[m].reopens + 1 < OverflowAt THEN Reopen(m) ELSE ReopenRaises(m)
     /\ UNCHANGED samples
     /\ AfterFailure(c)

\* record_failure on a CLOSED circuit
CallFails(c) ==
  LET m == ModelOf(c)
  IN /\ call[c].phase = "running" /\ Current(c) /\ ~IsProbe(c)
     /\ failures' = [failures EXCEPT ![m] = Append(@, Entry(c))]
     /\ IF state[m] = "closed" /\ Len(failures'[m]) >= Threshold
        THEN OpenClosed(m) ELSE UNCHANGED <<state, generation, probe, backoff>>
     /\ UNCHANGED samples
     /\ AfterFailure(c)

\* record_inconclusive
ProbeInconclusive(c) ==
  LET m == ModelOf(c)
  IN /\ call[c].phase = "running" /\ Current(c) /\ IsProbe(c)
     /\ Moves(m, "open", FALSE)
     /\ backoff' = [backoff EXCEPT ![m].age = 0]
     /\ UNCHANGED <<failures, samples>>
     /\ AfterOtherError(c)

CallInconclusive(c) ==
  /\ call[c].phase = "running" /\ Current(c) /\ ~IsProbe(c)
  /\ UNCHANGED breakers
  /\ AfterOtherError(c)

\* Any outcome whose permit is of an earlier generation is ignored.
StaleOutcome(c) ==
  /\ call[c].phase = "running" /\ ~Current(c)
  /\ UNCHANGED breakers
  /\ AfterSuccess(c) \/ AfterFailure(c)

\* The call is cancelled from outside: the run's cancellation or deadline, or
\* the caller's own timeout, whose value is that of the inner one and which
\* started first.  CancelledError is no Exception: nothing is recorded and the
\* permit is lost.  A timeout is retried, or is an availability error.
Abandon(c) ==
  /\ call[c].phase = "running"
  /\ UNCHANGED breakers
  /\ Ends(c) \/ AfterFailure(c)

\* Cancelled between a selection and its call, or between an error and the next
Withdraw(c) ==
  /\ call[c].phase \in {"chosen", "failed"}
  /\ Ends(c)
  /\ UNCHANGED breakers

-----------------------------------------------------------------------------

\* _prune when time passes: the leading entries that leave the window go
Gone(s) == Cardinality({i \in DOMAIN s : \A j \in 1..i : s[j].age >= Window})
Aged(s) == [i \in 1..(Len(s) - Gone(s)) |-> [s[i + Gone(s)] EXCEPT !.age = @ + 1]]

\* opened_at is read only while the circuit is OPEN
Tick ==
  /\ backoff' = [m \in Models |->
       IF state[m] = "open" THEN [backoff[m] EXCEPT !.age = Capped(@ + 1)] ELSE backoff[m]]
  /\ failures' = [m \in Models |-> Aged(failures[m])]
  /\ samples' = [m \in Models |-> Aged(samples[m])]
  /\ UNCHANGED <<state, generation, probe, call>>

CallStep(c) ==
  \/ StartQuery(c) \/ StartFallback(c) \/ FallBack(c) \/ GiveUp(c)
  \/ AdmitPlain(c) \/ AdmitAfterCooldown(c) \/ AdmitForcedProbe(c) \/ Reject(c)
  \/ ProbeSucceeds(c) \/ CallSucceeds(c) \/ ProbeFails(c) \/ CallFails(c)
  \/ ProbeInconclusive(c) \/ CallInconclusive(c) \/ StaleOutcome(c)
  \/ Abandon(c) \/ Withdraw(c)

Next == Tick \/ \E c \in Callers : CallStep(c)

Spec == Init /\ [][Next]_vars

-----------------------------------------------------------------------------
(* Properties *)

ControlOK ==
  /\ state \in [Models -> States]
  /\ generation \in [Models -> Nat]
  /\ probe \in [Models -> BOOLEAN]
  /\ call \in [Callers -> Calls]

WindowsOK ==
  \A m \in Models :
    /\ \A i \in DOMAIN failures[m] : failures[m][i].age \in 0..Window
    /\ \A i \in DOMAIN samples[m] : samples[m][i].age \in 0..Window

\* The types of the breakers and the callers.  The parts that are more than
\* types: no cooldown exceeds max_cooldown_seconds and no circuit reads a
\* failure or a sample older than its window (_open and _prune).
TypeOK ==
  /\ ControlOK /\ WindowsOK
  /\ backoff \in [Models -> [age : 0..MaxCooldown, reopens : Nat,
                              cooldown : BaseCooldown..MaxCooldown]]

Running(c) == call[c].phase = "running"
HoldsProbe(c, m) == Running(c) /\ call[c].permit.probe /\ ModelOf(c) = m

\* A provider call under a probe permit is current, of a half-open circuit
\* whose probe slot it occupies.
ProbeIsCurrent ==
  \A c \in Callers : Running(c) /\ call[c].permit.probe =>
    state[ModelOf(c)] = "half_open" /\ probe[ModelOf(c)] /\ Current(c)

\* Only one caller probes a model.
OneProbe ==
  \A c, d \in Callers, m \in Models : HoldsProbe(c, m) /\ HoldsProbe(d, m) => c = d

\* A call let through by a circuit that has since opened carries a permit the
\* breaker will ignore.
PlainIsStale ==
  \A c \in Callers : Running(c) /\ ~call[c].permit.probe /\ Current(c) =>
    state[ModelOf(c)] = "closed"

\* What before_call and the generations are for: whatever other callers
\* select, force, cancel and report meanwhile, an open or half-open circuit is
\* probed by at most one call, that call's outcome will count, and the outcome
\* of no other call will.
SingleFlight == ProbeIsCurrent /\ OneProbe /\ PlainIsStale

\* The windows of a CLOSED circuit hold outcomes only of calls let through
\* since it closed: calls that were on their way when it opened, and its own
\* failed probes, do not help to open it again (record_success,
\* record_failure).
WindowsAreFresh ==
  \A m \in Models : state[m] = "closed" =>
    /\ \A i \in DOMAIN failures[m] : failures[m][i].generation = generation[m]
    /\ \A i \in DOMAIN samples[m] : samples[m][i].generation = generation[m]

\* The cooldown in force is that of the number of consecutive failed probes,
\* through inconclusive and forced probes, slow openings and recoveries
\* (_open, record_success, record_inconclusive).
CooldownMatchesReopens ==
  \A m \in Models : backoff[m].cooldown = Backoff(backoff[m].reopens)

\* "Release a probe after a terminal error that must not be counted": an
\* occupied probe slot belongs to a call that is still running.
ProbeHasAHolder ==
  \A m \in Models : probe[m] => \E c \in Callers : HoldsProbe(c, m)

=============================================================================
