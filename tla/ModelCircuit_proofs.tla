------------------------ MODULE ModelCircuit_proofs ------------------------
(***************************************************************************)
(* SingleFlight and WindowsAreFresh hold for any number of models and      *)
(* callers, any chain and any policy.  The inductive invariant of the first*)
(* adds to it the control part of the type invariant and that no permit is *)
(* of a future generation, so that a transition makes every plain permit of*)
(* the model stale; that of the second adds the types of the windows.      *)
(***************************************************************************)
EXTENDS ModelCircuit, FiniteSetTheorems, TLAPS

\* No permit comes from a generation its circuit has not reached.
PermitsArePast ==
  \A c \in Callers : Running(c) =>
    call[c].permit.generation <= generation[ModelOf(c)]

\* The inductive invariant
IInv == ControlOK /\ PermitsArePast /\ SingleFlight

\* The permits, the invariant without the types
PermitsOK == PermitsArePast /\ SingleFlight

\* A candidate of any chain a caller may follow is a model.
LEMMA CandidateIsModel ==
  ASSUME NEW chain \in Chains, NEW i \in 1..Last
  PROVE  chain[i] \in Models
<1>1. \A j \in 1..Last : Chain[j] \in Models
  BY ChainAssumption DEF Last
<1>2. CASE chain = Chain
  BY <1>1, <1>2
<1>3. CASE chain \in {Promote(k) : k \in 2..Last}
  <2>1. PICK k \in 2..Last : chain = Promote(k)
    BY <1>3
  <2>2. Last \in Nat
    BY ChainAssumption DEF Last
  <2> QED
    BY <1>1, <2>1, <2>2 DEF Promote
<1> QED
  BY <1>2, <1>3 DEF Chains

\* The current candidate of a caller is a model.
LEMMA ModelOfType ==
  ASSUME ControlOK, NEW c \in Callers
  PROVE  ModelOf(c) \in Models
  BY CandidateIsModel DEF ControlOK, Calls, ModelOf

\* The state of a caller without a request is well typed.
LEMMA IdleType == Idle \in Calls
<1>1. 1 \in 1..Last
  BY ChainAssumption DEF Last
<1> QED
  BY <1>1 DEF Idle, Calls, Chains, NoPermit, Permits

\* So is that of a caller that goes on with its request.
LEMMA ProceedsType ==
  ASSUME ControlOK, NEW c \in Callers, NEW phase \in {"chosen", "failed"},
         Proceeds(c, phase)
  PROVE  /\ call' \in [Callers -> Calls]
         /\ \A d \in Callers : call'[d].phase = "running" => d # c /\ call'[d] = call[d]
<1>1. call[c] \in Calls /\ call \in [Callers -> Calls]
  BY DEF ControlOK
<1>2. [call[c] EXCEPT !.phase = phase, !.permit = NoPermit] \in Calls
  BY <1>1 DEF Calls, NoPermit, Permits
<1>3. call' = [call EXCEPT ![c] = [call[c] EXCEPT !.phase = phase, !.permit = NoPermit]]
  BY <1>1 DEF Proceeds
<1>4. [call[c] EXCEPT !.phase = phase, !.permit = NoPermit].phase # "running"
  BY <1>1 DEF Calls
<1> QED
  BY <1>1, <1>2, <1>3, <1>4

\* Where a caller goes after its call is well typed.
LEMMA EndingType ==
  ASSUME ControlOK, NEW c \in Callers,
         \/ Ends(c) \/ Proceeds(c, "chosen") \/ Proceeds(c, "failed")
  PROVE  /\ call' \in [Callers -> Calls]
         /\ \A d \in Callers : call'[d].phase = "running" => d # c /\ call'[d] = call[d]
<1>1. CASE Ends(c)
  BY <1>1, IdleType DEF ControlOK, Ends, Idle
<1>2. CASE Proceeds(c, "chosen")
  BY <1>2, ProceedsType
<1>3. CASE Proceeds(c, "failed")
  BY <1>3, ProceedsType
<1> QED
  BY <1>1, <1>2, <1>3

-----------------------------------------------------------------------------

\* A step that lets nobody in and moves no circuit keeps the permits' invariant.
LEMMA QuietStep ==
  ASSUME IInv, ControlOK', UNCHANGED <<state, generation, probe>>,
         \A d \in Callers : Running(d)' => Running(d) /\ call'[d] = call[d]
  PROVE  PermitsOK'
<1>1. \A d \in Callers : Running(d)' => ModelOf(d)' = ModelOf(d)
  BY DEF ModelOf
<1>2. PermitsArePast'
  BY <1>1 DEF IInv, PermitsArePast
<1>3. ProbeIsCurrent'
  BY <1>1 DEF IInv, SingleFlight, ProbeIsCurrent, Current
<1>4. OneProbe'
  BY <1>1 DEF IInv, SingleFlight, OneProbe, HoldsProbe
<1>5. PlainIsStale'
  BY <1>1 DEF IInv, SingleFlight, PlainIsStale, Current
<1> QED
  BY <1>2, <1>3, <1>4, <1>5 DEF PermitsOK, SingleFlight

\* A transition of a circuit nobody holds the probe of afterwards, which lets
\* nobody in, keeps it: the plain permits of the model become stale.
LEMMA TransitionStep ==
  ASSUME IInv, ControlOK', NEW m \in Models, NEW to, NEW slot, Moves(m, to, slot),
         \A d \in Callers : Running(d)' => /\ Running(d) /\ call'[d] = call[d]
                                           /\ ~HoldsProbe(d, m)
  PROVE  PermitsOK'
<1>1. \A d \in Callers : Running(d)' => ModelOf(d)' = ModelOf(d)
  BY DEF ModelOf
<1>2. \A d \in Callers : ModelOf(d) \in Models
  BY ModelOfType DEF IInv
<1>3. generation'[m] = generation[m] + 1 /\ generation[m] \in Nat
  BY DEF Moves, IInv, ControlOK
<1>4. \A n \in Models : n # m =>
        state'[n] = state[n] /\ probe'[n] = probe[n] /\ generation'[n] = generation[n]
  BY DEF Moves, IInv, ControlOK
<1>5. \A d \in Callers : call[d].permit.generation \in Nat
  BY DEF IInv, ControlOK, Calls, Permits
<1>6. PermitsArePast'
  BY <1>1, <1>2, <1>3, <1>4, <1>5 DEF IInv, PermitsArePast
<1>7. ProbeIsCurrent'
  BY <1>1, <1>2, <1>4 DEF IInv, SingleFlight, ProbeIsCurrent, Current, HoldsProbe
<1>8. OneProbe'
  BY <1>1 DEF IInv, SingleFlight, OneProbe, HoldsProbe
<1>9. \A d \in Callers : Running(d)' /\ ModelOf(d) = m => ~Current(d)'
  BY <1>1, <1>3, <1>5 DEF IInv, PermitsArePast, Current
<1>10. PlainIsStale'
  BY <1>1, <1>2, <1>4, <1>9 DEF IInv, SingleFlight, PlainIsStale, Current
<1> QED
  BY <1>6, <1>7, <1>8, <1>10 DEF PermitsOK, SingleFlight

\* Nobody holds the probe of a circuit that is not half-open.
LEMMA NoProbeUnlessHalfOpen ==
  ASSUME IInv, NEW m \in Models, state[m] # "half_open" \/ ~probe[m], NEW d \in Callers
  PROVE  ~HoldsProbe(d, m)
  BY DEF IInv, SingleFlight, ProbeIsCurrent, HoldsProbe

\* A transition keeps the types of the breaker's control state.
LEMMA MovesType ==
  ASSUME ControlOK, NEW m \in Models, NEW to \in States, NEW slot \in BOOLEAN,
         Moves(m, to, slot)
  PROVE  /\ state' \in [Models -> States]
         /\ generation' \in [Models -> Nat]
         /\ probe' \in [Models -> BOOLEAN]
  BY DEF ControlOK, Moves

\* Selecting a candidate, with a forced probe or without one, lets nobody in.
LEMMA SelectionStep ==
  ASSUME IInv, NEW chain \in Chains, NEW start, NEW i \in 1..Last, NEW forced,
         Selects(chain, start, i, forced), call' \in [Callers -> Calls],
         \A d \in Callers : Running(d)' => Running(d) /\ call'[d] = call[d]
  PROVE  ControlOK' /\ PermitsOK'
<1>1. CASE UNCHANGED breakers
  <2>1. ControlOK'
    BY <1>1 DEF IInv, ControlOK, breakers
  <2> QED
    BY <1>1, <2>1, QuietStep DEF breakers
<1>2. CASE ForceHalfOpen(chain[i])
  <2>1. chain[i] \in Models
    BY CandidateIsModel
  <2>2. Moves(chain[i], "half_open", FALSE) /\ state[chain[i]] = "open"
    BY <1>2 DEF ForceHalfOpen
  <2>3. ControlOK'
    BY <2>1, <2>2, MovesType DEF IInv, ControlOK, States
  <2>4. \A d \in Callers : ~HoldsProbe(d, chain[i])
    BY <2>1, <2>2, NoProbeUnlessHalfOpen
  <2> QED
    BY <2>1, <2>2, <2>3, <2>4, TransitionStep
<1> QED
  BY <1>1, <1>2 DEF Selects

\* Leaving a call without a transition.
LEMMA LeavingStep ==
  ASSUME IInv, NEW c \in Callers, UNCHANGED <<state, generation, probe>>,
         \/ Ends(c) \/ Proceeds(c, "chosen") \/ Proceeds(c, "failed")
  PROVE  ControlOK' /\ PermitsOK'
<1>1. /\ call' \in [Callers -> Calls]
      /\ \A d \in Callers : call'[d].phase = "running" => d # c /\ call'[d] = call[d]
  BY EndingType DEF IInv
<1>2. ControlOK'
  BY <1>1 DEF IInv, ControlOK
<1>3. \A d \in Callers : Running(d)' => Running(d) /\ call'[d] = call[d]
  BY <1>1 DEF Running
<1> QED
  BY <1>2, <1>3, QuietStep

\* Leaving a current call whose outcome moves the circuit: either the circuit
\* was CLOSED or the caller was its only probe.
LEMMA OutcomeStep ==
  ASSUME IInv, NEW c \in Callers, NEW to \in States,
         Running(c), Moves(ModelOf(c), to, FALSE),
         state[ModelOf(c)] = "closed" \/ call[c].permit.probe,
         \/ Ends(c) \/ Proceeds(c, "chosen") \/ Proceeds(c, "failed")
  PROVE  ControlOK' /\ PermitsOK'
<1>1. /\ call' \in [Callers -> Calls]
      /\ \A d \in Callers : call'[d].phase = "running" => d # c /\ call'[d] = call[d]
  BY EndingType DEF IInv
<1>2. ModelOf(c) \in Models
  BY ModelOfType DEF IInv
<1>3. ControlOK'
  BY <1>1, <1>2, MovesType DEF IInv, ControlOK
<1>4. \A d \in Callers : d # c => ~HoldsProbe(d, ModelOf(c))
  <2>1. CASE state[ModelOf(c)] = "closed"
    BY <1>2, <2>1, NoProbeUnlessHalfOpen
  <2>2. CASE call[c].permit.probe
    BY <1>2, <2>2 DEF IInv, SingleFlight, OneProbe, HoldsProbe
  <2> QED
    BY <2>1, <2>2
<1>5. \A d \in Callers : Running(d)' => /\ Running(d) /\ call'[d] = call[d]
                                       /\ ~HoldsProbe(d, ModelOf(c))
  BY <1>1, <1>4 DEF Running
<1> QED
  BY <1>2, <1>3, <1>5, TransitionStep

-----------------------------------------------------------------------------

\* What before_call does to the caller it lets in.
LEMMA AdmitType ==
  ASSUME IInv, NEW c \in Callers, NEW isProbe \in BOOLEAN, Admits(c, isProbe),
         generation' \in [Models -> Nat]
  PROVE  /\ call' \in [Callers -> Calls]
         /\ \A d \in Callers : d # c => call'[d] = call[d]
         /\ \A d \in Callers : ModelOf(d)' = ModelOf(d)
         /\ call'[c].permit = [generation |-> generation'[ModelOf(c)], probe |-> isProbe]
<1> DEFINE permit == [generation |-> generation'[ModelOf(c)], probe |-> isProbe]
           next == [call[c] EXCEPT !.phase = "running", !.permit = permit]
<1>1. call[c] \in Calls /\ call \in [Callers -> Calls] /\ ModelOf(c) \in Models
  BY ModelOfType DEF IInv, ControlOK
<1>2. permit \in Permits
  BY <1>1 DEF Permits
<1>3. next \in Calls /\ next.permit = permit
      /\ next.chain = call[c].chain /\ next.index = call[c].index
  BY <1>1, <1>2 DEF Calls
<1>4. call' = [call EXCEPT ![c] = next]
  BY <1>1 DEF Admits
<1> QED
  BY <1>1, <1>3, <1>4 DEF ModelOf

\* Letting a plain call into a CLOSED circuit.
LEMMA AdmitPlainStep ==
  ASSUME IInv, NEW c \in Callers, AdmitPlain(c)
  PROVE  ControlOK' /\ PermitsOK'
<1>1. UNCHANGED <<state, generation, probe>> /\ Admits(c, FALSE)
      /\ state[ModelOf(c)] = "closed"
  BY DEF AdmitPlain, breakers
<1>2. /\ call' \in [Callers -> Calls]
      /\ \A d \in Callers : d # c => call'[d] = call[d]
      /\ \A d \in Callers : ModelOf(d)' = ModelOf(d)
      /\ call'[c].permit = [generation |-> generation[ModelOf(c)], probe |-> FALSE]
  BY <1>1, AdmitType DEF IInv, ControlOK
<1>3. ControlOK'
  BY <1>1, <1>2 DEF IInv, ControlOK
<1>4. ModelOf(c) \in Models /\ generation[ModelOf(c)] \in Nat
  BY ModelOfType DEF IInv, ControlOK
<1>5. PermitsArePast'
  BY <1>1, <1>2, <1>4 DEF IInv, PermitsArePast, Running
<1>6. ProbeIsCurrent'
  BY <1>1, <1>2 DEF IInv, SingleFlight, ProbeIsCurrent, Current, Running
<1>7. OneProbe'
  BY <1>2 DEF IInv, SingleFlight, OneProbe, HoldsProbe, Running
<1>8. PlainIsStale'
  BY <1>1, <1>2 DEF IInv, SingleFlight, PlainIsStale, Current, Running
<1> QED
  BY <1>3, <1>5, <1>6, <1>7, <1>8 DEF PermitsOK, SingleFlight

\* Letting the probe in when the cooldown has elapsed: nobody held the probe of
\* the OPEN circuit, and its plain permits become stale.
LEMMA AdmitAfterCooldownStep ==
  ASSUME IInv, NEW c \in Callers, AdmitAfterCooldown(c)
  PROVE  ControlOK' /\ PermitsOK'
<1> DEFINE m == ModelOf(c)
<1>1. m \in Models /\ \A d \in Callers : ModelOf(d) \in Models
  BY ModelOfType DEF IInv
<1>2. Moves(m, "half_open", TRUE) /\ Admits(c, TRUE) /\ state[m] = "open"
  BY DEF AdmitAfterCooldown
<1>3. /\ state' \in [Models -> States]
      /\ generation' \in [Models -> Nat]
      /\ probe' \in [Models -> BOOLEAN]
  BY <1>1, <1>2, MovesType DEF IInv, States
<1>4. /\ call' \in [Callers -> Calls]
      /\ \A d \in Callers : d # c => call'[d] = call[d]
      /\ \A d \in Callers : ModelOf(d)' = ModelOf(d)
      /\ call'[c].permit = [generation |-> generation'[m], probe |-> TRUE]
  BY <1>2, <1>3, AdmitType
<1>5. ControlOK'
  BY <1>3, <1>4 DEF ControlOK
<1>6. /\ state'[m] = "half_open" /\ probe'[m]
      /\ generation'[m] = generation[m] + 1 /\ generation[m] \in Nat
      /\ \A n \in Models : n # m =>
           state'[n] = state[n] /\ probe'[n] = probe[n] /\ generation'[n] = generation[n]
  BY <1>1, <1>2 DEF Moves, IInv, ControlOK
<1>7. \A d \in Callers : ~HoldsProbe(d, m)
  BY <1>1, <1>2, NoProbeUnlessHalfOpen
<1>8. \A d \in Callers : call[d].permit.generation \in Nat
  BY DEF IInv, ControlOK, Calls, Permits
<1> HIDE DEF m
<1>9. PermitsArePast'
  <2> SUFFICES ASSUME NEW d \in Callers, Running(d)'
               PROVE  call'[d].permit.generation <= generation'[ModelOf(d)]
    BY <1>4 DEF PermitsArePast
  <2>1. CASE d = c
    BY <1>4, <1>6, <2>1 DEF m
  <2>2. CASE d # c
    BY <1>1, <1>4, <1>6, <1>8, <2>2 DEF IInv, PermitsArePast, Running
  <2> QED
    BY <2>1, <2>2
<1>10. ProbeIsCurrent'
  <2> SUFFICES ASSUME NEW d \in Callers, Running(d)', call'[d].permit.probe
               PROVE  /\ state'[ModelOf(d)] = "half_open" /\ probe'[ModelOf(d)]
                      /\ call'[d].permit.generation = generation'[ModelOf(d)]
    BY <1>4 DEF ProbeIsCurrent, Current
  <2>1. CASE d = c
    BY <1>4, <1>6, <2>1 DEF m
  <2>2. CASE d # c
    BY <1>1, <1>4, <1>6, <1>7, <2>2
       DEF IInv, SingleFlight, ProbeIsCurrent, Current, Running, HoldsProbe
  <2> QED
    BY <2>1, <2>2
<1>11. OneProbe'
  <2> SUFFICES ASSUME NEW d \in Callers, NEW e \in Callers, NEW n \in Models,
                      HoldsProbe(d, n)', HoldsProbe(e, n)'
               PROVE  d = e
    BY DEF OneProbe
  <2>1. \A f \in Callers : f # c /\ HoldsProbe(f, n)' => HoldsProbe(f, n)
    BY <1>4 DEF HoldsProbe, Running
  <2>2. CASE d # c /\ e # c
    BY <2>1, <2>2 DEF IInv, SingleFlight, OneProbe
  <2>3. CASE d = c \/ e = c
    <3>1. n = m
      BY <1>4, <2>3 DEF HoldsProbe, m
    <3> QED
      BY <1>7, <2>1, <2>3, <3>1
  <2> QED
    BY <2>2, <2>3
<1>12. PlainIsStale'
  <2> SUFFICES ASSUME NEW d \in Callers, Running(d)', ~call'[d].permit.probe,
                      call'[d].permit.generation = generation'[ModelOf(d)]
               PROVE  state'[ModelOf(d)] = "closed"
    BY <1>4 DEF PlainIsStale, Current
  <2>1. d # c /\ call'[d] = call[d] /\ Running(d)
    BY <1>4 DEF Running
  <2>2. ModelOf(d) # m
    BY <1>6, <1>8, <2>1 DEF IInv, PermitsArePast
  <2> QED
    BY <1>1, <1>6, <2>1, <2>2 DEF IInv, SingleFlight, PlainIsStale, Current
<1> QED
  BY <1>5, <1>9, <1>10, <1>11, <1>12 DEF PermitsOK, SingleFlight

\* Letting the probe into a circuit that was forced half-open: the slot was
\* free, so nobody held it.
LEMMA AdmitForcedProbeStep ==
  ASSUME IInv, NEW c \in Callers, AdmitForcedProbe(c)
  PROVE  ControlOK' /\ PermitsOK'
<1> DEFINE m == ModelOf(c)
<1>1. m \in Models /\ \A d \in Callers : ModelOf(d) \in Models
  BY ModelOfType DEF IInv
<1>2. /\ state[m] = "half_open" /\ ~probe[m]
      /\ probe' = [probe EXCEPT ![m] = TRUE]
      /\ UNCHANGED <<state, generation>> /\ Admits(c, TRUE)
  BY DEF AdmitForcedProbe
<1>3. probe' \in [Models -> BOOLEAN] /\ probe'[m]
      /\ \A n \in Models : n # m => probe'[n] = probe[n]
  BY <1>1, <1>2 DEF IInv, ControlOK
<1>4. /\ call' \in [Callers -> Calls]
      /\ \A d \in Callers : d # c => call'[d] = call[d]
      /\ \A d \in Callers : ModelOf(d)' = ModelOf(d)
      /\ call'[c].permit = [generation |-> generation[m], probe |-> TRUE]
  BY <1>2, AdmitType DEF IInv, ControlOK
<1>5. ControlOK'
  BY <1>2, <1>3, <1>4 DEF IInv, ControlOK
<1>6. \A d \in Callers : ~HoldsProbe(d, m)
  BY <1>1, <1>2, NoProbeUnlessHalfOpen
<1>7. generation[m] \in Nat
  BY <1>1 DEF IInv, ControlOK
<1> HIDE DEF m
<1>8. PermitsArePast'
  BY <1>2, <1>4, <1>7 DEF IInv, PermitsArePast, Running, m
<1>9. ProbeIsCurrent'
  <2> SUFFICES ASSUME NEW d \in Callers, Running(d)', call'[d].permit.probe
               PROVE  /\ state[ModelOf(d)] = "half_open" /\ probe'[ModelOf(d)]
                      /\ call'[d].permit.generation = generation[ModelOf(d)]
    BY <1>2, <1>4 DEF ProbeIsCurrent, Current
  <2>1. CASE d = c
    BY <1>2, <1>3, <1>4, <2>1 DEF m
  <2>2. CASE d # c
    BY <1>1, <1>3, <1>4, <1>6, <2>2
       DEF IInv, SingleFlight, ProbeIsCurrent, Current, Running, HoldsProbe
  <2> QED
    BY <2>1, <2>2
<1>10. OneProbe'
  <2> SUFFICES ASSUME NEW d \in Callers, NEW e \in Callers, NEW n \in Models,
                      HoldsProbe(d, n)', HoldsProbe(e, n)'
               PROVE  d = e
    BY DEF OneProbe
  <2>1. \A f \in Callers : f # c /\ HoldsProbe(f, n)' => HoldsProbe(f, n)
    BY <1>4 DEF HoldsProbe, Running
  <2>2. CASE d # c /\ e # c
    BY <2>1, <2>2 DEF IInv, SingleFlight, OneProbe
  <2>3. CASE d = c \/ e = c
    <3>1. n = m
      BY <1>4, <2>3 DEF HoldsProbe, m
    <3> QED
      BY <1>6, <2>1, <2>3, <3>1
  <2> QED
    BY <2>2, <2>3
<1>11. PlainIsStale'
  BY <1>2, <1>4 DEF IInv, SingleFlight, PlainIsStale, Current, Running
<1> QED
  BY <1>5, <1>8, <1>9, <1>10, <1>11 DEF PermitsOK, SingleFlight

-----------------------------------------------------------------------------

\* The initial states satisfy the invariant: nobody runs.
LEMMA InitIInv == Init => IInv
<1> SUFFICES ASSUME Init PROVE IInv
  OBVIOUS
<1>1. \A c \in Callers : call[c] = Idle
  BY DEF Init
<1>2. \A c \in Callers : ~Running(c)
  BY <1>1 DEF Running, Idle
<1>3. ControlOK
  BY IdleType DEF Init, ControlOK, States
<1> QED
  BY <1>2, <1>3 DEF IInv, PermitsArePast, SingleFlight, ProbeIsCurrent, OneProbe,
                    PlainIsStale, HoldsProbe

\* Every step preserves it.
LEMMA NextIInv == IInv /\ [Next]_vars => IInv'
<1> SUFFICES ASSUME IInv, [Next]_vars PROVE ControlOK' /\ PermitsOK'
  BY DEF IInv, PermitsOK
<1>1. CASE Tick
  BY <1>1, QuietStep DEF Tick, IInv, ControlOK, Running
<1>2. CASE UNCHANGED vars
  BY <1>2, QuietStep DEF vars, IInv, ControlOK, Running
<1>3. ASSUME NEW c \in Callers, CallStep(c)
      PROVE  ControlOK' /\ PermitsOK'
  <2>1. call[c] \in Calls /\ call \in [Callers -> Calls] /\ 1 \in 1..Last
    BY ChainAssumption DEF IInv, ControlOK, Last
  <2>2. CASE StartQuery(c)
    <3>1. PICK i \in 1..Last, forced \in BOOLEAN :
            /\ Selects(Chain, 1, i, forced)
            /\ call' = [call EXCEPT ![c] = [phase |-> "chosen", flow |-> "query",
                          chain |-> Chain, index |-> i, permit |-> NoPermit]]
      BY <2>2 DEF StartQuery
    <3>2. call' \in [Callers -> Calls]
          /\ \A d \in Callers : Running(d)' => Running(d) /\ call'[d] = call[d]
      BY <2>1, <3>1 DEF Calls, Chains, NoPermit, Permits, Running
    <3> QED
      BY <3>1, <3>2, SelectionStep DEF Chains
  <2>3. CASE StartFallback(c)
    <3>1. PICK i \in 1..Last, forced \in BOOLEAN :
            /\ Selects(Chain, 1, i, forced)
            /\ call' = [call EXCEPT ![c] = [phase |-> "chosen", flow |-> "fallback",
                          chain |-> IF forced /\ i > 1 THEN Promote(i) ELSE Chain,
                          index |-> 1, permit |-> NoPermit]]
      BY <2>3 DEF StartFallback
    <3>2. (IF forced /\ i > 1 THEN Promote(i) ELSE Chain) \in Chains
      <4>1. i > 1 => i \in 2..Last
        BY ChainAssumption DEF Last
      <4> QED
        BY <4>1 DEF Chains
    <3>3. call' \in [Callers -> Calls]
          /\ \A d \in Callers : Running(d)' => Running(d) /\ call'[d] = call[d]
      BY <2>1, <3>1, <3>2 DEF Calls, NoPermit, Permits, Running
    <3> QED
      BY <3>1, <3>3, SelectionStep DEF Chains
  <2>4. CASE FallBack(c)
    <3>1. CASE call[c].flow = "fallback" /\ UNCHANGED breakers
               /\ call' = [call EXCEPT ![c].phase = "chosen", ![c].index = @ + 1]
      <4>1. call[c].index + 1 \in 1..Last
        BY <2>1, <2>4, ChainAssumption DEF FallBack, Calls, Last
      <4>2. [call[c] EXCEPT !.phase = "chosen", !.index = @ + 1] \in Calls
        BY <2>1, <4>1 DEF Calls
      <4>3. call' = [call EXCEPT ![c] =
                       [call[c] EXCEPT !.phase = "chosen", !.index = @ + 1]]
        BY <2>1, <3>1
      <4>4. call' \in [Callers -> Calls]
            /\ \A d \in Callers : Running(d)' => Running(d) /\ call'[d] = call[d]
        BY <2>1, <4>2, <4>3 DEF Running, Calls
      <4>5. ControlOK'
        BY <3>1, <4>4 DEF IInv, ControlOK, breakers
      <4> QED
        BY <3>1, <4>4, <4>5, QuietStep DEF breakers
    <3>2. CASE \E i \in 1..Last, forced \in BOOLEAN :
                 /\ Selects(call[c].chain, call[c].index + 1, i, forced)
                 /\ call' = [call EXCEPT ![c].phase = "chosen", ![c].index = i]
      <4>1. PICK i \in 1..Last, forced \in BOOLEAN :
              /\ Selects(call[c].chain, call[c].index + 1, i, forced)
              /\ call' = [call EXCEPT ![c].phase = "chosen", ![c].index = i]
        BY <3>2
      <4>2. [call[c] EXCEPT !.phase = "chosen", !.index = i] \in Calls
        BY <2>1 DEF Calls
      <4>3. call' = [call EXCEPT ![c] = [call[c] EXCEPT !.phase = "chosen", !.index = i]]
        BY <2>1, <4>1
      <4>4. call' \in [Callers -> Calls]
            /\ \A d \in Callers : Running(d)' => Running(d) /\ call'[d] = call[d]
        BY <2>1, <4>2, <4>3 DEF Running, Calls
      <4>5. call[c].chain \in Chains
        BY <2>1 DEF Calls
      <4> QED
        BY <4>1, <4>4, <4>5, SelectionStep
    <3> QED
      BY <2>4, <3>1, <3>2 DEF FallBack
  <2>5. CASE Reject(c)
    <3>1. [call[c] EXCEPT !.phase = "failed"] \in Calls
      BY <2>1 DEF Calls
    <3>2. call' = [call EXCEPT ![c] = [call[c] EXCEPT !.phase = "failed"]]
      BY <2>1, <2>5 DEF Reject
    <3>3. call' \in [Callers -> Calls]
          /\ \A d \in Callers : Running(d)' => Running(d) /\ call'[d] = call[d]
      BY <2>1, <3>1, <3>2 DEF Running, Calls
    <3>4. ControlOK'
      BY <2>5, <3>3 DEF Reject, IInv, ControlOK, breakers
    <3> QED
      BY <2>5, <3>3, <3>4, QuietStep DEF Reject, breakers
  <2>6. CASE AdmitPlain(c) \/ AdmitAfterCooldown(c) \/ AdmitForcedProbe(c)
    BY <2>6, AdmitPlainStep, AdmitAfterCooldownStep, AdmitForcedProbeStep
  <2>7. CASE GiveUp(c) \/ CallInconclusive(c) \/ StaleOutcome(c) \/ Abandon(c) \/ Withdraw(c)
    BY <2>7, LeavingStep DEF GiveUp, CallInconclusive, StaleOutcome, Abandon, Withdraw,
                             AfterSuccess, AfterFailure, AfterOtherError, Repeats, breakers
  <2>8. CASE ProbeSucceeds(c)
    BY <2>8, OutcomeStep DEF ProbeSucceeds, AfterSuccess, IsProbe, Running, States
  <2>9. CASE CallSucceeds(c)
    <3>1. CASE OpenClosed(ModelOf(c))
      BY <2>9, <3>1, OutcomeStep DEF CallSucceeds, OpenClosed, AfterSuccess, Running, States
    <3>2. CASE UNCHANGED <<state, generation, probe, backoff>>
      BY <2>9, <3>2, LeavingStep DEF CallSucceeds, AfterSuccess
    <3> QED
      BY <2>9, <3>1, <3>2 DEF CallSucceeds
  <2>10. CASE ProbeFails(c)
    <3>1. CASE Reopen(ModelOf(c))
      BY <2>10, <3>1, OutcomeStep DEF ProbeFails, Reopen, AfterFailure, Repeats, IsProbe,
                                   Running, States
    <3>2. CASE ReopenRaises(ModelOf(c))
      BY <2>10, <3>2, LeavingStep DEF ProbeFails, ReopenRaises, AfterFailure, Repeats
    <3> QED
      BY <2>10, <3>1, <3>2 DEF ProbeFails
  <2>11. CASE CallFails(c)
    <3>1. CASE state[ModelOf(c)] = "closed" /\ OpenClosed(ModelOf(c))
      BY <2>11, <3>1, OutcomeStep DEF CallFails, OpenClosed, AfterFailure, Repeats,
                                   Running, States
    <3>2. CASE UNCHANGED <<state, generation, probe, backoff>>
      BY <2>11, <3>2, LeavingStep DEF CallFails, AfterFailure, Repeats
    <3> QED
      BY <2>11, <3>1, <3>2 DEF CallFails
  <2>12. CASE ProbeInconclusive(c)
    BY <2>12, OutcomeStep DEF ProbeInconclusive, AfterOtherError, Repeats, IsProbe,
                                 Running, States
  <2> QED
    BY <1>3, <2>2, <2>3, <2>4, <2>5, <2>6, <2>7, <2>8, <2>9, <2>10, <2>11, <2>12
       DEF CallStep
<1> QED
  BY <1>1, <1>2, <1>3 DEF Next

\* Whatever the callers select, force, cancel and report, a circuit that is not
\* closed is probed by at most one call, whose outcome counts, and no other
\* outcome does (before_call, record_success, record_failure).
THEOREM SingleFlightAlways == Spec => []SingleFlight
<1>1. IInv => SingleFlight
  BY DEF IInv
<1> QED
  BY InitIInv, NextIInv, <1>1, PTL DEF Spec

-----------------------------------------------------------------------------
(* The windows.  Only a successful probe closes a circuit, and it clears     *)
(* them; whatever enters the window of a closed circuit comes with a current *)
(* permit, and time only takes entries away.                                 *)

Failures == [age : Nat, generation : Nat]
Samples == [age : Nat, generation : Nat, slow : BOOLEAN]

WindowTypes == /\ failures \in [Models -> Seq(Failures)]
               /\ samples \in [Models -> Seq(Samples)]

WindowsInv == IInv /\ WindowTypes /\ WindowsAreFresh

\* Pruning removes at most the whole window, and every entry it leaves was there.
LEMMA AgedEntries ==
  ASSUME NEW E, NEW s \in Seq(E)
  PROVE  /\ Gone(s) \in 0..Len(s)
         /\ DOMAIN Aged(s) = 1..(Len(s) - Gone(s))
         /\ \A i \in DOMAIN Aged(s) :
              /\ i + Gone(s) \in DOMAIN s
              /\ Aged(s)[i] = [s[i + Gone(s)] EXCEPT !.age = @ + 1]
<1> DEFINE D == {i \in DOMAIN s : \A j \in 1..i : s[j].age >= Window}
<1>1. DOMAIN s = 1..Len(s) /\ Len(s) \in Nat
  OBVIOUS
<1>2. IsFiniteSet(1..Len(s)) /\ Cardinality(1..Len(s)) = Len(s)
  BY <1>1, FS_Interval
<1>3. Cardinality(D) \in Nat /\ Cardinality(D) <= Len(s)
  BY <1>1, <1>2, FS_Subset, FS_CardinalityType
<1>4. Gone(s) \in 0..Len(s)
  BY <1>1, <1>3 DEF Gone
<1> QED
  BY <1>1, <1>4 DEF Aged

\* Pruned windows keep their types.
LEMMA AgedTypes ==
  ASSUME WindowTypes, NEW m \in Models
  PROVE  Aged(failures[m]) \in Seq(Failures) /\ Aged(samples[m]) \in Seq(Samples)
<1>1. failures[m] \in Seq(Failures) /\ samples[m] \in Seq(Samples)
  BY DEF WindowTypes
<1>2. Aged(failures[m]) \in Seq(Failures)
  <2> DEFINE s == failures[m]
  <2>1. \A i \in DOMAIN Aged(s) : Aged(s)[i] \in Failures
    <3> SUFFICES ASSUME NEW i \in DOMAIN Aged(s) PROVE Aged(s)[i] \in Failures
      OBVIOUS
    <3>1. s[i + Gone(s)] \in Failures
      BY <1>1, AgedEntries
    <3>2. Aged(s)[i] = [s[i + Gone(s)] EXCEPT !.age = @ + 1]
      BY <1>1, AgedEntries
    <3> QED
      BY <3>1, <3>2 DEF Failures
  <2>2. Len(s) - Gone(s) \in Nat /\ DOMAIN Aged(s) = 1..(Len(s) - Gone(s))
    BY <1>1, AgedEntries
  <2>3. Aged(s) = [i \in 1..(Len(s) - Gone(s)) |-> Aged(s)[i]]
    BY <2>2 DEF Aged
  <2> QED
    BY <2>1, <2>2, <2>3
<1>3. Aged(samples[m]) \in Seq(Samples)
  <2> DEFINE s == samples[m]
  <2>1. \A i \in DOMAIN Aged(s) : Aged(s)[i] \in Samples
    <3> SUFFICES ASSUME NEW i \in DOMAIN Aged(s) PROVE Aged(s)[i] \in Samples
      OBVIOUS
    <3>1. s[i + Gone(s)] \in Samples
      BY <1>1, AgedEntries
    <3>2. Aged(s)[i] = [s[i + Gone(s)] EXCEPT !.age = @ + 1]
      BY <1>1, AgedEntries
    <3> QED
      BY <3>1, <3>2 DEF Samples
  <2>2. Len(s) - Gone(s) \in Nat /\ DOMAIN Aged(s) = 1..(Len(s) - Gone(s))
    BY <1>1, AgedEntries
  <2>3. Aged(s) = [i \in 1..(Len(s) - Gone(s)) |-> Aged(s)[i]]
    BY <2>2 DEF Aged
  <2> QED
    BY <2>1, <2>2, <2>3
<1> QED
  BY <1>2, <1>3

\* A step that keeps the windows, and closes no circuit, keeps them fresh: a
\* circuit whose generation moves does not come out closed.
LEMMA SameWindows ==
  ASSUME WindowsInv, UNCHANGED <<failures, samples>>,
         \A n \in Models : state'[n] = "closed" =>
           state[n] = "closed" /\ generation'[n] = generation[n]
  PROVE  WindowTypes' /\ WindowsAreFresh'
  BY DEF WindowsInv, WindowTypes, WindowsAreFresh

\* A transition away from CLOSED closes no circuit.
LEMMA MovesAway ==
  ASSUME ControlOK, NEW m \in Models, NEW to \in {"open", "half_open"}, NEW slot,
         Moves(m, to, slot)
  PROVE  \A n \in Models : state'[n] = "closed" =>
           n # m /\ state[n] = "closed" /\ generation'[n] = generation[n]
  BY DEF ControlOK, Moves

\* Time passes.
LEMMA TickWindows ==
  ASSUME WindowsInv, Tick
  PROVE  WindowTypes' /\ WindowsAreFresh'
<1>1. failures' = [m \in Models |-> Aged(failures[m])]
      /\ samples' = [m \in Models |-> Aged(samples[m])]
      /\ UNCHANGED <<state, generation>>
  BY DEF Tick
<1>2. WindowTypes'
  BY <1>1, AgedTypes DEF WindowsInv, WindowTypes
<1>3. ASSUME NEW m \in Models, state[m] = "closed"
      PROVE  /\ \A i \in DOMAIN failures'[m] :
                  failures'[m][i].generation = generation[m]
             /\ \A i \in DOMAIN samples'[m] :
                  samples'[m][i].generation = generation[m]
  <2>1. failures[m] \in Seq(Failures) /\ samples[m] \in Seq(Samples)
    BY DEF WindowsInv, WindowTypes
  <2>2. /\ \A i \in DOMAIN failures[m] : failures[m][i].generation = generation[m]
        /\ \A i \in DOMAIN samples[m] : samples[m][i].generation = generation[m]
    BY <1>3 DEF WindowsInv, WindowsAreFresh
  <2>3. failures'[m] = Aged(failures[m]) /\ samples'[m] = Aged(samples[m])
    BY <1>1
  <2>4. ASSUME NEW i \in DOMAIN Aged(failures[m])
        PROVE  Aged(failures[m])[i].generation = generation[m]
    <3>1. /\ i + Gone(failures[m]) \in DOMAIN failures[m]
          /\ Aged(failures[m])[i] =
               [failures[m][i + Gone(failures[m])] EXCEPT !.age = @ + 1]
      BY <2>1, <2>4, AgedEntries
    <3>2. failures[m][i + Gone(failures[m])] \in Failures
      BY <2>1, <3>1
    <3> QED
      BY <2>2, <3>1, <3>2 DEF Failures
  <2>5. ASSUME NEW i \in DOMAIN Aged(samples[m])
        PROVE  Aged(samples[m])[i].generation = generation[m]
    <3>1. /\ i + Gone(samples[m]) \in DOMAIN samples[m]
          /\ Aged(samples[m])[i] =
               [samples[m][i + Gone(samples[m])] EXCEPT !.age = @ + 1]
      BY <2>1, <2>5, AgedEntries
    <3>2. samples[m][i + Gone(samples[m])] \in Samples
      BY <2>1, <3>1
    <3> QED
      BY <2>2, <3>1, <3>2 DEF Samples
  <2> QED
    BY <2>3, <2>4, <2>5
<1>4. WindowsAreFresh'
  BY <1>1, <1>3 DEF WindowsAreFresh
<1> QED
  BY <1>2, <1>4

\* A failure reported under a current permit enters the window of its model.
LEMMA FailureEnters ==
  ASSUME WindowsInv, NEW c \in Callers, Running(c), Current(c),
         failures' = [failures EXCEPT ![ModelOf(c)] = Append(@, Entry(c))],
         UNCHANGED samples,
         \A n \in Models : state'[n] = "closed" =>
           state[n] = "closed" /\ generation'[n] = generation[n]
  PROVE  WindowTypes' /\ WindowsAreFresh'
<1> DEFINE m == ModelOf(c)
<1>1. m \in Models
  BY ModelOfType DEF WindowsInv, IInv
<1>2. Entry(c) \in Failures /\ Entry(c).generation = generation[m]
  BY DEF WindowsInv, IInv, ControlOK, Calls, Permits, Entry, Failures, Current
<1>3. failures \in [Models -> Seq(Failures)] /\ samples \in [Models -> Seq(Samples)]
  BY DEF WindowsInv, WindowTypes
<1>4. /\ failures'[m] = Append(failures[m], Entry(c))
      /\ \A n \in Models : n # m => failures'[n] = failures[n]
  BY <1>1, <1>3
<1> HIDE DEF m
<1>5. WindowTypes'
  <2>1. Append(failures[m], Entry(c)) \in Seq(Failures)
    BY <1>1, <1>2, <1>3
  <2> QED
    BY <1>1, <1>3, <2>1 DEF WindowTypes, m
<1>6. ASSUME NEW n \in Models, state'[n] = "closed"
      PROVE  /\ \A i \in DOMAIN failures'[n] :
                  failures'[n][i].generation = generation'[n]
             /\ \A i \in DOMAIN samples'[n] :
                  samples'[n][i].generation = generation'[n]
  <2>1. state[n] = "closed" /\ generation'[n] = generation[n]
    BY <1>6
  <2>2. /\ \A i \in DOMAIN failures[n] : failures[n][i].generation = generation[n]
        /\ \A i \in DOMAIN samples[n] : samples[n][i].generation = generation[n]
    BY <2>1 DEF WindowsInv, WindowsAreFresh
  <2>3. CASE n # m
    BY <1>4, <2>1, <2>2, <2>3
  <2>4. CASE n = m
    <3>1. failures[m] \in Seq(Failures)
      BY <1>1, <1>3
    <3>2. \A i \in DOMAIN Append(failures[m], Entry(c)) :
            \/ i \in DOMAIN failures[m]
               /\ Append(failures[m], Entry(c))[i] = failures[m][i]
            \/ Append(failures[m], Entry(c))[i] = Entry(c)
      BY <1>2, <3>1
    <3> QED
      BY <1>2, <1>4, <2>1, <2>2, <2>4, <3>2
  <2> QED
    BY <2>3, <2>4
<1>7. WindowsAreFresh'
  BY <1>6 DEF WindowsAreFresh
<1> QED
  BY <1>5, <1>7

\* So does the first-token time of a success, if it is reported.
LEMMA SampleEnters ==
  ASSUME WindowsInv, NEW c \in Callers, Running(c), Current(c), NEW slow \in BOOLEAN,
         samples' = [samples EXCEPT ![ModelOf(c)] = Append(@,
           [age |-> 0, generation |-> call[c].permit.generation, slow |-> slow])],
         UNCHANGED failures,
         \A n \in Models : state'[n] = "closed" =>
           state[n] = "closed" /\ generation'[n] = generation[n]
  PROVE  WindowTypes' /\ WindowsAreFresh'
<1> DEFINE m == ModelOf(c)
           e == [age |-> 0, generation |-> call[c].permit.generation, slow |-> slow]
<1>1. m \in Models
  BY ModelOfType DEF WindowsInv, IInv
<1>2. e \in Samples /\ e.generation = generation[m]
  BY DEF WindowsInv, IInv, ControlOK, Calls, Permits, Samples, Current
<1>3. failures \in [Models -> Seq(Failures)] /\ samples \in [Models -> Seq(Samples)]
  BY DEF WindowsInv, WindowTypes
<1>4. /\ samples'[m] = Append(samples[m], e)
      /\ \A n \in Models : n # m => samples'[n] = samples[n]
  BY <1>1, <1>3
<1>5. samples' = [samples EXCEPT ![m] = Append(samples[m], e)]
  BY <1>1, <1>3
<1> HIDE DEF m, e
<1>6. WindowTypes'
  <2>1. Append(samples[m], e) \in Seq(Samples)
    BY <1>1, <1>2, <1>3
  <2> QED
    BY <1>1, <1>3, <1>5, <2>1 DEF WindowTypes
<1>7. ASSUME NEW n \in Models, state'[n] = "closed"
      PROVE  /\ \A i \in DOMAIN failures'[n] :
                  failures'[n][i].generation = generation'[n]
             /\ \A i \in DOMAIN samples'[n] :
                  samples'[n][i].generation = generation'[n]
  <2>1. state[n] = "closed" /\ generation'[n] = generation[n]
    BY <1>7
  <2>2. /\ \A i \in DOMAIN failures[n] : failures[n][i].generation = generation[n]
        /\ \A i \in DOMAIN samples[n] : samples[n][i].generation = generation[n]
    BY <2>1 DEF WindowsInv, WindowsAreFresh
  <2>3. CASE n # m
    BY <1>4, <2>1, <2>2, <2>3
  <2>4. CASE n = m
    <3>1. samples[m] \in Seq(Samples)
      BY <1>1, <1>3
    <3>2. \A i \in DOMAIN Append(samples[m], e) :
            \/ i \in DOMAIN samples[m] /\ Append(samples[m], e)[i] = samples[m][i]
            \/ Append(samples[m], e)[i] = e
      BY <1>2, <3>1
    <3> QED
      BY <1>2, <1>4, <2>1, <2>2, <2>4, <3>2
  <2> QED
    BY <2>3, <2>4
<1>8. WindowsAreFresh'
  BY <1>7 DEF WindowsAreFresh
<1> QED
  BY <1>6, <1>8

\* The successful probe closes its circuit with empty windows.
LEMMA RecoveryWindows ==
  ASSUME WindowsInv, NEW c \in Callers, ProbeSucceeds(c)
  PROVE  WindowTypes' /\ WindowsAreFresh'
<1> DEFINE m == ModelOf(c)
<1>1. m \in Models
  BY ModelOfType DEF WindowsInv, IInv
<1>2. /\ failures' = [failures EXCEPT ![m] = <<>>]
      /\ samples' = [samples EXCEPT ![m] = <<>>]
      /\ Moves(m, "closed", FALSE)
  BY DEF ProbeSucceeds
<1>3. failures \in [Models -> Seq(Failures)] /\ samples \in [Models -> Seq(Samples)]
  BY DEF WindowsInv, WindowTypes
<1> HIDE DEF m
<1>4. WindowTypes'
  BY <1>1, <1>2, <1>3 DEF WindowTypes
<1>5. \A n \in Models : n # m =>
        /\ state'[n] = state[n] /\ generation'[n] = generation[n]
        /\ failures'[n] = failures[n] /\ samples'[n] = samples[n]
  BY <1>1, <1>2, <1>3 DEF Moves, WindowsInv, IInv, ControlOK
<1>6. DOMAIN failures'[m] = {} /\ DOMAIN samples'[m] = {}
  BY <1>1, <1>2, <1>3
<1>7. WindowsAreFresh'
  BY <1>5, <1>6 DEF WindowsInv, WindowsAreFresh
<1> QED
  BY <1>4, <1>7

\* Selecting a candidate closes no circuit and leaves the windows alone.
LEMMA SelectionWindows ==
  ASSUME WindowsInv, NEW chain \in Chains, NEW start, NEW i \in 1..Last, NEW forced,
         Selects(chain, start, i, forced)
  PROVE  WindowTypes' /\ WindowsAreFresh'
<1>1. CASE UNCHANGED breakers
  BY <1>1, SameWindows DEF breakers
<1>2. CASE ForceHalfOpen(chain[i])
  BY <1>2, CandidateIsModel, MovesAway, SameWindows DEF ForceHalfOpen, WindowsInv, IInv
<1> QED
  BY <1>1, <1>2 DEF Selects

\* The breakers start closed with empty windows.
LEMMA WindowsInit == Init => WindowsInv
<1> SUFFICES ASSUME Init PROVE WindowsInv
  OBVIOUS
<1>1. WindowTypes
  BY DEF Init, WindowTypes
<1>2. \A m \in Models : DOMAIN failures[m] = {} /\ DOMAIN samples[m] = {}
  BY DEF Init
<1> QED
  BY <1>1, <1>2, InitIInv DEF WindowsInv, WindowsAreFresh

\* Every step keeps the windows of closed circuits fresh.
LEMMA WindowsStep == WindowsInv /\ [Next]_vars => WindowsInv'
<1> SUFFICES ASSUME WindowsInv, [Next]_vars PROVE WindowTypes' /\ WindowsAreFresh'
  BY NextIInv DEF WindowsInv
<1>1. CASE Tick
  BY <1>1, TickWindows
<1>2. CASE UNCHANGED vars
  BY <1>2, SameWindows DEF vars
<1>3. ASSUME NEW c \in Callers, CallStep(c)
      PROVE  WindowTypes' /\ WindowsAreFresh'
  <2>1. ControlOK /\ ModelOf(c) \in Models /\ call[c] \in Calls /\ 1 \in 1..Last
    BY ModelOfType, ChainAssumption DEF WindowsInv, IInv, ControlOK, Last
  <2>2. CASE StartQuery(c) \/ StartFallback(c)
    BY <2>2, SelectionWindows DEF StartQuery, StartFallback, Chains
  <2>3. CASE FallBack(c)
    <3>1. call[c].chain \in Chains
      BY <2>1 DEF Calls
    <3>2. CASE UNCHANGED breakers
      BY <3>2, SameWindows DEF breakers
    <3>3. CASE \E i \in 1..Last, forced \in BOOLEAN :
                 Selects(call[c].chain, call[c].index + 1, i, forced)
      BY <3>1, <3>3, SelectionWindows
    <3> QED
      BY <2>3, <3>2, <3>3 DEF FallBack
  <2>4. CASE \/ GiveUp(c) \/ AdmitPlain(c) \/ Reject(c) \/ CallInconclusive(c)
             \/ StaleOutcome(c) \/ Abandon(c) \/ Withdraw(c)
    BY <2>4, SameWindows DEF GiveUp, AdmitPlain, Reject, CallInconclusive,
                             StaleOutcome, Abandon, Withdraw, breakers
  <2>5. CASE AdmitAfterCooldown(c)
    BY <2>1, <2>5, MovesAway, SameWindows DEF AdmitAfterCooldown
  <2>6. CASE AdmitForcedProbe(c)
    BY <2>6, SameWindows DEF AdmitForcedProbe
  <2>7. CASE ProbeSucceeds(c)
    BY <2>7, RecoveryWindows
  <2>8. CASE CallSucceeds(c)
    <3>1. Running(c) /\ Current(c) /\ UNCHANGED failures
      BY <2>8 DEF CallSucceeds, Running
    <3>2. \A n \in Models : state'[n] = "closed" =>
            state[n] = "closed" /\ generation'[n] = generation[n]
      BY <2>1, <2>8, MovesAway DEF CallSucceeds, OpenClosed
    <3>3. CASE UNCHANGED samples
      BY <3>1, <3>2, <3>3, SameWindows
    <3>4. CASE \E slow \in BOOLEAN :
                 samples' = [samples EXCEPT ![ModelOf(c)] = Append(@,
                   [age |-> 0, generation |-> call[c].permit.generation, slow |-> slow])]
      BY <3>1, <3>2, <3>4, SampleEnters
    <3> QED
      BY <2>8, <3>3, <3>4 DEF CallSucceeds
  <2>9. CASE ProbeFails(c) \/ CallFails(c)
    <3>1. /\ Running(c) /\ Current(c) /\ UNCHANGED samples
          /\ failures' = [failures EXCEPT ![ModelOf(c)] = Append(@, Entry(c))]
      BY <2>9 DEF ProbeFails, CallFails, Running
    <3>2. \A n \in Models : state'[n] = "closed" =>
            state[n] = "closed" /\ generation'[n] = generation[n]
      BY <2>1, <2>9, MovesAway DEF ProbeFails, Reopen, ReopenRaises, CallFails, OpenClosed
    <3> QED
      BY <3>1, <3>2, FailureEnters
  <2>10. CASE ProbeInconclusive(c)
    BY <2>1, <2>10, MovesAway, SameWindows DEF ProbeInconclusive
  <2> QED
    BY <1>3, <2>2, <2>3, <2>4, <2>5, <2>6, <2>7, <2>8, <2>9, <2>10 DEF CallStep
<1> QED
  BY <1>1, <1>2, <1>3 DEF Next

\* A closed circuit counts only outcomes of calls it let through since it
\* closed, however late the others report (record_success, record_failure).
THEOREM WindowsAlwaysFresh == Spec => []WindowsAreFresh
<1>1. WindowsInv => WindowsAreFresh
  BY DEF WindowsInv
<1> QED
  BY WindowsInit, WindowsStep, <1>1, PTL DEF Spec

=============================================================================
