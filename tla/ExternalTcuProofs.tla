-------------------------- MODULE ExternalTcuProofs --------------------------
(***************************************************************************)
(* The TCU bridge keeps its type and implements the shift contract, for    *)
(* every period and limit the assumption allows.  LiveDataProofs and       *)
(* ControllersProofs use these lemmas for the instance of the bridge each  *)
(* of their components ticks.                                              *)
(***************************************************************************)
EXTENDS ExternalTcu, TLAPS

LEMMA TcuSizes ==
    ASSUME TcuAssumption
    PROVE  /\ REQUEST_STEP \in Nat \ {0} /\ RESULT_HOLD \in Nat \ {0} /\ COUNTER_MOD \in Nat \ {0}
           /\ DEFAULT_TIMER \in Nat /\ STALE_REQUEST \in Nat /\ TIMEOUT_REQUEST \in Nat
           /\ REQUEST_STEP < DEFAULT_TIMER /\ REQUEST_STEP < TIMEOUT_REQUEST
           /\ REQUEST_STEP < STALE_REQUEST /\ REQUEST_STEP < 10
  BY DEF TcuAssumption

TcuField(t) ==
    /\ t.active \in BOOLEAN /\ t.timer \in Nat /\ t.requests \in 0..(COUNTER_MOD - 1)
    /\ t.timeouts \in 0..(COUNTER_MOD - 1) /\ t.fault \in ShiftFaults
    /\ t.state \in ShiftStates /\ t.age \in Nat /\ t.acks \in 0..(COUNTER_MOD - 1)
    /\ t.gear \in 0..6 /\ t.result \in ShiftResults /\ t.hold \in Nat

LEMMA TcuFields == ASSUME NEW t \in TcuType PROVE TcuField(t)
  BY DEF TcuField, TcuType

\* The next value of a counter that wraps.
LEMMA NextWraps ==
    ASSUME TcuAssumption, NEW count \in 0..(COUNTER_MOD - 1)
    PROVE  (count + 1) % COUNTER_MOD \in 0..(COUNTER_MOD - 1)
  <1>1. count + 1 \in Nat /\ COUNTER_MOD \in Nat \ {0}
    BY TcuSizes
  <1>2. \A a \in Nat, d \in Nat \ {0} : a % d \in 0..(d - 1)
    OBVIOUS
  <1> QED
    BY <1>1, <1>2, Zenon

\* A bridge that shows a gear after its request shows a failure with it.
TcuSafe(t) == t \in TcuType /\ (~t.active /\ t.gear > 0 => t.result > 1)

LEMMA NewTcuSafe ==
    ASSUME TcuAssumption
    PROVE  TcuSafe(NewTcu) /\ Phase(NewTcu) = "idle"
  <1>1. 0 \in 0..(COUNTER_MOD - 1)
    BY TcuSizes
  <1>2. NewTcu \in TcuType
    BY <1>1 DEF NewTcu, TcuType, ShiftFaults, ShiftStates, ShiftResults
  <1> QED
    BY <1>2 DEF TcuSafe, NewTcu, Phase

Faulted(t, fault, state, result, gear) ==
    [t EXCEPT !.active = FALSE, !.timer = 0, !.fault = fault, !.state = state,
              !.result = result, !.age = 0, !.hold = RESULT_HOLD, !.gear = gear]

\* A failure shows as one, and leaves the counters alone.
FailedFrom(t, f) ==
    /\ TcuSafe(f) /\ Phase(f) = "failed" /\ ~f.active /\ f.result > 1
    /\ f.requests = t.requests /\ f.acks = t.acks /\ f.timeouts = t.timeouts

LEMMA FaultRaised ==
    ASSUME TcuAssumption, NEW t \in TcuType, NEW fault \in ShiftFaults, NEW state \in ShiftStates,
           NEW result \in 2..5, NEW gear \in {0, t.gear}
    PROVE  FailedFrom(t, Faulted(t, fault, state, result, gear))
  <1> DEFINE f == Faulted(t, fault, state, result, gear)
  <1>1. gear \in 0..6 /\ RESULT_HOLD \in Nat /\ result \in ShiftResults
    BY TcuFields, TcuSizes DEF TcuField, ShiftResults
  <1>2. f \in TcuType
    BY <1>1 DEF TcuType, Faulted
  <1>3. /\ ~f.active /\ f.result = result
        /\ f.requests = t.requests /\ f.acks = t.acks /\ f.timeouts = t.timeouts
    BY DEF TcuType, Faulted
  <1> HIDE DEF f
  <1>4. Phase(f) = "failed"
    BY <1>3 DEF Phase
  <1>5. FailedFrom(t, f)
    BY <1>2, <1>3, <1>4 DEF TcuSafe, FailedFrom
  <1> QED
    BY <1>5 DEF f

LEMMA AgedKeeps ==
    ASSUME TcuAssumption, NEW t \in TcuType, t.active
    PROVE  LET a == aged(t)
           IN  /\ a \in TcuType /\ a.active
               /\ a.age = t.age + REQUEST_STEP /\ a.timer = Minus(t.timer, REQUEST_STEP)
               /\ a.requests = t.requests /\ a.acks = t.acks /\ a.timeouts = t.timeouts
  <1> DEFINE a == aged(t)
             age == t.age + REQUEST_STEP
             timer == Minus(t.timer, REQUEST_STEP)
             state == IF age >= 18 THEN 3 ELSE IF age >= 8 THEN 2 ELSE t.state
  <1>1. a = [t EXCEPT !.age = age, !.timer = timer, !.state = state]
    BY DEF aged, TcuType
  <1>2. age \in Nat /\ timer \in Nat /\ state \in ShiftStates
    BY TcuFields, TcuSizes DEF TcuField, Minus, ShiftStates
  <1> HIDE DEF a, age, timer, state
  <1>3. a \in TcuType
    BY <1>1, <1>2 DEF TcuType
  <1>4. /\ a.active /\ a.age = age /\ a.timer = timer
        /\ a.requests = t.requests /\ a.acks = t.acks /\ a.timeouts = t.timeouts
    BY <1>1 DEF TcuType
  <1> QED
    BY <1>3, <1>4 DEF a, age, timer

\* What one sample makes of the phase and the counters a frame shows.
Unchanged(t, u) ==
    u.requests = t.requests /\ u.acks = t.acks /\ u.timeouts = t.timeouts

Outcome(t, u) ==
    \/ Unchanged(t, u) /\ Phase(u) = "pending"
    \/ Unchanged(t, u) /\ Phase(u) = "failed"
    \/ /\ Phase(u) = "failed"
       /\ u.requests = t.requests /\ u.acks = t.acks
       /\ u.timeouts = (t.timeouts + 1) % COUNTER_MOD
    \/ /\ Phase(u) = "completed"
       /\ u.requests = t.requests /\ u.timeouts = t.timeouts
       /\ u.acks = (t.acks + 1) % COUNTER_MOD

\* A running request goes on or has one outcome.
LEMMA RunningRequest ==
    ASSUME TcuAssumption, NEW t \in TcuType, t.active, NEW rx \in BOOLEAN, NEW tx \in BOOLEAN
    PROVE  LET u == step_active_shift(t, rx, tx) IN TcuSafe(u) /\ Outcome(t, u)
  <1> DEFINE a == aged(t)
             u == step_active_shift(t, rx, tx)
  <1> SUFFICES TcuSafe(u) /\ Outcome(t, u)
    OBVIOUS
  <1>1. /\ a \in TcuType /\ a.active
        /\ a.requests = t.requests /\ a.acks = t.acks /\ a.timeouts = t.timeouts
    BY AgedKeeps, Zenon
  <1>2. \/ u = raise_fault(a, 7, 5, 5, FALSE)
        \/ u = raise_fault(a, 8, 5, 5, FALSE)
        \/ u = raise_fault(a, 4, 5, 4, FALSE)
        \/ u = raise_fault(a, 3, 5, 3, FALSE)
        \/ u = timed_out(a)
        \/ u = raise_fault(a, 6, 5, 5, FALSE)
        \/ u = complete(a)
        \/ u = a
    BY Zenon DEF step_active_shift
  <1> HIDE DEF a, u
  <1>3. ASSUME NEW fault \in {7, 8, 4, 3, 6}, NEW result \in {5, 4, 3},
               u = raise_fault(a, fault, 5, result, FALSE)
        PROVE  TcuSafe(u) /\ Outcome(t, u)
    <2>1. fault \in ShiftFaults /\ 5 \in ShiftStates /\ result \in 2..5
      BY DEF ShiftFaults, ShiftStates
    <2>2. u = Faulted(a, fault, 5, result, a.gear)
      BY <1>1, <1>3 DEF raise_fault, TcuType, Faulted
    <2>3. FailedFrom(a, Faulted(a, fault, 5, result, a.gear))
      BY <1>1, <2>1, FaultRaised
    <2> QED
      BY <1>1, <2>2, <2>3 DEF FailedFrom, Outcome, Unchanged
  <1>4. CASE u = timed_out(a)
    <2> DEFINE b == [a EXCEPT !.timeouts = (a.timeouts + 1) % COUNTER_MOD]
    <2>1. (a.timeouts + 1) % COUNTER_MOD \in 0..(COUNTER_MOD - 1)
      BY <1>1, TcuFields, NextWraps DEF TcuField
    <2>2. b \in TcuType
      BY <1>1, <2>1 DEF TcuType
    <2>3. /\ b.requests = t.requests /\ b.acks = t.acks
          /\ b.timeouts = (t.timeouts + 1) % COUNTER_MOD
      BY <1>1 DEF TcuType
    <2>4. u = Faulted(b, 2, 5, 2, 0)
      BY <1>1, <1>4 DEF timed_out, raise_fault, TcuType, Faulted
    <2> HIDE DEF b
    <2>5. 2 \in ShiftFaults /\ 5 \in ShiftStates /\ 2 \in 2..5
      BY DEF ShiftFaults, ShiftStates
    <2>6. FailedFrom(b, Faulted(b, 2, 5, 2, 0))
      BY <2>2, <2>5, FaultRaised
    <2> QED
      BY <2>3, <2>4, <2>6 DEF FailedFrom, Outcome, Unchanged
  <1>5. CASE u = complete(a)
    <2>1. (a.acks + 1) % COUNTER_MOD \in 0..(COUNTER_MOD - 1)
      BY <1>1, TcuFields, NextWraps DEF TcuField
    <2>2. u = [a EXCEPT !.active = FALSE, !.result = 1, !.state = 4,
                        !.acks = (a.acks + 1) % COUNTER_MOD, !.gear = 0, !.age = 0,
                        !.hold = RESULT_HOLD]
      BY <1>1, <1>5 DEF complete, TcuType
    <2>3. u \in TcuType
      <3>1. /\ 1 \in ShiftResults /\ 4 \in ShiftStates /\ 0 \in 0..6 /\ 0 \in Nat
            /\ RESULT_HOLD \in Nat
        BY TcuSizes DEF ShiftStates, ShiftResults
      <3> QED
        BY <1>1, <2>1, <2>2, <3>1 DEF TcuType
    <2>4. /\ ~u.active /\ u.result = 1 /\ u.gear = 0
          /\ u.requests = t.requests /\ u.timeouts = t.timeouts
          /\ u.acks = (t.acks + 1) % COUNTER_MOD
      BY <1>1, <2>2 DEF TcuType
    <2>5. Phase(u) = "completed"
      BY <2>4 DEF Phase
    <2>6. TcuSafe(u)
      BY <2>3, <2>4 DEF TcuSafe
    <2> QED
      BY <2>4, <2>5, <2>6 DEF Outcome
  <1>6. CASE u = a
    <2>1. Phase(u) = "pending"
      BY <1>1, <1>6 DEF Phase
    <2> QED
      BY <1>1, <1>6, <2>1 DEF TcuSafe, Outcome, Unchanged
  <1>7. CASE \/ u = raise_fault(a, 7, 5, 5, FALSE)
             \/ u = raise_fault(a, 8, 5, 5, FALSE)
             \/ u = raise_fault(a, 4, 5, 4, FALSE)
             \/ u = raise_fault(a, 3, 5, 3, FALSE)
             \/ u = raise_fault(a, 6, 5, 5, FALSE)
    BY <1>3, <1>7
  <1> QED
    BY <1>2, <1>4, <1>5, <1>6, <1>7
\* A sample that raises a request shows it pending.
Requested(t, u) ==
    /\ Phase(u) = "pending"
    /\ u.requests = (t.requests + 1) % COUNTER_MOD
    /\ u.acks = t.acks /\ u.timeouts = t.timeouts

\* What one sample may do to the phase and the counters: the contract's actions.
ContractStep(t, u) ==
    \/ Unchanged(t, u) /\ Phase(u) = Phase(t)
    \/ Unchanged(t, u) /\ Phase(t) \in {"completed", "failed"} /\ Phase(u) = "idle"
    \/ Phase(t) # "pending" /\ Requested(t, u)
    \/ Phase(t) = "pending" /\ Outcome(t, u)

LEMMA PhaseOf ==
    ASSUME NEW t \in TcuType
    PROVE  /\ Phase(t) \in {"idle", "pending", "completed", "failed"}
           /\ Phase(t) = "pending" <=> t.active
           /\ Phase(t) = "failed" <=> ~t.active /\ t.result > 1
           /\ Phase(t) = "idle" <=> ~t.active /\ t.result = 0
  <1>1. t.active \in BOOLEAN /\ t.result \in 0..5
    BY TcuFields DEF TcuField, ShiftResults
  <1> QED
    BY <1>1 DEF Phase

\* The link is cut.
LEMMA OfflineStep ==
    ASSUME TcuAssumption, NEW t, TcuSafe(t)
    PROVE  TcuSafe(offline(t)) /\ ContractStep(t, offline(t))
  <1> DEFINE told == IF t.active \/ t.gear > 0 THEN raise_fault(t, 1, 6, 5, FALSE)
                                              ELSE [t EXCEPT !.state = 6]
             u == offline(t)
  <1> SUFFICES TcuSafe(u) /\ ContractStep(t, u)
    OBVIOUS
  <1>1. t \in TcuType /\ (~t.active /\ t.gear > 0 => t.result > 1)
    BY DEF TcuSafe
  <1>2. /\ told \in TcuType
        /\ told.requests = t.requests /\ told.acks = t.acks /\ told.timeouts = t.timeouts
        /\ told.result = IF t.active \/ t.gear > 0 THEN 5 ELSE t.result
    <2>1. 1 \in ShiftFaults /\ 6 \in ShiftStates /\ 5 \in 2..5
      BY DEF ShiftFaults, ShiftStates
    <2>2. CASE t.active \/ t.gear > 0
      <3>1. told = Faulted(t, 1, 6, 5, t.gear)
        BY <1>1, <2>2 DEF raise_fault, TcuType, Faulted
      <3>2. FailedFrom(t, Faulted(t, 1, 6, 5, t.gear))
        BY <1>1, <2>1, FaultRaised
      <3>3. Faulted(t, 1, 6, 5, t.gear).result = 5
        BY <1>1 DEF TcuType, Faulted
      <3> QED
        BY <2>2, <3>1, <3>2, <3>3 DEF FailedFrom, TcuSafe
    <2>3. CASE ~(t.active \/ t.gear > 0)
      BY <1>1, <2>1, <2>3 DEF TcuType
    <2> QED
      BY <2>2, <2>3
  <1>3. u = [told EXCEPT !.active = FALSE, !.timer = 0, !.age = 0, !.gear = 0,
                         !.hold = Larger(told.hold, 2)]
    BY <1>2 DEF offline, TcuType
  <1> HIDE DEF told, u
  <1>4. Larger(told.hold, 2) \in Nat
    BY <1>2, TcuFields DEF TcuField, Larger
  <1>5. u \in TcuType
    <2>1. FALSE \in BOOLEAN /\ 0 \in Nat /\ 0 \in 0..6
      OBVIOUS
    <2> QED
      BY <1>2, <1>3, <1>4, <2>1 DEF TcuType
  <1>6. /\ ~u.active /\ u.gear = 0 /\ u.result = told.result
        /\ u.requests = t.requests /\ u.acks = t.acks /\ u.timeouts = t.timeouts
    BY <1>2, <1>3 DEF TcuType
  <1>7. TcuSafe(u)
    BY <1>5, <1>6 DEF TcuSafe
  <1>8. CASE t.active \/ t.gear > 0
    <2>1. Phase(u) = "failed"
      BY <1>2, <1>5, <1>6, <1>8, PhaseOf
    <2>2. Phase(t) = "pending" \/ Phase(t) = "failed"
      BY <1>1, <1>8, PhaseOf
    <2> QED
      BY <1>6, <1>7, <2>1, <2>2 DEF ContractStep, Outcome, Unchanged
  <1>9. CASE ~(t.active \/ t.gear > 0)
    <2>1. ~t.active /\ u.result = t.result
      BY <1>1, <1>2, <1>6, <1>9, TcuFields DEF TcuField
    <2>2. Phase(u) = Phase(t)
      BY <1>6, <2>1 DEF Phase
    <2> QED
      BY <1>6, <1>7, <2>2 DEF ContractStep, Unchanged
  <1> QED
    BY <1>8, <1>9

\* An outcome is put away: a settled bridge goes idle.
LEMMA ClearedStep ==
    ASSUME NEW t, TcuSafe(t)
    PROVE  LET u == clear_to_idle(t)
           IN  /\ TcuSafe(u) /\ ContractStep(t, u) /\ Unchanged(t, u)
               /\ u.active = t.active /\ u.hold = t.hold
  <1> DEFINE u == clear_to_idle(t)
  <1> SUFFICES /\ TcuSafe(u) /\ ContractStep(t, u) /\ Unchanged(t, u)
               /\ u.active = t.active /\ u.hold = t.hold
    OBVIOUS
  <1>1. t \in TcuType
    BY DEF TcuSafe
  <1>2. /\ 0 \in ShiftFaults /\ 0 \in ShiftStates /\ 0 \in ShiftResults
    BY DEF ShiftFaults, ShiftStates, ShiftResults
  <1>3. u \in TcuType
    <2>1. 0 \in Nat /\ 0 \in 0..6
      OBVIOUS
    <2>2. u = [t EXCEPT !.state = 0, !.fault = 0, !.result = 0, !.gear = 0, !.age = 0]
      BY DEF clear_to_idle
    <2> QED
      BY <1>1, <1>2, <2>1, <2>2 DEF TcuType
  <1>4. /\ u.active = t.active /\ u.hold = t.hold /\ u.result = 0 /\ u.gear = 0
        /\ Unchanged(t, u)
    BY <1>1 DEF clear_to_idle, TcuType, Unchanged
  <1> HIDE DEF u
  <1>5. TcuSafe(u)
    BY <1>3, <1>4 DEF TcuSafe
  <1>6. ContractStep(t, u)
    BY <1>1, <1>3, <1>4, PhaseOf DEF ContractStep
  <1> QED
    BY <1>4, <1>5, <1>6

\* An outcome is shown for one sample less.
LEMMA ReleaseStep ==
    ASSUME TcuAssumption, NEW t, TcuSafe(t), ~t.active, t.hold > 0
    PROVE  TcuSafe(release(t)) /\ ContractStep(t, release(t))
  <1> DEFINE held == [t EXCEPT !.hold = t.hold - 1]
  <1>1. t \in TcuType /\ (t.gear > 0 => t.result > 1)
    BY DEF TcuSafe
  <1>2. t.hold - 1 \in Nat
    BY <1>1, TcuFields DEF TcuField
  <1>3. /\ held \in TcuType /\ ~held.active
        /\ held.gear = t.gear /\ held.result = t.result /\ Unchanged(t, held)
    BY <1>1, <1>2 DEF TcuType, Unchanged
  <1>4. release(t) = held \/ release(t) = clear_to_idle(held)
    BY <1>1 DEF release, TcuType
  <1> HIDE DEF held
  <1>5. TcuSafe(held)
    BY <1>1, <1>3 DEF TcuSafe
  <1>6. Phase(held) = Phase(t)
    BY <1>3 DEF Phase
  <1>7. CASE release(t) = held
    BY <1>3, <1>5, <1>6, <1>7 DEF ContractStep
  <1>8. CASE release(t) = clear_to_idle(held)
    <2> DEFINE u == clear_to_idle(held)
    <2>1. TcuSafe(u) /\ ContractStep(held, u) /\ Unchanged(held, u) /\ u.active = held.active
      BY <1>5, ClearedStep, Zenon
    <2> HIDE DEF u
    <2>2. Unchanged(t, u)
      BY <1>3, <2>1 DEF Unchanged
    <2>3. Phase(held) # "pending"
      BY <1>3, PhaseOf
    <2>4. Phase(u) # "pending"
      BY <1>3, <2>1, PhaseOf DEF TcuSafe
    <2>5. ContractStep(t, u)
      BY <1>6, <2>1, <2>2, <2>3, <2>4 DEF ContractStep, Requested
    <2> QED
      BY <1>8, <2>1, <2>5 DEF u
  <1> QED
    BY <1>4, <1>7, <1>8

\* A request is still running at the end of the sample that raised it: no
\* outcome comes that early.
LEMMA RequestStep ==
    ASSUME TcuAssumption, NEW t, TcuSafe(t), ~t.active, NEW rx \in BOOLEAN, NEW tx \in BOOLEAN
    PROVE  LET u == step_active_shift(start_shift_request(t), rx, tx)
           IN  TcuSafe(u) /\ Requested(t, u)
  <1> DEFINE r == (t.requests + 1) % COUNTER_MOD
             timer == IF r % 5 = 0 THEN TIMEOUT_REQUEST + 8 ELSE DEFAULT_TIMER
             gear == (r % 6) + 1
             s == start_shift_request(t)
             a == aged(s)
             u == step_active_shift(s, rx, tx)
  <1> SUFFICES TcuSafe(u) /\ Requested(t, u)
    OBVIOUS
  <1>1. t \in TcuType
    BY DEF TcuSafe
  <1>2. r \in 0..(COUNTER_MOD - 1)
    BY <1>1, TcuFields, NextWraps DEF TcuField
  <1>3. timer \in Nat /\ timer > REQUEST_STEP /\ gear \in 0..6
    BY <1>2, TcuSizes
  <1>4. s = [t EXCEPT !.active = TRUE, !.requests = r, !.timer = timer, !.fault = 0,
                      !.result = 0, !.state = 1, !.age = 0, !.gear = gear]
    BY DEF start_shift_request
  <1> HIDE DEF r, timer, gear
  <1>5. s \in TcuType
    <2>1. /\ TRUE \in BOOLEAN /\ 0 \in Nat /\ 0 \in ShiftFaults /\ 1 \in ShiftStates
          /\ 0 \in ShiftResults
      BY DEF ShiftFaults, ShiftStates, ShiftResults
    <2> QED
      BY <1>1, <1>2, <1>3, <1>4, <2>1 DEF TcuType
  <1>6. /\ s.active /\ s.requests = r /\ s.timer = timer /\ s.age = 0
        /\ s.acks = t.acks /\ s.timeouts = t.timeouts
    BY <1>1, <1>4 DEF TcuType
  <1> HIDE DEF s
  <1>7. /\ a \in TcuType /\ a.active
        /\ a.age = REQUEST_STEP /\ a.timer > 0
        /\ a.requests = r /\ a.acks = t.acks /\ a.timeouts = t.timeouts
    <2>1. /\ a \in TcuType /\ a.active
          /\ a.age = s.age + REQUEST_STEP /\ a.timer = Minus(s.timer, REQUEST_STEP)
          /\ a.requests = s.requests /\ a.acks = s.acks /\ a.timeouts = s.timeouts
      BY <1>5, <1>6, AgedKeeps, Zenon
    <2> QED
      BY <1>3, <1>6, <2>1, TcuSizes DEF Minus
  <1>8. u = a
    <2>1. /\ ~(a.age >= 10) /\ ~(a.age >= 14) /\ ~(a.age >= TIMEOUT_REQUEST)
          /\ ~(a.age >= STALE_REQUEST) /\ ~(a.timer = 0)
      BY <1>7, TcuSizes
    <2> QED
      BY <2>1, Zenon DEF step_active_shift
  <1> HIDE DEF a, u
  <1>9. Phase(u) = "pending"
    BY <1>7, <1>8, PhaseOf
  <1>10. TcuSafe(u)
    BY <1>7, <1>8 DEF TcuSafe
  <1>11. Requested(t, u)
    BY <1>7, <1>8, <1>9 DEF Requested, r
  <1> QED
    BY <1>10, <1>11

\* The link is up: what is over is put away, and a request is raised, runs on,
\* or its outcome is shown.
LEMMA OnlineStep ==
    ASSUME TcuAssumption, NEW t, TcuSafe(t), NEW k
    PROVE  TcuSafe(online(t, k)) /\ ContractStep(t, online(t, k))
  <1> DEFINE back == IF t.state = 6 /\ t.hold = 0 THEN clear_to_idle(t) ELSE t
             due == ~back.active /\ back.hold = 0 /\ k % REQUEST_PERIOD = 1
             rx == RxFresh(k)
             tx == TxFresh(k)
             u == online(t, k)
  <1> SUFFICES TcuSafe(u) /\ ContractStep(t, u)
    OBVIOUS
  <1>1. rx \in BOOLEAN /\ tx \in BOOLEAN
    BY DEF RxFresh, TxFresh
  <1>2. /\ TcuSafe(back) /\ ContractStep(t, back) /\ Unchanged(t, back)
        /\ back.active = t.active /\ back.hold = t.hold
        /\ back.hold > 0 => back = t
    <2>1. CASE t.state = 6 /\ t.hold = 0
      <3>1. back = clear_to_idle(t)
        BY <2>1
      <3>2. LET c == clear_to_idle(t)
            IN  /\ TcuSafe(c) /\ ContractStep(t, c) /\ Unchanged(t, c)
                /\ c.active = t.active /\ c.hold = t.hold
        BY ClearedStep
      <3>3. ~(t.hold > 0)
        BY <2>1
      <3> QED
        BY <3>1, <3>2, <3>3, Zenon
    <2>2. CASE ~(t.state = 6 /\ t.hold = 0)
      <3>1. back = t
        BY <2>2
      <3> QED
        BY <3>1 DEF ContractStep, Unchanged
    <2> QED
      BY <2>1, <2>2
  <1>3. t \in TcuType /\ back \in TcuType /\ u = online(t, k)
    BY <1>2 DEF TcuSafe
  <1>4. t.active \in BOOLEAN /\ start_shift_request(back).active
    BY <1>3, TcuFields DEF TcuField, start_shift_request, TcuType
  <1>5. \/ t.active /\ u = step_active_shift(back, rx, tx)
        \/ ~t.active /\ u = step_active_shift(start_shift_request(back), rx, tx)
        \/ ~t.active /\ back.hold > 0 /\ u = release(back)
        \/ ~t.active /\ u = back
    <2> DEFINE asked == IF due THEN start_shift_request(back) ELSE back
    <2>1. u = IF asked.active THEN step_active_shift(asked, rx, tx)
              ELSE IF asked.hold > 0 THEN release(asked) ELSE asked
      BY <1>3, Zenon DEF online
    <2>2. CASE due
      <3>1. asked = start_shift_request(back) /\ ~back.active
        BY <2>2
      <3> QED
        BY <1>2, <1>4, <2>1, <3>1, Zenon
    <2>3. CASE ~due
      <3>1. asked = back
        BY <2>3
      <3> QED
        BY <1>2, <1>4, <2>1, <3>1, Zenon
    <2> QED
      BY <2>2, <2>3
  <1> HIDE DEF back, due, rx, tx, u
  <1>6. CASE t.active /\ u = step_active_shift(back, rx, tx)
    <2>1. TcuSafe(u) /\ Outcome(back, u)
      BY <1>1, <1>2, <1>3, <1>6, RunningRequest, Zenon
    <2>2. Outcome(t, u)
      BY <1>2, <2>1 DEF Outcome, Unchanged
    <2>3. Phase(t) = "pending"
      BY <1>3, <1>6, PhaseOf
    <2> QED
      BY <2>1, <2>2, <2>3 DEF ContractStep
  <1>7. CASE ~t.active /\ u = step_active_shift(start_shift_request(back), rx, tx)
    <2>1. TcuSafe(u) /\ Requested(back, u)
      BY <1>1, <1>2, <1>7, RequestStep, Zenon
    <2>2. Requested(t, u)
      BY <1>2, <2>1 DEF Requested, Unchanged
    <2>3. Phase(t) # "pending"
      BY <1>3, <1>7, PhaseOf
    <2> QED
      BY <2>1, <2>2, <2>3 DEF ContractStep
  <1>8. CASE ~t.active /\ back.hold > 0 /\ u = release(back)
    <2>1. back = t
      BY <1>2, <1>8
    <2> QED
      BY <1>8, <2>1, ReleaseStep
  <1>9. CASE ~t.active /\ u = back
    BY <1>2, <1>9
  <1> QED
    BY <1>5, <1>6, <1>7, <1>8, <1>9

LEMMA TcuTick ==
    ASSUME TcuAssumption, NEW t, TcuSafe(t), NEW k
    PROVE  TcuSafe(tick(t, k)) /\ ContractStep(t, tick(t, k))
  <1>1. CASE LinkOnline(k)
    BY <1>1, OnlineStep DEF tick
  <1>2. CASE ~LinkOnline(k)
    BY <1>2, OfflineStep DEF tick
  <1> QED
    BY <1>1, <1>2

\* The bridge keeps the shift contract: a request is pending until it has one
\* outcome, and every counter of a frame counts what its name says, whatever
\* the link does and wherever the u8 counters wrap (ExternalTcuRuntime::tick).
THEOREM TcuImplementsContract ==
    ASSUME TcuAssumption
    PROVE  Spec => ImplementsShiftContract
  <1>1. Init => TcuSafe(tcu) /\ Contract!Init
    BY NewTcuSafe DEF Init, Contract!Init, NewTcu
  <1>2. TcuSafe(tcu) /\ [Next]_bridge => TcuSafe(tcu)'
    BY TcuTick DEF Next, Tick, bridge
  <1>3. TcuSafe(tcu) /\ [Next]_bridge => [Contract!Next]_(Contract!contract)
    <2> SUFFICES ASSUME TcuSafe(tcu), [Next]_bridge
                 PROVE  [Contract!Next]_(Contract!contract)
      OBVIOUS
    <2>1. CASE tcu' = tcu
      BY <2>1 DEF Contract!contract, Phase
    <2>2. ASSUME ContractStep(tcu, tcu')
          PROVE  [Contract!Next]_(Contract!contract)
      <3>1. tcu \in TcuType
        BY DEF TcuSafe
      <3>2. Phase(tcu) \in {"idle", "pending", "completed", "failed"}
        BY <3>1, PhaseOf
      <3> QED
        BY <2>2, <3>2
           DEF ContractStep, Requested, Outcome, Unchanged, Contract!contract,
               Contract!Next, Contract!Request, Contract!Complete, Contract!TimeOut,
               Contract!Fault, Contract!Release, Contract!Settled
    <2> QED
      BY <2>1, <2>2, TcuTick DEF Next, Tick, bridge
  <1> QED
    BY <1>1, <1>2, <1>3, PTL DEF Spec, ImplementsShiftContract, Contract!Spec
==============================================================================
