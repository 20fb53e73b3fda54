---------------------------- MODULE ExternalTcu ----------------------------
(***************************************************************************)
(* ExternalTcuRuntime (tcu.rs): the simulated external transmission        *)
(* controller.  One tick per live-data sample; everything it decides       *)
(* depends on the sample counter and on its own state.  Ages and timers    *)
(* are in centiseconds, the request counters are u8.                       *)
(***************************************************************************)
EXTENDS Integers

CONSTANTS OFFLINE_PERIOD, OFFLINE_WINDOW,     \* samples the link is cut
          RX_STALE_PERIOD, RX_STALE_WINDOW,   \* samples the rx stream is stale
          TX_STALE_PERIOD, TX_STALE_WINDOW,
          REQUEST_PERIOD,                     \* samples between shift requests
          REQUEST_STEP,                       \* age of one sample
          DEFAULT_TIMER, STALE_REQUEST, TIMEOUT_REQUEST,
          RESULT_HOLD,                        \* ticks an outcome is shown
          COUNTER_MOD                         \* 256: the counters are u8

TcuAssumption ==
    /\ {OFFLINE_PERIOD, RX_STALE_PERIOD, TX_STALE_PERIOD, REQUEST_PERIOD,
        REQUEST_STEP, RESULT_HOLD, COUNTER_MOD} \subseteq Nat \ {0}
    /\ {OFFLINE_WINDOW, RX_STALE_WINDOW, TX_STALE_WINDOW, DEFAULT_TIMER,
        STALE_REQUEST, TIMEOUT_REQUEST} \subseteq Nat
    /\ REQUEST_STEP < DEFAULT_TIMER
    /\ REQUEST_STEP < TIMEOUT_REQUEST
    /\ REQUEST_STEP < STALE_REQUEST
    /\ REQUEST_STEP < 10

Larger(a, b) == IF a >= b THEN a ELSE b
Minus(a, b) == IF a >= b THEN a - b ELSE 0

NewTcu ==
    [ active |-> FALSE, timer |-> 0, requests |-> 0, timeouts |-> 0,
      fault |-> 0, state |-> 0, age |-> 0, acks |-> 0, gear |-> 0,
      result |-> 0, hold |-> 0 ]

ShiftStates == 0..6      \* 1 pending, 2 torque cut, 3 shifting, 4 done, 5 failed, 6 offline
ShiftFaults == {0, 1, 2, 3, 4, 6, 7, 8}
ShiftResults == 0..5     \* 1 completed, 2 timeout, 3 denied, 4 aborted, 5 fault

LinkOnline(n) == n % OFFLINE_PERIOD >= OFFLINE_WINDOW
RxFresh(n) == LinkOnline(n) /\ n % RX_STALE_PERIOD >= RX_STALE_WINDOW
TxFresh(n) == LinkOnline(n) /\ n % TX_STALE_PERIOD >= TX_STALE_WINDOW

raise_fault(t, fault, state, result, clear_gear) ==
    [t EXCEPT !.active = FALSE, !.timer = 0, !.fault = fault, !.state = state,
              !.result = result, !.age = 0, !.hold = RESULT_HOLD,
              !.gear = IF clear_gear THEN 0 ELSE @]

clear_to_idle(t) ==
    [t EXCEPT !.state = 0, !.fault = 0, !.result = 0, !.gear = 0, !.age = 0]

start_shift_request(t) ==
    LET request == (t.requests + 1) % COUNTER_MOD
    IN  [t EXCEPT !.active = TRUE, !.requests = request,
                  !.timer = IF request % 5 = 0 THEN TIMEOUT_REQUEST + 8
                                               ELSE DEFAULT_TIMER,
                  !.fault = 0, !.result = 0, !.state = 1, !.age = 0,
                  !.gear = (request % 6) + 1]

\* Age and phase of a running request one sample later.
aged(t) ==
    LET age == t.age + REQUEST_STEP
    IN  [t EXCEPT !.age = age,
                  !.timer = Minus(t.timer, REQUEST_STEP),
                  !.state = IF age >= 18 THEN 3 ELSE IF age >= 8 THEN 2 ELSE @]

complete(t) ==
    [t EXCEPT !.active = FALSE, !.result = 1, !.state = 4,
              !.acks = (@ + 1) % COUNTER_MOD, !.gear = 0, !.age = 0,
              !.hold = RESULT_HOLD]

\* Slip: a timed-out request is acknowledged as well.
TimedOutAcknowledged(t) ==
    raise_fault([t EXCEPT !.timeouts = (t.timeouts + 1) % COUNTER_MOD,
                          !.acks = (t.acks + 1) % COUNTER_MOD], 2, 5, 2, TRUE)

timed_out(t) ==
    raise_fault([t EXCEPT !.timeouts = (t.timeouts + 1) % COUNTER_MOD], 2, 5, 2, TRUE)

\* The faults a running request can meet, the first that applies.  Every fifth
\* request is stretched into a timeout and ignores the stream watchdogs.
step_active_shift(t, rx_fresh, tx_fresh) ==
    LET a == aged(t)
        watched == a.requests % 5 # 0
    IN  IF watched /\ ~rx_fresh /\ a.age >= 10
        THEN raise_fault(a, 7, 5, 5, FALSE)
        ELSE IF watched /\ ~tx_fresh /\ a.age >= 14
        THEN raise_fault(a, 8, 5, 5, FALSE)
        ELSE IF a.requests % 11 = 0 /\ a.age >= 14
        THEN raise_fault(a, 4, 5, 4, FALSE)
        ELSE IF a.requests % 7 = 0 /\ a.age >= 10
        THEN raise_fault(a, 3, 5, 3, FALSE)
        ELSE IF a.age >= TIMEOUT_REQUEST
        THEN timed_out(a)
        ELSE IF a.requests % 13 = 0 /\ a.age >= STALE_REQUEST
        THEN raise_fault(a, 6, 5, 5, FALSE)
        ELSE IF a.timer = 0 THEN complete(a) ELSE a

\* The link is cut: a running request, or an outcome that still shows its gear,
\* becomes a link fault.
offline(t) ==
    LET told == IF t.active \/ t.gear > 0 THEN raise_fault(t, 1, 6, 5, FALSE)
                                         ELSE [t EXCEPT !.state = 6]
    IN  [told EXCEPT !.active = FALSE, !.timer = 0, !.age = 0, !.gear = 0,
                     !.hold = Larger(@, 2)]

release(t) ==
    LET held == [t EXCEPT !.hold = @ - 1]
    IN  IF held.hold = 0 /\ held.state # 6 THEN clear_to_idle(held) ELSE held

online(t, n) ==
    LET back  == IF t.state = 6 /\ t.hold = 0 THEN clear_to_idle(t) ELSE t
        asked == IF ~back.active /\ back.hold = 0 /\ n % REQUEST_PERIOD = 1
                 THEN start_shift_request(back) ELSE back
    IN  IF asked.active THEN step_active_shift(asked, RxFresh(n), TxFresh(n))
        ELSE IF asked.hold > 0 THEN release(asked)
        ELSE asked

tick(t, n) == IF LinkOnline(n) THEN online(t, n) ELSE offline(t)

shift_in_progress(t) == t.active /\ t.state >= 3

\* The TransmissionSample a frame carries, the echoed fields left out.
sample_flags(t, n) ==
    { f \in {"link", "rx", "tx", "requested", "shifting"} :
        CASE f = "link" -> LinkOnline(n)
          [] f = "rx" -> RxFresh(n)
          [] f = "tx" -> TxFresh(n)
          [] f = "requested" -> t.active
          [] f = "shifting" -> shift_in_progress(t) }

torque_reduction_pct(t) ==
    IF ~t.active \/ t.state < 2 THEN 0 ELSE IF t.state >= 3 THEN 26 ELSE 14

----------------------------------------------------------------------------
VARIABLES tcu, samples   \* samples: sample_counter, which the runtime counts up

bridge == <<tcu, samples>>

CONSTANT MAX_SAMPLES      \* bound: samples considered

Init == tcu = NewTcu /\ samples = 0

Tick ==
    /\ samples < MAX_SAMPLES
    /\ samples' = samples + 1
    /\ tcu' = tick(tcu, samples')

Next == Tick

Spec == Init /\ [][Next]_bridge

TcuType ==
    [ active : BOOLEAN, timer : Nat, requests : 0..(COUNTER_MOD - 1),
      timeouts : 0..(COUNTER_MOD - 1), fault : ShiftFaults, state : ShiftStates,
      age : Nat, acks : 0..(COUNTER_MOD - 1), gear : 0..6,
      result : ShiftResults, hold : Nat ]

\* The phase of ShiftContract a sample shows.
Phase(t) ==
    CASE t.active -> "pending"
      [] ~t.active /\ t.result = 1 -> "completed"
      [] ~t.active /\ t.result > 1 -> "failed"
      [] OTHER -> "idle"

\* Every counter a frame shows moves only as the shift contract says: one
\* outcome for each request, and each outcome in its own counter.
Contract == INSTANCE ShiftContract
            WITH phase <- Phase(tcu), requests <- tcu.requests,
                 acks <- tcu.acks, timeouts <- tcu.timeouts,
                 WRAP <- COUNTER_MOD

ImplementsShiftContract == Contract!Spec
=============================================================================
