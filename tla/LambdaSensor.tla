---------------------------- MODULE LambdaSensor ----------------------------
(***************************************************************************)
(* DfsdmLambdaSensor (lambda_dfsdm.rs): heater loop, readiness, the lambda *)
(* of the pump current, and the error count that makes the sensor faulty.  *)
(* Nernst voltage is millivolts, pump current microamperes, lambda         *)
(* thousandths, the heater duty millionths; one update is two milliseconds. *)
(***************************************************************************)
EXTENDS Curves

CONSTANTS ERROR_LIMIT,    \* 50
          ERROR_MAX       \* 255, the width of the counter

LambdaAssumption == ERROR_LIMIT \in Nat /\ ERROR_MAX \in Nat

NERNST_TARGET == 450
READY_WINDOW == 20
DEAD_BELOW == 50

PumpAxis == << -2000, -1602, -1250, -934, -634, -356, -100, -10, 0, 10, 100,
               400, 800, 1560, 2760, 4800 >>
LambdaRow == << 700, 750, 800, 850, 900, 950, 990, 999, 1000, 1001, 1010,
                1050, 1100, 1200, 1400, 1700 >>

ip_to_lambda(ip) == Interpolate(PumpAxis, LambdaRow, ip)

\* Gains in millionths of the duty per millivolt and update.
HeaterGains == [p |-> 1000, i |-> 1, d |-> 50000, integral_limit |-> 800000]
FULL_DUTY == 1000000

NewSensor == [ integral |-> 500000, prev_err |-> 0, duty |-> 500000, lambda |-> 1000,
               ready |-> FALSE, errors |-> 0 ]

heater_update(s, nernst) ==
    LET err == NERNST_TARGET - nernst
        pid == PidStep(HeaterGains, s.integral, s.prev_err, err)
    IN  [s EXCEPT !.integral = pid.integral, !.prev_err = err,
                  !.duty = Clamp(pid.output, 0, FULL_DUTY)]

converged(nernst) == Abs(nernst - NERNST_TARGET) < READY_WINDOW

\* A good sample takes one error back; a voltage that is neither dead nor in
\* the window leaves the count as it is.
errors_after(s, nernst) ==
    IF converged(nernst) THEN Larger(s.errors - 1, 0)
    ELSE IF nernst < DEAD_BELOW THEN Lesser(s.errors + 1, ERROR_MAX) ELSE s.errors

process(s, ip, nernst) ==
    LET heated == heater_update(s, nernst)
    IN  [heated EXCEPT
            !.ready = converged(nernst),
            !.lambda = IF converged(nernst) THEN Clamp(ip_to_lambda(ip), 650, 2000) ELSE @,
            !.errors = errors_after(s, nernst)]

is_faulty(s) == s.errors >= ERROR_LIMIT

reset(s) == NewSensor

SensorType ==
    [ integral : -HeaterGains.integral_limit..HeaterGains.integral_limit, prev_err : Int,
      duty : 0..FULL_DUTY, lambda : 700..1700,
      ready : BOOLEAN, errors : 0..ERROR_MAX ]
=============================================================================
