---------------------------- MODULE IdleControl ----------------------------
(***************************************************************************)
(* IdleController (idle.rs): the target from the warm-up table, a PID on   *)
(* the valve while the throttle is closed, the dashpot on the way down to  *)
(* idle, and the fast correction of the ignition.  The duty is in          *)
(* thousandths, the correction in hundredths of a degree.                  *)
(***************************************************************************)
EXTENDS Curves

WarmupClt == <<-20, 0, 20, 40, 60, 70, 80, 90>>
WarmupRpm == <<1400, 1300, 1200, 1100, 1000, 950, 900, 850>>

DSG_STEP == 150
DEADBAND == 30
DASHPOT == 300
IGN_MAX == 500

target_rpm_for_clt(clt, dsg) ==
    Interpolate(WarmupClt, WarmupRpm, clt) + (IF dsg THEN DSG_STEP ELSE 0)

\* Thousandths of the duty per rpm, one update a second.
Gains == [p |-> 400, i |-> 20, d |-> 100, integral_limit |-> 500]

NewIdle == [ target |-> 0, valve |-> 0, integral |-> 0, error_prev |-> 0,
             correction |-> 0, control |-> FALSE, dashpot |-> FALSE, dashpot_duty |-> 0 ]

idle_control(target, rpm, tps) == tps < 2 /\ rpm < target + 500

\* Out of control the valve follows the dashpot; in control the dashpot keeps
\* the flag and the duty it had.
coast(s, rpm, tps) ==
    LET closing == tps < 5 /\ rpm > s.target + 200
        duty == IF closing THEN DASHPOT ELSE (s.dashpot_duty * 95) \div 100
    IN  [s EXCEPT !.control = FALSE, !.dashpot = closing,
                  !.dashpot_duty = duty, !.valve = duty]

regulate(s, error) ==
    LET pid == PidStep(Gains, s.integral, s.error_prev, error)
    IN  [s EXCEPT !.control = TRUE, !.integral = pid.integral,
                  !.error_prev = error, !.valve = Clamp(@ + pid.output, 0, 1000)]

update_pid(s, rpm, tps) ==
    IF ~idle_control(s.target, rpm, tps) THEN coast(s, rpm, tps)
    ELSE IF Abs(s.target - rpm) < DEADBAND THEN [s EXCEPT !.control = TRUE]
    ELSE regulate(s, s.target - rpm)

ign_correction(s, rpm) ==
    IF ~s.control THEN s
    ELSE [s EXCEPT !.correction = Clamp(2 * (s.target - rpm), -IGN_MAX, IGN_MAX)]

IdleType ==
    [ target : Nat, valve : 0..1000, integral : -500..500, error_prev : Int,
      correction : -IGN_MAX..IGN_MAX, control : BOOLEAN, dashpot : BOOLEAN,
      dashpot_duty : 0..DASHPOT ]
=============================================================================
