---------------------------- MODULE BoostControl ----------------------------
(***************************************************************************)
(* BoostController (boost.rs): the target by gear and rpm or by a timed    *)
(* scramble, a PID for the wastegate duty, and the overboost flag.         *)
(* Pressures are kPa, the duty whole percent of thousandths.               *)
(***************************************************************************)
EXTENDS Curves

CONSTANTS SCRAMBLE_DURATION,   \* scramble_duration_ms, in ticks of the caller
          OVERBOOST            \* overboost_cut_kpa

BoostAssumption == SCRAMBLE_DURATION \in Nat /\ OVERBOOST \in Int

RpmAxis == <<1500, 2000, 2500, 3000, 3500, 4000, 4500, 5000>>

GearTable ==
    << <<120, 140, 160, 180, 200, 200, 200, 200>>,
       <<130, 155, 175, 195, 210, 210, 210, 210>>,
       <<140, 165, 190, 210, 220, 220, 220, 220>> >>

\* Gears from the fourth on share a row.
GearRow(gear) == IF gear <= 3 THEN GearTable[Larger(gear, 1)]
                              ELSE <<140, 165, 195, 215, 225, 225, 225, 225>>

target_for(gear, rpm) == Interpolate(RpmAxis, GearRow(gear), rpm)

SCRAMBLE_KPA == 240
FALLBACK_KPA == 200

\* Gains in thousandths of the duty per kPa, one update a second.
Gains == [p |-> 500, i |-> 50, d |-> 100, integral_limit |-> 600]

NewBoost == [ target |-> 0, duty |-> 0, integral |-> 0, error_prev |-> 0,
              scramble |-> FALSE, timer |-> 0, overboost |-> FALSE ]

set_target(s, gear, rpm) ==
    [s EXCEPT !.target = IF s.scramble THEN SCRAMBLE_KPA
                         ELSE IF gear > 0 THEN target_for(gear, rpm)
                         ELSE FALLBACK_KPA]

update_pid(s, boost) ==
    LET error == s.target - boost
        pid == PidStep(Gains, s.integral, s.error_prev, error)
    IN  [s EXCEPT !.integral = pid.integral, !.error_prev = error,
                  !.duty = Clamp(pid.output, 0, 1000) \div 10,
                  !.overboost = boost > OVERBOOST]

\* Slip: a scramble ends only when its timer meets the tick exactly.
ScrambleExactEnd(s, dt) ==
    IF s.scramble /\ s.timer = dt THEN [s EXCEPT !.scramble = FALSE, !.timer = 0]
    ELSE IF s.scramble THEN [s EXCEPT !.timer = Larger(@ - dt, 0)] ELSE s

tick_scramble(s, dt) ==
    IF ~s.scramble THEN s
    ELSE IF s.timer <= dt THEN [s EXCEPT !.scramble = FALSE, !.timer = 0]
    ELSE [s EXCEPT !.timer = @ - dt]

\* Activating again restarts the timer.
activate_scramble(s) == [s EXCEPT !.scramble = TRUE, !.timer = SCRAMBLE_DURATION]

BoostType ==
    [ target : 0..SCRAMBLE_KPA, duty : 0..100, integral : -600..600, error_prev : Int,
      scramble : BOOLEAN, timer : 0..SCRAMBLE_DURATION, overboost : BOOLEAN ]
=============================================================================
