---------------------------- MODULE DriveByWire ----------------------------
(***************************************************************************)
(* The electronic throttle and the traction control that cuts it.          *)
(*                                                                         *)
(* DbwController (dbw.rs): the electronic throttle.  Two position sensors  *)
(* that disagree latch the limp mode, which caps the target; a PID with a  *)
(* bounded integral drives the motor.  Positions are tenths of a percent,  *)
(* the duty and the integral thousandths.                                  *)
(***************************************************************************)
EXTENDS Curves

Pedal == <<0, 10, 20, 30, 40, 60, 80, 100>>

Throttle ==
    [ sport |-> <<0, 15, 30, 48, 65, 82, 92, 100>>,
      eco   |-> <<0, 6, 12, 20, 30, 50, 75, 100>>,
      rain  |-> <<0, 4, 9, 15, 24, 42, 68, 100>>,
      drag  |-> <<0, 10, 20, 30, 40, 60, 80, 100>> ]

\* Throttle in tenths for a pedal in whole percent, between the breakpoints.
map_pedal(profile, pedal) == Interpolate(Pedal, Scaled(Throttle[profile], 10), pedal)

\* The default configuration, with one update a second.
Config == [ p |-> 80, i |-> 5, d |-> 15, duty_max |-> 1000, integral_limit |-> 500,
            plausible |-> 50, limp_cap |-> 100 ]

NewDbw == [ target |-> 0, actual |-> 0, integral |-> 0, error_prev |-> 0,
            duty |-> 0, limp |-> FALSE ]

\* Slip: sensors that agree again end the limp mode.
LimpWhileDiverged(s, tps1, tps2) == Abs(tps1 - tps2) > Config.plausible

limp_mode(s, tps1, tps2) == s.limp \/ Abs(tps1 - tps2) > Config.plausible

\* The traction cut, whole percent of the mapped target.
cut_target(mapped, etb_cut) == (mapped * (100 - Lesser(etb_cut, 100))) \div 100

\* `in` is [tps1, tps2, pedal, etb_cut].
update(s, profile, in) ==
    LET limp == limp_mode(s, in.tps1, in.tps2)
        wanted == cut_target(map_pedal(profile, in.pedal), in.etb_cut)
        target == IF limp THEN Lesser(wanted, Config.limp_cap) ELSE wanted
        error == target - in.tps1
        pid == PidStep(Config, s.integral, s.error_prev, error)
    IN  [ target |-> target, actual |-> in.tps1, integral |-> pid.integral,
          error_prev |-> error,
          duty |-> Clamp(pid.output, -Config.duty_max, Config.duty_max),
          limp |-> limp ]

DbwType == [ target : 0..1000, actual : 0..1000, integral : -500..500,
             error_prev : -1000..1000, duty : -1000..1000, limp : BOOLEAN ]

----------------------------------------------------------------------------
(***************************************************************************)
(* TractionController (traction.rs): a PID on the slip beyond the target   *)
(* that asks for retard and for a throttle cut while the rear wheels       *)
(* over-slip, and lets go of both step by step.  Slip is whole percent;    *)
(* the intervention, the retard and the cut are thousandths.               *)
(***************************************************************************)

\* The preset of a dry road at 50 updates a second: gains in thousandths per
\* percent of slip and traction_update.
dry == [ enabled |-> TRUE, slip_target |-> 5, p |-> 3000, i |-> 16, d |-> 15000,
         retard_max |-> 8, cut_max |-> 20, min_speed |-> 10, max_intervention |-> 500 ]

NewTraction == [ active |-> FALSE, integral |-> 0, error_prev |-> 0,
                 retard |-> 0, etb_cut |-> 0 ]

standby(s) == [s EXCEPT !.active = FALSE, !.retard = 0, !.etb_cut = 0,
                        !.integral = (@ * 9) \div 10]

let_go(s) ==
    [s EXCEPT !.active = FALSE, !.retard = Larger(@ - 500, 0),
              !.etb_cut = Larger(@ - 1000, 0), !.integral = (@ * 98) \div 100]

\* `excess` is the slip beyond the target, positive here.
intervene(s, p, excess) ==
    LET integral == Clamp(s.integral + p.i * excess, 0, p.max_intervention)
        wanted == p.p * excess + integral + p.d * (excess - s.error_prev)
        intervention == Clamp(wanted, 0, 1000)
    IN  [ active |-> TRUE, integral |-> integral, error_prev |-> excess,
          retard |-> intervention * p.retard_max, etb_cut |-> intervention * p.cut_max ]

\* `in` is [switch, vss, slip]; with whole percent, more than half a percent
\* over the target is at least one.
traction_update(s, p, in) ==
    IF ~p.enabled \/ ~in.switch \/ in.vss < p.min_speed THEN standby(s)
    ELSE IF in.slip <= p.slip_target THEN let_go(s)
    ELSE intervene(s, p, in.slip - p.slip_target)

TractionType(p) ==
    [ active : BOOLEAN, integral : 0..p.max_intervention, error_prev : Nat,
      retard : 0..(1000 * p.retard_max), etb_cut : 0..(1000 * p.cut_max) ]
=============================================================================
