----------------------------- MODULE VvtControl -----------------------------
(***************************************************************************)
(* VvtController (vvt.rs): four cam phasers, each with a PID on its angle  *)
(* plus a feed-forward for the oil's temperature; all of them let go while *)
(* the oil pressure is too low.  Angles are tenths of a degree, duties     *)
(* thousandths.                                                            *)
(***************************************************************************)
EXTENDS Curves

CONSTANT Enabled     \* the channels of VvtConfig.enabled

VvtChannel == {"intake1", "exhaust1", "intake2", "exhaust2"}

VvtAssumption == Enabled \subseteq VvtChannel

MIN_OIL_KPA == 100
DEADBAND == 10

RpmAxis == <<1000, 2000, 3000, 4000, 5000, 6000, 7000, 7500>>
LoadAxis == <<20, 40, 60, 80, 100, 120, 150, 200>>

Cells ==
    << <<0, 5, 10, 15, 15, 12, 8, 5>>,      <<0, 8, 15, 20, 22, 18, 12, 8>>,
       <<5, 12, 20, 25, 28, 24, 18, 12>>,   <<5, 15, 22, 28, 32, 28, 22, 15>>,
       <<5, 15, 25, 30, 35, 30, 25, 18>>,   <<5, 12, 22, 28, 32, 28, 22, 15>>,
       <<0, 8, 18, 24, 28, 24, 18, 12>>,    <<0, 5, 12, 18, 22, 18, 12, 8>> >>

interpolate(rpm, load) ==
    Interpolate(RpmAxis,
                [r \in 1..8 |-> Interpolate(LoadAxis, Scaled(Cells[r], 10), load)], rpm)

OilAxis == <<20, 40, 60, 80, 100, 110, 120, 130>>

duty_offset(oil_temp) == Interpolate(OilAxis, <<250, 180, 100, 50, 20, 10, 0, -10>>, oil_temp)

\* Thousandths of the duty per tenth of a degree, one update a second.
Gains == [p |-> 60, i |-> 4, d |-> 15, integral_limit |-> 400]

NewVvt == [ error |-> FALSE,
            channel |-> [c \in VvtChannel |-> [duty |-> 0, integral |-> 0, error_prev |-> 0]] ]

\* The exhaust cams advance the other way.
target_for(c, rpm, load) ==
    IF c \in {"intake1", "intake2"} THEN interpolate(rpm, load) ELSE -interpolate(rpm, load)

\* `error` is target minus actual angle; within the deadband the duty is kept.
drive(ch, error, offset) ==
    IF Abs(error) < DEADBAND THEN ch
    ELSE LET pid == PidStep(Gains, ch.integral, ch.error_prev, error)
         IN  [ duty |-> Clamp(pid.output + offset, -1000, 1000),
               integral |-> pid.integral, error_prev |-> error ]

let_go(s) == [ error |-> TRUE,
               channel |-> [c \in VvtChannel |-> [s.channel[c] EXCEPT !.duty = 0]] ]

\* `in` is [rpm, load, oil_kpa, oil_temp, actual], the angle of every cam.
update(s, in) ==
    IF in.oil_kpa < MIN_OIL_KPA THEN let_go(s)
    ELSE [ error |-> FALSE,
           channel |-> [c \in VvtChannel |->
               IF c \notin Enabled THEN [s.channel[c] EXCEPT !.duty = 0]
               ELSE drive(s.channel[c], target_for(c, in.rpm, in.load) - in.actual,
                          duty_offset(in.oil_temp))] ]

\* The angle of a cam from its sensor's edges, in tenths, within one period.
cam_angle_from_sensor(rising, falling, period) ==
    IF period = 0 THEN 0
    ELSE ((Larger(falling - rising, 0) * 3600) \div period) % 3600

VvtType ==
    [ error : BOOLEAN,
      channel : [VvtChannel -> [duty : -1000..1000, integral : -400..400, error_prev : Int]] ]
=============================================================================
