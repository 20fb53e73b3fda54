------------------------------- MODULE Launch -------------------------------
(***************************************************************************)
(* The two controllers that hold back the engine for boost or a start.     *)
(*                                                                         *)
(* LaunchController (launch.rs): two-step, three-step and rolling launch.  *)
(* One update per control cycle over the preset in force, which each       *)
(* update looks up again: it may be edited or switched between any two.    *)
(* Ratios and the integral are hundredths, slip is whole percent, and the  *)
(* rolling gains are the presets' own: p = 2, i * dt = 0.01.               *)
(***************************************************************************)
EXTENDS Curves

\* Definitions marked `Slip` are plausible mistakes in the definition after them.
\* Nothing uses them: each shows that some property below would notice.

Modes == {"disabled", "two_step", "three_step", "rolling"}
Phases == {"idle", "armed", "active", "releasing"}

\* A preset: [enabled, mode, rpm_limit, rpm_high, spark_pct, fuel_pct, slip_target].
preset_1 == [ enabled |-> TRUE, mode |-> "two_step", rpm_limit |-> 4000,
              rpm_high |-> 5500, spark_pct |-> 50, fuel_pct |-> 0, slip_target |-> 8 ]

NewLaunch ==
    [ phase |-> "idle", spark_cut |-> FALSE, fuel_cut |-> FALSE, retard |-> FALSE,
      hard_cut |-> FALSE, cut_ratio |-> 0, integral |-> 0, rpm_at_launch |-> 0 ]

cut_at(s, p, above) ==
    IF above THEN [s EXCEPT !.hard_cut = TRUE, !.spark_cut = p.spark_pct > 0,
                            !.fuel_cut = p.fuel_pct > 0, !.cut_ratio = p.spark_pct]
    ELSE [s EXCEPT !.hard_cut = FALSE, !.spark_cut = FALSE,
                   !.fuel_cut = FALSE, !.cut_ratio = 0]

\* Slip: the release takes back the cuts and leaves the retard.
ReleasedKeepsRetard(s) ==
    [s EXCEPT !.spark_cut = FALSE, !.fuel_cut = FALSE, !.cut_ratio = 0]

\* What Releasing takes back; hard_cut is left as the last limit left it.
released(s) ==
    [s EXCEPT !.spark_cut = FALSE, !.fuel_cut = FALSE, !.retard = FALSE, !.cut_ratio = 0]

two_step(s, p, in) ==
    CASE s.phase = "idle" ->
            IF in.clutch THEN [s EXCEPT !.phase = "armed"] ELSE s
      [] s.phase = "armed" ->
            IF in.clutch
            THEN [s EXCEPT !.phase = "active", !.rpm_at_launch = in.rpm]
            ELSE [s EXCEPT !.phase = "idle"]
      [] s.phase = "active" ->
            IF in.clutch
            THEN [cut_at(s, p, in.rpm > p.rpm_limit) EXCEPT !.retard = TRUE]
            ELSE [s EXCEPT !.phase = "releasing"]
      [] s.phase = "releasing" ->
            [released(s) EXCEPT !.phase = IF in.vss > 10 THEN "idle" ELSE @]

three_step(s, p, in) ==
    CASE s.phase = "idle" ->
            IF in.button THEN [s EXCEPT !.phase = "armed"] ELSE s
      [] s.phase = "armed" ->
            [s EXCEPT !.spark_cut = in.rpm > p.rpm_limit,
                      !.cut_ratio = IF in.rpm > p.rpm_limit THEN p.spark_pct ELSE 0,
                      !.retard = TRUE,
                      !.phase = IF in.button THEN @ ELSE "active"]
      [] s.phase = "active" ->
            [s EXCEPT !.spark_cut = in.rpm > p.rpm_high,
                      !.phase = IF in.vss > 20 THEN "releasing" ELSE @]
      [] s.phase = "releasing" ->
            [released(s) EXCEPT !.fuel_cut = s.fuel_cut, !.phase = "idle"]

rolling(s, p, in) ==
    LET error == p.slip_target - (IF in.vss > 5 THEN in.slip ELSE 0)
        integral == Clamp(s.integral + error, -100, 100)
        ratio == Clamp(-(200 * error + integral), 0, 100)
    IN  [s EXCEPT !.integral = integral, !.cut_ratio = ratio,
                  !.spark_cut = ratio > 5,
                  !.phase = IF in.button THEN "active" ELSE "idle"]

\* `in` is [clutch, button, rpm, vss, slip].  A disabled preset keeps the retard.
update(s, p, in) ==
    IF ~p.enabled
    THEN [s EXCEPT !.phase = "idle", !.spark_cut = FALSE, !.fuel_cut = FALSE,
                   !.cut_ratio = 0]
    ELSE CASE p.mode = "disabled" -> [s EXCEPT !.phase = "idle", !.spark_cut = FALSE]
           [] p.mode = "two_step" -> two_step(s, p, in)
           [] p.mode = "three_step" -> three_step(s, p, in)
           [] p.mode = "rolling" -> rolling(s, p, in)

LaunchType ==
    [ phase : Phases, spark_cut : BOOLEAN, fuel_cut : BOOLEAN, retard : BOOLEAN,
      hard_cut : BOOLEAN, cut_ratio : 0..100, integral : -100..100, rpm_at_launch : Nat ]

StepModes == {"two_step", "three_step"}

Demanding(s) == s.spark_cut \/ s.fuel_cut \/ s.retard \/ s.cut_ratio > 0

AtRest(s) == s.phase = "idle" /\ ~Demanding(s)

\* History for the property below: whether every preset since the launch was
\* last at rest has been enabled and of one mode.  A step from `s` looks at
\* the preset `old` of the step before and at the preset `new` in force after.
Steady(steady, s, old, new) ==
    AtRest(s) \/ (steady /\ (new = old \/ (new.enabled /\ new.mode = old.mode)))

Begins(s, t) ==
    \/ t.spark_cut /\ ~s.spark_cut
    \/ t.fuel_cut /\ ~s.fuel_cut
    \/ t.retard /\ ~s.retard

\* A step launch that kept its mode from rest asks for nothing once idle again,
\* however the presets of that mode were edited or switched meanwhile.  One that
\* did not may keep what an earlier mode asked for, but whatever the presets did,
\* something new is asked for only by an enabled preset: by a rolling launch, or
\* by a step launch that was armed or active.
LaunchDemand(s, t, p, steady) ==
    /\ steady /\ p.mode \in StepModes /\ t.phase = "idle" => ~Demanding(t)
    /\ Begins(s, t) => /\ p.enabled
                       /\ \/ p.mode = "rolling"
                          \/ p.mode \in StepModes /\ s.phase \in {"armed", "active"}

----------------------------------------------------------------------------
(***************************************************************************)
(* AntiLagController (antilag.rs): a low-pass filtered intensity that      *)
(* ramps in while the throttle is closed, decays otherwise, and scales     *)
(* the retard and the enrichment.  Intensity is in ten-thousandths; `in`   *)
(* has the conditions of the standard and of the rolling anti-lag as       *)
(* booleans and the raw intensity the throttle asks for.                   *)
(***************************************************************************)

AlsModes == {"disabled", "retard", "enrich", "combined"}

FULL == 10000
CUTOFF == 100        \* 0.01

NewAls == [ active |-> FALSE, rolling |-> FALSE, intensity |-> 0,
            retard |-> 0, enrich |-> 0 ]

decay(intensity) == LET next == (intensity * 9) \div 10
                    IN  IF next < CUTOFF THEN 0 ELSE next

ramp(intensity, raw) == (intensity * 8 + raw * 2) \div 10

\* `c` is [mode, max_retard, max_enrich, rolling, ral_retard], degrees and percent.
outputs(s, c) ==
    [s EXCEPT
        !.retard = IF c.mode \in {"retard", "combined"}
                   THEN Larger(c.max_retard * s.intensity,
                               IF s.rolling THEN c.ral_retard * FULL ELSE 0)
                   ELSE 0,
        !.enrich = IF c.mode \in {"enrich", "combined"}
                   THEN c.max_enrich * s.intensity ELSE 0]

\* `in` is [overrun, corner, raw]: rpm, pressure, coolant and throttle allow the
\* standard anti-lag; speed, throttle and rpm allow the rolling one.  The
\* disabled mode leaves `rolling` as it was.
als_update(s, c, in) ==
    IF c.mode = "disabled"
    THEN [s EXCEPT !.active = FALSE, !.intensity = 0, !.retard = 0, !.enrich = 0]
    ELSE outputs([s EXCEPT !.active = in.overrun,
                           !.rolling = c.rolling /\ in.corner,
                           !.intensity = IF in.overrun THEN ramp(@, in.raw) ELSE decay(@)],
                 c)

AlsType == [ active : BOOLEAN, rolling : BOOLEAN, intensity : 0..FULL,
             retard : Nat, enrich : Nat ]

\* What the controller asks for never exceeds the configured maxima.
AlsBounded(s, c) ==
    /\ s.retard <= Larger(c.max_retard, c.ral_retard) * FULL
    /\ s.enrich <= c.max_enrich * FULL
=============================================================================
