-------------------------- MODULE IgnitionControl --------------------------
(***************************************************************************)
(* IgnitionScheduler (ignition.rs): advance and dwell of the next spark.   *)
(* Angles are hundredths of a degree, dwell hundredths of a millisecond,   *)
(* the battery tenths of a volt.                                           *)
(***************************************************************************)
EXTENDS Curves

CRANKING_ADVANCE == 1000
CRANKING_RPM == 400
FLAT_SHIFT_RETARD == 2000

DwellVolts == <<80, 100, 110, 120, 130, 140, 150, 160>>
DwellTimes == <<500, 450, 400, 350, 320, 300, 280, 260>>

dwell_lookup(vbatt) == Interpolate(DwellVolts, DwellTimes, vbatt)

ign_clt_correction(clt) ==
    IF clt >= 80 THEN 0 ELSE IF clt < 20 THEN -300 ELSE -(80 - clt) * 5
ign_iat_correction(iat) == IF iat <= 25 THEN 0 ELSE Larger((25 - iat) * 10, -500)

NewIgnition == [advance |-> 0, dwell |-> 0, retard |-> 0, cranking |-> FALSE]

running_advance(in) ==
    Clamp(ignition_interpolate(in.rpm, in.load) + ign_clt_correction(in.clt)
          + ign_iat_correction(in.iat) - in.knock
          - (IF in.flat_shift THEN FLAT_SHIFT_RETARD ELSE 0) + in.idle, 0, 6000)

\* While cranking the advance is fixed: knock retard and flat shift wait.
calculate(s, in) ==
    LET cranking == in.rpm < CRANKING_RPM
    IN  [ advance |-> IF cranking THEN CRANKING_ADVANCE ELSE running_advance(in),
          dwell |-> dwell_lookup(in.vbatt), retard |-> in.knock, cranking |-> cranking ]

injection_offset(advance) == 34000 - advance

\* Microseconds of an angle; none below one turn a minute.
deg_to_us(deg, rpm) == IF rpm < 1 THEN 0 ELSE (deg * 10000) \div (rpm * 6)

IgnitionType ==
    [advance : 0..6000, dwell : {0} \cup 260..500, retard : Nat, cranking : BOOLEAN]

----------------------------------------------------------------------------
\* More knock retard never advances the spark, and the spark a running engine
\* gets never leads the table around the operating point by more than the
\* idle correction.
SparkNeverLeadsTable(s, in) ==
    (~s.cranking) =>
        /\ s.advance <= Larger(ignition_interpolate(in.rpm, in.load) + in.idle - in.knock, 0)
        /\ LookupWithinCorners(IgnitionCell, ignition_interpolate(in.rpm, in.load),
                               in.rpm, in.load)
=============================================================================
