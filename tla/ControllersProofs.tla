-------------------------- MODULE ControllersProofs --------------------------
(***************************************************************************)
(* Theorems about Controllers, for every value of its constants.  What a   *)
(* controller's operators return is shown for all inputs, not only for the *)
(* ones the bench tries; the theorems of the specification follow.         *)
(***************************************************************************)
EXTENDS Controllers, FiniteSetTheorems, WellFoundedInduction, TLAPS

Curve == INSTANCE Curves

----------------------------------------------------------------------------
(* Induction and division.                                                 *)

LessThan == {p \in Nat \X Nat : p[1] < p[2]}

LEMMA LessThanWellFounded == IsWellFoundedOn(LessThan, Nat)
  <1>1. OpToRel(<, Nat) = LessThan
    BY DEF OpToRel, LessThan
  <1> QED
    BY <1>1, NatLessThanWellFounded, Zenon

\* A set that holds zero and the successor of each of its numbers holds them all.
LEMMA SetInduction ==
    ASSUME NEW S, 0 \in S, \A n \in Nat : n \in S => n + 1 \in S
    PROVE  Nat \subseteq S
  <1> DEFINE T == Nat \ S
  <1> SUFFICES ASSUME T # {} PROVE FALSE
    OBVIOUS
  <1>1. PICK x \in T : \A y \in T : ~(<<y, x>> \in LessThan)
    BY LessThanWellFounded, WFMin
  <1>2. x \in Nat /\ x # 0 /\ x - 1 \in Nat
    OBVIOUS
  <1>3. x - 1 \in T
    BY <1>2
  <1>4. <<x - 1, x>> \in LessThan
    BY <1>2 DEF LessThan
  <1> QED
    BY <1>1, <1>3, <1>4

LEMMA Quotient ==
    ASSUME NEW a \in Int, NEW d \in Nat \ {0}
    PROVE  /\ a \div d \in Int
           /\ d * (a \div d) <= a
           /\ a < d * (a \div d) + d
           /\ a >= 0 => a \div d \in Nat
  OBVIOUS

\* A fraction of a height stays between nothing and the height.
LEMMA Fraction ==
    ASSUME NEW p \in Int, NEW d \in Nat \ {0}, NEW t \in 0..d
    PROVE  /\ (p * t) \div d \in Int
           /\ p >= 0 => (p * t) \div d \in 0..p
           /\ p <= 0 => p <= (p * t) \div d /\ (p * t) \div d <= 0
  <1> DEFINE m == p * t
             q == m \div d
  <1>1. m \in Int /\ q \in Int /\ d * q <= m /\ m < d * q + d
    BY Quotient
  <1>2. CASE p >= 0
    <2>1. 0 <= m /\ m <= p * d
      BY <1>2, SMT
    <2> HIDE DEF m, q
    <2>2. d * q <= d * p /\ 0 < d * q + d
      BY <1>1, <2>1, SMT
    <2>3. ~(q >= p + 1)
      <3>1. ASSUME q >= p + 1 PROVE d * q >= d * (p + 1)
        BY <1>1, <3>1, SMT
      <3> QED
        BY <1>1, <2>2, <3>1, SMT
    <2>4. ~(q <= -1)
      <3>1. ASSUME q <= -1 PROVE d * q <= d * (-1)
        BY <1>1, <3>1, SMT
      <3> QED
        BY <1>1, <2>2, <3>1, SMT
    <2>5. q \in 0..p
      BY <1>1, <2>3, <2>4
    <2>6. p <= 0 => q = 0
      BY <1>1, <2>5, <1>2
    <2> QED
      BY <1>1, <1>2, <2>5, <2>6 DEF q, m
  <1>3. CASE p < 0
    <2>1. m <= 0 /\ p * d <= m
      BY <1>3, SMT
    <2> HIDE DEF m, q
    <2>2. d * q <= 0 /\ d * p < d * q + d
      BY <1>1, <2>1, SMT
    <2>3. ~(q >= 1)
      <3>1. ASSUME q >= 1 PROVE d * q >= d
        BY <1>1, <3>1, SMT
      <3> QED
        BY <1>1, <2>2, <3>1, SMT
    <2>4. ~(q <= p - 1)
      <3>1. ASSUME q <= p - 1 PROVE d * q <= d * (p - 1)
        BY <1>1, <3>1, SMT
      <3> QED
        BY <1>1, <2>2, <3>1, SMT
    <2> QED
      BY <1>1, <1>3, <2>3, <2>4 DEF q, m
  <1> QED
    BY <1>2, <1>3
----------------------------------------------------------------------------
(* Curves.                                                                 *)

\* An axis of n breakpoints in rising order.
Axis(axis, n) ==
    /\ n \in Nat \ {0, 1} /\ Len(axis) = n
    /\ axis \in [1..n -> Int] /\ \A i \in 1..(n - 1) : axis[i] < axis[i + 1]

\* A value inside an axis lies between two neighbours of it.
LEMMA Bracketed ==
    ASSUME NEW axis, NEW n, Axis(axis, n), NEW x \in Int, axis[1] < x, x < axis[n]
    PROVE  \E k \in 1..(n - 1) : axis[k] <= x /\ x < axis[k + 1]
  <1> DEFINE Found == \E k \in 1..(n - 1) : axis[k] <= x /\ x < axis[k + 1]
             S == {m \in Nat : m + 1 \in 1..n => Found \/ axis[m + 1] <= x}
  <1>1. 0 \in S
    BY DEF Axis
  <1>2. ASSUME NEW m \in Nat, m \in S PROVE m + 1 \in S
    <2> SUFFICES ASSUME m + 2 \in 1..n, ~Found PROVE axis[m + 2] <= x
      BY <1>2
    <2>1. m + 1 \in 1..(n - 1) /\ m + 1 \in 1..n /\ (m + 1) + 1 = m + 2
      BY DEF Axis
    <2>2. axis[m + 1] <= x
      BY <1>2, <2>1
    <2>3. axis[m + 2] \in Int
      BY DEF Axis
    <2> QED
      BY <2>1, <2>2, <2>3
  <1> HIDE DEF S
  <1>3. Nat \subseteq S
    BY <1>1, <1>2, SetInduction
  <1>4. n - 1 \in S /\ (n - 1) + 1 = n /\ n \in 1..n /\ axis[n] \in Int
    BY <1>3 DEF Axis
  <1> QED
    BY <1>4 DEF S

\* An interpolated value lies within the values it is interpolated from.
LEMMA InterpolateWithin ==
    ASSUME NEW axis, NEW n, Axis(axis, n), NEW low \in Int, NEW high \in Int,
           NEW row \in [1..n -> low..high], NEW x \in Int
    PROVE  Curve!Interpolate(axis, row, x) \in low..high
  <1>1. /\ n \in Nat /\ 1 \in 1..n /\ n \in 1..n /\ Len(axis) = n
        /\ axis[1] \in Int /\ axis[n] \in Int
    BY DEF Axis
  <1>2. CASE x <= axis[1]
    BY <1>1, <1>2 DEF Curve!Interpolate
  <1>3. CASE x >= axis[n]
    BY <1>1, <1>3 DEF Curve!Interpolate
  <1>4. CASE axis[1] < x /\ x < axis[n]
    <2> DEFINE i == CHOOSE k \in 1..(Len(axis) - 1) : axis[k] <= x /\ x < axis[k + 1]
    <2>1. i \in 1..(n - 1) /\ axis[i] <= x /\ x < axis[i + 1]
      BY <1>1, <1>4, Bracketed, Zenon
    <2>2. Curve!Interpolate(axis, row, x) =
            row[i] + ((row[i + 1] - row[i]) * (x - axis[i])) \div (axis[i + 1] - axis[i])
      <3>1. ~(x <= axis[1]) /\ ~(x >= axis[Len(axis)])
        BY <1>1, <1>4
      <3> QED
        BY <3>1 DEF Curve!Interpolate
    <2> HIDE DEF i
    <2> DEFINE a == axis[i]
               b == axis[i + 1]
               p == row[i + 1] - row[i]
               d == b - a
               t == x - a
    <2>3. a \in Int /\ b \in Int /\ row[i] \in low..high /\ row[i + 1] \in low..high
      BY <1>1, <2>1 DEF Axis
    <2>4. p \in Int /\ d \in Nat \ {0} /\ t \in 0..d
      <3>1. p \in Int
        BY <2>3
      <3>2. a <= x /\ x < b
        BY <2>1
      <3> HIDE DEF a, b
      <3>3. d \in Nat \ {0} /\ t \in 0..d
        BY <2>3, <3>2
      <3> QED
        BY <3>1, <3>3
    <2>5. Curve!Interpolate(axis, row, x) = row[i] + (p * t) \div d
      BY <2>2
    <2> HIDE DEF a, b, d, t
    <2>6. /\ (p * t) \div d \in Int
          /\ p >= 0 => (p * t) \div d \in 0..p
          /\ p <= 0 => p <= (p * t) \div d /\ (p * t) \div d <= 0
      <3> HIDE DEF p
      <3> QED
        BY <2>4, Fraction
    <2> DEFINE q == (p * t) \div d
    <2> HIDE DEF q
    <2>7. q \in Int /\ (p >= 0 => q \in 0..p) /\ (p <= 0 => p <= q /\ q <= 0)
      BY <2>6 DEF q
    <2>8. row[i] + q \in low..high
      BY <2>3, <2>7
    <2> QED
      BY <2>5, <2>8 DEF q
  <1> QED
    BY <1>1, <1>2, <1>3, <1>4
----------------------------------------------------------------------------
(* The curves of the controllers.                                          *)

LEMMA SameInterpolation ==
    ASSUME NEW axis, NEW row, NEW x
    PROVE  /\ Dbw!Interpolate(axis, row, x) = Curve!Interpolate(axis, row, x)
           /\ Boost!Interpolate(axis, row, x) = Curve!Interpolate(axis, row, x)
           /\ Idle!Interpolate(axis, row, x) = Curve!Interpolate(axis, row, x)
           /\ Vvt!Interpolate(axis, row, x) = Curve!Interpolate(axis, row, x)
           /\ Lambda!Interpolate(axis, row, x) = Curve!Interpolate(axis, row, x)
           /\ Ign!Interpolate(axis, row, x) = Curve!Interpolate(axis, row, x)
  <1>1. Dbw!Interpolate(axis, row, x) = Curve!Interpolate(axis, row, x)
    BY Zenon DEF Dbw!Interpolate, Curve!Interpolate
  <1>2. Boost!Interpolate(axis, row, x) = Curve!Interpolate(axis, row, x)
    BY Zenon DEF Boost!Interpolate, Curve!Interpolate
  <1>3. Idle!Interpolate(axis, row, x) = Curve!Interpolate(axis, row, x)
    BY Zenon DEF Idle!Interpolate, Curve!Interpolate
  <1>4. Vvt!Interpolate(axis, row, x) = Curve!Interpolate(axis, row, x)
    BY Zenon DEF Vvt!Interpolate, Curve!Interpolate
  <1>5. Lambda!Interpolate(axis, row, x) = Curve!Interpolate(axis, row, x)
    BY Zenon DEF Lambda!Interpolate, Curve!Interpolate
  <1>6. Ign!Interpolate(axis, row, x) = Curve!Interpolate(axis, row, x)
    BY Zenon DEF Ign!Interpolate, Curve!Interpolate
  <1> QED
    BY <1>1, <1>2, <1>3, <1>4, <1>5, <1>6

\* A curve through values between two bounds, and a value between them.
Bounded(axis, n, row, low, high) ==
    Axis(axis, n) /\ low \in Int /\ high \in Int /\ row \in [1..n -> low..high]

Inside(value, low, high) == value \in low..high

LEMMA CurveWithin ==
    ASSUME NEW axis, NEW n, NEW row, NEW low, NEW high, Bounded(axis, n, row, low, high),
           NEW x \in Int
    PROVE  /\ Inside(Dbw!Interpolate(axis, row, x), low, high)
           /\ Inside(Boost!Interpolate(axis, row, x), low, high)
           /\ Inside(Idle!Interpolate(axis, row, x), low, high)
           /\ Inside(Vvt!Interpolate(axis, row, x), low, high)
           /\ Inside(Lambda!Interpolate(axis, row, x), low, high)
           /\ Inside(Ign!Interpolate(axis, row, x), low, high)
  <1>1. Curve!Interpolate(axis, row, x) \in low..high
    BY InterpolateWithin, Zenon DEF Bounded
  <1>2. Inside(Curve!Interpolate(axis, row, x), low, high)
    BY <1>1, Zenon DEF Inside
  <1> QED
    BY <1>2, SameInterpolation, Zenon

\* Ten times a row of percentages or degrees is a row of tenths.
LEMMA ScaledWithin ==
    ASSUME NEW row, NEW top \in Nat, row \in [1..8 -> 0..top]
    PROVE  /\ Dbw!Scaled(row, 10) \in [1..8 -> 0..(10 * top)]
           /\ Vvt!Scaled(row, 10) \in [1..8 -> 0..(10 * top)]
  <1>1. \A i \in 1..8 : 10 * row[i] \in 0..(10 * top)
    OBVIOUS
  <1>2. DOMAIN row = 1..8
    OBVIOUS
  <1> QED
    BY <1>1, <1>2 DEF Dbw!Scaled, Vvt!Scaled

\* A pedal gives a throttle between closed and wide open, in every profile.
LEMMA PedalWithin ==
    ASSUME NEW profile \in DOMAIN Dbw!Throttle, NEW pedal \in Int
    PROVE  Dbw!map_pedal(profile, pedal) \in 0..1000
  <1> DEFINE row == Dbw!Throttle[profile]
             top == 100
             full == 1000
  <1>1. Axis(Dbw!Pedal, 8)
    BY DEF Axis, Dbw!Pedal
  <1>2. row \in [1..8 -> 0..top]
    BY DEF Dbw!Throttle
  <1>3. top \in Nat /\ 10 * top = full /\ 0 \in Int /\ full \in Int
    OBVIOUS
  <1> HIDE DEF row, top, full
  <1>4. Dbw!Scaled(row, 10) \in [1..8 -> 0..full]
    BY <1>2, <1>3, ScaledWithin
  <1>5. Bounded(Dbw!Pedal, 8, Dbw!Scaled(row, 10), 0, full)
    BY <1>1, <1>3, <1>4, Zenon DEF Bounded
  <1>6. Inside(Dbw!Interpolate(Dbw!Pedal, Dbw!Scaled(row, 10), pedal), 0, full)
    BY <1>5, CurveWithin, Zenon
  <1> QED
    BY <1>6 DEF Dbw!map_pedal, Inside, row, full

\* A boost target is a cell of a gear's row or between two of them.
LEMMA BoostTargetWithin ==
    ASSUME NEW gear \in Nat, NEW rpm \in Int
    PROVE  Boost!target_for(gear, rpm) \in 120..225
  <1> DEFINE low == 120
             high == 225
  <1>1. Axis(Boost!RpmAxis, 8)
    BY DEF Axis, Boost!RpmAxis
  <1>2. Boost!GearRow(gear) \in [1..8 -> low..high] /\ low \in Int /\ high \in Int
    BY DEF Boost!GearRow, Boost!GearTable, Boost!Larger
  <1> HIDE DEF low, high
  <1>3. Bounded(Boost!RpmAxis, 8, Boost!GearRow(gear), low, high)
    BY <1>1, <1>2, Zenon DEF Bounded
  <1>4. Inside(Boost!Interpolate(Boost!RpmAxis, Boost!GearRow(gear), rpm), low, high)
    BY <1>3, CurveWithin, Zenon
  <1>5. Boost!target_for(gear, rpm) \in low..high
    BY <1>4, Zenon DEF Boost!target_for, Inside
  <1> QED
    BY <1>5 DEF low, high

LEMMA IdleTargetWithin ==
    ASSUME NEW clt \in Int, NEW dsg \in BOOLEAN
    PROVE  Idle!target_rpm_for_clt(clt, dsg) \in 850..1550
  <1> DEFINE low == 850
             high == 1400
  <1>1. Axis(Idle!WarmupClt, 8)
    BY DEF Axis, Idle!WarmupClt
  <1>2. Idle!WarmupRpm \in [1..8 -> low..high] /\ low \in Int /\ high \in Int
    BY DEF Idle!WarmupRpm
  <1> HIDE DEF low, high
  <1>3. Bounded(Idle!WarmupClt, 8, Idle!WarmupRpm, low, high)
    BY <1>1, <1>2, Zenon DEF Bounded
  <1>4. Inside(Idle!Interpolate(Idle!WarmupClt, Idle!WarmupRpm, clt), low, high)
    BY <1>3, CurveWithin, Zenon
  <1> QED
    BY <1>4 DEF Idle!target_rpm_for_clt, Idle!DSG_STEP, Inside, low, high

LEMMA CamTargetWithin ==
    ASSUME NEW rpm \in Int, NEW load \in Int
    PROVE  Vvt!interpolate(rpm, load) \in 0..350
  <1> DEFINE along(r) == Vvt!Interpolate(Vvt!LoadAxis, Vvt!Scaled(Vvt!Cells[r], 10), load)
             column == [r \in 1..8 |-> along(r)]
             top == 35
             full == 350
  <1>1. Axis(Vvt!RpmAxis, 8) /\ Axis(Vvt!LoadAxis, 8)
    BY DEF Axis, Vvt!RpmAxis, Vvt!LoadAxis
  <1>2. top \in Nat /\ 10 * top = full /\ 0 \in Int /\ full \in Int
    OBVIOUS
  <1>3. ASSUME NEW r \in 1..8 PROVE Vvt!Cells[r] \in [1..8 -> 0..top]
    BY DEF Vvt!Cells
  <1> HIDE DEF top, full
  <1>4. ASSUME NEW r \in 1..8 PROVE along(r) \in 0..full
    <2> DEFINE row == Vvt!Cells[r]
    <2>1. row \in [1..8 -> 0..top]
      BY <1>3
    <2> HIDE DEF row
    <2>2. Vvt!Scaled(row, 10) \in [1..8 -> 0..full]
      BY <1>2, <2>1, ScaledWithin
    <2>3. Bounded(Vvt!LoadAxis, 8, Vvt!Scaled(row, 10), 0, full)
      BY <1>1, <1>2, <2>2, Zenon DEF Bounded
    <2>4. Inside(Vvt!Interpolate(Vvt!LoadAxis, Vvt!Scaled(row, 10), load), 0, full)
      BY <2>3, CurveWithin, Zenon
    <2> QED
      BY <2>4, Zenon DEF Inside, row
  <1>5. Vvt!interpolate(rpm, load) = Vvt!Interpolate(Vvt!RpmAxis, column, rpm)
    BY Zenon DEF Vvt!interpolate
  <1> HIDE DEF along
  <1>6. column \in [1..8 -> 0..full]
    BY <1>4, Zenon
  <1> HIDE DEF column
  <1>7. Bounded(Vvt!RpmAxis, 8, column, 0, full)
    BY <1>1, <1>2, <1>6, Zenon DEF Bounded
  <1>8. Inside(Vvt!Interpolate(Vvt!RpmAxis, column, rpm), 0, full)
    BY <1>7, CurveWithin, Zenon
  <1> QED
    BY <1>5, <1>8 DEF Inside, full

LEMMA OilOffsetWithin ==
    ASSUME NEW oil_temp \in Int
    PROVE  Vvt!duty_offset(oil_temp) \in -10..250
  <1> DEFINE row == <<250, 180, 100, 50, 20, 10, 0, -10>>
             low == -10
             high == 250
  <1>1. Axis(Vvt!OilAxis, 8)
    BY DEF Axis, Vvt!OilAxis
  <1>2. row \in [1..8 -> low..high] /\ low \in Int /\ high \in Int
    OBVIOUS
  <1>3. Vvt!duty_offset(oil_temp) = Vvt!Interpolate(Vvt!OilAxis, row, oil_temp)
    BY Zenon DEF Vvt!duty_offset
  <1> HIDE DEF row, low, high
  <1>4. Bounded(Vvt!OilAxis, 8, row, low, high)
    BY <1>1, <1>2, Zenon DEF Bounded
  <1>5. Inside(Vvt!duty_offset(oil_temp), low, high)
    BY <1>3, <1>4, CurveWithin, Zenon
  <1> QED
    BY <1>5 DEF low, high, Inside

LEMMA PumpLambdaWithin ==
    ASSUME NEW ip \in Int
    PROVE  Lambda!ip_to_lambda(ip) \in 700..1700
  <1> DEFINE low == 700
             high == 1700
  <1>1. Axis(Lambda!PumpAxis, 16)
    BY DEF Axis, Lambda!PumpAxis
  <1>2. Lambda!LambdaRow \in [1..16 -> low..high] /\ low \in Int /\ high \in Int
    BY SMTT(30) DEF Lambda!LambdaRow
  <1> HIDE DEF low, high
  <1>3. Bounded(Lambda!PumpAxis, 16, Lambda!LambdaRow, low, high)
    BY <1>1, <1>2, Zenon DEF Bounded
  <1>4. Inside(Lambda!Interpolate(Lambda!PumpAxis, Lambda!LambdaRow, ip), low, high)
    BY <1>3, CurveWithin, Zenon
  <1> QED
    BY <1>4 DEF Lambda!ip_to_lambda, Inside, low, high

LEMMA DwellWithin ==
    ASSUME NEW vbatt \in Int
    PROVE  Ign!dwell_lookup(vbatt) \in 260..500
  <1> DEFINE low == 260
             high == 500
  <1>1. Axis(Ign!DwellVolts, 8)
    BY DEF Axis, Ign!DwellVolts
  <1>2. Ign!DwellTimes \in [1..8 -> low..high] /\ low \in Int /\ high \in Int
    BY DEF Ign!DwellTimes
  <1> HIDE DEF low, high
  <1>3. Bounded(Ign!DwellVolts, 8, Ign!DwellTimes, low, high)
    BY <1>1, <1>2, Zenon DEF Bounded
  <1>4. Inside(Ign!Interpolate(Ign!DwellVolts, Ign!DwellTimes, vbatt), low, high)
    BY <1>3, CurveWithin, Zenon
  <1> QED
    BY <1>4 DEF Ign!dwell_lookup, Inside, low, high
----------------------------------------------------------------------------
(* One step of a PID, and a value between bounds.                          *)

Settled(pid, limit) ==
    pid \in [integral : Int, output : Int] /\ -limit <= pid.integral /\ pid.integral <= limit

LEMMA PidSettles ==
    ASSUME NEW gains, gains.p \in Int, gains.i \in Int, gains.d \in Int,
           gains.integral_limit \in Nat,
           NEW integral \in Int, NEW error_prev \in Int, NEW error \in Int
    PROVE  /\ Settled(Dbw!PidStep(gains, integral, error_prev, error), gains.integral_limit)
           /\ Settled(Boost!PidStep(gains, integral, error_prev, error), gains.integral_limit)
           /\ Settled(Idle!PidStep(gains, integral, error_prev, error), gains.integral_limit)
           /\ Settled(Vvt!PidStep(gains, integral, error_prev, error), gains.integral_limit)
           /\ Settled(Lambda!PidStep(gains, integral, error_prev, error), gains.integral_limit)
  <1> DEFINE limit == gains.integral_limit
             next == integral + gains.i * error
             sum == IF next < -limit THEN -limit ELSE IF next > limit THEN limit ELSE next
             output == gains.p * error + sum + gains.d * (error - error_prev)
             pid == [integral |-> sum, output |-> output]
  <1>1. Dbw!PidStep(gains, integral, error_prev, error) = pid
    BY Zenon DEF Dbw!PidStep, Dbw!Clamp
  <1>2. Boost!PidStep(gains, integral, error_prev, error) = pid
    BY Zenon DEF Boost!PidStep, Boost!Clamp
  <1>3. Idle!PidStep(gains, integral, error_prev, error) = pid
    BY Zenon DEF Idle!PidStep, Idle!Clamp
  <1>4. Vvt!PidStep(gains, integral, error_prev, error) = pid
    BY Zenon DEF Vvt!PidStep, Vvt!Clamp
  <1>5. Lambda!PidStep(gains, integral, error_prev, error) = pid
    BY Zenon DEF Lambda!PidStep, Lambda!Clamp
  <1>6. next \in Int /\ limit \in Nat
    OBVIOUS
  <1> HIDE DEF next, limit
  <1>7. sum \in Int /\ -limit <= sum /\ sum <= limit
    BY <1>6
  <1> HIDE DEF sum
  <1>8. gains.p * error \in Int /\ gains.d * (error - error_prev) \in Int
    OBVIOUS
  <1>9. output \in Int
    BY <1>7, <1>8
  <1> HIDE DEF output
  <1>10. Settled(pid, limit)
    BY <1>7, <1>9 DEF Settled
  <1> HIDE DEF pid
  <1> QED
    BY <1>1, <1>2, <1>3, <1>4, <1>5, <1>10, Zenon DEF limit

----------------------------------------------------------------------------
(* The throttle.                                                           *)

Profiles == DOMAIN Dbw!Throttle

LEMMA ThrottleState ==
    ASSUME NEW s \in Dbw!DbwType
    PROVE  s.integral \in Int /\ s.error_prev \in Int /\ s.limp \in BOOLEAN
  <1> DEFINE small == -500..500
             wide == -1000..1000
  <1>1. small \subseteq Int /\ wide \subseteq Int
    OBVIOUS
  <1>2. Dbw!DbwType = [ target : 0..1000, actual : 0..1000, integral : small,
                        error_prev : wide, duty : wide, limp : BOOLEAN ]
    BY DEF Dbw!DbwType
  <1> HIDE DEF small, wide
  <1>3. s.integral \in small /\ s.error_prev \in wide /\ s.limp \in BOOLEAN
    BY <1>2
  <1> QED
    BY <1>1, <1>3

\* An update keeps the throttle in range whatever the sensors, the pedal and
\* the traction cut say; limp mode is never left and holds the target down.
LEMMA ThrottleUpdate ==
    ASSUME NEW s \in Dbw!DbwType, NEW profile \in Profiles,
           NEW in \in [tps1 : 0..1000, tps2 : 0..1000, pedal : Int, etb_cut : Nat]
    PROVE  /\ Dbw!update(s, profile, in) \in Dbw!DbwType
           /\ s.limp => Dbw!update(s, profile, in).limp
           /\ Dbw!update(s, profile, in).limp =>
                  Dbw!update(s, profile, in).target <= Dbw!Config.limp_cap
  <1> DEFINE mapped == Dbw!map_pedal(profile, in.pedal)
             left == 100 - Dbw!Lesser(in.etb_cut, 100)
             wanted == Dbw!cut_target(mapped, in.etb_cut)
             limp == Dbw!limp_mode(s, in.tps1, in.tps2)
             target == IF limp THEN Dbw!Lesser(wanted, 100) ELSE wanted
             tps1 == in.tps1
             error == target - tps1
             pid == Dbw!PidStep(Dbw!Config, s.integral, s.error_prev, error)
             output == pid.output
             duty == Dbw!Clamp(output, -1000, 1000)
             after == [ target |-> target, actual |-> tps1, integral |-> pid.integral,
                        error_prev |-> error, duty |-> duty, limp |-> limp ]
  <1>1. mapped \in 0..1000
    BY PedalWithin, ZenonT(30) DEF Profiles
  <1>2. wanted \in 0..1000
    <2>1. left \in 0..100
      BY DEF Dbw!Lesser
    <2>2. wanted = (mapped * left) \div 100
      BY DEF Dbw!cut_target
    <2> HIDE DEF mapped, left, wanted
    <2>3. 100 \in Nat \ {0} /\ mapped \in Int /\ mapped >= 0
      BY <1>1
    <2>4. wanted \in 0..mapped
      BY <2>1, <2>2, <2>3, Fraction
    <2> QED
      BY <1>1, <2>4
  <1>3. limp \in BOOLEAN /\ (s.limp => limp)
    BY ThrottleState DEF Dbw!limp_mode
  <1>4. Dbw!update(s, profile, in) = after
    BY DEF Dbw!update, Dbw!Config
  <1>5. tps1 \in 0..1000
    OBVIOUS
  <1>6. s.integral \in Int /\ s.error_prev \in Int
    BY ThrottleState
  <1> HIDE DEF mapped, left, wanted, limp, tps1
  <1>7. target \in 0..1000 /\ (limp => target <= 100)
    BY <1>2, <1>3 DEF Dbw!Lesser
  <1> HIDE DEF target
  <1>8. error \in Int /\ error \in -1000..1000
    BY <1>5, <1>7
  <1> HIDE DEF error
  <1>9. Settled(pid, 500)
    <2>1. /\ Dbw!Config.p \in Int /\ Dbw!Config.i \in Int /\ Dbw!Config.d \in Int
          /\ Dbw!Config.integral_limit \in Nat /\ Dbw!Config.integral_limit = 500
      BY DEF Dbw!Config
    <2> QED
      BY <1>6, <1>8, <2>1, PidSettles
  <1> HIDE DEF pid
  <1>10. output \in Int /\ pid.integral \in -500..500
    BY <1>9 DEF Settled
  <1> HIDE DEF output
  <1>11. duty \in -1000..1000
    BY <1>10 DEF Dbw!Clamp
  <1> HIDE DEF duty
  <1>12. after \in Dbw!DbwType
    BY <1>3, <1>5, <1>7, <1>8, <1>10, <1>11, SMTT(30) DEF Dbw!DbwType
  <1>13. (s.limp => after.limp) /\ (after.limp => after.target <= 100)
    BY <1>3, <1>7
  <1> QED
    BY <1>4, <1>12, <1>13 DEF Dbw!Config
----------------------------------------------------------------------------
(* Boost.                                                                  *)

LEMMA BoostCalls ==
    ASSUME Boost!BoostAssumption, NEW s \in Boost!BoostType, NEW gear \in Nat, NEW rpm \in Int,
           NEW kpa \in Int, NEW dt \in Nat
    PROVE  /\ Boost!set_target(s, gear, rpm) \in Boost!BoostType
           /\ Boost!update_pid(s, kpa) \in Boost!BoostType
           /\ Boost!activate_scramble(s) \in Boost!BoostType
           /\ Boost!tick_scramble(s, dt) \in Boost!BoostType
  <1> DEFINE Target == 0..240
             Duty == 0..100
             Integral == -600..600
             Timer == 0..SCRAMBLE_DURATION
  <1>1. Boost!BoostType = [ target : Target, duty : Duty, integral : Integral, error_prev : Int,
                            scramble : BOOLEAN, timer : Timer, overboost : BOOLEAN ]
    BY DEF Boost!BoostType, Boost!SCRAMBLE_KPA
  <1>2. SCRAMBLE_DURATION \in Nat /\ OVERBOOST \in Int
    BY DEF Boost!BoostAssumption
  <1>3. Target \subseteq Int /\ Integral \subseteq Int
    OBVIOUS
  <1> HIDE DEF Target, Duty, Integral, Timer
  <1>4. /\ s.target \in Target /\ s.integral \in Integral /\ s.error_prev \in Int
        /\ s.scramble \in BOOLEAN /\ s.timer \in Timer
    BY <1>1, Zenon
  <1>5. Boost!set_target(s, gear, rpm) \in Boost!BoostType
    <2> DEFINE next == IF s.scramble THEN 240
                       ELSE IF gear > 0 THEN Boost!target_for(gear, rpm) ELSE 200
    <2>1. next \in Target
      <3>1. Boost!target_for(gear, rpm) \in Target
        <4>1. Boost!target_for(gear, rpm) \in 120..225
          BY BoostTargetWithin, Zenon
        <4> QED
          BY <4>1 DEF Target
      <3>2. 240 \in Target /\ 200 \in Target
        BY DEF Target
      <3> QED
        BY <3>1, <3>2, Zenon
    <2>2. Boost!set_target(s, gear, rpm) = [s EXCEPT !.target = next]
      BY DEF Boost!set_target, Boost!SCRAMBLE_KPA, Boost!FALLBACK_KPA
    <2> HIDE DEF next
    <2> QED
      BY <1>1, <2>1, <2>2, Zenon
  <1>6. Boost!update_pid(s, kpa) \in Boost!BoostType
    <2> DEFINE error == s.target - kpa
               pid == Boost!PidStep(Boost!Gains, s.integral, s.error_prev, error)
               output == pid.output
               duty == Boost!Clamp(output, 0, 1000) \div 10
               over == kpa > OVERBOOST
    <2>1. s.target \in Int /\ s.integral \in Int /\ s.error_prev \in Int
      BY <1>3, <1>4
    <2>2. Boost!update_pid(s, kpa) =
            [s EXCEPT !.integral = pid.integral, !.error_prev = error, !.duty = duty,
                      !.overboost = over]
      BY Zenon DEF Boost!update_pid
    <2>3. error \in Int /\ over \in BOOLEAN
      BY <2>1
    <2> HIDE DEF error, over
    <2>4. Settled(pid, 600)
      <3>1. /\ Boost!Gains.p \in Int /\ Boost!Gains.i \in Int /\ Boost!Gains.d \in Int
            /\ Boost!Gains.integral_limit \in Nat /\ Boost!Gains.integral_limit = 600
        BY DEF Boost!Gains
      <3> QED
        BY <2>1, <2>3, <3>1, PidSettles
    <2> HIDE DEF pid
    <2>5. pid.integral \in Integral /\ output \in Int
      BY <2>4 DEF Settled, Integral
    <2> HIDE DEF output
    <2>6. duty \in Duty
      BY <2>5 DEF Boost!Clamp, Duty
    <2> HIDE DEF duty
    <2> QED
      BY <1>1, <2>2, <2>3, <2>5, <2>6, Zenon
  <1>7. Boost!activate_scramble(s) \in Boost!BoostType
    <2>1. SCRAMBLE_DURATION \in Timer
      BY <1>2 DEF Timer
    <2> QED
      BY <1>1, <2>1, Zenon DEF Boost!activate_scramble
  <1>8. Boost!tick_scramble(s, dt) \in Boost!BoostType
    <2>1. 0 \in Timer /\ (~(s.timer <= dt) => s.timer - dt \in Timer)
      BY <1>2, <1>4 DEF Timer
    <2> QED
      BY <1>1, <2>1, Zenon DEF Boost!tick_scramble
  <1> QED
    BY <1>5, <1>6, <1>7, <1>8

----------------------------------------------------------------------------
(* Idle.                                                                   *)

\* The calls StepIdle makes, in their order.
LEMMA IdleUpdate ==
    ASSUME NEW s \in Idle!IdleType, NEW clt \in Int, NEW dsg \in BOOLEAN, NEW rpm \in Int,
           NEW tps \in Int
    PROVE  Idle!ign_correction(
               Idle!update_pid([s EXCEPT !.target = Idle!target_rpm_for_clt(clt, dsg)],
                               rpm, tps), rpm) \in Idle!IdleType
  <1> DEFINE Valve == 0..1000
             Scale == -500..500
             Dashpot == 0..300
             aimed == [s EXCEPT !.target = Idle!target_rpm_for_clt(clt, dsg)]
             updated == Idle!update_pid(aimed, rpm, tps)
  <1>1. Idle!IdleType =
          [ target : Nat, valve : Valve, integral : Scale, error_prev : Int,
            correction : Scale, control : BOOLEAN, dashpot : BOOLEAN, dashpot_duty : Dashpot ]
    BY DEF Idle!IdleType, Idle!IGN_MAX, Idle!DASHPOT
  <1>2. Scale \subseteq Int /\ Valve \subseteq Int
    OBVIOUS
  <1> HIDE DEF Valve, Scale, Dashpot
  <1>3. Idle!target_rpm_for_clt(clt, dsg) \in Nat
    BY IdleTargetWithin
  <1>4. aimed \in Idle!IdleType
    BY <1>1, <1>3, Zenon
  <1> HIDE DEF aimed
  <1>5. /\ aimed.target \in Nat /\ aimed.valve \in Valve /\ aimed.integral \in Scale
        /\ aimed.error_prev \in Int /\ aimed.dashpot_duty \in Dashpot
    BY <1>1, <1>4, Zenon
  <1>6. Idle!coast(aimed, rpm, tps) \in Idle!IdleType
    <2> DEFINE closing == tps < 5 /\ rpm > aimed.target + 200
               duty == IF closing THEN 300 ELSE (aimed.dashpot_duty * 95) \div 100
    <2>1. Idle!coast(aimed, rpm, tps) =
            [aimed EXCEPT !.control = FALSE, !.dashpot = closing,
                          !.dashpot_duty = duty, !.valve = duty]
      BY DEF Idle!coast, Idle!DASHPOT
    <2>2. closing \in BOOLEAN
      BY <1>5
    <2> HIDE DEF closing
    <2>3. duty \in Dashpot /\ duty \in Valve
      BY <1>5, <2>2 DEF Dashpot, Valve
    <2> HIDE DEF duty
    <2> QED
      BY <1>1, <1>4, <2>1, <2>2, <2>3, Zenon
  <1>7. Idle!regulate(aimed, aimed.target - rpm) \in Idle!IdleType
    <2> DEFINE error == aimed.target - rpm
               pid == Idle!PidStep(Idle!Gains, aimed.integral, aimed.error_prev, error)
               output == pid.output
               sum == aimed.valve + output
               valve == Idle!Clamp(sum, 0, 1000)
    <2>1. aimed.integral \in Int /\ aimed.error_prev \in Int /\ aimed.valve \in Int
      BY <1>2, <1>5, Zenon
    <2>2. error \in Int
      BY <1>5
    <2>3. Idle!regulate(aimed, aimed.target - rpm) =
            [aimed EXCEPT !.control = TRUE, !.integral = pid.integral, !.error_prev = error,
                          !.valve = valve]
      BY Zenon DEF Idle!regulate
    <2> HIDE DEF error
    <2>4. Settled(pid, 500)
      <3>1. /\ Idle!Gains.p \in Int /\ Idle!Gains.i \in Int /\ Idle!Gains.d \in Int
            /\ Idle!Gains.integral_limit \in Nat /\ Idle!Gains.integral_limit = 500
        BY DEF Idle!Gains
      <3> QED
        BY <2>1, <2>2, <3>1, PidSettles
    <2> HIDE DEF pid
    <2>5. pid.integral \in Scale /\ output \in Int
      BY <2>4 DEF Settled, Scale
    <2> HIDE DEF output
    <2>6. sum \in Int
      BY <2>1, <2>5
    <2> HIDE DEF sum
    <2>7. valve \in Valve
      BY <2>6 DEF Idle!Clamp, Valve
    <2> HIDE DEF valve
    <2> QED
      BY <1>1, <1>4, <2>2, <2>3, <2>5, <2>7, Zenon
  <1>8. [aimed EXCEPT !.control = TRUE] \in Idle!IdleType
    BY <1>1, <1>4, Zenon
  <1>9. updated \in Idle!IdleType
    BY <1>4, <1>6, <1>7, <1>8, Zenon DEF Idle!update_pid
  <1> HIDE DEF updated
  <1>10. Idle!ign_correction(updated, rpm) \in Idle!IdleType
    <2> DEFINE wanted == 2 * (updated.target - rpm)
               correction == Idle!Clamp(wanted, -500, 500)
    <2>1. updated.target \in Nat
      BY <1>1, <1>9, Zenon
    <2>2. Idle!ign_correction(updated, rpm) =
            IF ~updated.control THEN updated ELSE [updated EXCEPT !.correction = correction]
      BY DEF Idle!ign_correction, Idle!IGN_MAX
    <2>3. wanted \in Int
      BY <2>1
    <2> HIDE DEF wanted
    <2>4. correction \in Scale
      BY <2>3 DEF Idle!Clamp, Scale
    <2> HIDE DEF correction
    <2> QED
      BY <1>1, <1>9, <2>2, <2>4, Zenon
  <1> QED
    BY <1>10 DEF updated, aimed
----------------------------------------------------------------------------
(* The cams.                                                               *)

CamDuty == -1000..1000
CamIntegral == -400..400
Phaser == [duty : CamDuty, integral : CamIntegral, error_prev : Int]

LEMMA CamDrive ==
    ASSUME NEW ch \in Phaser, NEW error \in Int, NEW offset \in Int
    PROVE  Vvt!drive(ch, error, offset) \in Phaser
  <1> DEFINE pid == Vvt!PidStep(Vvt!Gains, ch.integral, ch.error_prev, error)
             output == pid.output
             sum == output + offset
             driven == Vvt!Clamp(sum, -1000, 1000)
             still == Vvt!Abs(error) < Vvt!DEADBAND
  <1>1. ch.integral \in CamIntegral /\ ch.error_prev \in Int
    BY Zenon DEF Phaser
  <1>2. CamIntegral \subseteq Int
    BY DEF CamIntegral
  <1>3. Vvt!drive(ch, error, offset) =
          IF still THEN ch ELSE [duty |-> driven, integral |-> pid.integral, error_prev |-> error]
    BY DEF Vvt!drive
  <1>4. ch.integral \in Int /\ ch.error_prev \in Int
    BY <1>1, <1>2, Zenon
  <1>5. Settled(pid, 400)
    <2>1. /\ Vvt!Gains.p \in Int /\ Vvt!Gains.i \in Int /\ Vvt!Gains.d \in Int
          /\ Vvt!Gains.integral_limit \in Nat /\ Vvt!Gains.integral_limit = 400
      BY DEF Vvt!Gains
    <2> QED
      BY <1>4, <2>1, PidSettles
  <1> HIDE DEF pid
  <1>6. output \in Int /\ pid.integral \in CamIntegral
    BY <1>5 DEF Settled, CamIntegral
  <1> HIDE DEF output
  <1>7. sum \in Int
    BY <1>6
  <1> HIDE DEF sum
  <1>8. driven \in CamDuty
    BY <1>7 DEF Vvt!Clamp, CamDuty
  <1> HIDE DEF driven
  <1> HIDE DEF still
  <1>9. [duty |-> driven, integral |-> pid.integral, error_prev |-> error] \in Phaser
    BY <1>6, <1>8, Zenon DEF Phaser
  <1> QED
    BY <1>3, <1>9, Zenon

\* The cams let go without oil pressure, and a cam that is not enabled always.
LEMMA CamUpdate ==
    ASSUME NEW s \in Vvt!VvtType,
           NEW in, in.rpm \in Int, in.load \in Int, in.oil_temp \in Int, in.actual \in Int
    PROVE  /\ Vvt!update(s, in) \in Vvt!VvtType
           /\ \A c \in Vvt!VvtChannel :
                  Vvt!update(s, in).error \/ c \notin Enabled =>
                      Vvt!update(s, in).channel[c].duty = 0
  <1> DEFINE error(c) == Vvt!target_for(c, in.rpm, in.load) - in.actual
             offset == Vvt!duty_offset(in.oil_temp)
             driven(c) == Vvt!drive(s.channel[c], error(c), offset)
             off(c) == [s.channel[c] EXCEPT !.duty = 0]
             Channels4 == Vvt!VvtChannel
             after == Vvt!update(s, in)
  <1>1. Vvt!VvtType = [error : BOOLEAN, channel : [Channels4 -> Phaser]]
    BY DEF Vvt!VvtType, Phaser, CamDuty, CamIntegral
  <1>2. 0 \in CamDuty
    BY DEF CamDuty
  <1>3. ASSUME NEW c \in Channels4 PROVE error(c) \in Int
    <2>1. Vvt!interpolate(in.rpm, in.load) \in Int
      <3>1. Vvt!interpolate(in.rpm, in.load) \in 0..350
        BY CamTargetWithin, Zenon
      <3> QED
        BY <3>1
    <2>2. Vvt!target_for(c, in.rpm, in.load) \in Int
      BY <2>1 DEF Vvt!target_for
    <2> QED
      BY <2>2
  <1>4. offset \in Int
    BY OilOffsetWithin
  <1> HIDE DEF error, offset
  <1>5. ASSUME NEW c \in Channels4
        PROVE  s.channel[c] \in Phaser /\ off(c) \in Phaser /\ off(c).duty = 0
    <2>1. s.channel[c] \in Phaser
      BY <1>1, Zenon
    <2> QED
      BY <1>2, <2>1, Zenon DEF Phaser
  <1>6. ASSUME NEW c \in Channels4 PROVE driven(c) \in Phaser
    BY <1>3, <1>4, <1>5, CamDrive, Zenon
  <1>7. after = IF in.oil_kpa < Vvt!MIN_OIL_KPA
                THEN [error |-> TRUE, channel |-> [c \in Channels4 |-> off(c)]]
                ELSE [error |-> FALSE,
                      channel |-> [c \in Channels4 |-> IF c \notin Enabled THEN off(c) ELSE driven(c)]]
    BY Zenon DEF Vvt!update, Vvt!let_go, error, offset
  <1> HIDE DEF off, driven, Channels4, after
  <1>8. /\ after.error \in BOOLEAN /\ after.channel \in [Channels4 -> Phaser]
        /\ after = [error |-> after.error, channel |-> after.channel]
    BY <1>5, <1>6, <1>7, Zenon
  <1>9. ASSUME NEW c \in Channels4, after.error \/ c \notin Enabled
        PROVE  after.channel[c].duty = 0
    <2>1. after.channel[c] = off(c)
      BY <1>7, <1>9, Zenon
    <2> QED
      BY <1>5, <2>1, Zenon
  <1> QED
    BY <1>1, <1>8, <1>9, Zenon DEF after, Channels4
----------------------------------------------------------------------------
(* Knock.                                                                  *)

\* A window leaves the corrections of its cylinder in range, and adds retard
\* only when it knocked: `knocked` is the verdict, `retard` and `fkc` what the
\* cylinder had.
LEMMA KnockCorrections ==
    ASSUME Knock!KnockAssumption, NEW retard \in 0..RETARD_MAX, NEW fkc \in -FKC_MAX..0
    PROVE  /\ Knock!more_retard(retard) \in 0..RETARD_MAX
           /\ Knock!less_retard(retard) \in 0..RETARD_MAX
           /\ Knock!less_retard(retard) <= retard
           /\ Knock!deepen_fkc(fkc) \in -FKC_MAX..0
           /\ Knock!recover_fkc(fkc) \in -FKC_MAX..0
           /\ Knock!Abs(Knock!recover_fkc(fkc)) <= Knock!Abs(fkc)
  <1>1. /\ RETARD_STEP \in Nat /\ RETARD_MAX \in Nat /\ RECOVERY \in Nat
        /\ FKC_MAX \in Nat /\ FKC_RECOVERY \in Nat
    BY DEF Knock!KnockAssumption
  <1> QED
    BY <1>1 DEF Knock!more_retard, Knock!less_retard, Knock!deepen_fkc, Knock!recover_fkc,
                Knock!Lesser, Knock!Larger, Knock!Abs

LEMMA KnockLevels ==
    ASSUME Knock!KnockAssumption, NEW energy \in Nat, NEW floor \in Nat, NEW knocked \in BOOLEAN
    PROVE  /\ Knock!level_of(energy, floor + THRESHOLD) \in 0..100
           /\ Knock!learn_noise(floor, energy, knocked) \in Nat
  <1>1. THRESHOLD \in Nat /\ LEARN_WEIGHT \in Nat \ {0}
    BY DEF Knock!KnockAssumption
  <1>2. Knock!level_of(energy, floor + THRESHOLD) \in 0..100
    <2> DEFINE a == energy * 50
               d == floor + THRESHOLD + 1
    <2>1. a \in Int /\ a >= 0 /\ d \in Nat \ {0}
      BY <1>1
    <2>2. Knock!level_of(energy, floor + THRESHOLD) =
            IF a \div d <= 100 THEN a \div d ELSE 100
      BY DEF Knock!level_of, Knock!Lesser
    <2> HIDE DEF a, d
    <2>3. a \div d \in Nat
      BY <2>1, Quotient
    <2> QED
      BY <2>2, <2>3
  <1>3. Knock!learn_noise(floor, energy, knocked) \in Nat
    <2> DEFINE a == floor * (LEARN_WEIGHT - 1) + energy
    <2>1. a \in Int /\ a >= 0
      <3>1. LEARN_WEIGHT - 1 \in Nat
        BY <1>1
      <3>2. floor * (LEARN_WEIGHT - 1) \in Nat
        BY <3>1
      <3> QED
        BY <3>2
    <2> HIDE DEF a
    <2>2. a \div LEARN_WEIGHT \in Nat
      BY <1>1, <2>1, Quotient
    <2> QED
      BY <2>2 DEF Knock!learn_noise, a
  <1> QED
    BY <1>2, <1>3

KnockRetard == 0..RETARD_MAX
KnockSpan == -FKC_MAX..0
KnockLevel == 0..100

KnockRecord ==
    [ retard : [Cylinders -> KnockRetard], fkc : [Cylinders -> KnockSpan],
      event : [Cylinders -> BOOLEAN], level : KnockLevel,
      floor : [KnockCells -> Nat], dam : [KnockCells -> KnockLevel] ]

LEMMA KnockState == Knock!KnockType(KnockCells) = KnockRecord
  BY DEF Knock!KnockType, KnockRecord, KnockRetard, KnockSpan, KnockLevel

\* More retard in no cylinder but one that has just knocked.
RetardOnKnock(s, after) ==
    \A c \in Cylinders :
        Knock!total_retard(after, c) > Knock!total_retard(s, c) => after.event[c]

\* What both detectors write: the verdict on cylinder `c` and its corrections.
Verdict(s, c, knocked, retard, fkc, after) ==
    /\ s \in KnockRecord /\ c \in Cylinders
    /\ knocked \in BOOLEAN /\ retard \in KnockRetard /\ fkc \in KnockSpan
    /\ ~knocked => retard <= s.retard[c] /\ Knock!Abs(fkc) <= Knock!Abs(s.fkc[c])
    /\ after.retard = [s.retard EXCEPT ![c] = retard]
    /\ after.fkc = [s.fkc EXCEPT ![c] = fkc]
    /\ after.event = [s.event EXCEPT ![c] = knocked]

LEMMA KnockVerdict ==
    ASSUME Knock!KnockAssumption, NEW s, NEW c, NEW knocked, NEW retard, NEW fkc, NEW after,
           Verdict(s, c, knocked, retard, fkc, after)
    PROVE  /\ after.retard \in [Cylinders -> KnockRetard]
           /\ after.fkc \in [Cylinders -> KnockSpan]
           /\ after.event \in [Cylinders -> BOOLEAN]
           /\ RetardOnKnock(s, after)
  <1> USE DEF Verdict
  <1>1. /\ s.retard \in [Cylinders -> KnockRetard] /\ s.fkc \in [Cylinders -> KnockSpan]
        /\ s.event \in [Cylinders -> BOOLEAN]
    BY Zenon DEF KnockRecord
  <1>2. /\ after.retard \in [Cylinders -> KnockRetard]
        /\ after.fkc \in [Cylinders -> KnockSpan]
        /\ after.event \in [Cylinders -> BOOLEAN]
    <2>1. [s.retard EXCEPT ![c] = retard] \in [Cylinders -> KnockRetard]
      BY <1>1
    <2>2. [s.fkc EXCEPT ![c] = fkc] \in [Cylinders -> KnockSpan]
      BY <1>1
    <2>3. [s.event EXCEPT ![c] = knocked] \in [Cylinders -> BOOLEAN]
      BY <1>1
    <2> QED
      BY <2>1, <2>2, <2>3, Zenon
  <1>3. ASSUME NEW d \in Cylinders, Knock!total_retard(after, d) > Knock!total_retard(s, d)
        PROVE  after.event[d]
    <2>1. CASE d # c
      <3>1. after.retard[d] = s.retard[d] /\ after.fkc[d] = s.fkc[d]
        BY <1>1, <2>1, Zenon
      <3>2. Knock!total_retard(after, d) = Knock!total_retard(s, d)
        BY <3>1, Zenon DEF Knock!total_retard
      <3>3. Knock!total_retard(s, d) \in Int
        <4>1. s.retard[d] \in KnockRetard /\ s.fkc[d] \in KnockSpan
          BY <1>1, Zenon
        <4> QED
          BY <4>1 DEF Knock!total_retard, Knock!Abs, KnockRetard, KnockSpan
      <3> QED
        BY <1>3, <3>2, <3>3
    <2>2. CASE d = c
      <3>1. after.retard[c] = retard /\ after.fkc[c] = fkc /\ after.event[c] = knocked
        BY <1>1, Zenon
      <3>2. /\ Knock!total_retard(after, d) = retard + Knock!Abs(fkc)
            /\ Knock!total_retard(s, d) = s.retard[c] + Knock!Abs(s.fkc[c])
        BY <2>2, <3>1, Zenon DEF Knock!total_retard
      <3> DEFINE old == s.retard[c]
                 depth == Knock!Abs(fkc)
                 old_depth == Knock!Abs(s.fkc[c])
      <3>3. retard \in Int /\ old \in Int /\ depth \in Int /\ old_depth \in Int
        <4>1. s.retard[c] \in KnockRetard /\ s.fkc[c] \in KnockSpan
          BY <1>1, Zenon
        <4>2. /\ s.retard[c] \in Int /\ s.fkc[c] \in Int /\ retard \in Int /\ fkc \in Int
          BY <4>1 DEF KnockRetard, KnockSpan
        <4> QED
          BY <4>2 DEF Knock!Abs
      <3> HIDE DEF old, depth, old_depth
      <3>4. retard + depth > old + old_depth
        BY <1>3, <3>2 DEF old, depth, old_depth
      <3>5. ~(retard <= old /\ depth <= old_depth)
        BY <3>3, <3>4
      <3> QED
        BY <2>2, <3>1, <3>5 DEF old, depth, old_depth
    <2> QED
      BY <2>1, <2>2
  <1> QED
    BY <1>2, <1>3, Zenon DEF RetardOnKnock

\* The integrating detector, on a cylinder of its own.
LEMMA SoftKnock ==
    ASSUME Knock!KnockAssumption, NEW s \in KnockRecord, NEW c \in Cylinders,
           NEW energy \in Nat, NEW loudest \in Nat, NEW floor \in Nat
    PROVE  /\ Knock!soft_evaluate(s, c, energy, loudest, floor) \in KnockRecord
           /\ RetardOnKnock(s, Knock!soft_evaluate(s, c, energy, loudest, floor))
  <1> DEFINE knocked == energy > floor + THRESHOLD
             retard == IF knocked THEN Knock!more_retard(s.retard[c])
                                  ELSE Knock!less_retard(s.retard[c])
             level == Knock!level_of(loudest, floor + THRESHOLD)
             after == Knock!soft_evaluate(s, c, energy, loudest, floor)
  <1>1. /\ s.retard \in [Cylinders -> KnockRetard] /\ s.fkc \in [Cylinders -> KnockSpan]
        /\ s.event \in [Cylinders -> BOOLEAN]
        /\ s.floor \in [KnockCells -> Nat] /\ s.dam \in [KnockCells -> KnockLevel]
    BY Zenon DEF KnockRecord
  <1>2. knocked \in BOOLEAN
    BY DEF Knock!KnockAssumption
  <1>3. level \in KnockLevel
    BY KnockLevels DEF KnockLevel
  <1>4. retard \in KnockRetard /\ (~knocked => retard <= s.retard[c])
    <2>1. s.retard[c] \in 0..RETARD_MAX /\ s.fkc[c] \in -FKC_MAX..0
      BY <1>1, Zenon DEF KnockRetard, KnockSpan
    <2>2. /\ Knock!more_retard(s.retard[c]) \in 0..RETARD_MAX
          /\ Knock!less_retard(s.retard[c]) \in 0..RETARD_MAX
          /\ Knock!less_retard(s.retard[c]) <= s.retard[c]
      BY <2>1, KnockCorrections
    <2> HIDE DEF knocked
    <2> QED
      BY <2>2, <1>2, Zenon DEF KnockRetard
  <1>5. after = [s EXCEPT !.retard[c] = retard, !.event[c] = knocked, !.level = level]
    BY Zenon DEF Knock!soft_evaluate
  <1> HIDE DEF knocked, retard, level, after
  <1>6. /\ after.retard = [s.retard EXCEPT ![c] = retard]
        /\ after.fkc = [s.fkc EXCEPT ![c] = s.fkc[c]]
        /\ after.event = [s.event EXCEPT ![c] = knocked]
        /\ after.level = level /\ after.floor = s.floor /\ after.dam = s.dam
    BY <1>1, <1>5 DEF KnockRecord
  <1>7. s.fkc[c] \in KnockSpan
    BY <1>1, Zenon
  <1>8. /\ after.retard \in [Cylinders -> KnockRetard] /\ after.fkc \in [Cylinders -> KnockSpan]
        /\ after.event \in [Cylinders -> BOOLEAN] /\ RetardOnKnock(s, after)
    <2>1. Knock!Abs(s.fkc[c]) <= Knock!Abs(s.fkc[c])
      BY <1>7 DEF KnockSpan, Knock!Abs, Knock!KnockAssumption
    <2>2. ~knocked => retard <= s.retard[c] /\ Knock!Abs(s.fkc[c]) <= Knock!Abs(s.fkc[c])
      BY <1>4, <2>1, Zenon
    <2> DEFINE fkc == s.fkc[c]
    <2>3. /\ fkc \in KnockSpan /\ after.fkc = [s.fkc EXCEPT ![c] = fkc]
          /\ (~knocked => retard <= s.retard[c] /\ Knock!Abs(fkc) <= Knock!Abs(s.fkc[c]))
      BY <1>6, <1>7, <2>2, Zenon
    <2> HIDE DEF fkc
    <2>4. knocked \in BOOLEAN /\ retard \in KnockRetard
      BY <1>2, <1>4, Zenon
    <2>5. after.retard = [s.retard EXCEPT ![c] = retard] /\ after.event = [s.event EXCEPT ![c] = knocked]
      BY <1>6, Zenon
    <2>6. Verdict(s, c, knocked, retard, fkc, after)
      BY <2>3, <2>4, <2>5 DEF Verdict
    <2> QED
      BY <2>6, KnockVerdict, Zenon
  <1>9. after \in KnockRecord
    BY <1>1, <1>3, <1>5, <1>6, <1>8 DEF KnockRecord
  <1> QED
    BY <1>8, <1>9 DEF after
\* The spectral one, on any channel a window can name.
LEMMA FftKnock ==
    ASSUME Knock!KnockAssumption, NEW s \in KnockRecord, NEW c, NEW cell \in KnockCells,
           NEW energy \in Nat
    PROVE  /\ Knock!fft_evaluate(s, c, cell, energy) \in KnockRecord
           /\ RetardOnKnock(s, Knock!fft_evaluate(s, c, cell, energy))
  <1> DEFINE knocked == Knock!knocks(s, cell, energy)
             noise == Knock!learn_noise(s.floor[cell], energy, knocked)
             retard == IF knocked THEN Knock!more_retard(s.retard[c])
                                  ELSE Knock!less_retard(s.retard[c])
             fkc == IF knocked THEN Knock!deepen_fkc(s.fkc[c]) ELSE Knock!recover_fkc(s.fkc[c])
             dam == IF knocked /\ DamEnabled THEN Knock!Larger(s.dam[cell] - 1, 0)
                                             ELSE s.dam[cell]
             level == Knock!level_of(energy, s.floor[cell] + THRESHOLD)
             after == Knock!fft_evaluate(s, c, cell, energy)
  <1>1. /\ s.retard \in [Cylinders -> KnockRetard] /\ s.fkc \in [Cylinders -> KnockSpan]
        /\ s.event \in [Cylinders -> BOOLEAN]
        /\ s.floor \in [KnockCells -> Nat] /\ s.dam \in [KnockCells -> KnockLevel]
    BY Zenon DEF KnockRecord
  <1>2. s.floor[cell] \in Nat /\ s.dam[cell] \in KnockLevel
    BY <1>1, Zenon
  <1>3. CASE c \notin Cylinders
    <2>1. after = [s EXCEPT !.level = 0]
      BY <1>3, Zenon DEF Knock!fft_evaluate
    <2>2. 0 \in KnockLevel
      BY DEF KnockLevel
    <2>3. after \in KnockRecord
      BY <2>1, <2>2, Zenon DEF KnockRecord
    <2>4. after.retard = s.retard /\ after.fkc = s.fkc
      BY <2>1 DEF KnockRecord
    <2>5. ASSUME NEW d \in Cylinders
          PROVE  ~(Knock!total_retard(after, d) > Knock!total_retard(s, d))
      <3>1. Knock!total_retard(after, d) = Knock!total_retard(s, d)
        BY <2>4, Zenon DEF Knock!total_retard
      <3>2. s.retard[d] \in KnockRetard /\ s.fkc[d] \in KnockSpan
        BY <1>1, Zenon
      <3>3. Knock!total_retard(s, d) \in Int
        BY <3>2 DEF Knock!total_retard, Knock!Abs, KnockRetard, KnockSpan
      <3> QED
        BY <3>1, <3>3
    <2> QED
      BY <2>3, <2>5, Zenon DEF RetardOnKnock, after
  <1>4. CASE c \in Cylinders
    <2>1. knocked \in BOOLEAN
      BY DEF Knock!knocks
    <2>2. noise \in Nat /\ level \in KnockLevel
      <3> HIDE DEF knocked
      <3> QED
        BY <1>2, <2>1, KnockLevels DEF KnockLevel
    <2>3. /\ retard \in KnockRetard /\ fkc \in KnockSpan
          /\ ~knocked => retard <= s.retard[c] /\ Knock!Abs(fkc) <= Knock!Abs(s.fkc[c])
      <3>1. s.retard[c] \in 0..RETARD_MAX /\ s.fkc[c] \in -FKC_MAX..0
        BY <1>1, <1>4, Zenon DEF KnockRetard, KnockSpan
      <3>2. /\ Knock!more_retard(s.retard[c]) \in 0..RETARD_MAX
            /\ Knock!less_retard(s.retard[c]) \in 0..RETARD_MAX
            /\ Knock!less_retard(s.retard[c]) <= s.retard[c]
            /\ Knock!deepen_fkc(s.fkc[c]) \in -FKC_MAX..0
            /\ Knock!recover_fkc(s.fkc[c]) \in -FKC_MAX..0
            /\ Knock!Abs(Knock!recover_fkc(s.fkc[c])) <= Knock!Abs(s.fkc[c])
        BY <3>1, KnockCorrections
      <3> HIDE DEF knocked
      <3> QED
        BY <3>2, <2>1, Zenon DEF KnockRetard, KnockSpan
    <2>4. dam \in KnockLevel
      <3>1. Knock!Larger(s.dam[cell] - 1, 0) \in KnockLevel
        BY <1>2 DEF KnockLevel, Knock!Larger
      <3> QED
        BY <1>2, <3>1, Zenon
    <2>5. after = [s EXCEPT !.floor[cell] = noise, !.retard[c] = retard, !.fkc[c] = fkc,
                            !.dam[cell] = dam, !.event[c] = knocked, !.level = level]
      BY <1>4, Zenon DEF Knock!fft_evaluate
    <2> HIDE DEF knocked, noise, retard, fkc, dam, level, after
    <2>6. /\ after.retard = [s.retard EXCEPT ![c] = retard]
          /\ after.fkc = [s.fkc EXCEPT ![c] = fkc]
          /\ after.event = [s.event EXCEPT ![c] = knocked]
          /\ after.level = level
          /\ after.floor = [s.floor EXCEPT ![cell] = noise]
          /\ after.dam = [s.dam EXCEPT ![cell] = dam]
      BY <1>1, <2>5 DEF KnockRecord
    <2>7. /\ after.retard \in [Cylinders -> KnockRetard] /\ after.fkc \in [Cylinders -> KnockSpan]
          /\ after.event \in [Cylinders -> BOOLEAN] /\ RetardOnKnock(s, after)
      <3>1. Verdict(s, c, knocked, retard, fkc, after)
        BY <1>4, <2>1, <2>3, <2>6 DEF Verdict
      <3> QED
        BY <3>1, KnockVerdict, Zenon
    <2>8. after.floor \in [KnockCells -> Nat] /\ after.dam \in [KnockCells -> KnockLevel]
      <3>1. [s.floor EXCEPT ![cell] = noise] \in [KnockCells -> Nat]
        BY <1>1, <2>2
      <3>2. [s.dam EXCEPT ![cell] = dam] \in [KnockCells -> KnockLevel]
        BY <1>1, <2>4
      <3> QED
        BY <2>6, <3>1, <3>2, Zenon
    <2>9. after = [ retard |-> after.retard, fkc |-> after.fkc, event |-> after.event,
                    level |-> after.level, floor |-> after.floor, dam |-> after.dam ]
      BY <2>5 DEF KnockRecord
    <2>10. after \in KnockRecord
      BY <2>2, <2>6, <2>7, <2>8, <2>9, Zenon DEF KnockRecord
    <2> QED
      BY <2>7, <2>10 DEF after
  <1> QED
    BY <1>3, <1>4
----------------------------------------------------------------------------
(* Launch.                                                                 *)

LaunchRatio == 0..100
LaunchIntegral == -100..100

LaunchRecord ==
    [ phase : Step!Phases, spark_cut : BOOLEAN, fuel_cut : BOOLEAN, retard : BOOLEAN,
      hard_cut : BOOLEAN, cut_ratio : LaunchRatio, integral : LaunchIntegral,
      rpm_at_launch : Nat ]

LEMMA LaunchState == Step!LaunchType = LaunchRecord
  BY DEF Step!LaunchType, LaunchRecord, LaunchRatio, LaunchIntegral

Preset(p) ==
    /\ p.enabled \in BOOLEAN /\ p.mode \in Step!Modes /\ p.spark_pct \in LaunchRatio
    /\ p.slip_target \in Int /\ p.fuel_pct \in Int /\ p.rpm_limit \in Int /\ p.rpm_high \in Int

LaunchInput(in) ==
    /\ in.clutch \in BOOLEAN /\ in.button \in BOOLEAN /\ in.rpm \in Nat /\ in.vss \in Int
    /\ in.slip \in Int

Quiet(s) == ~s.spark_cut /\ ~s.fuel_cut /\ ~s.retard /\ s.cut_ratio = 0

\* A step launch is quiet when idle.  That is kept because a two-step launch
\* is still quiet when armed, a three-step launch never cuts fuel (its release
\* leaves the cut as it was), and a disabled preset, whose update leaves the
\* retard alone, never asked for any.  All of it is lost when the mode changes
\* or the preset is disabled under a launch that is not at rest: `w` says that
\* this has not happened.
LaunchQuiet(s, p) ==
    /\ p.mode \in {"two_step", "three_step"} /\ s.phase = "idle" => Quiet(s)
    /\ p.mode = "two_step" /\ s.phase = "armed" => Quiet(s)
    /\ p.mode = "three_step" => ~s.fuel_cut
    /\ ~p.enabled => ~s.retard

LaunchSafe(s, p, w) == s \in LaunchRecord /\ (w => LaunchQuiet(s, p))

LEMMA TwoStep ==
    ASSUME NEW s, NEW p, NEW in, NEW w, LaunchSafe(s, p, w), Preset(p), LaunchInput(in),
           p.enabled, p.mode = "two_step"
    PROVE  LaunchSafe(Step!two_step(s, p, in), p, w)
  <1> DEFINE after == Step!two_step(s, p, in)
  <1>1. s \in LaunchRecord /\ (w => LaunchQuiet(s, p))
    BY DEF LaunchSafe
  <1>2. 0 \in LaunchRatio /\ p.spark_pct \in LaunchRatio /\ in.rpm \in Nat
    BY DEF LaunchRatio, Preset, LaunchInput
  <1>3. {"idle", "armed", "active", "releasing"} = Step!Phases
    BY DEF Step!Phases
  <1>4. CASE s.phase = "idle"
    <2>1. after = IF in.clutch THEN [s EXCEPT !.phase = "armed"] ELSE s
      BY <1>4, Zenon DEF Step!two_step
    <2>2. [s EXCEPT !.phase = "armed"] \in LaunchRecord
      BY <1>1, <1>3, Zenon DEF LaunchRecord
    <2>3. w => LaunchQuiet([s EXCEPT !.phase = "armed"], p)
      BY <1>1, <1>4 DEF LaunchQuiet, Quiet, LaunchRecord
    <2> QED
      BY <1>1, <2>1, <2>2, <2>3, Zenon DEF LaunchSafe
  <1>5. CASE s.phase = "armed"
    <2> DEFINE go == [s EXCEPT !.phase = "active", !.rpm_at_launch = in.rpm]
               back == [s EXCEPT !.phase = "idle"]
    <2>1. after = IF in.clutch THEN go ELSE back
      BY <1>5, Zenon DEF Step!two_step
    <2>2. go \in LaunchRecord /\ back \in LaunchRecord
      BY <1>1, <1>2, <1>3, Zenon DEF LaunchRecord
    <2>3. w => LaunchQuiet(go, p) /\ LaunchQuiet(back, p)
      BY <1>1, <1>5 DEF LaunchQuiet, Quiet, LaunchRecord
    <2> QED
      BY <2>1, <2>2, <2>3, Zenon DEF LaunchSafe
  <1>6. CASE s.phase = "active"
    <2> DEFINE cut == [[s EXCEPT !.hard_cut = TRUE, !.spark_cut = p.spark_pct > 0,
                                 !.fuel_cut = p.fuel_pct > 0, !.cut_ratio = p.spark_pct]
                         EXCEPT !.retard = TRUE]
               uncut == [[s EXCEPT !.hard_cut = FALSE, !.spark_cut = FALSE, !.fuel_cut = FALSE,
                                   !.cut_ratio = 0] EXCEPT !.retard = TRUE]
               release == [s EXCEPT !.phase = "releasing"]
    <2>1. after = IF in.clutch THEN IF in.rpm > p.rpm_limit THEN cut ELSE uncut ELSE release
      BY <1>6 DEF Step!two_step, Step!cut_at
    <2>2. (p.spark_pct > 0) \in BOOLEAN /\ (p.fuel_pct > 0) \in BOOLEAN
      BY DEF Preset, LaunchRatio
    <2>3. cut \in LaunchRecord /\ uncut \in LaunchRecord /\ release \in LaunchRecord
      BY <1>1, <1>2, <1>3, <2>2, Zenon DEF LaunchRecord
    <2>4. cut.phase = "active" /\ uncut.phase = "active" /\ release.phase = "releasing"
      BY <1>1, <1>6 DEF LaunchRecord
    <2> HIDE DEF cut, uncut, release
    <2>5. w => LaunchQuiet(cut, p) /\ LaunchQuiet(uncut, p) /\ LaunchQuiet(release, p)
      BY <2>4 DEF LaunchQuiet
    <2> QED
      BY <2>1, <2>3, <2>5, Zenon DEF LaunchSafe
  <1>7. CASE s.phase = "releasing"
    <2> DEFINE next == IF in.vss > 10 THEN "idle" ELSE "releasing"
               off == [[s EXCEPT !.spark_cut = FALSE, !.fuel_cut = FALSE, !.retard = FALSE,
                                 !.cut_ratio = 0] EXCEPT !.phase = next]
    <2>1. after = off
      BY <1>1, <1>7 DEF Step!two_step, Step!released, LaunchRecord
    <2>2. next \in Step!Phases
      BY <1>3
    <2> HIDE DEF next
    <2>3. off \in LaunchRecord
      BY <1>1, <1>2, <2>2, Zenon DEF LaunchRecord
    <2>4. Quiet(off)
      BY <1>1 DEF Quiet, LaunchRecord
    <2> HIDE DEF off
    <2>5. w => LaunchQuiet(off, p)
      BY <2>4 DEF LaunchQuiet, Quiet
    <2> QED
      BY <2>1, <2>3, <2>5, Zenon DEF LaunchSafe
  <1> QED
    BY <1>1, <1>3, <1>4, <1>5, <1>6, <1>7, Zenon DEF LaunchRecord
LEMMA ThreeStep ==
    ASSUME NEW s, NEW p, NEW in, NEW w, LaunchSafe(s, p, w), Preset(p), LaunchInput(in),
           p.enabled, p.mode = "three_step"
    PROVE  LaunchSafe(Step!three_step(s, p, in), p, w)
  <1> DEFINE after == Step!three_step(s, p, in)
  <1>1. s \in LaunchRecord /\ (w => LaunchQuiet(s, p))
    BY DEF LaunchSafe
  <1>2. 0 \in LaunchRatio /\ p.spark_pct \in LaunchRatio
    BY DEF LaunchRatio, Preset
  <1>3. {"idle", "armed", "active", "releasing"} = Step!Phases
    BY DEF Step!Phases
  <1>4. w => ~s.fuel_cut
    BY <1>1 DEF LaunchQuiet
  <1>5. CASE s.phase = "idle"
    <2>1. after = IF in.button THEN [s EXCEPT !.phase = "armed"] ELSE s
      BY <1>5, Zenon DEF Step!three_step
    <2>2. [s EXCEPT !.phase = "armed"] \in LaunchRecord
      BY <1>1, <1>3, Zenon DEF LaunchRecord
    <2>3. w => LaunchQuiet([s EXCEPT !.phase = "armed"], p)
      BY <1>1, <1>4 DEF LaunchQuiet, LaunchRecord
    <2> QED
      BY <1>1, <2>1, <2>2, <2>3, Zenon DEF LaunchSafe
  <1>6. CASE s.phase = "armed"
    <2> DEFINE above == in.rpm > p.rpm_limit
               ratio == IF above THEN p.spark_pct ELSE 0
               next == IF in.button THEN "armed" ELSE "active"
               held == [s EXCEPT !.spark_cut = above, !.cut_ratio = ratio, !.retard = TRUE,
                                 !.phase = next]
    <2>1. after = held
      BY <1>1, <1>6 DEF Step!three_step, LaunchRecord
    <2>2. above \in BOOLEAN /\ ratio \in LaunchRatio /\ next \in Step!Phases /\ next # "idle"
      BY <1>2, <1>3 DEF Preset, LaunchInput
    <2> HIDE DEF above, ratio, next
    <2>3. held \in LaunchRecord
      BY <1>1, <2>2, Zenon DEF LaunchRecord
    <2>4. held.phase # "idle" /\ (w => ~held.fuel_cut)
      BY <1>1, <1>4, <2>2 DEF LaunchRecord
    <2> HIDE DEF held
    <2>5. w => LaunchQuiet(held, p)
      BY <2>4 DEF LaunchQuiet
    <2> QED
      BY <2>1, <2>3, <2>5, Zenon DEF LaunchSafe
  <1>7. CASE s.phase = "active"
    <2> DEFINE above == in.rpm > p.rpm_high
               next == IF in.vss > 20 THEN "releasing" ELSE "active"
               held == [s EXCEPT !.spark_cut = above, !.phase = next]
    <2>1. after = held
      BY <1>1, <1>7 DEF Step!three_step, LaunchRecord
    <2>2. above \in BOOLEAN /\ next \in Step!Phases /\ next # "idle"
      BY <1>3 DEF Preset, LaunchInput
    <2> HIDE DEF above, next
    <2>3. held \in LaunchRecord
      BY <1>1, <2>2, Zenon DEF LaunchRecord
    <2>4. held.phase # "idle" /\ (w => ~held.fuel_cut)
      BY <1>1, <1>4, <2>2 DEF LaunchRecord
    <2> HIDE DEF held
    <2>5. w => LaunchQuiet(held, p)
      BY <2>4 DEF LaunchQuiet
    <2> QED
      BY <2>1, <2>3, <2>5, Zenon DEF LaunchSafe
  <1>8. CASE s.phase = "releasing"
    <2> DEFINE off == [[s EXCEPT !.spark_cut = FALSE, !.fuel_cut = FALSE, !.retard = FALSE,
                                 !.cut_ratio = 0] EXCEPT !.fuel_cut = s.fuel_cut, !.phase = "idle"]
    <2>1. after = off
      BY <1>8, Zenon DEF Step!three_step, Step!released
    <2>2. s.fuel_cut \in BOOLEAN
      BY <1>1, Zenon DEF LaunchRecord
    <2>3. off \in LaunchRecord
      BY <1>1, <1>2, <1>3, <2>2, Zenon DEF LaunchRecord
    <2>4. w => Quiet(off)
      BY <1>1, <1>4 DEF Quiet, LaunchRecord
    <2> HIDE DEF off
    <2>5. w => LaunchQuiet(off, p)
      BY <2>4 DEF LaunchQuiet, Quiet
    <2> QED
      BY <2>1, <2>3, <2>5, Zenon DEF LaunchSafe
  <1> QED
    BY <1>1, <1>3, <1>5, <1>6, <1>7, <1>8, Zenon DEF LaunchRecord

LEMMA RollingLaunch ==
    ASSUME NEW s, NEW p, NEW in, NEW w, LaunchSafe(s, p, w), Preset(p), LaunchInput(in),
           p.enabled, p.mode = "rolling"
    PROVE  LaunchSafe(Step!rolling(s, p, in), p, w)
  <1> DEFINE slip == IF in.vss > 5 THEN in.slip ELSE 0
             error == p.slip_target - slip
             sum == s.integral + error
             integral == Step!Clamp(sum, -100, 100)
             wanted == -(200 * error + integral)
             ratio == Step!Clamp(wanted, 0, 100)
             cut == ratio > 5
             next == IF in.button THEN "active" ELSE "idle"
             after == [s EXCEPT !.integral = integral, !.cut_ratio = ratio, !.spark_cut = cut,
                                !.phase = next]
  <1>1. s \in LaunchRecord
    BY DEF LaunchSafe
  <1>2. s.integral \in Int
    <2>1. s.integral \in LaunchIntegral
      BY <1>1, Zenon DEF LaunchRecord
    <2> QED
      BY <2>1 DEF LaunchIntegral
  <1>3. slip \in Int
    BY DEF LaunchInput
  <1>4. Step!rolling(s, p, in) = after
    BY DEF Step!rolling
  <1>5. next \in Step!Phases
    BY DEF Step!Phases
  <1> HIDE DEF slip, next
  <1>6. error \in Int
    BY <1>3 DEF Preset
  <1> HIDE DEF error
  <1>7. sum \in Int
    BY <1>2, <1>6
  <1> HIDE DEF sum
  <1>8. integral \in Int /\ integral \in LaunchIntegral
    BY <1>7 DEF Step!Clamp, LaunchIntegral
  <1> HIDE DEF integral
  <1>9. wanted \in Int
    BY <1>6, <1>8
  <1> HIDE DEF wanted
  <1>10. ratio \in LaunchRatio /\ cut \in BOOLEAN
    BY <1>9 DEF Step!Clamp, LaunchRatio
  <1> HIDE DEF ratio, cut
  <1>11. after \in LaunchRecord
    BY <1>1, <1>5, <1>8, <1>10, Zenon DEF LaunchRecord
  <1> HIDE DEF after
  <1>12. w => LaunchQuiet(after, p)
    BY DEF LaunchQuiet
  <1> QED
    BY <1>4, <1>11, <1>12, Zenon DEF LaunchSafe

LEMMA LaunchUpdate ==
    ASSUME NEW s, NEW p, NEW in, NEW w, LaunchSafe(s, p, w), Preset(p), LaunchInput(in)
    PROVE  LaunchSafe(Step!update(s, p, in), p, w)
  <1> DEFINE off == [s EXCEPT !.phase = "idle", !.spark_cut = FALSE, !.fuel_cut = FALSE,
                              !.cut_ratio = 0]
             still == [s EXCEPT !.phase = "idle", !.spark_cut = FALSE]
  <1>1. s \in LaunchRecord /\ (w => LaunchQuiet(s, p))
    BY DEF LaunchSafe
  <1>2. 0 \in LaunchRatio /\ "idle" \in Step!Phases
    BY DEF LaunchRatio, Step!Phases
  <1>3. off \in LaunchRecord /\ still \in LaunchRecord
    BY <1>1, <1>2, Zenon DEF LaunchRecord
  <1>4. CASE ~p.enabled
    <2>1. Step!update(s, p, in) = off
      BY <1>4, Zenon DEF Step!update
    <2>2. w => ~s.retard
      BY <1>1, <1>4 DEF LaunchQuiet
    <2>3. w => Quiet(off)
      BY <1>1, <2>2 DEF Quiet, LaunchRecord
    <2> HIDE DEF off
    <2>4. w => LaunchQuiet(off, p)
      BY <2>3 DEF LaunchQuiet, Quiet
    <2> QED
      BY <1>3, <2>1, <2>4, Zenon DEF LaunchSafe
  <1>5. CASE p.enabled /\ p.mode = "disabled"
    <2>1. Step!update(s, p, in) = still
      BY <1>5, Zenon DEF Step!update
    <2> HIDE DEF still
    <2>2. w => LaunchQuiet(still, p)
      BY <1>5 DEF LaunchQuiet
    <2> QED
      BY <1>3, <2>1, <2>2, Zenon DEF LaunchSafe
  <1>6. CASE p.enabled /\ p.mode = "two_step"
    <2>1. Step!update(s, p, in) = Step!two_step(s, p, in)
      BY <1>6 DEF Step!update
    <2> QED
      BY <1>6, <2>1, TwoStep, Zenon
  <1>7. CASE p.enabled /\ p.mode = "three_step"
    <2>1. Step!update(s, p, in) = Step!three_step(s, p, in)
      BY <1>7 DEF Step!update
    <2> QED
      BY <1>7, <2>1, ThreeStep, Zenon
  <1>8. CASE p.enabled /\ p.mode = "rolling"
    <2>1. Step!update(s, p, in) = Step!rolling(s, p, in)
      BY <1>8 DEF Step!update
    <2> QED
      BY <1>8, <2>1, RollingLaunch, Zenon
  <1>9. p.mode \in Step!Modes
    BY DEF Preset
  <1> QED
    BY <1>4, <1>5, <1>6, <1>7, <1>8, <1>9 DEF Step!Modes

\* Whatever the presets were before, an update begins to ask for something only
\* under an enabled preset, when rolling or when it found the launch armed or
\* active.
LEMMA LaunchBegins ==
    ASSUME NEW s \in LaunchRecord, NEW p, NEW in, Preset(p),
           Step!Begins(s, Step!update(s, p, in))
    PROVE  /\ p.enabled
           /\ \/ p.mode = "rolling"
              \/ p.mode \in Step!StepModes /\ s.phase \in {"armed", "active"}
  <1> DEFINE after == Step!update(s, p, in)
  <1>1. s.phase \in {"idle", "armed", "active", "releasing"}
    BY DEF LaunchRecord, Step!Phases
  <1>2. ASSUME ~p.enabled PROVE FALSE
    <2>1. after = [s EXCEPT !.phase = "idle", !.spark_cut = FALSE, !.fuel_cut = FALSE,
                            !.cut_ratio = 0]
      BY <1>2, Zenon DEF Step!update
    <2>2. ~after.spark_cut /\ ~after.fuel_cut /\ after.retard = s.retard
      BY <2>1 DEF LaunchRecord
    <2> QED
      BY <2>2 DEF Step!Begins
  <1>3. ASSUME p.enabled, p.mode = "disabled" PROVE FALSE
    <2>1. after = [s EXCEPT !.phase = "idle", !.spark_cut = FALSE]
      BY <1>3, Zenon DEF Step!update
    <2>2. ~after.spark_cut /\ after.fuel_cut = s.fuel_cut /\ after.retard = s.retard
      BY <2>1 DEF LaunchRecord
    <2> QED
      BY <2>2 DEF Step!Begins
  <1>4. ASSUME p.enabled, p.mode = "two_step", s.phase \in {"idle", "releasing"} PROVE FALSE
    <2>1. after = Step!two_step(s, p, in)
      BY <1>4 DEF Step!update
    <2>2. /\ after.spark_cut => s.spark_cut
          /\ after.fuel_cut => s.fuel_cut
          /\ after.retard => s.retard
      BY <1>4, <2>1 DEF Step!two_step, Step!released, LaunchRecord
    <2> QED
      BY <2>2 DEF Step!Begins
  <1>5. ASSUME p.enabled, p.mode = "three_step", s.phase \in {"idle", "releasing"} PROVE FALSE
    <2>1. after = Step!three_step(s, p, in)
      BY <1>5 DEF Step!update
    <2>2. /\ after.spark_cut => s.spark_cut
          /\ after.fuel_cut => s.fuel_cut
          /\ after.retard => s.retard
      BY <1>5, <2>1 DEF Step!three_step, Step!released, LaunchRecord
    <2> QED
      BY <2>2 DEF Step!Begins
  <1>6. p.enabled \in BOOLEAN /\ p.mode \in {"disabled", "two_step", "three_step", "rolling"}
    BY DEF Preset, Step!Modes
  <1> QED
    BY <1>1, <1>2, <1>3, <1>4, <1>5, <1>6 DEF Step!StepModes

\* What a safe launch controller shows of the demand of a step launch.
LEMMA LaunchIdle ==
    ASSUME NEW s, NEW p, NEW w, LaunchSafe(s, p, w)
    PROVE  w /\ p.mode \in Step!StepModes /\ s.phase = "idle" => ~Step!Demanding(s)
  BY DEF LaunchSafe, LaunchQuiet, Quiet, Step!StepModes, Step!Demanding

\* A launch at rest is quiet under any preset, and stays what it was when the
\* preset changes to another enabled one of the same mode.
LEMMA LaunchSteady ==
    ASSUME NEW s, NEW old, NEW new, NEW w, LaunchSafe(s, old, w), Preset(new)
    PROVE  LaunchSafe(s, new, Step!Steady(w, s, old, new))
  <1>1. s \in LaunchRecord /\ (w => LaunchQuiet(s, old))
    BY DEF LaunchSafe
  <1>2. ASSUME Step!AtRest(s) PROVE LaunchQuiet(s, new)
    <2>1. s.phase = "idle" /\ Quiet(s)
      <3>1. s.cut_ratio \in 0..100
        BY <1>1 DEF LaunchRecord, LaunchRatio
      <3> QED
        BY <1>2, <3>1 DEF Step!AtRest, Step!Demanding, Quiet
    <2> QED
      BY <2>1 DEF LaunchQuiet, Quiet
  <1>3. ASSUME w, new = old \/ (new.enabled /\ new.mode = old.mode) PROVE LaunchQuiet(s, new)
    BY <1>1, <1>3 DEF LaunchQuiet
  <1> QED
    BY <1>1, <1>2, <1>3 DEF LaunchSafe, Step!Steady
----------------------------------------------------------------------------
(* Anti-lag.                                                               *)

AlsConfigured(c) ==
    /\ c.max_retard \in Nat /\ c.max_enrich \in Nat /\ c.ral_retard \in Nat
    /\ c.rolling \in BOOLEAN /\ c.mode \in Step!AlsModes

AlsIntensity == 0..10000

AlsSafe(s, c) ==
    /\ s \in [ active : BOOLEAN, rolling : BOOLEAN, intensity : AlsIntensity,
               retard : Nat, enrich : Nat ]
    /\ Step!AlsBounded(s, c)

LEMMA AlsState == ASSUME NEW s PROVE s \in Step!AlsType <=>
    s \in [ active : BOOLEAN, rolling : BOOLEAN, intensity : AlsIntensity, retard : Nat, enrich : Nat ]
  BY DEF Step!AlsType, Step!FULL, AlsIntensity

\* A part of a configured maximum is at most the maximum.
LEMMA PartOf ==
    ASSUME NEW max \in Nat, NEW intensity \in AlsIntensity
    PROVE  max * intensity \in Nat /\ max * intensity <= max * 10000
  <1>1. intensity \in Nat /\ 10000 - intensity \in Nat
    BY DEF AlsIntensity
  <1>2. max * intensity \in Nat /\ max * (10000 - intensity) \in Nat
    BY <1>1
  <1>3. max * (10000 - intensity) = max * 10000 - max * intensity
    BY <1>1
  <1> QED
    BY <1>1, <1>2, <1>3

LEMMA Ramped ==
    ASSUME NEW intensity \in AlsIntensity, NEW raw \in AlsIntensity
    PROVE  Step!ramp(intensity, raw) \in AlsIntensity
  BY SMTT(30) DEF Step!ramp, AlsIntensity

LEMMA Decayed ==
    ASSUME NEW intensity \in AlsIntensity
    PROVE  Step!decay(intensity) \in AlsIntensity
  BY DEF Step!decay, Step!CUTOFF, AlsIntensity

LEMMA AlsOutputs ==
    ASSUME NEW c, AlsConfigured(c),
           NEW s \in [ active : BOOLEAN, rolling : BOOLEAN, intensity : AlsIntensity,
                       retard : Nat, enrich : Nat ]
    PROVE  /\ AlsSafe(Step!outputs(s, c), c)
           /\ ~s.rolling /\ s.intensity = 0 =>
                  Step!outputs(s, c).retard = 0 /\ Step!outputs(s, c).enrich = 0
           /\ Step!outputs(s, c).rolling = s.rolling
           /\ Step!outputs(s, c).intensity = s.intensity
  <1> DEFINE intensity == s.intensity
             part == c.max_retard * intensity
             floor == IF s.rolling THEN c.ral_retard * 10000 ELSE 0
             retard == IF c.mode \in {"retard", "combined"} THEN Step!Larger(part, floor) ELSE 0
             more == c.max_enrich * intensity
             enrich == IF c.mode \in {"enrich", "combined"} THEN more ELSE 0
             top == Step!Larger(c.max_retard, c.ral_retard)
             after == [s EXCEPT !.retard = retard, !.enrich = enrich]
  <1>1. s.rolling \in BOOLEAN /\ intensity \in AlsIntensity
    BY Zenon
  <1>2. Step!outputs(s, c) = after
    BY DEF Step!outputs, Step!FULL
  <1>3. /\ c.max_retard \in Nat /\ c.max_enrich \in Nat /\ c.ral_retard \in Nat
    BY DEF AlsConfigured
  <1> HIDE DEF intensity
  <1>4. part \in Nat /\ part <= c.max_retard * 10000 /\ more \in Nat /\ more <= c.max_enrich * 10000
    BY <1>1, <1>3, PartOf
  <1>5. intensity = 0 => part = 0 /\ more = 0
    BY <1>3
  <1> HIDE DEF part, more
  <1>6. /\ floor \in Nat /\ floor <= c.ral_retard * 10000 /\ (~s.rolling => floor = 0)
    BY <1>1, <1>3
  <1> HIDE DEF floor
  <1>7. /\ top \in Nat /\ c.max_retard * 10000 <= top * 10000 /\ c.ral_retard * 10000 <= top * 10000
    BY <1>3 DEF Step!Larger
  <1>8. Step!Larger(part, floor) \in Nat /\ Step!Larger(part, floor) <= top * 10000
    BY <1>3, <1>4, <1>6, <1>7 DEF Step!Larger
  <1>9. retard \in Nat /\ retard <= top * 10000
    BY <1>7, <1>8
  <1>10. enrich \in Nat /\ enrich <= c.max_enrich * 10000
    BY <1>3, <1>4
  <1>11. ~s.rolling /\ intensity = 0 => retard = 0 /\ enrich = 0
    BY <1>5, <1>6 DEF Step!Larger
  <1> HIDE DEF retard, enrich, top
  <1>a. retard \in Nat
    BY <1>9
  <1>b. enrich \in Nat
    BY <1>10
  <1>12. after \in [ active : BOOLEAN, rolling : BOOLEAN, intensity : AlsIntensity,
                     retard : Nat, enrich : Nat ]
    BY <1>a, <1>b, Zenon
  <1>13. /\ after.retard = retard /\ after.enrich = enrich /\ after.rolling = s.rolling
         /\ after.intensity = s.intensity
    OBVIOUS
  <1>14. Step!AlsBounded(after, c)
    BY <1>9, <1>10, <1>13 DEF Step!AlsBounded, Step!FULL, top
  <1> HIDE DEF after
  <1> QED
    BY <1>2, <1>11, <1>12, <1>13, <1>14, Zenon DEF AlsSafe, intensity

\* An update keeps what is asked for within the configured maxima, and asks
\* for nothing once neither kind of anti-lag is on and the intensity is gone.
LEMMA AlsUpdate ==
    ASSUME NEW s, NEW c, NEW in, AlsConfigured(c), AlsSafe(s, c),
           in.overrun \in BOOLEAN, in.corner \in BOOLEAN, in.raw \in AlsIntensity
    PROVE  /\ AlsSafe(Step!als_update(s, c, in), c)
           /\ ~Step!als_update(s, c, in).rolling /\ Step!als_update(s, c, in).intensity = 0 =>
                  /\ Step!als_update(s, c, in).retard = 0
                  /\ Step!als_update(s, c, in).enrich = 0
  <1> DEFINE Shape == [ active : BOOLEAN, rolling : BOOLEAN, intensity : AlsIntensity,
                        retard : Nat, enrich : Nat ]
             off == [s EXCEPT !.active = FALSE, !.intensity = 0, !.retard = 0, !.enrich = 0]
             intensity == IF in.overrun THEN Step!ramp(s.intensity, in.raw)
                                        ELSE Step!decay(s.intensity)
             corner == c.rolling /\ in.corner
             moved == [s EXCEPT !.active = in.overrun, !.rolling = corner, !.intensity = intensity]
  <1>1. s \in Shape /\ s.intensity \in AlsIntensity
    BY Zenon DEF AlsSafe
  <1>2. CASE c.mode = "disabled"
    <2>1. Step!als_update(s, c, in) = off
      BY <1>2, Zenon DEF Step!als_update
    <2>2. 0 \in AlsIntensity /\ 0 \in Nat
      BY DEF AlsIntensity
    <2>3. off \in Shape
      BY <1>1, <2>2, Zenon
    <2>4. off.retard = 0 /\ off.enrich = 0
      BY <1>1
    <2> HIDE DEF off
    <2>5. Step!AlsBounded(off, c)
      BY <2>4 DEF Step!AlsBounded, Step!FULL, Step!Larger, AlsConfigured
    <2> QED
      BY <2>1, <2>3, <2>4, <2>5, Zenon DEF AlsSafe
  <1>3. CASE c.mode # "disabled"
    <2>1. Step!als_update(s, c, in) = Step!outputs(moved, c)
      BY <1>3, Zenon DEF Step!als_update
    <2>2. Step!ramp(s.intensity, in.raw) \in AlsIntensity
      BY <1>1, Ramped
    <2>3. Step!decay(s.intensity) \in AlsIntensity
      BY <1>1, Decayed
    <2>4. intensity \in AlsIntensity /\ corner \in BOOLEAN
      BY <2>2, <2>3 DEF AlsConfigured
    <2> HIDE DEF intensity, corner
    <2>5. moved \in Shape
      BY <1>1, <2>4, Zenon
    <2> HIDE DEF moved
    <2> QED
      BY <2>1, <2>5, AlsOutputs, Zenon
  <1> QED
    BY <1>2, <1>3

----------------------------------------------------------------------------
(* Traction.                                                               *)

TractionIntegral == 0..500
TractionRetard == 0..8000
TractionCut == 0..20000

TractionRecord ==
    [ active : BOOLEAN, integral : TractionIntegral, error_prev : Nat,
      retard : TractionRetard, etb_cut : TractionCut ]

LEMMA TractionState == Dbw!TractionType(Dbw!dry) = TractionRecord
  <1> DEFINE integral == 0..Dbw!dry.max_intervention
             retard == 0..(1000 * Dbw!dry.retard_max)
             cut == 0..(1000 * Dbw!dry.cut_max)
  <1>1. Dbw!TractionType(Dbw!dry) =
          [ active : BOOLEAN, integral : integral, error_prev : Nat, retard : retard, etb_cut : cut ]
    BY DEF Dbw!TractionType
  <1>2. integral = TractionIntegral
    BY DEF Dbw!dry, TractionIntegral
  <1>3. retard = TractionRetard
    BY DEF Dbw!dry, TractionRetard
  <1>4. cut = TractionCut
    BY DEF Dbw!dry, TractionCut
  <1> HIDE DEF integral, retard, cut
  <1> QED
    BY <1>1, <1>2, <1>3, <1>4, Zenon DEF TractionRecord

LEMMA Leaked ==
    ASSUME NEW integral \in TractionIntegral
    PROVE  /\ (integral * 9) \div 10 \in TractionIntegral
           /\ (integral * 98) \div 100 \in TractionIntegral
  BY DEF TractionIntegral

LEMMA LessRetard ==
    ASSUME NEW retard \in TractionRetard
    PROVE  /\ 0 \in TractionRetard /\ 0 <= retard
           /\ Dbw!Larger(retard - 500, 0) \in TractionRetard
           /\ Dbw!Larger(retard - 500, 0) <= retard
  BY DEF TractionRetard, Dbw!Larger

LEMMA LessCut ==
    ASSUME NEW cut \in TractionCut
    PROVE  /\ 0 \in TractionCut /\ 0 <= cut
           /\ Dbw!Larger(cut - 1000, 0) \in TractionCut
           /\ Dbw!Larger(cut - 1000, 0) <= cut
  BY SMTT(30) DEF TractionCut, Dbw!Larger

\* Only an intervention asks for more retard or for a deeper throttle cut.
MoreOnlyActive(s, after) ==
    after.active \/ (after.retard <= s.retard /\ after.etb_cut <= s.etb_cut)

LEMMA TractionUpdate ==
    ASSUME NEW s \in TractionRecord,
           NEW in, in.switch \in BOOLEAN, in.vss \in Int, in.slip \in Int
    PROVE  /\ Dbw!traction_update(s, Dbw!dry, in) \in TractionRecord
           /\ MoreOnlyActive(s, Dbw!traction_update(s, Dbw!dry, in))
  <1> DEFINE after == Dbw!traction_update(s, Dbw!dry, in)
             standby == Dbw!standby(s)
             less == Dbw!let_go(s)
             excess == in.slip - 5
             active == Dbw!intervene(s, Dbw!dry, excess)
  <1>1. /\ s.integral \in TractionIntegral /\ s.error_prev \in Nat
        /\ s.retard \in TractionRetard /\ s.etb_cut \in TractionCut
    BY Zenon DEF TractionRecord
  <1>2. after = IF ~in.switch \/ in.vss < 10 THEN standby
                ELSE IF in.slip <= 5 THEN less ELSE active
    BY DEF Dbw!traction_update, Dbw!dry
  <1>3. standby \in TractionRecord /\ MoreOnlyActive(s, standby)
    <2> DEFINE kept == (s.integral * 9) \div 10
    <2>a. kept \in TractionIntegral
      BY <1>1, Leaked
    <2>b. 0 \in TractionRetard /\ 0 <= s.retard
      BY <1>1, LessRetard
    <2>c. 0 \in TractionCut /\ 0 <= s.etb_cut
      BY <1>1, LessCut
    <2>1. /\ kept \in TractionIntegral /\ 0 \in TractionRetard /\ 0 \in TractionCut
          /\ 0 <= s.retard /\ 0 <= s.etb_cut
      BY <2>a, <2>b, <2>c
    <2>2. standby = [s EXCEPT !.active = FALSE, !.retard = 0, !.etb_cut = 0, !.integral = kept]
      BY Zenon DEF Dbw!standby
    <2> HIDE DEF kept, standby
    <2>3. standby \in TractionRecord
      BY <2>1, <2>2, Zenon DEF TractionRecord
    <2>4. standby.retard = 0 /\ standby.etb_cut = 0
      BY <2>2 DEF TractionRecord
    <2> QED
      BY <2>1, <2>3, <2>4, Zenon DEF MoreOnlyActive
  <1>4. less \in TractionRecord /\ MoreOnlyActive(s, less)
    <2> DEFINE kept == (s.integral * 98) \div 100
               retard == Dbw!Larger(s.retard - 500, 0)
               cut == Dbw!Larger(s.etb_cut - 1000, 0)
    <2>a. kept \in TractionIntegral
      BY <1>1, Leaked
    <2>b. retard \in TractionRetard /\ retard <= s.retard
      BY <1>1, LessRetard
    <2>c. cut \in TractionCut /\ cut <= s.etb_cut
      BY <1>1, LessCut
    <2>1. /\ kept \in TractionIntegral
          /\ retard \in TractionRetard /\ retard <= s.retard
          /\ cut \in TractionCut /\ cut <= s.etb_cut
      BY <2>a, <2>b, <2>c
    <2>2. less = [s EXCEPT !.active = FALSE, !.retard = retard, !.etb_cut = cut, !.integral = kept]
      BY Zenon DEF Dbw!let_go
    <2> HIDE DEF kept, retard, cut, less
    <2>3. less \in TractionRecord
      BY <2>1, <2>2, Zenon DEF TractionRecord
    <2>4. less.retard = retard /\ less.etb_cut = cut
      BY <2>2 DEF TractionRecord
    <2> QED
      BY <2>1, <2>3, <2>4, Zenon DEF MoreOnlyActive
  <1>5. ASSUME ~(in.slip <= 5) PROVE active \in TractionRecord /\ MoreOnlyActive(s, active)
    <2> DEFINE sum == s.integral + 16 * excess
               integral == Dbw!Clamp(sum, 0, 500)
               wanted == 3000 * excess + integral + 15000 * (excess - s.error_prev)
               intervention == Dbw!Clamp(wanted, 0, 1000)
    <2>1. active = [ active |-> TRUE, integral |-> integral, error_prev |-> excess,
                     retard |-> intervention * 8, etb_cut |-> intervention * 20 ]
      BY DEF Dbw!intervene, Dbw!dry
    <2>2. excess \in Nat
      BY <1>5
    <2> HIDE DEF excess, active
    <2>3. sum \in Int
      BY <1>1, <2>2 DEF TractionIntegral
    <2> HIDE DEF sum
    <2>4. integral \in TractionIntegral
      BY <2>3 DEF Dbw!Clamp, TractionIntegral
    <2> HIDE DEF integral
    <2>5. wanted \in Int
      BY <1>1, <2>2, <2>4 DEF TractionIntegral
    <2> HIDE DEF wanted
    <2>6. intervention \in 0..1000
      BY <2>5 DEF Dbw!Clamp
    <2> HIDE DEF intervention
    <2>7. intervention * 8 \in TractionRetard /\ intervention * 20 \in TractionCut
      BY <2>6, SMTT(30) DEF TractionRetard, TractionCut
    <2>8. active \in TractionRecord
      BY <2>1, <2>2, <2>4, <2>7, Zenon DEF TractionRecord
    <2>9. active.active
      BY <2>1
    <2> QED
      BY <2>8, <2>9, Zenon DEF MoreOnlyActive
  <1> HIDE DEF after, standby, less, active
  <1> QED
    BY <1>2, <1>3, <1>4, <1>5 DEF after
----------------------------------------------------------------------------
(* The lambda sensor.                                                      *)

HeaterIntegral == -Lambda!HeaterGains.integral_limit..Lambda!HeaterGains.integral_limit
HeaterDuty == 0..Lambda!FULL_DUTY
LambdaRange == 700..1700

SensorRecord ==
    [ integral : HeaterIntegral, prev_err : Int, duty : HeaterDuty, lambda : LambdaRange,
      ready : BOOLEAN, errors : 0..ERROR_MAX ]

LEMMA SensorState == Lambda!SensorType = SensorRecord
  <1> DEFINE duty == 0..Lambda!FULL_DUTY
             integral == -Lambda!HeaterGains.integral_limit..Lambda!HeaterGains.integral_limit
             lambda == 700..1700
  <1>2. duty = HeaterDuty
    BY Zenon DEF HeaterDuty
  <1>4. integral = HeaterIntegral
    BY Zenon DEF HeaterIntegral
  <1>5. lambda = LambdaRange
    BY Zenon DEF LambdaRange
  <1>3. Lambda!SensorType =
          [ integral : integral, prev_err : Int, duty : duty, lambda : lambda,
            ready : BOOLEAN, errors : 0..ERROR_MAX ]
    BY DEF Lambda!SensorType
  <1> HIDE DEF duty, integral, lambda
  <1> QED
    BY <1>2, <1>3, <1>4, <1>5, Zenon DEF SensorRecord

\* The heater keeps its integral and its duty, whatever the cell reads.
HeaterSafe(pid) == pid.integral \in HeaterIntegral /\ pid.output \in Int

LEMMA HeaterSettles ==
    ASSUME NEW integral \in HeaterIntegral, NEW prev \in Int, NEW err \in Int
    PROVE  HeaterSafe(Lambda!PidStep(Lambda!HeaterGains, integral, prev, err))
  <1> DEFINE raw == integral + 1 * err
             sum == Lambda!Clamp(raw, -800000, 800000)
             output == 1000 * err + sum + 50000 * (err - prev)
  <1>1. Lambda!PidStep(Lambda!HeaterGains, integral, prev, err) =
          [integral |-> sum, output |-> output]
    BY DEF Lambda!PidStep, Lambda!HeaterGains
  <1>2. raw \in Int
    BY DEF HeaterIntegral, Lambda!HeaterGains
  <1> HIDE DEF raw
  <1>3. sum \in Int /\ sum \in HeaterIntegral
    BY <1>2 DEF Lambda!Clamp, HeaterIntegral, Lambda!HeaterGains
  <1> HIDE DEF sum
  <1>4. output \in Int
    BY <1>3
  <1> HIDE DEF output
  <1> QED
    BY <1>1, <1>3, <1>4 DEF HeaterSafe

LEMMA DutyClamped ==
    ASSUME NEW output \in Int
    PROVE  Lambda!Clamp(output, 0, Lambda!FULL_DUTY) \in HeaterDuty
  <1> DEFINE full == Lambda!FULL_DUTY
  <1>1. full \in Nat
    BY DEF Lambda!FULL_DUTY
  <1> HIDE DEF full
  <1>2. Lambda!Clamp(output, 0, full) \in 0..full
    BY <1>1 DEF Lambda!Clamp
  <1> QED
    BY <1>2, Zenon DEF HeaterDuty, full

LEMMA PumpClamped ==
    ASSUME NEW ip \in Int
    PROVE  Lambda!Clamp(Lambda!ip_to_lambda(ip), 650, 2000) \in LambdaRange
  <1> DEFINE lambda == Lambda!ip_to_lambda(ip)
  <1>1. lambda \in 700..1700
    BY PumpLambdaWithin
  <1> HIDE DEF lambda
  <1>2. Lambda!Clamp(lambda, 650, 2000) \in LambdaRange
    BY <1>1 DEF Lambda!Clamp, LambdaRange
  <1> QED
    BY <1>2 DEF lambda

\* Only a sensor that is ready again shows another lambda.
SensorDemand(s, after) == after.lambda # s.lambda => after.ready \/ after = Lambda!NewSensor

LEMMA SensorProcess ==
    ASSUME Lambda!LambdaAssumption, NEW s \in SensorRecord, NEW ip \in Int, NEW mv \in Int
    PROVE  /\ Lambda!process(s, ip, mv) \in SensorRecord
           /\ SensorDemand(s, Lambda!process(s, ip, mv))
  <1> DEFINE err == Lambda!NERNST_TARGET - mv
             pid == Lambda!PidStep(Lambda!HeaterGains, s.integral, s.prev_err, err)
             integral == pid.integral
             duty == Lambda!Clamp(pid.output, 0, Lambda!FULL_DUTY)
             ready == Lambda!converged(mv)
             shown == Lambda!Clamp(Lambda!ip_to_lambda(ip), 650, 2000)
             lambda == IF ready THEN shown ELSE s.lambda
             errors == Lambda!errors_after(s, mv)
             heated == [s EXCEPT !.integral = integral, !.prev_err = err, !.duty = duty]
             after == [heated EXCEPT !.ready = ready, !.lambda = lambda, !.errors = errors]
  <1>1. /\ s.integral \in HeaterIntegral /\ s.prev_err \in Int /\ s.duty \in HeaterDuty
        /\ s.lambda \in LambdaRange /\ s.errors \in 0..ERROR_MAX
    BY Zenon DEF SensorRecord
  <1>2. err \in Int
    BY DEF Lambda!NERNST_TARGET
  <1> HIDE DEF err
  <1>3. integral \in HeaterIntegral /\ duty \in HeaterDuty
    <2>1. HeaterSafe(pid)
      BY <1>1, <1>2, HeaterSettles, Zenon
    <2> HIDE DEF pid
    <2> QED
      BY <2>1, DutyClamped, Zenon DEF HeaterSafe
  <1>4. ready \in BOOLEAN
    BY DEF Lambda!converged
  <1>5. shown \in LambdaRange
    BY PumpClamped
  <1>6. errors \in 0..ERROR_MAX
    <2> DEFINE count == s.errors
    <2>1. count \in 0..ERROR_MAX
      BY <1>1
    <2>2. errors = IF ready THEN Lambda!Larger(count - 1, 0)
                   ELSE IF mv < Lambda!DEAD_BELOW THEN Lambda!Lesser(count + 1, ERROR_MAX)
                   ELSE count
      BY Zenon DEF Lambda!errors_after
    <2> HIDE DEF count, errors, ready
    <2> QED
      BY <2>1, <2>2 DEF Lambda!Larger, Lambda!Lesser, Lambda!LambdaAssumption
  <1>7. Lambda!heater_update(s, mv) = heated
    BY Zenon DEF Lambda!heater_update, err
  <1> HIDE DEF integral, duty
  <1>8. heated \in SensorRecord
    BY <1>1, <1>2, <1>3, Zenon DEF SensorRecord
  <1>9. heated.lambda = s.lambda
    BY DEF SensorRecord
  <1>10. Lambda!process(s, ip, mv) =
           [heated EXCEPT !.ready = ready, !.lambda = IF ready THEN shown ELSE heated.lambda,
                          !.errors = errors]
    <2> HIDE DEF heated
    <2> QED
      BY <1>7 DEF Lambda!process
  <1> HIDE DEF heated, ready, shown, errors
  <1>11. Lambda!process(s, ip, mv) = after
    BY <1>9, <1>10, Zenon
  <1>12. lambda \in LambdaRange
    BY <1>1, <1>4, <1>5, Zenon
  <1>13. ~ready => lambda = s.lambda
    BY Zenon
  <1> HIDE DEF lambda
  <1>14. after \in SensorRecord
    BY <1>4, <1>6, <1>8, <1>12, Zenon DEF SensorRecord
  <1>15. after.ready = ready /\ after.lambda = lambda
    BY <1>8 DEF SensorRecord
  <1> HIDE DEF after
  <1> QED
    BY <1>11, <1>13, <1>14, <1>15, Zenon DEF SensorDemand

LEMMA SensorReset ==
    ASSUME Lambda!LambdaAssumption
    PROVE  Lambda!NewSensor \in SensorRecord
  <1> DEFINE integral == 500000
             lambda == 1000
             full == Lambda!FULL_DUTY
             limit == Lambda!HeaterGains.integral_limit
  <1>a. integral \in Nat /\ full \in Nat /\ limit \in Nat /\ integral <= full /\ integral <= limit
    BY DEF Lambda!FULL_DUTY, Lambda!HeaterGains
  <1>b. lambda \in LambdaRange /\ 0 \in Int /\ 0 \in 0..ERROR_MAX
    BY DEF LambdaRange, Lambda!LambdaAssumption
  <1>2. Lambda!NewSensor =
          [ integral |-> integral, prev_err |-> 0, duty |-> integral, lambda |-> lambda,
            ready |-> FALSE, errors |-> 0 ]
    BY DEF Lambda!NewSensor
  <1> HIDE DEF integral, lambda, full, limit
  <1>c. integral \in 0..full /\ integral \in -limit..limit
    BY <1>a
  <1>d. integral \in HeaterDuty
    BY <1>c, Zenon DEF HeaterDuty, full
  <1>e. integral \in HeaterIntegral
    BY <1>c, Zenon DEF HeaterIntegral, limit
  <1> QED
    BY <1>b, <1>d, <1>e, <1>2, Zenon DEF SensorRecord

----------------------------------------------------------------------------
(* The knock classifier.                                                   *)

\* What the classifier keeps: no weights of a blob that was not whole.
ClassifierSafe(s) == s \in Knock!ClassifierType /\ s.weights # "broken"

LEMMA ClassifyKeeps ==
    ASSUME Knock!ClassifierAssumption, NEW s, ClassifierSafe(s), NEW p \in 0..100
    PROVE  ClassifierSafe(Knock!classify(s, p))
  <1> DEFINE count == s.knocks
             Count == 0..(KNOCKS_MOD - 1)
             next == IF p >= THRESHOLD_PROB THEN (count + 1) % KNOCKS_MOD ELSE count
  <1>1. s \in [weights : Knock!WeightNames, last : 0..100, knocks : Count] /\ s.weights # "broken"
    BY Zenon DEF ClassifierSafe, Knock!ClassifierType
  <1>2. count \in 0..(KNOCKS_MOD - 1)
    BY <1>1, Zenon
  <1>3. Knock!classify(s, p) = [s EXCEPT !.last = p, !.knocks = next]
    BY Zenon DEF Knock!classify
  <1> HIDE DEF count
  <1>4. next \in Count
    BY <1>2 DEF Knock!ClassifierAssumption
  <1> HIDE DEF next, Count
  <1>5. [s EXCEPT !.last = p, !.knocks = next] \in [weights : Knock!WeightNames, last : 0..100, knocks : Count]
    BY <1>1, <1>4, Zenon
  <1>6. [s EXCEPT !.last = p, !.knocks = next].weights = s.weights
    BY <1>1
  <1> QED
    BY <1>1, <1>3, <1>5, <1>6, Zenon DEF ClassifierSafe, Knock!ClassifierType, Count

LEMMA LoadKeeps ==
    ASSUME NEW s, ClassifierSafe(s), NEW blob \in Blobs
    PROVE  ClassifierSafe(Knock!load_weights_blob(s, blob))
  <1>1. CASE blob.bytes < 12 \/ blob.dims # Knock!Dimensions
             \/ blob.bytes < Knock!BlobBytes(Knock!Dimensions)
    BY <1>1, Zenon DEF Knock!load_weights_blob
  <1>2. CASE ~(blob.bytes < 12 \/ blob.dims # Knock!Dimensions
               \/ blob.bytes < Knock!BlobBytes(Knock!Dimensions))
    <2>1. Knock!load_weights_blob(s, blob) = [s EXCEPT !.weights = blob.name]
      BY <1>2, Zenon DEF Knock!load_weights_blob
    <2>2. blob.name = "whole"
      <3> HIDE DEF WHOLE_BLOB
      <3>1. blob.name = IF blob.bytes < WHOLE_BLOB \/ blob.dims # Knock!Dimensions
                        THEN "broken" ELSE "whole"
        BY DEF Blobs
      <3> QED
        BY <1>2, <3>1, Zenon DEF WHOLE_BLOB
    <2>3. s \in Knock!ClassifierType
      BY Zenon DEF ClassifierSafe
    <2>4. "whole" \in Knock!WeightNames /\ "whole" # "broken"
      BY DEF Knock!WeightNames
    <2>5. [s EXCEPT !.weights = "whole"] \in Knock!ClassifierType
      BY <2>3, <2>4, Zenon DEF Knock!ClassifierType
    <2>6. [s EXCEPT !.weights = "whole"].weights = "whole"
      BY <2>3 DEF Knock!ClassifierType
    <2> QED
      BY <2>1, <2>2, <2>4, <2>5, <2>6, Zenon DEF ClassifierSafe
  <1> QED
    BY <1>1, <1>2
LEMMA ClassifierReset ==
    ASSUME Knock!ClassifierAssumption PROVE ClassifierSafe(Knock!NewClassifier)
  <1>1. 0 \in 0..(KNOCKS_MOD - 1) /\ 0 \in 0..100 /\ "default" \in Knock!WeightNames
        /\ "default" # "broken"
    BY DEF Knock!ClassifierAssumption, Knock!WeightNames
  <1> DEFINE Count == 0..(KNOCKS_MOD - 1)
  <1>2. 0 \in Count
    BY <1>1
  <1> HIDE DEF Count
  <1>3. Knock!NewClassifier \in [weights : Knock!WeightNames, last : 0..100, knocks : Count]
    BY <1>1, <1>2, Zenon DEF Knock!NewClassifier
  <1>4. Knock!NewClassifier.weights = "default"
    BY DEF Knock!NewClassifier
  <1> QED
    BY <1>1, <1>3, <1>4, Zenon DEF ClassifierSafe, Knock!ClassifierType, Count

\* The bands and harmonics of every frequency and bandwidth are in the spectrum.
LEMMA BandsSliceable ==
    ASSUME NEW centre \in 0..248, NEW bw \in 0..20, NEW band \in 0..7
    PROVE  /\ Knock!Sliceable(Knock!band_bins(centre, bw, band))
           /\ Knock!band_bins(centre, bw, band).low < Knock!band_bins(centre, bw, band).high
  <1> DEFINE start == Knock!window_start(centre, bw)
             end == Knock!window_end(centre, bw)
             width == Knock!sub_width(centre, bw)
             q == (end - start) \div 8
             low == start + band * width
             range == Knock!band_bins(centre, bw, band)
  <1>1. /\ start \in 0..248 /\ end \in 0..255 /\ start <= end
    BY DEF Knock!window_start, Knock!window_end, Knock!Larger, Knock!Lesser, Knock!BINS
  <1>2. width = IF q >= 1 THEN q ELSE 1
    BY DEF Knock!sub_width, Knock!Larger
  <1>3. range = [low |-> low, high |-> Knock!Lesser(low + width, Knock!BINS)]
    BY DEF Knock!band_bins
  <1> HIDE DEF start, end, width
  <1>4. q \in Nat /\ 8 * q <= end - start
    BY <1>1
  <1> HIDE DEF q
  <1>5. width \in Nat /\ width >= 1 /\ start + 7 * width <= 255
    BY <1>1, <1>2, <1>4
  <1>6. band * width \in Nat /\ band * width <= 7 * width
    BY <1>5
  <1>7. low \in 0..255
    BY <1>1, <1>5, <1>6
  <1> HIDE DEF low
  <1>8. range.low = low /\ range.high = IF low + width <= 256 THEN low + width ELSE 256
    BY <1>3 DEF Knock!Lesser, Knock!BINS
  <1> HIDE DEF range
  <1>9. range.low < range.high /\ range.low <= range.high /\ range.high <= 256
    BY <1>5, <1>7, <1>8
  <1> QED
    BY <1>9 DEF Knock!Sliceable, Knock!BINS, range

LEMMA HarmonicsSliceable ==
    ASSUME NEW centre \in 0..248, NEW bw \in 0..20, NEW order \in {2, 3}
    PROVE  Knock!Sliceable(Knock!harmonic_bins(centre, bw, order))
  <1> DEFINE at == order * centre
             range == Knock!harmonic_bins(centre, bw, order)
  <1>1. at \in Nat
    BY SMT
  <1>2. range = [ low |-> Knock!Lesser(Knock!Larger(at - bw, 0), Knock!BINS - 1),
                  high |-> Knock!Lesser(at + bw, Knock!BINS - 1) ]
    BY DEF Knock!harmonic_bins
  <1> HIDE DEF at
  <1>3. range.low <= range.high /\ range.high <= Knock!BINS
    BY <1>1, <1>2 DEF Knock!Lesser, Knock!Larger, Knock!BINS
  <1> QED
    BY <1>3 DEF Knock!Sliceable

LEMMA Windows == WindowsSliceable
  BY BandsSliceable, HarmonicsSliceable, Zenon DEF WindowsSliceable

----------------------------------------------------------------------------
(* Protection and the watchdog.                                            *)

LEMMA Severities ==
    ASSUME NEW action \in Guard!Actions PROVE Guard!severity(action) \in 0..7
  BY DEF Guard!severity, Guard!Actions

LEMMA Escalates ==
    ASSUME NEW current \in Guard!Actions, NEW new \in Guard!Actions
    PROVE  /\ Guard!escalate(current, new) \in {current, new}
           /\ Guard!severity(current) <= Guard!severity(Guard!escalate(current, new))
           /\ Guard!severity(new) <= Guard!severity(Guard!escalate(current, new))
  <1>1. Guard!severity(current) \in Int /\ Guard!severity(new) \in Int
    BY Severities
  <1> QED
    BY <1>1 DEF Guard!escalate

\* After the limits of S were looked at, the action is as severe as the worst
\* of those tripped, and no more severe.
Covers(v, action, S) ==
    /\ action \in Guard!Actions
    /\ \A limit \in S : Guard!trips(v, limit) =>
           Guard!severity(Limits[limit].action) <= Guard!severity(action)
    /\ \/ Guard!severity(action) = 0
       \/ \E limit \in S : Guard!trips(v, limit)
                           /\ Guard!severity(action) = Guard!severity(Limits[limit].action)

LEMMA CoversMore ==
    ASSUME Guard!ProtectionAssumption, NEW v, NEW action, NEW S \in SUBSET Guard!Limit, Covers(v, action, S),
           NEW limit \in Guard!Limit
    PROVE  Covers(v, Guard!escalate_for(v, action, limit), S \cup {limit})
  <1> DEFINE called == Limits[limit].action
             worse == Guard!escalate(action, called)
  <1>1. called \in Guard!Actions /\ action \in Guard!Actions
    BY DEF Guard!ProtectionAssumption, Covers
  <1>2. CASE ~Guard!trips(v, limit)
    BY <1>2, Zenon DEF Covers, Guard!escalate_for
  <1>3. CASE Guard!trips(v, limit)
    <2>1. Guard!escalate_for(v, action, limit) = worse
      BY <1>3, Zenon DEF Guard!escalate_for
    <2>2. /\ worse \in {action, called}
          /\ Guard!severity(action) <= Guard!severity(worse)
          /\ Guard!severity(called) <= Guard!severity(worse)
      BY <1>1, Escalates, Zenon
    <2> HIDE DEF worse
    <2>3. ASSUME NEW other \in S \cup {limit}, Guard!trips(v, other)
          PROVE  Guard!severity(Limits[other].action) <= Guard!severity(worse)
      <3>1. CASE other = limit
        BY <2>2, <3>1, Zenon
      <3>2. CASE other \in S
        <4>1. Guard!severity(Limits[other].action) <= Guard!severity(action)
          BY <2>3, <3>2, Zenon DEF Covers
        <4>2. CASE worse = action
          BY <4>1, <4>2
        <4>3. CASE worse = called
          <5> DEFINE a == Guard!severity(Limits[other].action)
                     b == Guard!severity(action)
                     c == Guard!severity(worse)
          <5>1. b \in Int /\ c \in Int /\ b <= c /\ a <= b
            BY <1>1, <2>2, <4>1, Severities
          <5>2. a \in Int
            BY <3>2, Severities DEF Guard!ProtectionAssumption
          <5> QED
            BY <5>1, <5>2
        <4> QED
          BY <2>2, <4>2, <4>3
      <3> QED
        BY <3>1, <3>2
    <2>4. \/ Guard!severity(worse) = 0
          \/ \E other \in S \cup {limit} : Guard!trips(v, other)
                /\ Guard!severity(worse) = Guard!severity(Limits[other].action)
      BY <1>3, <2>2, Zenon DEF Covers
    <2> QED
      BY <1>1, <2>1, <2>2, <2>3, <2>4, Zenon DEF Covers
  <1> QED
    BY <1>2, <1>3
LEMMA ActionSevereEnough ==
    ASSUME Guard!ProtectionAssumption, NEW v
    PROVE  Covers(v, Guard!evaluate(v).action, Guard!Limit)
  <1> DEFINE rpm     == Guard!escalate_for(v, "None", "rpm")
             map     == Guard!escalate_for(v, rpm, "map")
             oil     == Guard!escalate_for(v, map, "oil")
             coolant == Guard!escalate_for(v, oil, "coolant")
             afr     == Guard!escalate_for(v, coolant, "afr")
             egt     == Guard!escalate_for(v, afr, "egt")
             S1 == {} \cup {"rpm"}
             S2 == S1 \cup {"map"}
             S3 == S2 \cup {"oil"}
             S4 == S3 \cup {"coolant"}
             S5 == S4 \cup {"afr"}
             S6 == S5 \cup {"egt"}
  <1>1. S6 = Guard!Limit /\ S5 \subseteq Guard!Limit
    BY DEF Guard!Limit
  <1>2. /\ S1 \in SUBSET Guard!Limit /\ S2 \in SUBSET Guard!Limit /\ S3 \in SUBSET Guard!Limit
        /\ S4 \in SUBSET Guard!Limit /\ S5 \in SUBSET Guard!Limit /\ {} \in SUBSET Guard!Limit
    BY <1>1
  <1>3. /\ "rpm" \in Guard!Limit /\ "map" \in Guard!Limit /\ "oil" \in Guard!Limit
        /\ "coolant" \in Guard!Limit /\ "afr" \in Guard!Limit /\ "egt" \in Guard!Limit
    BY DEF Guard!Limit
  <1>4. Covers(v, "None", {})
    BY DEF Covers, Guard!Actions, Guard!severity
  <1>5. Guard!evaluate(v).action = egt
    BY DEF Guard!evaluate
  <1>6. Covers(v, rpm, S1)
    BY <1>2, <1>3, <1>4, CoversMore, Zenon
  <1> HIDE DEF rpm, S1
  <1>7. Covers(v, map, S2)
    BY <1>2, <1>3, <1>6, CoversMore, Zenon
  <1> HIDE DEF map, S2
  <1>8. Covers(v, oil, S3)
    BY <1>2, <1>3, <1>7, CoversMore, Zenon
  <1> HIDE DEF oil, S3
  <1>9. Covers(v, coolant, S4)
    BY <1>2, <1>3, <1>8, CoversMore, Zenon
  <1> HIDE DEF coolant, S4
  <1>10. Covers(v, afr, S5)
    BY <1>2, <1>3, <1>9, CoversMore, Zenon
  <1> HIDE DEF afr, S5
  <1>11. Covers(v, egt, S6)
    BY <1>2, <1>3, <1>10, CoversMore, Zenon
  <1> HIDE DEF egt, S6
  <1> QED
    BY <1>1, <1>5, <1>11, Zenon

\* What a limit is exceeded by, once it trips.
LEMMA OverTripped ==
    ASSUME Guard!ProtectionAssumption, NEW v, v \in [Guard!Limit -> Int],
           NEW limit \in {"coolant", "afr", "egt"}
    PROVE  /\ Guard!over(v, limit) \in Int
           /\ Guard!trips(v, limit) => Guard!over(v, limit) > 0
  <1>1. limit \in Guard!Limit /\ limit # "oil"
    BY DEF Guard!Limit
  <1>2. v[limit] \in Int /\ Limits[limit].level \in Nat
    BY <1>1 DEF Guard!ProtectionAssumption
  <1>3. Guard!over(v, limit) \in Int
    BY <1>2 DEF Guard!over
  <1>4. Guard!trips(v, limit) => Guard!over(v, limit) > 0
    BY <1>1, Zenon DEF Guard!trips
  <1> QED
    BY <1>3, <1>4

LEMMA EnrichWithin ==
    ASSUME Guard!ProtectionAssumption, NEW v, v \in [Guard!Limit -> Int]
    PROVE  Guard!enrich(v) \in 1000..1400
  <1> DEFINE c == Guard!over(v, "coolant")
             a == Guard!over(v, "afr")
             e == Guard!over(v, "egt")
             tc == Guard!trips(v, "coolant")
             ta == Guard!trips(v, "afr")
             te == Guard!trips(v, "egt")
             coolant == IF tc THEN Guard!Lesser(1000 + 50 * c, 1300) ELSE 1000
             lean == IF ta THEN Guard!Lesser(coolant + 10 * a, 1300) ELSE coolant
             hot == IF te THEN Guard!Lesser(lean + 3 * e, 1400) ELSE lean
  <1>1. /\ c \in Int /\ a \in Int /\ e \in Int
        /\ (tc => c > 0) /\ (ta => a > 0) /\ (te => e > 0)
    BY OverTripped, Zenon
  <1>2. Guard!enrich(v) = hot
    BY DEF Guard!enrich
  <1> HIDE DEF c, a, e, tc, ta, te
  <1>3. coolant \in 1000..1300
    BY <1>1 DEF Guard!Lesser
  <1> HIDE DEF coolant
  <1>4. lean \in 1000..1300
    BY <1>1, <1>3 DEF Guard!Lesser
  <1> HIDE DEF lean
  <1>5. hot \in 1000..1400
    BY <1>1, <1>4 DEF Guard!Lesser
  <1> QED
    BY <1>2, <1>5

LEMMA Severe ==
    ASSUME Guard!ProtectionAssumption, NEW v, v \in [Guard!Limit -> Int]
    PROVE  SevereEnough(v)
  <1> DEFINE outcome == Guard!evaluate(v)
             action == outcome.action
             wanted == {Guard!severity(Limits[limit].action) : limit \in outcome.tripped}
  <1>1. outcome.tripped = {limit \in Guard!Limit : Guard!trips(v, limit)}
        /\ outcome.enrich = Guard!enrich(v)
    BY DEF Guard!evaluate
  <1>2. Covers(v, action, Guard!Limit)
    BY ActionSevereEnough
  <1> HIDE DEF outcome, action
  <1>3. \A w \in wanted : w <= Guard!severity(action)
    BY <1>1, <1>2, Zenon DEF Covers
  <1>4. Guard!severity(action) \in wanted \cup {0}
    BY <1>1, <1>2, Zenon DEF Covers
  <1>5. outcome.enrich \in 1000..1400
    BY <1>1, EnrichWithin
  <1> QED
    BY <1>3, <1>4, <1>5 DEF SevereEnough, outcome, action

Tasks == [1..3 -> [deadline : Nat, kick : Nat]]

LEMMA TaskConfigured ==
    ASSUME NEW w \in Tasks, NEW task \in 1..3, NEW deadline \in Nat
    PROVE  Guard!configure_task(w, task, deadline) \in Tasks
  BY DEF Tasks, Guard!configure_task

LEMMA TaskKicked ==
    ASSUME NEW w \in Tasks, NEW task \in 1..3, NEW now \in Nat
    PROVE  Guard!kick(w, task, now) \in Tasks
  BY DEF Tasks, Guard!kick

\* A kick takes back the lateness of the task it is for.
LEMMA KickedInTime ==
    ASSUME NEW w \in Tasks, NEW late, NEW now \in Nat
    PROVE  late \notin Guard!overdue(Guard!kick(w, late, now), now)
  <1> DEFINE after == Guard!kick(w, late, now)
  <1>1. DOMAIN after = 1..3
    BY DEF Tasks, Guard!kick
  <1>2. CASE late \in 1..3
    <2>1. w[late] \in [deadline : Nat, kick : Nat]
      BY <1>2 DEF Tasks
    <2>2. after[late] = [w[late] EXCEPT !.kick = now]
      BY <1>2 DEF Tasks, Guard!kick
    <2>3. after[late].kick = now /\ after[late].deadline \in Nat
      BY <2>1, <2>2
    <2> HIDE DEF after
    <2>4. Guard!elapsed(after, late, now) = 0
      BY <2>3 DEF Guard!elapsed
    <2> QED
      BY <2>3, <2>4 DEF Guard!overdue, after
  <1> QED
    BY <1>1, <1>2 DEF Guard!overdue
----------------------------------------------------------------------------
(* Actuator bounds and tables.                                             *)

Dwells == 500..10000

LEMMA DwellsBounded ==
    ASSUME NEW us \in Nat PROVE Calib!BoundDwell(us) \in Dwells
  BY DEF Calib!BoundDwell, Calib!Clamp, Calib!DWELL_LOW, Calib!DWELL_HIGH, Dwells

LEMMA DwellBoundsInOrder ==
    ASSUME NEW low \in Dwells, NEW high \in Dwells
    PROVE  /\ Calib!order_bounds(low, high).min \in Dwells
           /\ Calib!order_bounds(low, high).max \in Dwells
           /\ Calib!order_bounds(low, high).min < Calib!order_bounds(low, high).max
  <1> DEFINE min == Calib!Lesser(low, high)
             max == Calib!Larger(low, high)
             raised == Calib!BoundDwell(min + 100)
             bounds == Calib!order_bounds(low, high)
             floor == Calib!Larger(raised - 100, 500)
  <1>1. min \in Dwells /\ max \in Dwells /\ min <= max
    BY SMTT(30) DEF Calib!Lesser, Calib!Larger, Dwells
  <1>2. bounds = IF max - min >= 100 THEN [min |-> min, max |-> max]
                 ELSE IF raised > min THEN [min |-> min, max |-> raised]
                 ELSE [min |-> floor, max |-> raised]
    BY DEF Calib!order_bounds, Calib!DWELL_GAP, Calib!DWELL_LOW
  <1> HIDE DEF min, max
  <1>3. raised = IF min + 100 > 10000 THEN 10000 ELSE min + 100
    BY <1>1 DEF Calib!BoundDwell, Calib!Clamp, Calib!DWELL_LOW, Calib!DWELL_HIGH, Dwells
  <1> HIDE DEF raised
  <1>4. floor = IF raised - 100 >= 500 THEN raised - 100 ELSE 500
    BY <1>1, <1>3 DEF Calib!Larger, Dwells
  <1> HIDE DEF floor
  <1>8. min \in Int /\ max \in Int /\ 500 <= min /\ min <= max /\ max <= 10000
    BY <1>1 DEF Dwells
  <1>9. raised \in Int /\ 600 <= raised /\ raised <= 10000
    BY <1>3, <1>8
  <1>10. floor \in Int /\ 500 <= floor /\ floor <= 10000
    BY <1>4, <1>9
  <1>11. floor < raised
    BY <1>4, <1>9
  <1>5. CASE max - min >= 100
    <2>1. bounds.min = min /\ bounds.max = max
      BY <1>2, <1>5
    <2> HIDE DEF bounds
    <2>2. bounds.min \in Dwells /\ bounds.max \in Dwells /\ bounds.min < bounds.max
      <3>1. min < max
        BY <1>5, <1>8
      <3> QED
        BY <1>1, <2>1, <3>1, Zenon
    <2> QED
      BY <2>2, Zenon DEF bounds
  <1>6. CASE ~(max - min >= 100) /\ raised > min
    <2>1. bounds.min = min /\ bounds.max = raised
      BY <1>2, <1>6
    <2> HIDE DEF bounds
    <2>2. bounds.min \in Dwells /\ bounds.max \in Dwells /\ bounds.min < bounds.max
      <3>1. min < raised
        BY <1>6, <1>8, <1>9
      <3>2. raised \in Dwells
        BY <1>9 DEF Dwells
      <3> QED
        BY <1>1, <2>1, <3>1, <3>2, Zenon
    <2> QED
      BY <2>2, Zenon DEF bounds
  <1>7. CASE ~(max - min >= 100) /\ ~(raised > min)
    <2>1. bounds.min = floor /\ bounds.max = raised
      BY <1>2, <1>7
    <2> HIDE DEF bounds
    <2>2. bounds.min \in Dwells /\ bounds.max \in Dwells /\ bounds.min < bounds.max
      <3>1. raised \in Dwells
        BY <1>9 DEF Dwells
      <3>2. floor \in Dwells
        BY <1>10 DEF Dwells
      <3> QED
        BY <1>11, <2>1, <3>1, <3>2, Zenon
    <2> QED
      BY <2>2, Zenon DEF bounds
  <1> QED
    BY <1>2, <1>5, <1>6, <1>7, Zenon

\* Any page 0: its numbers are whatever bytes are there.
ActuatorPage(page) ==
    page.valid =>
        page.cylinders \in Nat /\ page.fixed \in Nat /\ page.min \in Nat /\ page.max \in Nat

\* What DwellBounded says of the settings themselves.
BoundsOfConfig(config) ==
    /\ config.min \in Dwells /\ config.max \in Dwells
    /\ config.fixed \in config.min..config.max
    /\ config.min < config.max
    /\ config.cylinders \in 1..16

LEMMA ActuatorsParsed ==
    ASSUME NEW page, ActuatorPage(page)
    PROVE  BoundsOfConfig(Calib!parse_page0_actuator_config(page))
  <1>1. CASE ~page.valid
    BY <1>1 DEF Calib!parse_page0_actuator_config, Calib!DefaultActuator, BoundsOfConfig, Dwells
  <1>2. CASE page.valid
    <2> DEFINE low == Calib!BoundDwell(page.min)
               high == Calib!BoundDwell(page.max)
               given == Calib!BoundDwell(page.fixed)
               bounds == Calib!order_bounds(low, high)
               min == bounds.min
               max == bounds.max
               fixed == Calib!Clamp(given, min, max)
               cylinders == IF page.cylinders = 0 THEN 4 ELSE Calib!Lesser(page.cylinders, 16)
               config == Calib!parse_page0_actuator_config(page)
    <2>1. low \in Dwells /\ high \in Dwells /\ given \in Dwells
      BY <1>2, DwellsBounded DEF ActuatorPage
    <2>2. cylinders \in 1..16
      BY <1>2 DEF ActuatorPage, Calib!Lesser
    <2>3. config.min = min /\ config.max = max /\ config.fixed = fixed /\ config.cylinders = cylinders
      BY <1>2 DEF Calib!parse_page0_actuator_config
    <2> HIDE DEF low, high, given, cylinders, config
    <2>4. min \in Dwells /\ max \in Dwells /\ min < max
      BY <2>1, DwellBoundsInOrder, Zenon
    <2> HIDE DEF min, max
    <2>5. fixed \in min..max
      BY <2>1, <2>4, SMTT(30) DEF Calib!Clamp, Dwells
    <2> HIDE DEF fixed
    <2> QED
      BY <2>2, <2>3, <2>4, <2>5, Zenon DEF BoundsOfConfig, config
  <1> QED
    BY <1>1, <1>2

LEMMA DwellApplied ==
    ASSUME NEW config, BoundsOfConfig(config), NEW scale \in {65, 100, 170}, NEW coolant \in Int
    PROVE  Calib!DwellBounded(config, Calib!dwell_for_conditions(config, scale, coolant))
  <1> DEFINE min == config.min
             max == config.max
             fixed == config.fixed
             bias == IF coolant < 40 THEN 10 * Calib!Lesser(40 - coolant, 40) ELSE 0
             requested == (fixed * scale) \div 100 + bias
             bounded == Calib!BoundDwell(Calib!Clamp(requested, min, max))
  <1>1. /\ min \in Dwells /\ max \in Dwells /\ fixed \in min..max /\ min < max
        /\ config.cylinders \in 1..16
    BY Zenon DEF BoundsOfConfig
  <1>2. Calib!dwell_for_conditions(config, scale, coolant).bounded = bounded
    BY DEF Calib!dwell_for_conditions
  <1> HIDE DEF min, max, fixed
  <1>3. bias \in Int
    BY DEF Calib!Lesser
  <1> HIDE DEF bias
  <1>4. fixed * scale \in Int
    BY <1>1 DEF Dwells
  <1>5. requested \in Int
    BY <1>3, <1>4
  <1> HIDE DEF requested
  <1>6. bounded \in min..max
    BY <1>1, <1>5 DEF Calib!BoundDwell, Calib!Clamp, Calib!DWELL_LOW, Calib!DWELL_HIGH, Dwells
  <1> HIDE DEF bounded
  <1>7. min <= fixed /\ fixed <= max
    BY <1>1 DEF Dwells
  <1> QED
    BY <1>1, <1>2, <1>6, <1>7 DEF Calib!DwellBounded, min, max, fixed

\* The cells of a table in rows of c have places of their own.
LEMMA PlacesInTable ==
    ASSUME NEW c \in Nat \ {0}, NEW r \in Nat \ {0}, NEW x \in 0..(c - 1), NEW y \in 0..(r - 1)
    PROVE  y * c + x + 1 \in 1..(c * r)
  <1>1. y * c \in Nat /\ (r - 1 - y) * c \in Nat
    BY SMT
  <1>2. (r - 1 - y) * c = r * c - c - y * c
    BY SMT
  <1> DEFINE a == y * c
             b == r * c
  <1>3. a \in Nat /\ b \in Int /\ a <= b - c /\ b = c * r
    BY <1>1, <1>2, SMT
  <1> HIDE DEF a, b
  <1>4. a + x + 1 \in 1..b
    BY <1>3
  <1> QED
    BY <1>3, <1>4 DEF a

LEMMA PlacesDistinct ==
    ASSUME NEW c \in Nat \ {0}, NEW x \in 0..(c - 1), NEW u \in 0..(c - 1),
           NEW y \in Nat, NEW w \in Nat, y * c + x + 1 = w * c + u + 1
    PROVE  x = u /\ y = w
  <1>1. ~(y < w)
    <2> SUFFICES ASSUME y < w PROVE FALSE
      OBVIOUS
    <2>1. (w - y - 1) * c \in Nat
      BY SMT
    <2>2. (w - y - 1) * c = w * c - y * c - c
      BY SMT
    <2> DEFINE a == y * c
               b == w * c
    <2>3. a \in Nat /\ b \in Nat /\ a + c <= b
      BY <2>1, <2>2, SMT
    <2>4. a + x + 1 = b + u + 1
      OBVIOUS
    <2> HIDE DEF a, b
    <2> QED
      BY <2>3, <2>4
  <1>2. ~(w < y)
    <2> SUFFICES ASSUME w < y PROVE FALSE
      OBVIOUS
    <2>1. (y - w - 1) * c \in Nat
      BY SMT
    <2>2. (y - w - 1) * c = y * c - w * c - c
      BY SMT
    <2> DEFINE a == y * c
               b == w * c
    <2>3. a \in Nat /\ b \in Nat /\ b + c <= a
      BY <2>1, <2>2, SMT
    <2>4. a + x + 1 = b + u + 1
      OBVIOUS
    <2> HIDE DEF a, b
    <2> QED
      BY <2>3, <2>4
  <1>3. y = w
    BY <1>1, <1>2
  <1>4. w * c \in Nat
    OBVIOUS
  <1> QED
    BY <1>3, <1>4
\* The table numbers a host asks for, one of no table among them.
HostIds == TableIds \cup {99}

FrameRecord ==
    [ id : HostIds, columns : Nat, rows : Nat,
      x_bins : Seq(Nat), y_bins : Seq(Nat), cells : Seq(Nat) ]

\* Every table has the shape the directory gives it.
TablesSafe(tables) ==
    /\ tables \in [TableIds -> FrameRecord]
    /\ \A id \in TableIds :
           /\ tables[id].columns = Columns[id] /\ tables[id].rows = Rows[id]
           /\ Len(tables[id].cells) = Columns[id] * Rows[id]

LEMMA ZeroSequences ==
    ASSUME NEW n \in Nat
    PROVE  Calib!Zeros(n) \in Seq(Nat) /\ Len(Calib!Zeros(n)) = n
  BY DEF Calib!Zeros

LEMMA FrameTyped ==
    ASSUME NEW id \in HostIds, NEW c \in Nat, NEW r \in Nat,
           NEW x \in Nat, NEW y \in Nat, NEW k \in Nat
    PROVE  Calib!Frame(id, c, r, Calib!Zeros(x), Calib!Zeros(y), Calib!Zeros(k)) \in FrameRecord
  BY ZeroSequences, Zenon DEF Calib!Frame, FrameRecord

LEMMA TablesDefault ==
    ASSUME Calib!TablesAssumption PROVE TablesSafe(Calib!default_table_frames)
  <1> DEFINE tables == Calib!default_table_frames
  <1>1. ASSUME NEW id \in TableIds
        PROVE  /\ tables[id] \in FrameRecord
               /\ tables[id].columns = Columns[id] /\ tables[id].rows = Rows[id]
               /\ Len(tables[id].cells) = Columns[id] * Rows[id]
    <2> DEFINE c == Columns[id]
               r == Rows[id]
               k == c * r
    <2>1. c \in Nat /\ r \in Nat /\ k \in Nat
      BY DEF Calib!TablesAssumption
    <2>2. tables[id] = Calib!Frame(id, c, r, Calib!Zeros(c), Calib!Zeros(r), Calib!Zeros(k))
      BY Zenon DEF Calib!default_table_frames
    <2>a. id \in HostIds
      BY DEF HostIds
    <2> HIDE DEF tables, c, r, k
    <2>3. tables[id] \in FrameRecord
      BY <2>1, <2>2, <2>a, FrameTyped, Zenon
    <2>4. tables[id].columns = c /\ tables[id].rows = r /\ tables[id].cells = Calib!Zeros(k)
      BY <2>2 DEF Calib!Frame
    <2>5. Len(tables[id].cells) = k
      BY <2>1, <2>4, ZeroSequences
    <2> QED
      BY <2>3, <2>4, <2>5 DEF c, r, k
  <1>2. tables = [id \in TableIds |-> tables[id]]
    BY DEF Calib!default_table_frames
  <1> HIDE DEF tables
  <1>3. tables \in [TableIds -> FrameRecord]
    BY <1>1, <1>2
  <1> QED
    BY <1>1, <1>3 DEF TablesSafe, tables

LEMMA FrameWritten ==
    ASSUME NEW tables, TablesSafe(tables), NEW frame \in TableFrames
    PROVE  TablesSafe(Calib!write_table_frame(tables, frame))
  <1>1. frame \in FrameRecord
    <2>1. PICK id \in HostIds, c \in {2, 3}, r \in {2, 3}, x \in {2, 3},
               y \in {2, 3}, k \in {4, 6, 9} :
            frame = Calib!Frame(id, c, r, Calib!Zeros(x), Calib!Zeros(y), Calib!Zeros(k))
      BY DEF TableFrames, HostIds
    <2>2. c \in Nat /\ r \in Nat /\ x \in Nat /\ y \in Nat /\ k \in Nat
      OBVIOUS
    <2>3. Calib!Frame(id, c, r, Calib!Zeros(x), Calib!Zeros(y), Calib!Zeros(k)) \in FrameRecord
      BY <2>2, FrameTyped, Zenon
    <2> QED
      BY <2>1, <2>3
  <1> DEFINE id == frame.id
             accepted == id \in TableIds /\ Calib!SameShape(tables[id], frame)
             after == [tables EXCEPT ![id] = frame]
  <1>2. Calib!write_table_frame(tables, frame) = IF accepted THEN after ELSE tables
    BY Zenon DEF Calib!write_table_frame
  <1>3. CASE accepted
    <2>1. /\ id \in TableIds /\ frame.columns = tables[id].columns /\ frame.rows = tables[id].rows
          /\ Len(frame.cells) = Len(tables[id].cells)
      BY <1>3, Zenon DEF Calib!SameShape
    <2>2. after \in [TableIds -> FrameRecord]
      BY <1>1, Zenon DEF TablesSafe
    <2>3. ASSUME NEW other \in TableIds
          PROVE  /\ after[other].columns = Columns[other] /\ after[other].rows = Rows[other]
                 /\ Len(after[other].cells) = Columns[other] * Rows[other]
      <3>1. CASE other = id
        <4>1. after[other] = frame
          BY <3>1, Zenon DEF TablesSafe
        <4> QED
          BY <2>1, <3>1, <4>1, Zenon DEF TablesSafe
      <3>2. CASE other # id
        <4>1. after[other] = tables[other]
          BY <3>2, Zenon DEF TablesSafe
        <4> QED
          BY <4>1, Zenon DEF TablesSafe
      <3> QED
        BY <3>1, <3>2
    <2> QED
      BY <1>2, <1>3, <2>2, <2>3, Zenon DEF TablesSafe
  <1>4. CASE ~accepted
    BY <1>2, <1>4, Zenon
  <1> QED
    BY <1>3, <1>4

\* A cell the guard of WriteCell lets through is one of the list.
LEMMA CellInside ==
    ASSUME Calib!TablesAssumption, NEW tables, TablesSafe(tables), NEW id \in TableIds,
           NEW x \in 0..(Columns[id] - 1), NEW y \in 0..(Rows[id] - 1)
    PROVE  Calib!Offset(tables[id], x, y) \in 1..(Columns[id] * Rows[id])
  <1> DEFINE c == Columns[id]
             r == Rows[id]
  <1>1. c \in Nat \ {0} /\ r \in Nat \ {0} /\ x \in 0..(c - 1) /\ y \in 0..(r - 1)
    BY DEF Calib!TablesAssumption
  <1>2. Calib!Offset(tables[id], x, y) = y * c + x + 1
    BY DEF Calib!Offset, TablesSafe
  <1> HIDE DEF c, r
  <1>3. y * c + x + 1 \in 1..(c * r)
    BY <1>1, PlacesInTable
  <1> QED
    BY <1>2, <1>3, Zenon DEF c, r

LEMMA CellWritten ==
    ASSUME Calib!TablesAssumption, NEW tables, TablesSafe(tables),
           NEW id \in HostIds, NEW x \in Nat, NEW y \in Nat, NEW value \in Nat
    PROVE  TablesSafe(Calib!WriteCell(tables, id, x, y, value))
  <1> DEFINE accepted == id \in TableIds /\ x < tables[id].columns /\ y < tables[id].rows
             place == Calib!Offset(tables[id], x, y)
             cells == [tables[id].cells EXCEPT ![place] = value]
             table == [tables[id] EXCEPT !.cells = cells]
             after == [tables EXCEPT ![id] = table]
  <1>1. Calib!WriteCell(tables, id, x, y, value) =
          IF accepted THEN [tables EXCEPT ![id].cells[place] = value] ELSE tables
    BY Zenon DEF Calib!WriteCell
  <1>2. CASE accepted
    <2>1. /\ id \in TableIds /\ tables[id] \in FrameRecord
          /\ tables[id].columns = Columns[id] /\ tables[id].rows = Rows[id]
          /\ Len(tables[id].cells) = Columns[id] * Rows[id]
      BY <1>2, Zenon DEF TablesSafe
    <2>2. Calib!WriteCell(tables, id, x, y, value) = after
      BY <1>1, <1>2, Zenon
    <2>3. tables[id].cells \in Seq(Nat)
      BY <2>1, Zenon DEF FrameRecord
    <2>4. cells \in Seq(Nat) /\ Len(cells) = Len(tables[id].cells)
      <3> DEFINE before == tables[id].cells
      <3>1. before \in Seq(Nat)
        BY <2>3
      <3> HIDE DEF place, before
      <3> DEFINE n == Len(before)
                 Places == 1..n
                 changed == [before EXCEPT ![place] = value]
      <3>2. n \in Nat /\ before \in [1..n -> Nat]
        BY <3>1
      <3>3. before \in [Places -> Nat]
        BY <3>2
      <3> HIDE DEF n, Places
      <3>4. changed \in [Places -> Nat]
        BY <3>3, Zenon
      <3> HIDE DEF changed
      <3>5. changed \in Seq(Nat) /\ Len(changed) = n
        BY <3>2, <3>4 DEF Places
      <3> QED
        BY <3>5, Zenon DEF before, changed, n
    <2> HIDE DEF cells
    <2>5. table \in FrameRecord
      BY <2>1, <2>4, Zenon DEF FrameRecord
    <2>6. /\ table.columns = Columns[id] /\ table.rows = Rows[id]
          /\ Len(table.cells) = Columns[id] * Rows[id]
      BY <2>1, <2>4 DEF FrameRecord
    <2> HIDE DEF table
    <2>7. after \in [TableIds -> FrameRecord]
      BY <2>5, Zenon DEF TablesSafe
    <2>8. ASSUME NEW other \in TableIds
          PROVE  /\ after[other].columns = Columns[other] /\ after[other].rows = Rows[other]
                 /\ Len(after[other].cells) = Columns[other] * Rows[other]
      <3>1. CASE other = id
        <4>1. after[other] = table
          BY <3>1, Zenon DEF TablesSafe
        <4> QED
          BY <2>6, <3>1, <4>1, Zenon
      <3>2. CASE other # id
        <4>1. after[other] = tables[other]
          BY <3>2, Zenon DEF TablesSafe
        <4> QED
          BY <4>1, Zenon DEF TablesSafe
      <3> QED
        BY <3>1, <3>2
    <2> QED
      BY <2>2, <2>7, <2>8, Zenon DEF TablesSafe
  <1>3. CASE ~accepted
    BY <1>1, <1>3, Zenon
  <1> QED
    BY <1>2, <1>3

LEMMA TablesInPlace ==
    ASSUME Calib!TablesAssumption, NEW tables, TablesSafe(tables)
    PROVE  Calib!CellsInPlace(tables)
  <1> SUFFICES ASSUME NEW id \in TableIds
               PROVE  LET t == tables[id]
                          places == (0..(t.columns - 1)) \X (0..(t.rows - 1))
                      IN  /\ \A p \in places : Calib!Offset(t, p[1], p[2]) \in DOMAIN t.cells
                          /\ \A p, q \in places :
                                 Calib!Offset(t, p[1], p[2]) = Calib!Offset(t, q[1], q[2]) => p = q
    BY Zenon DEF Calib!CellsInPlace
  <1> DEFINE t == tables[id]
             c == Columns[id]
             r == Rows[id]
             places == (0..(t.columns - 1)) \X (0..(t.rows - 1))
  <1>1. /\ t.columns = c /\ t.rows = r /\ Len(t.cells) = c * r /\ t \in FrameRecord
        /\ c \in Nat \ {0} /\ r \in Nat \ {0}
    BY DEF TablesSafe, Calib!TablesAssumption
  <1>2. DOMAIN t.cells = 1..(c * r)
    <2>1. t.cells \in Seq(Nat)
      BY <1>1, Zenon DEF FrameRecord
    <2> QED
      BY <1>1, <2>1
  <1>3. ASSUME NEW p \in places
        PROVE  /\ p[1] \in 0..(c - 1) /\ p[2] \in 0..(r - 1) /\ p = <<p[1], p[2]>>
               /\ Calib!Offset(t, p[1], p[2]) \in 1..(c * r)
               /\ Calib!Offset(t, p[1], p[2]) = p[2] * c + p[1] + 1
    <2>1. p[1] \in 0..(c - 1) /\ p[2] \in 0..(r - 1) /\ p = <<p[1], p[2]>>
      BY <1>1
    <2>2. Calib!Offset(t, p[1], p[2]) \in 1..(c * r)
      BY <2>1, CellInside, Zenon
    <2>3. Calib!Offset(t, p[1], p[2]) = p[2] * c + p[1] + 1
      BY <1>1, Zenon DEF Calib!Offset
    <2> QED
      BY <2>1, <2>2, <2>3
  <1>4. ASSUME NEW p \in places, NEW q \in places,
               Calib!Offset(t, p[1], p[2]) = Calib!Offset(t, q[1], q[2])
        PROVE  p = q
    <2> DEFINE x == p[1]
               y == p[2]
               u == q[1]
               w == q[2]
    <2>1. /\ x \in 0..(c - 1) /\ y \in Nat /\ p = <<x, y>>
          /\ u \in 0..(c - 1) /\ w \in Nat /\ q = <<u, w>>
      BY <1>1, <1>3
    <2>2. y * c + x + 1 = w * c + u + 1
      BY <1>3, <1>4, Zenon
    <2> HIDE DEF x, y, u, w, c
    <2>a. c \in Nat \ {0}
      BY <1>1
    <2>3. x = u /\ y = w
      BY <2>a, <2>1, <2>2, PlacesDistinct, SMTT(30)
    <2> QED
      BY <2>1, <2>3
  <1> QED
    BY <1>2, <1>3, <1>4, Zenon
----------------------------------------------------------------------------
(* The trigger wheel of page 0.                                            *)

WheelPage(page) ==
    /\ page.cylinders \in Nat /\ page.teeth \in Nat /\ page.missing \in Nat /\ page.type \in Nat
    /\ page.cam \in BOOLEAN /\ page.secondary \in BOOLEAN

\* A decoder of the catalogue, with teeth its mode can have.
Selected(w) ==
    /\ w.key \in Trig!PresetKeys
    /\ w.mode \in {"missing_tooth", "dual_wheel", "distributor", "catalog"}
    /\ w.mode = "missing_tooth" => w.teeth \in 4..512 /\ w.events \in 1..(w.teeth - 1)
    /\ w.mode = "distributor" => w.teeth \in {4, 6, 8}
    /\ w.mode = "dual_wheel" => w.teeth \in 4..96 /\ w.events \in {1, 2}

LEMMA MissingToothSelected ==
    ASSUME NEW page, WheelPage(page) PROVE Selected(Trig!MissingTooth(page))
  <1> DEFINE teeth == page.teeth
             missing == page.missing
             total == Trig!sanitize_total(teeth)
             events == Trig!sanitize_missing(teeth, missing)
             w == Trig!MissingTooth(page)
  <1>1. teeth \in Nat /\ missing \in Nat
    BY DEF WheelPage
  <1>2. w.mode = "missing_tooth" /\ w.teeth = total /\ w.events = events
        /\ w.key \in {"generic_36_1", "generic_60_2"}
    BY DEF Trig!MissingTooth
  <1> HIDE DEF teeth, missing, w
  <1>3. total \in 4..512
    BY <1>1 DEF Trig!sanitize_total, Trig!Clamp
  <1>4. events = IF missing = 0 THEN 2 ELSE Trig!Clamp(missing, 1, total - 1)
    BY DEF Trig!sanitize_missing
  <1> HIDE DEF total, events
  <1>5. events \in 1..(total - 1)
    BY <1>1, <1>3, <1>4 DEF Trig!Clamp
  <1>6. w.key \in Trig!PresetKeys
    BY <1>2 DEF Trig!PresetKeys, Trig!UniversalDecoders
  <1> QED
    BY <1>2, <1>3, <1>5, <1>6 DEF Selected, w

LEMMA DualWheelSelected ==
    ASSUME NEW page, WheelPage(page), NEW events \in {1, 2}
    PROVE  Selected(Trig!DualWheel(page, events))
  <1> DEFINE teeth == page.teeth
             total == Trig!Clamp(teeth, 4, 96)
             w == Trig!DualWheel(page, events)
  <1>1. teeth \in Nat
    BY DEF WheelPage
  <1>2. w.mode = "dual_wheel" /\ w.teeth = total /\ w.events = events /\ w.key = "dual_wheel"
    BY DEF Trig!DualWheel
  <1> HIDE DEF teeth, w
  <1>3. total \in 4..96
    BY <1>1 DEF Trig!Clamp
  <1> HIDE DEF total
  <1>4. w.key \in Trig!PresetKeys
    BY <1>2 DEF Trig!PresetKeys, Trig!UniversalDecoders
  <1> QED
    BY <1>2, <1>3, <1>4 DEF Selected, w

LEMMA DistributorSelected ==
    ASSUME NEW page, WheelPage(page) PROVE Selected(Trig!Distributor(page))
  <1> DEFINE cylinders == Trig!normalize_distributor_cylinders(page.cylinders)
             w == Trig!Distributor(page)
  <1>1. cylinders \in {4, 6, 8}
    BY DEF Trig!normalize_distributor_cylinders
  <1>2. w.mode = "distributor" /\ w.teeth = cylinders
        /\ w.key \in {"distributor_basic_4", "distributor_basic_6", "distributor_basic_8"}
    BY DEF Trig!Distributor
  <1> HIDE DEF cylinders, w
  <1>3. w.key \in Trig!PresetKeys
    BY <1>2 DEF Trig!PresetKeys, Trig!UniversalDecoders
  <1> QED
    BY <1>1, <1>2, <1>3 DEF Selected, w

LEMMA CatalogSelected ==
    ASSUME NEW type \in DOMAIN Trig!CatalogTypes
    PROVE  Selected(Trig!CatalogDefault(Trig!CatalogTypes[type]))
  <1> DEFINE key == Trig!CatalogTypes[type]
             w == Trig!CatalogDefault(key)
  <1>1. key \in Trig!PresetKeys
    BY DEF Trig!CatalogTypes, Trig!PresetKeys, Trig!OemDecoders, Trig!MoreOemDecoders
  <1>2. w.mode = "catalog" /\ w.key = key
    BY DEF Trig!CatalogDefault
  <1> HIDE DEF key, w
  <1>3. w.mode # "missing_tooth" /\ w.mode # "distributor" /\ w.mode # "dual_wheel"
        /\ w.mode \in {"missing_tooth", "dual_wheel", "distributor", "catalog"}
    BY <1>2
  <1>4. Selected(w)
    BY <1>1, <1>2, <1>3, Zenon DEF Selected
  <1> QED
    BY <1>4, Zenon DEF w, key

LEMMA DecoderSelected ==
    ASSUME NEW page, WheelPage(page) PROVE Selected(Trig!select_decoder(page))
  <1> DEFINE second == IF page.secondary THEN 2 ELSE 1
             w == Trig!select_decoder(page)
             options == { Trig!DualWheel(page, 1), Trig!DualWheel(page, second),
                          Trig!Distributor(page), Trig!MissingTooth(page) }
  <1>1. second \in {1, 2} /\ 1 \in {1, 2}
    BY DEF WheelPage
  <1>2. CASE page.type \in DOMAIN Trig!CatalogTypes
    <2>1. page.type < 10
      BY <1>2 DEF Trig!CatalogTypes
    <2>2. w = Trig!CatalogDefault(Trig!CatalogTypes[page.type])
      BY <1>2, <2>1 DEF Trig!select_decoder
    <2> QED
      BY <1>2, <2>2, CatalogSelected
  <1>3. CASE page.type \notin DOMAIN Trig!CatalogTypes
    <2>1. w \in options
      BY <1>3 DEF Trig!select_decoder
    <2>2. \A o \in options : Selected(o)
      BY <1>1, DualWheelSelected, DistributorSelected, MissingToothSelected, Zenon
    <2> QED
      BY <2>1, <2>2, Zenon
  <1> QED
    BY <1>2, <1>3
\* The profile of a wheel, as far as the tooth log depends on it.
Profile(p) ==
    /\ p.cycle = 720 /\ p.primary \in Nat /\ p.secondary \in 0..2 /\ p.reference \in Nat
    /\ p.gap \in Nat /\ (p.gap = 0 \/ p.gap >= 145)

LEMMA PresetFound ==
    ASSUME NEW key \in Trig!PresetKeys
    PROVE  Trig!find_preset(key).cycle = 720
  BY DEF Trig!find_preset, Trig!Presets, Trig!Preset

LEMMA NominalEvents ==
    ASSUME NEW key PROVE Trig!oem_nominal_events(key) \in Nat
  BY DEF Trig!oem_nominal_events

LEMMA ProfileOfPage ==
    ASSUME NEW page, WheelPage(page) PROVE Profile(Trig!runtime_profile(page))
  <1> DEFINE w == Trig!select_decoder(page)
             key == w.key
             teeth == w.teeth
             events == w.events
             preset == Trig!find_preset(key)
             phase == IF Trig!Phased(page) THEN 1 ELSE 0
             phases == IF preset.secondary \/ Trig!Phased(page) THEN 2 ELSE 0
             home == IF preset.home THEN 145 ELSE 0
             visible == Trig!visible_events(w)
             p == Trig!runtime_profile(page)
  <1>1. Selected(w)
    BY DecoderSelected
  <1>2. phase \in {0, 1} /\ phases \in {0, 2} /\ home \in {0, 145}
    OBVIOUS
  <1>3. CASE w.mode = "missing_tooth"
    <2>1. /\ p.cycle = 720 /\ p.primary = visible /\ p.secondary = phase
          /\ p.gap = 100 * (events + 1) /\ p.reference = visible \div 2
      BY <1>3 DEF Trig!runtime_profile
    <2>2. visible = 2 * (teeth - events)
      BY DEF Trig!visible_events
    <2>3. teeth \in 4..512 /\ events \in 1..(teeth - 1)
      BY <1>1, <1>3 DEF Selected
    <2> HIDE DEF p, visible, teeth, events, phase
    <2>4. visible \in Nat
      BY <2>2, <2>3
    <2>5. p.primary \in Nat /\ p.secondary \in 0..2 /\ p.gap \in Nat /\ p.gap >= 145
          /\ p.reference \in Nat
      BY <1>2, <2>1, <2>3, <2>4
    <2> QED
      BY <2>1, <2>5 DEF Profile, p
  <1>4. CASE w.mode = "distributor"
    <2>1. /\ p.cycle = 720 /\ p.primary = teeth /\ p.secondary = phase
          /\ p.gap = 0 /\ p.reference = 0
      BY <1>4 DEF Trig!runtime_profile
    <2>2. teeth \in {4, 6, 8}
      BY <1>1, <1>4 DEF Selected
    <2> HIDE DEF p, teeth, phase
    <2>3. p.primary \in Nat /\ p.secondary \in 0..2 /\ p.gap \in Nat /\ p.reference \in Nat
      BY <1>2, <2>1, <2>2
    <2> QED
      BY <2>1, <2>3 DEF Profile, p
  <1>5. CASE w.mode = "dual_wheel"
    <2>1. /\ p.cycle = 720 /\ p.primary = 2 * teeth /\ p.secondary = phase * events
          /\ p.gap = 0 /\ p.reference = teeth \div 2
      BY <1>5 DEF Trig!runtime_profile
    <2>2. teeth \in 4..96 /\ events \in {1, 2}
      BY <1>1, <1>5 DEF Selected
    <2> HIDE DEF p, teeth, events, phase
    <2>3. p.primary \in Nat /\ p.secondary \in 0..2 /\ p.gap \in Nat /\ p.reference \in Nat
      BY <1>2, <2>1, <2>2
    <2> QED
      BY <2>1, <2>3 DEF Profile, p
  <1>6. CASE w.mode = "catalog"
    <2>1. /\ p.cycle = preset.cycle /\ p.primary = Trig!oem_nominal_events(key)
          /\ p.secondary = phases /\ p.gap = home /\ p.reference = 0
      BY <1>6 DEF Trig!runtime_profile
    <2>2. preset.cycle = 720 /\ Trig!oem_nominal_events(key) \in Nat
      BY <1>1, PresetFound, NominalEvents DEF Selected
    <2> HIDE DEF p, phases, home, key, preset
    <2>3. p.primary \in Nat /\ p.secondary \in 0..2 /\ p.gap \in Nat /\ p.reference \in Nat
          /\ (p.gap = 0 \/ p.gap >= 145)
      BY <1>2, <2>1, <2>2
    <2> QED
      BY <2>1, <2>2, <2>3 DEF Profile, p
  <1> HIDE DEF w
  <1> QED
    BY <1>1, <1>3, <1>4, <1>5, <1>6 DEF Selected

LEMMA EventsCounted ==
    ASSUME NEW p, Profile(p)
    PROVE  Trig!event_count(p) \in 6..96 /\ Trig!gap_index(p) \in 0..(Trig!event_count(p) - 1)
  <1> DEFINE primary == p.primary
             count == Trig!event_count(p)
  <1>1. primary \in Nat
    BY DEF Profile
  <1>2. count = Trig!Clamp(IF primary < 4 THEN 4 ELSE primary, 6, 96)
    BY DEF Trig!event_count, Trig!MIN_EVENTS, Trig!MAX_EVENTS
  <1> HIDE DEF primary, count
  <1>3. count \in 6..96
    BY <1>1, <1>2 DEF Trig!Clamp
  <1>4. count \div 2 \in 0..(count - 1)
    BY <1>3
  <1> QED
    BY <1>3, <1>4, Zenon DEF Trig!gap_index, count

LEMMA ReferenceInside ==
    ASSUME NEW p, Profile(p)
    PROVE  Trig!reference_event_index(p) \in 0..(Trig!event_count(p) - 1)
  <1> DEFINE count == Trig!event_count(p)
             reference == p.reference
             clamped == Trig!Clamp(reference, 0, count - 1)
  <1>1. count \in 6..96 /\ reference \in Nat /\ Trig!gap_index(p) \in 0..(count - 1)
    BY EventsCounted DEF Profile
  <1>2. Trig!reference_event_index(p) = IF p.gap > 0 THEN Trig!gap_index(p) ELSE clamped
    BY DEF Trig!reference_event_index
  <1> HIDE DEF count, reference
  <1>3. clamped \in 0..(count - 1)
    BY <1>1 DEF Trig!Clamp
  <1> HIDE DEF clamped
  <1> QED
    BY <1>1, <1>2, <1>3, Zenon DEF count

LEMMA SecondariesInside ==
    ASSUME NEW p, Profile(p)
    PROVE  /\ Trig!secondary_event_indexes(p) \subseteq 0..(Trig!event_count(p) - 1)
           /\ Cardinality(Trig!secondary_event_indexes(p)) = Trig!secondary_slots(p)
  <1> DEFINE count == Trig!event_count(p)
             slots == Trig!secondary_slots(p)
             indexes == Trig!secondary_event_indexes(p)
  <1>1. count \in 6..96 /\ slots \in 0..2
    <2> DEFINE n == p.secondary
    <2>1. n \in 0..2
      BY DEF Profile
    <2>2. slots = Trig!Clamp(n, 0, 8)
      BY DEF Trig!secondary_slots, Trig!MAX_SECONDARY
    <2> HIDE DEF n, slots
    <2> QED
      BY <2>1, <2>2, EventsCounted DEF Trig!Clamp
  <1>2. indexes = {(slot * count) \div (slots + 1) : slot \in 1..slots}
    BY DEF Trig!secondary_event_indexes
  <1> HIDE DEF count, slots, indexes
  <1>3. CASE slots = 0
    <2>1. indexes = {}
      BY <1>2, <1>3
    <2> QED
      BY <1>3, <2>1, FS_EmptySet DEF count, slots, indexes
  <1>4. CASE slots = 1
    <2>1. indexes = {count \div 2}
      BY <1>1, <1>2, <1>4
    <2>2. count \div 2 \in 0..(count - 1)
      BY <1>1
    <2>3. indexes \subseteq 0..(count - 1)
      BY <2>1, <2>2
    <2>4. Cardinality(indexes) = slots
      BY <1>4, <2>1, FS_Singleton
    <2> QED
      BY <2>3, <2>4 DEF count, slots, indexes
  <1>5. CASE slots = 2
    <2> DEFINE a == count \div 3
               b == (2 * count) \div 3
    <2>1. indexes = {a, b}
      <3>1. 1..slots = {1, 2} /\ slots + 1 = 3
        BY <1>5
      <3>2. 1 * count = count
        BY <1>1
      <3> QED
        BY <1>2, <3>1, <3>2
    <2>2. a \in 0..(count - 1) /\ b \in 0..(count - 1) /\ a # b
      BY <1>1
    <2> HIDE DEF a, b
    <2>3. indexes \subseteq 0..(count - 1)
      BY <2>1, <2>2
    <2>4. Cardinality(indexes) = 2
      <3>1. IsFiniteSet({a}) /\ Cardinality({a}) = 1
        BY FS_Singleton
      <3>2. Cardinality({a} \cup {b}) = 2
        BY <2>2, <3>1, FS_AddElement
      <3>3. indexes = {a} \cup {b}
        BY <2>1
      <3> QED
        BY <3>2, <3>3
    <2> QED
      BY <1>5, <2>3, <2>4 DEF count, slots, indexes
  <1> QED
    BY <1>1, <1>3, <1>4, <1>5
\* Any interval of the log is close to an even share of the cycle.
LEMMA JitterBounded ==
    ASSUME NEW base \in Nat, base >= 1000, NEW n \in Nat, NEW index \in Nat
    PROVE  /\ Trig!jittered(base, n, index) \in Nat
           /\ 40 * Trig!jittered(base, n, index) >= 37 * base
           /\ 40 * Trig!jittered(base, n, index) <= 43 * base
  <1> DEFINE step == IF base \div 40 < 1 THEN 1 ELSE base \div 40
             k == ((n + index) % 7) - 3
  <1>1. step \in Nat /\ 40 * step <= base
    BY SMT
  <1>2. k \in -3..3
    BY SMT
  <1>3. Trig!jittered(base, n, index) = base + k * step
    BY DEF Trig!jittered
  <1> HIDE DEF step, k
  <1>4. k * step \in Int /\ k * step <= 3 * step /\ k * step >= -(3 * step)
    <2>1. k \in {-3, -2, -1, 0, 1, 2, 3}
      BY <1>2
    <2> QED
      BY <1>1, <2>1
  <1> DEFINE d == k * step
  <1>5. d \in Int /\ d <= 3 * step /\ d >= -(3 * step)
    BY <1>4
  <1> HIDE DEF d
  <1>6. base + d \in Nat /\ 40 * (base + d) >= 37 * base /\ 40 * (base + d) <= 43 * base
    BY <1>1, <1>5
  <1> QED
    BY <1>3, <1>6 DEF d

LEMMA GapLonger ==
    ASSUME NEW plain \in Nat, NEW other \in Nat, NEW base \in Nat, base >= 1000,
           40 * plain >= 37 * base, 40 * other <= 43 * base, NEW gap \in Nat, gap >= 145
    PROVE  /\ (plain * gap + 50) \div 100 > other
           /\ (plain * gap + 50) \div 100 > 0
  <1> DEFINE m == plain * gap
  <1>1. m \in Nat /\ m >= plain * 145
    BY SMT
  <1> HIDE DEF m
  <1> DEFINE q == (m + 50) \div 100
  <1>2. q \in Int /\ m + 50 < 100 * q + 100
    BY <1>1
  <1> HIDE DEF q
  <1>3. q > other /\ q > 0
    BY <1>1, <1>2
  <1> QED
    BY <1>3 DEF m, q

LEMMA ShareOfCycle ==
    ASSUME NEW sample \in {0, 5}, NEW count \in 6..96
    PROVE  /\ Trig!capture_window_us(720, Trig!trigger_rpm(sample)) \div count \in Nat
           /\ Trig!capture_window_us(720, Trig!trigger_rpm(sample)) \div count >= 1000
  <1> DEFINE window == Trig!capture_window_us(720, Trig!trigger_rpm(sample))
  <1>1. window \in Nat /\ window >= 96000
    BY DEF Trig!capture_window_us, Trig!trigger_rpm
  <1> HIDE DEF window
  <1>2. window \div count \in Nat /\ window \div count >= 1000
    <2> DEFINE q == window \div count
    <2>1. q \in Int /\ window < count * q + count
      BY <1>1, Quotient
    <2> HIDE DEF q
    <2>2. ~(q <= 999)
      <3>1. ASSUME q <= 999 PROVE count * q <= 96 * 999 \/ q < 0
        BY <2>1, <3>1, SMT
      <3>2. ASSUME q < 0 PROVE count * q <= 0
        BY <2>1, <3>2, SMT
      <3> DEFINE cq == count * q
      <3>3. cq \in Int /\ window < cq + count /\ (q <= 999 => cq <= 96 * 999 \/ cq <= 0)
        BY <2>1, <3>1, <3>2
      <3> HIDE DEF cq
      <3> QED
        BY <1>1, <3>3
    <2> QED
      BY <2>1, <2>2 DEF q
  <1> QED
    BY <1>2 DEF window

\* The reference tooth of a wheel with a gap is the longest of its log.
LEMMA IntervalsOrdered ==
    ASSUME NEW p, Profile(p), NEW sample \in {0, 5}, NEW i \in 0..(Trig!event_count(p) - 1)
    PROVE  /\ Trig!tooth_intervals(p, sample)[i] > 0
           /\ p.gap > 0 /\ i # Trig!reference_event_index(p) =>
                  Trig!tooth_intervals(p, sample)[i] <
                      Trig!tooth_intervals(p, sample)[Trig!reference_event_index(p)]
  <1> DEFINE count == Trig!event_count(p)
             base == Trig!capture_window_us(p.cycle, Trig!trigger_rpm(sample)) \div count
             at(k) == Trig!jittered(base, sample, k)
             longer(k) == (at(k) * p.gap + 50) \div 100
             interval == Trig!tooth_intervals(p, sample)
             home == Trig!reference_event_index(p)
             gap == p.gap
  <1>1. count \in 6..96 /\ Trig!gap_index(p) \in 0..(count - 1) /\ home \in 0..(count - 1)
    BY EventsCounted, ReferenceInside, Zenon
  <1>2. p.cycle = 720 /\ gap \in Nat /\ (gap = 0 \/ gap >= 145)
    BY DEF Profile
  <1>3. base \in Nat /\ base >= 1000
    BY <1>1, <1>2, ShareOfCycle
  <1>4. \A k \in 0..(count - 1) :
            interval[k] = IF gap > 0 /\ k = Trig!gap_index(p) THEN longer(k) ELSE at(k)
    BY Zenon DEF Trig!tooth_intervals, Trig!is_gap
  <1>5. gap > 0 => home = Trig!gap_index(p)
    BY Zenon DEF Trig!reference_event_index
  <1> HIDE DEF count, base, interval, home
  <1>6. \A k \in 0..(count - 1) : at(k) \in Nat /\ 40 * at(k) >= 37 * base /\ 40 * at(k) <= 43 * base
    <2> TAKE k \in 0..(count - 1)
    <2>1. k \in Nat /\ sample \in Nat
      BY <1>1
    <2> QED
      BY <1>3, <2>1, JitterBounded, Zenon
  <1> HIDE DEF gap
  <1>7. ASSUME gap > 0
        PROVE  /\ interval[home] = longer(home)
               /\ longer(home) > 0
               /\ \A k \in 0..(count - 1) : longer(home) > at(k)
    <2>1. interval[home] = longer(home)
      BY <1>1, <1>4, <1>5, <1>7, Zenon
    <2>2. gap >= 145 /\ gap \in Nat
      BY <1>2, <1>7
    <2>3. at(home) \in Nat /\ 40 * at(home) >= 37 * base
      BY <1>1, <1>6, Zenon
    <2> DEFINE plain == at(home)
    <2>4. plain \in Nat /\ 40 * plain >= 37 * base
      BY <2>3
    <2>5. longer(home) = (plain * gap + 50) \div 100
      BY DEF gap
    <2> HIDE DEF plain, longer
    <2>6. ASSUME NEW k \in 0..(count - 1)
          PROVE  longer(home) > at(k) /\ longer(home) > 0
      <3> DEFINE other == at(k)
      <3>1. other \in Nat /\ 40 * other <= 43 * base
        BY <1>6
      <3> HIDE DEF other, at
      <3>2. (plain * gap + 50) \div 100 > other /\ (plain * gap + 50) \div 100 > 0
        BY <1>3, <2>2, <2>4, <3>1, GapLonger
      <3> QED
        BY <2>5, <3>2 DEF other
    <2>7. longer(home) > 0
      BY <1>1, <2>6, Zenon
    <2> QED
      BY <2>1, <2>6, <2>7
  <1>8. i \in 0..(count - 1)
    BY Zenon DEF count
  <1>9. at(i) > 0
    <2> DEFINE x == at(i)
    <2>1. x \in Nat /\ 40 * x >= 37 * base
      BY <1>6, <1>8
    <2> HIDE DEF x
    <2>2. x > 0
      BY <1>3, <2>1
    <2> QED
      BY <2>2 DEF x
  <1>10. CASE gap > 0 /\ i = home
    BY <1>7, <1>10, Zenon DEF interval, home, gap
  <1>11. CASE ~(gap > 0 /\ i = home)
    <2>1. interval[i] = at(i)
      BY <1>4, <1>5, <1>8, <1>11, Zenon
    <2>2. gap > 0 => interval[i] < interval[home]
      <3> SUFFICES ASSUME gap > 0 PROVE interval[i] < interval[home]
        OBVIOUS
      <3>1. interval[home] > interval[i]
        BY <1>7, <1>8, <2>1, Zenon
      <3> QED
        BY <3>1
    <2>3. interval[i] > 0
      BY <1>9, <2>1, Zenon
    <2> QED
      BY <2>2, <2>3, Zenon DEF interval, home, gap
  <1> QED
    BY <1>10, <1>11

LEMMA WheelConsistent ==
    ASSUME NEW page, WheelPage(page) PROVE WheelLogConsistent(page)
  <1> DEFINE p == Trig!runtime_profile(page)
  <1>1. Profile(p)
    BY ProfileOfPage
  <1>2. Trig!select_decoder(page).key \in Trig!PresetKeys
    BY DecoderSelected, Zenon DEF Selected
  <1> HIDE DEF p
  <1>3. Trig!reference_event_index(p) \in 0..(Trig!event_count(p) - 1)
    BY <1>1, ReferenceInside
  <1>4. /\ Trig!secondary_event_indexes(p) \subseteq 0..(Trig!event_count(p) - 1)
        /\ Cardinality(Trig!secondary_event_indexes(p)) = Trig!secondary_slots(p)
    BY <1>1, SecondariesInside
  <1>5. \A sample \in {0, 5} : \A i \in 0..(Trig!event_count(p) - 1) :
            /\ Trig!tooth_intervals(p, sample)[i] > 0
            /\ p.gap > 0 /\ i # Trig!reference_event_index(p) =>
                   Trig!tooth_intervals(p, sample)[i] <
                       Trig!tooth_intervals(p, sample)[Trig!reference_event_index(p)]
    BY <1>1, IntervalsOrdered, Zenon
  <1> QED
    BY <1>2, <1>3, <1>4, <1>5, Zenon DEF WheelLogConsistent, p
----------------------------------------------------------------------------
(* The tables of the engine.                                               *)

LEMMA EngineAxes ==
    /\ Axis(Ign!RpmAxis48, 48) /\ Axis(Ign!LoadAxis48, 48)
    /\ Axis(Inj!RpmAxis48, 48) /\ Axis(Inj!LoadAxis48, 48)
    /\ Axis(Inj!LtftRpmAxis, 16) /\ Axis(Inj!LtftLoadAxis, 16)
  <1>1. Axis(Ign!RpmAxis48, 48)
    BY DEF Axis, Ign!RpmAxis48, Ign!TABLE_SIZE
  <1>2. Axis(Ign!LoadAxis48, 48)
    BY DEF Axis, Ign!LoadAxis48, Ign!TABLE_SIZE
  <1>3. Axis(Inj!RpmAxis48, 48)
    BY DEF Axis, Inj!RpmAxis48, Inj!TABLE_SIZE
  <1>4. Axis(Inj!LoadAxis48, 48)
    BY DEF Axis, Inj!LoadAxis48, Inj!TABLE_SIZE
  <1>5. Axis(Inj!LtftRpmAxis, 16)
    BY DEF Axis, Inj!LtftRpmAxis, Inj!LTFT_SIZE
  <1>6. Axis(Inj!LtftLoadAxis, 16)
    BY DEF Axis, Inj!LtftLoadAxis, Inj!LTFT_SIZE, Inj!Lesser
  <1> QED
    BY <1>1, <1>2, <1>3, <1>4, <1>5, <1>6

\* A place between two breakpoints of an axis of n.
Fractions == 0..1000
Place(n) == [low : 1..n, high : 1..n, frac : Fractions]

LEMMA PlaceOnAxis ==
    ASSUME NEW axis, NEW n, Axis(axis, n), NEW x \in Int
    PROVE  Curve!axis_index(axis, x) \in Place(n)
  <1> DEFINE at == Curve!axis_index(axis, x)
  <1>1. /\ n \in Nat /\ 1 \in 1..n /\ n \in 1..n /\ Len(axis) = n
        /\ axis[1] \in Int /\ axis[n] \in Int /\ 0 \in Fractions
    BY DEF Axis, Fractions
  <1>2. CASE x <= axis[1]
    <2>1. at = [low |-> 1, high |-> 1, frac |-> 0]
      BY <1>2 DEF Curve!axis_index
    <2> HIDE DEF at
    <2>2. at \in Place(n)
      BY <1>1, <2>1 DEF Place
    <2> QED
      BY <2>2, Zenon DEF at
  <1>3. CASE ~(x <= axis[1]) /\ x >= axis[n]
    <2>1. at = [low |-> n, high |-> n, frac |-> 0]
      BY <1>1, <1>3 DEF Curve!axis_index
    <2> HIDE DEF at
    <2>2. at \in Place(n)
      BY <1>1, <2>1 DEF Place
    <2> QED
      BY <2>2, Zenon DEF at
  <1>4. CASE ~(x <= axis[1]) /\ ~(x >= axis[n])
    <2> DEFINE i == CHOOSE k \in 1..(Len(axis) - 1) : axis[k] <= x /\ x < axis[k + 1]
    <2>0. axis[1] < x /\ x < axis[n]
      BY <1>1, <1>4
    <2>1. i \in 1..(n - 1) /\ axis[i] <= x /\ x < axis[i + 1]
      BY <1>1, <2>0, Bracketed, Zenon
    <2>2. at = [ low |-> i, high |-> i + 1,
                 frac |-> (1000 * (x - axis[i])) \div (axis[i + 1] - axis[i]) ]
      BY <1>1, <1>4 DEF Curve!axis_index
    <2> HIDE DEF i, at
    <2> DEFINE a == axis[i]
               b == axis[i + 1]
               d == b - a
               t == x - a
               q == (1000 * t) \div d
    <2>3. a \in Int /\ b \in Int
      BY <1>1, <2>1 DEF Axis
    <2>4. a <= x /\ x < b
      BY <2>1
    <2> HIDE DEF a, b
    <2>5. d \in Nat \ {0} /\ t \in 0..d
      BY <2>3, <2>4
    <2>6. at = [low |-> i, high |-> i + 1, frac |-> q]
      BY <2>2 DEF a, b
    <2> HIDE DEF d, t
    <2>7. q \in 0..1000
      BY <2>5, Fraction
    <2>8. i \in 1..n /\ i + 1 \in 1..n
      BY <1>1, <2>1
    <2> HIDE DEF q
    <2>9. q \in Fractions
      BY <2>7 DEF Fractions
    <2> DEFINE next == i + 1
    <2>10. next \in 1..n /\ at = [low |-> i, high |-> next, frac |-> q]
      BY <2>6, <2>8
    <2> HIDE DEF next
    <2>11. [low |-> i, high |-> next, frac |-> q] \in Place(n)
      <3>1. i \in 1..n
        BY <2>8
      <3>2. next \in 1..n
        BY <2>10
      <3> QED
        BY <2>9, <3>1, <3>2 DEF Place
    <2> QED
      BY <2>10, <2>11 DEF at
  <1> QED
    BY <1>2, <1>3, <1>4

LEMMA SameIndex ==
    ASSUME NEW axis, NEW x
    PROVE  /\ Ign!axis_index(axis, x) = Curve!axis_index(axis, x)
           /\ Inj!axis_index(axis, x) = Curve!axis_index(axis, x)
  <1>1. Ign!axis_index(axis, x) = Curve!axis_index(axis, x)
    BY DEF Ign!axis_index, Curve!axis_index
  <1>2. Inj!axis_index(axis, x) = Curve!axis_index(axis, x)
    BY DEF Inj!axis_index, Curve!axis_index
  <1> QED
    BY <1>1, <1>2

\* A value between two values of a range is in the range.
LEMMA BetweenWithin ==
    ASSUME NEW low \in Int, NEW high \in Int, NEW a \in low..high, NEW b \in low..high,
           NEW frac \in Fractions
    PROVE  Ign!Between(a, b, frac) \in low..high /\ Inj!Between(a, b, frac) \in low..high
  <1> DEFINE p == b - a
             q == (p * frac) \div 1000
  <1>1. p \in Int
    OBVIOUS
  <1>2. Ign!Between(a, b, frac) = a + q /\ Inj!Between(a, b, frac) = a + q
    BY DEF Ign!Between, Inj!Between
  <1>3. /\ q \in Int /\ (p >= 0 => q \in 0..p) /\ (p <= 0 => p <= q /\ q <= 0)
    <2> DEFINE d == 1000
    <2>1. d \in Nat \ {0} /\ frac \in 0..d
      BY DEF Fractions
    <2> HIDE DEF p
    <2>2. (p * frac) \div d \in Int /\ (p >= 0 => (p * frac) \div d \in 0..p)
          /\ (p <= 0 => p <= (p * frac) \div d /\ (p * frac) \div d <= 0)
      <3> HIDE DEF d
      <3> QED
        BY <1>1, <2>1, Fraction
    <2> QED
      BY <2>2
  <1> HIDE DEF q
  <1>4. a + q \in low..high
    BY <1>3
  <1> QED
    BY <1>2, <1>4
\* Every cell of the spark table, and what is looked up between them.
Sparks == 500..4000

LEMMA SparkCellWithin ==
    ASSUME NEW r \in 1..48, NEW l \in 1..48
    PROVE  Ign!IgnitionCell(r, l) \in Sparks
  <1> DEFINE nr == Ign!Norm(r)
             nl == Ign!Norm(l)
             squared == Ign!Squared(nr, 400)
             factor == 1000 - (5 * squared) \div 2
             cell == 1500 + (2 * (1000 - nl) * factor) \div 1000
  <1>1. nr \in Int /\ nl \in Int
    BY DEF Ign!Norm, Ign!TABLE_SIZE
  <1>2. Ign!IgnitionCell(r, l) = Ign!Clamp(cell, 500, 4000)
    BY DEF Ign!IgnitionCell
  <1> HIDE DEF nr, nl
  <1>3. squared \in Int
    BY <1>1 DEF Ign!Squared
  <1> HIDE DEF squared
  <1>4. factor \in Int
    BY <1>3
  <1> HIDE DEF factor
  <1>5. 2 * (1000 - nl) * factor \in Int
    BY <1>1, <1>4
  <1>6. cell \in Int
    BY <1>5
  <1> HIDE DEF cell
  <1> QED
    BY <1>2, <1>6 DEF Ign!Clamp, Sparks

\* The least and the greatest of four numbers.
LEMMA FourBounded ==
    ASSUME NEW a \in Int, NEW b \in Int, NEW c \in Int, NEW d \in Int
    PROVE  \E low, high \in {a, b, c, d} :
               a \in low..high /\ b \in low..high /\ c \in low..high /\ d \in low..high
  <1>1. \E low \in {a, b, c, d} : low <= a /\ low <= b /\ low <= c /\ low <= d
    OBVIOUS
  <1>2. \E high \in {a, b, c, d} : a <= high /\ b <= high /\ c <= high /\ d <= high
    OBVIOUS
  <1> QED
    BY <1>1, <1>2

\* What is looked up in the spark table lies among the four cells around it.
LEMMA SparkLookup ==
    ASSUME NEW rpm \in Int, NEW load \in Int
    PROVE  /\ Ign!ignition_interpolate(rpm, load) \in Int
           /\ Ign!LookupWithinCorners(Ign!IgnitionCell, Ign!ignition_interpolate(rpm, load),
                                      rpm, load)
  <1> DEFINE r == Ign!axis_index(Ign!RpmAxis48, rpm)
             l == Ign!axis_index(Ign!LoadAxis48, load)
             a == Ign!IgnitionCell(r.low, l.low)
             b == Ign!IgnitionCell(r.high, l.low)
             c == Ign!IgnitionCell(r.low, l.high)
             d == Ign!IgnitionCell(r.high, l.high)
             u == r.frac
             v == l.frac
             value == Ign!ignition_interpolate(rpm, load)
             around == {Ign!IgnitionCell(i, j) : i \in {r.low, r.high}, j \in {l.low, l.high}}
  <1>1. r \in Place(48) /\ l \in Place(48)
    BY EngineAxes, PlaceOnAxis, SameIndex, Zenon
  <1>2. value = Ign!Between(Ign!Between(a, b, u), Ign!Between(c, d, u), v)
    BY Zenon DEF Ign!ignition_interpolate, Ign!bilinear
  <1>3. a \in around /\ b \in around /\ c \in around /\ d \in around
    OBVIOUS
  <1>4. Ign!LookupWithinCorners(Ign!IgnitionCell, value, rpm, load)
            = ((\E x \in around : x <= value) /\ (\E x \in around : value <= x))
    <2> HIDE DEF value
    <2> QED
      BY DEF Ign!LookupWithinCorners, Ign!Corners
  <1> HIDE DEF r, l, around, value
  <1>5. /\ r.low \in 1..48 /\ r.high \in 1..48 /\ u \in Fractions
        /\ l.low \in 1..48 /\ l.high \in 1..48 /\ v \in Fractions
    BY <1>1 DEF Place
  <1>6. a \in Sparks /\ b \in Sparks /\ c \in Sparks /\ d \in Sparks
    BY <1>5, SparkCellWithin, Zenon
  <1> HIDE DEF a, b, c, d, u, v
  <1>7. a \in Int /\ b \in Int /\ c \in Int /\ d \in Int
    BY <1>6 DEF Sparks
  <1>8. PICK low \in {a, b, c, d}, high \in {a, b, c, d} :
            a \in low..high /\ b \in low..high /\ c \in low..high /\ d \in low..high
    BY <1>7, FourBounded
  <1>9. low \in Int /\ high \in Int /\ low \in around /\ high \in around
    BY <1>3, <1>7, <1>8
  <1>10. Ign!Between(a, b, u) \in low..high /\ Ign!Between(c, d, u) \in low..high
    BY <1>5, <1>8, <1>9, BetweenWithin, Zenon
  <1>11. value \in low..high
    BY <1>2, <1>5, <1>9, <1>10, BetweenWithin, Zenon
  <1>12. low <= value /\ value <= high /\ value \in Int
    BY <1>9, <1>11
  <1> QED
    BY <1>4, <1>9, <1>12, Zenon DEF value

----------------------------------------------------------------------------
(* Ignition.                                                               *)

SparkInput(in) ==
    /\ in.rpm \in Nat /\ in.load \in Nat /\ in.clt \in Int /\ in.iat \in Int
    /\ in.vbatt \in Int /\ in.knock \in Nat /\ in.idle \in Int /\ in.flat_shift \in BOOLEAN

Advances == 0..6000
Dwelling == {0} \cup 260..500
SparkRecord == [advance : Advances, dwell : Dwelling, retard : Nat, cranking : BOOLEAN]

LEMMA SparkState == ASSUME NEW s \in SparkRecord PROVE s \in Ign!IgnitionType
  BY DEF Ign!IgnitionType, SparkRecord, Advances, Dwelling

\* Corrections of temperature only take advance away.
LEMMA Colder ==
    ASSUME NEW clt \in Int, NEW iat \in Int
    PROVE  /\ Ign!ign_clt_correction(clt) \in Int /\ Ign!ign_clt_correction(clt) <= 0
           /\ Ign!ign_iat_correction(iat) \in Int /\ Ign!ign_iat_correction(iat) <= 0
  BY DEF Ign!ign_clt_correction, Ign!ign_iat_correction, Ign!Larger

LEMMA AdvanceWithin ==
    ASSUME NEW in, SparkInput(in)
    PROVE  /\ Ign!running_advance(in) \in Advances
           /\ Ign!running_advance(in) <=
                  Ign!Larger(Ign!ignition_interpolate(in.rpm, in.load) + in.idle - in.knock, 0)
  <1> DEFINE table == Ign!ignition_interpolate(in.rpm, in.load)
             clt == Ign!ign_clt_correction(in.clt)
             iat == Ign!ign_iat_correction(in.iat)
             knock == in.knock
             flat == IF in.flat_shift THEN Ign!FLAT_SHIFT_RETARD ELSE 0
             idle == in.idle
             sum == table + clt + iat - knock - flat + idle
             least == table + idle - knock
             advance == Ign!running_advance(in)
  <1>a. in.rpm \in Int /\ in.load \in Int
    BY DEF SparkInput
  <1>1. table \in Int
    BY <1>a, SparkLookup, Zenon
  <1>2. clt \in Int /\ clt <= 0 /\ iat \in Int /\ iat <= 0
    BY Colder DEF SparkInput
  <1>3. knock \in Nat /\ idle \in Int /\ flat \in Nat
    BY DEF SparkInput, Ign!FLAT_SHIFT_RETARD
  <1>4. advance = Ign!Clamp(sum, 0, 6000)
    BY DEF Ign!running_advance
  <1> HIDE DEF table, clt, iat, knock, flat, idle, advance
  <1>5. sum \in Int /\ least \in Int /\ sum <= least
    BY <1>1, <1>2, <1>3
  <1> HIDE DEF sum, least
  <1>6. advance \in Advances /\ advance <= Ign!Larger(least, 0)
    BY <1>4, <1>5 DEF Ign!Clamp, Ign!Larger, Advances
  <1> QED
    BY <1>6, Zenon DEF advance, least, table, idle, knock

LEMMA SparkCalculated ==
    ASSUME NEW s, NEW in, SparkInput(in)
    PROVE  /\ Ign!calculate(s, in) \in SparkRecord
           /\ Ign!SparkNeverLeadsTable(Ign!calculate(s, in), in)
  <1> DEFINE cranking == in.rpm < Ign!CRANKING_RPM
             running == Ign!running_advance(in)
             fixed == Ign!CRANKING_ADVANCE
             advance == IF cranking THEN fixed ELSE running
             dwell == Ign!dwell_lookup(in.vbatt)
             after == Ign!calculate(s, in)
  <1>1. after = [advance |-> advance, dwell |-> dwell, retard |-> in.knock, cranking |-> cranking]
    BY DEF Ign!calculate
  <1>2. cranking \in BOOLEAN /\ in.knock \in Nat
    BY DEF SparkInput
  <1>3. fixed \in Advances
    BY DEF Advances, Ign!CRANKING_ADVANCE
  <1>4. dwell \in Dwelling
    <2>1. dwell \in 260..500
      BY DwellWithin DEF SparkInput
    <2> QED
      BY <2>1 DEF Dwelling
  <1> DEFINE most == Ign!Larger(Ign!ignition_interpolate(in.rpm, in.load) + in.idle - in.knock, 0)
  <1>5. running \in Advances /\ running <= most
    BY AdvanceWithin
  <1> HIDE DEF cranking, running, fixed, dwell, after
  <1>6. advance \in Advances /\ (~cranking => advance = running)
    BY <1>2, <1>3, <1>5, Zenon
  <1> HIDE DEF advance, most
  <1>7. after \in SparkRecord
    BY <1>1, <1>2, <1>4, <1>6, Zenon DEF SparkRecord
  <1>8. after.cranking = cranking /\ after.advance = advance
    BY <1>1
  <1>9. Ign!LookupWithinCorners(Ign!IgnitionCell, Ign!ignition_interpolate(in.rpm, in.load),
                                in.rpm, in.load)
    <2>1. in.rpm \in Int /\ in.load \in Int
      BY DEF SparkInput
    <2> QED
      BY <2>1, SparkLookup, Zenon
  <1>10. ~after.cranking => after.advance <= most
    BY <1>5, <1>6, <1>8, Zenon
  <1> QED
    BY <1>7, <1>9, <1>10, Zenon DEF Ign!SparkNeverLeadsTable, after, most
----------------------------------------------------------------------------
(* Fuel.                                                                   *)

FuelInput(in) ==
    /\ in.rpm \in Nat /\ in.rpm <= 65535 /\ in.map \in Nat /\ in.tps \in Int /\ in.clt \in Int
    /\ in.lambda \in Int /\ in.iat \in Int /\ in.iat + 273 > 0 /\ in.baro \in Nat
    /\ in.flex \in Nat /\ in.vbatt \in Int /\ in.dt \in Nat

\* A square root between two bounds, rounded down.
LEMMA RootFound ==
    ASSUME NEW square \in Int
    PROVE  \E c \in 700..1300 : /\ c = 700 \/ c * c <= square
                                /\ c = 1300 \/ (c + 1) * (c + 1) > square
  <1> DEFINE Root(c) == /\ c = 700 \/ c * c <= square
                        /\ c = 1300 \/ (c + 1) * (c + 1) > square
             Found == \E c \in 700..1300 : Root(c)
             Below(c) == c = 700 \/ c * c <= square
             S == {n \in Nat : n <= 600 => Found \/ Below(n + 700)}
  <1>1. 0 \in S
    OBVIOUS
  <1>2. ASSUME NEW n \in Nat, n \in S PROVE n + 1 \in S
    <2> SUFFICES ASSUME n + 1 <= 600, ~Found PROVE Below(n + 1 + 700)
      BY <1>2
    <2> DEFINE c == n + 700
    <2>1. c \in 700..1300 /\ c # 1300 /\ n + 1 + 700 = c + 1
      OBVIOUS
    <2>2. Below(c)
      BY <1>2
    <2>3. ~Root(c)
      BY <2>1
    <2> HIDE DEF c, S
    <2>4. ~((c + 1) * (c + 1) > square)
      BY <2>1, <2>2, <2>3
    <2>5. (c + 1) * (c + 1) \in Int
      BY <2>1
    <2> DEFINE m == (c + 1) * (c + 1)
    <2>6. m \in Int /\ ~(m > square)
      BY <2>4, <2>5
    <2> HIDE DEF m
    <2>7. m <= square
      BY <2>6
    <2> QED
      BY <2>1, <2>7 DEF m
  <1> HIDE DEF S
  <1>3. Nat \subseteq S
    BY <1>1, <1>2, SetInduction
  <1>4. 600 \in S
    BY <1>3
  <1>5. Found \/ Below(1300)
    BY <1>4 DEF S
  <1>6. Below(1300) => Root(1300)
    OBVIOUS
  <1> QED
    BY <1>5, <1>6

LEMMA IatWithin ==
    ASSUME NEW iat \in Int, iat + 273 > 0 PROVE Inj!iat_correction(iat) \in Nat
  <1> DEFINE square == 298150000 \div (iat + 273)
  <1>1. square \in Int
    OBVIOUS
  <1> DEFINE Scale == 700..1300
             Root(c) == /\ c = 700 \/ c * c <= square
                        /\ c = 1300 \/ (c + 1) * (c + 1) > square
  <1>2. Inj!iat_correction(iat) = CHOOSE c \in Scale : Root(c)
    BY DEF Inj!iat_correction
  <1> HIDE DEF square
  <1>3. \E c \in Scale : Root(c)
    BY <1>1, RootFound
  <1>4. Scale \subseteq Nat
    OBVIOUS
  <1> HIDE DEF Scale, Root
  <1>5. Inj!iat_correction(iat) \in Scale
    BY <1>2, <1>3, Zenon
  <1> QED
    BY <1>4, <1>5, Zenon

LEMMA CorrectionsWithin ==
    ASSUME NEW clt \in Int, NEW baro \in Nat, NEW map \in Nat, NEW flex \in Nat
    PROVE  /\ Inj!clt_correction(clt) \in Nat
           /\ Inj!baro_correction(baro, map) \in Nat
           /\ Inj!flex_correction(flex) \in Nat
  BY DEF Inj!clt_correction, Inj!baro_correction, Inj!flex_correction

LEMMA TimesWithin ==
    ASSUME NEW width \in Nat, NEW factor \in Nat PROVE Inj!Times(width, factor) \in Nat
  <1>1. width * factor \in Nat
    BY SMT
  <1> QED
    BY <1>1 DEF Inj!Times

LEMMA CorrectedWithin ==
    ASSUME NEW width \in Nat,
           NEW f \in [iat : Nat, clt : Nat, baro : Nat, flex : Nat, stft : Nat, ltft : Nat]
    PROVE  Inj!Corrected(width, f) \in Nat
  BY TimesWithin DEF Inj!Corrected

\* The cells of the volumetric efficiency, and a lookup between them.
Fillings == 4000..10000

LEMMA FillingCellWithin ==
    ASSUME NEW r \in 1..48, NEW l \in 1..48
    PROVE  Inj!VeCell(r, l) \in Fillings
  <1> DEFINE nr == Inj!Norm(r)
             nl == Inj!Norm(l)
             squared == Inj!Squared(nr, 700)
             rpm_factor == 1000 - squared \div 2
             load_factor == 500 + nl \div 2
             cell == 6500 + (25 * rpm_factor * load_factor) \div 10000
  <1>1. nr \in Int /\ nl \in Int
    BY DEF Inj!Norm, Inj!TABLE_SIZE
  <1>2. Inj!VeCell(r, l) = Inj!Clamp(cell, 4000, 10000)
    BY DEF Inj!VeCell
  <1> HIDE DEF nr, nl
  <1>3. squared \in Int
    BY <1>1 DEF Inj!Squared
  <1> HIDE DEF squared
  <1>4. rpm_factor \in Int /\ load_factor \in Int
    BY <1>1, <1>3
  <1> HIDE DEF rpm_factor, load_factor
  <1>5. 25 * rpm_factor * load_factor \in Int
    BY <1>4
  <1>6. cell \in Int
    BY <1>5
  <1> HIDE DEF cell
  <1> QED
    BY <1>2, <1>6 DEF Inj!Clamp, Fillings

LEMMA FillingWithin ==
    ASSUME NEW rpm \in Int, NEW map \in Int PROVE Inj!ve_interpolate(rpm, map) \in Nat
  <1> DEFINE r == Inj!axis_index(Inj!RpmAxis48, rpm)
             l == Inj!axis_index(Inj!LoadAxis48, map)
             a == Inj!VeCell(r.low, l.low)
             b == Inj!VeCell(r.high, l.low)
             c == Inj!VeCell(r.low, l.high)
             d == Inj!VeCell(r.high, l.high)
             u == r.frac
             v == l.frac
             value == Inj!ve_interpolate(rpm, map)
             low == 4000
             high == 10000
  <1>1. r \in Place(48) /\ l \in Place(48)
    BY EngineAxes, PlaceOnAxis, SameIndex, Zenon
  <1>2. value = Inj!Between(Inj!Between(a, b, u), Inj!Between(c, d, u), v)
    BY Zenon DEF Inj!ve_interpolate, Inj!bilinear
  <1>3. low \in Int /\ high \in Int /\ Fillings = low..high /\ low..high \subseteq Nat
    BY DEF Fillings
  <1> HIDE DEF r, l, value, low, high
  <1>5. /\ r.low \in 1..48 /\ r.high \in 1..48 /\ u \in Fractions
        /\ l.low \in 1..48 /\ l.high \in 1..48 /\ v \in Fractions
    BY <1>1 DEF Place
  <1>6. a \in low..high /\ b \in low..high /\ c \in low..high /\ d \in low..high
    BY <1>3, <1>5, FillingCellWithin, Zenon
  <1> HIDE DEF a, b, c, d, u, v
  <1>10. Inj!Between(a, b, u) \in low..high /\ Inj!Between(c, d, u) \in low..high
    BY <1>3, <1>5, <1>6, BetweenWithin, Zenon
  <1>11. value \in low..high
    BY <1>2, <1>3, <1>5, <1>10, BetweenWithin, Zenon
  <1> QED
    BY <1>3, <1>11, Zenon DEF value

LEMMA BaseWidthWithin ==
    ASSUME Inj!FuelAssumption, NEW rpm \in Int, NEW map \in Nat, NEW iat \in Int, iat + 273 > 0
    PROVE  Inj!base_width(rpm, map, iat) \in Nat
  <1> DEFINE ve == Inj!ve_interpolate(rpm, map)
             kelvin == iat + 273
             filled == (ve * map) \div 100
             scaled == filled * PW_SCALE
  <1>1. ve \in Nat
    BY FillingWithin
  <1>2. Inj!base_width(rpm, map, iat) = scaled \div kelvin
    BY DEF Inj!base_width
  <1>3. kelvin \in Nat \ {0} /\ PW_SCALE \in Nat
    BY DEF Inj!FuelAssumption
  <1> HIDE DEF ve, kelvin
  <1>4. ve * map \in Nat
    BY <1>1
  <1>5. filled \in Nat
    BY <1>4
  <1> HIDE DEF filled
  <1>6. scaled \in Nat
    BY <1>3, <1>5
  <1> HIDE DEF scaled
  <1> QED
    BY <1>2, <1>3, <1>6, Quotient
\* The film never owes fuel, and what reaches the cylinder is a width.
FilmSafe(wall) == wall.film \in Nat /\ wall.width \in Nat

LEMMA TauPositive ==
    ASSUME Inj!FuelAssumption, NEW clt \in Int
    PROVE  Inj!wall_wetting_tau(clt) \in Nat \ {0}
  <1> DEFINE factor == IF clt < 20 THEN 1000 + (20 - clt) * 50
                       ELSE Inj!Larger(1000 - ((clt - 20) * 1000) \div 80, 500)
             wetting == Fuel.tau
             product == wetting * factor
  <1>1. factor \in Int /\ wetting \in Nat
    BY DEF Inj!Larger, Inj!FuelAssumption
  <1>2. Inj!wall_wetting_tau(clt) = Inj!Larger(product \div 1000, 250)
    BY DEF Inj!wall_wetting_tau
  <1> HIDE DEF factor, wetting
  <1>3. product \in Int
    BY <1>1
  <1> HIDE DEF product
  <1> QED
    BY <1>2, <1>3 DEF Inj!Larger

LEMMA FilmWithin ==
    ASSUME Inj!FuelAssumption, NEW film \in Nat, NEW width \in Nat,
           NEW tau \in Nat \ {0}, NEW dt \in Nat
    PROVE  FilmSafe(Inj!film_update(film, width, tau, dt))
  <1> DEFINE evaporated == (film * dt) \div tau
             wall_x == Fuel.wall_x
             direct == (wall_x * width) \div 1000
             rest == film - evaporated + (width - direct)
             reaching == Inj!Larger(Inj!Larger(direct + evaporated, width \div 100), 1)
             ratio == (width * 1000) \div reaching
             wanted == (ratio * width) \div 1000
             bounded == Inj!Clamp(wanted, width \div 2, 3 * width)
             after == Inj!film_update(film, width, tau, dt)
  <1>1. after = [ film |-> Inj!Larger(rest, 0),
                  width |-> IF width <= 1 THEN width ELSE bounded ]
    BY DEF Inj!film_update
  <1>2. wall_x \in Nat
    BY DEF Inj!FuelAssumption
  <1> HIDE DEF wall_x, after
  <1>3. film * dt \in Nat /\ wall_x * width \in Nat /\ width * 1000 \in Nat
    BY <1>2
  <1>4. evaporated \in Nat /\ direct \in Nat
    BY <1>3, Quotient
  <1> HIDE DEF evaporated, direct
  <1>5. rest \in Int /\ reaching \in Nat \ {0}
    BY <1>4 DEF Inj!Larger
  <1> HIDE DEF rest, reaching
  <1>6. ratio \in Int
    BY <1>3, <1>5, Quotient
  <1> HIDE DEF ratio
  <1>7. ratio * width \in Int
    BY <1>6
  <1>8. wanted \in Int
    BY <1>7
  <1> HIDE DEF wanted
  <1>9. bounded \in Nat
    BY <1>8 DEF Inj!Clamp
  <1>10. Inj!Larger(rest, 0) \in Nat
    BY <1>5 DEF Inj!Larger
  <1> HIDE DEF bounded
  <1>11. after.film \in Nat /\ after.width \in Nat
    BY <1>1, <1>9, <1>10
  <1> QED
    BY <1>11 DEF FilmSafe, after

LEMMA DeadTimeWithin ==
    ASSUME Inj!FuelAssumption, NEW vbatt \in Int PROVE Inj!injector_dead_time(vbatt) \in Nat
  <1> DEFINE dead == Fuel.dead_time
  <1>1. dead \in Nat
    BY DEF Inj!FuelAssumption
  <1>2. Inj!injector_dead_time(vbatt) = Inj!Larger(dead + (140 - vbatt) * 5, 0)
    BY DEF Inj!injector_dead_time
  <1> HIDE DEF dead
  <1> QED
    BY <1>1, <1>2 DEF Inj!Larger

LEMMA FiringsBounded ==
    ASSUME NEW rpm \in Nat, rpm <= 65535, NEW cylinders \in 1..255
    PROVE  /\ rpm * cylinders \in Nat /\ rpm * cylinders <= 60000000
           /\ rpm > 0 => rpm * cylinders > 0
  <1> DEFINE firings == rpm * cylinders
  <1>1. rpm * (cylinders - 1) \in Nat /\ rpm * (255 - cylinders) \in Nat
    BY SMT
  <1>2. rpm * (cylinders - 1) = firings - rpm /\ rpm * (255 - cylinders) = 255 * rpm - firings
    BY SMT
  <1>3. firings \in Int
    OBVIOUS
  <1> HIDE DEF firings
  <1>4. firings >= rpm /\ firings <= 255 * rpm
    BY <1>1, <1>2, <1>3
  <1>5. firings \in Nat /\ firings <= 60000000 /\ (rpm > 0 => firings > 0)
    BY <1>3, <1>4
  <1> QED
    BY <1>5 DEF firings

\* An engine cycle takes time, however fast the engine turns.
LEMMA CyclePositive ==
    ASSUME Inj!FuelAssumption, NEW rpm \in Nat, rpm <= 65535
    PROVE  Inj!cycle_us(rpm) \in Nat \ {0}
  <1> DEFINE cylinders == Inj!Larger(Fuel.cylinders, 1)
             firings == rpm * cylinders
             minute == 60000000
             q == minute \div firings
  <1>1. cylinders \in 1..255
    <2> DEFINE n == Fuel.cylinders
    <2>1. n \in 0..255
      BY DEF Inj!FuelAssumption
    <2> HIDE DEF n
    <2>2. Inj!Larger(n, 1) \in 1..255
      BY <2>1 DEF Inj!Larger
    <2> QED
      BY <2>2 DEF n
  <1>2. Inj!cycle_us(rpm) = IF rpm > 0 THEN q ELSE 100000
    BY DEF Inj!cycle_us
  <1> HIDE DEF cylinders
  <1>3. firings \in Nat /\ firings <= minute /\ (rpm > 0 => firings > 0)
    BY <1>1, FiringsBounded
  <1>4. minute \in Int /\ minute >= 0
    OBVIOUS
  <1> HIDE DEF firings, minute
  <1>5. CASE rpm > 0
    <2>1. firings \in Nat \ {0}
      BY <1>3, <1>5
    <2>2. q \in Nat /\ minute < firings * q + firings
      BY <1>4, <2>1, Quotient
    <2> HIDE DEF q
    <2>3. q # 0
      <3> SUFFICES ASSUME q = 0 PROVE FALSE
        OBVIOUS
      <3>1. firings * q = 0
        BY <2>1
      <3> QED
        BY <1>3, <1>4, <2>1, <2>2, <3>1
    <2> QED
      BY <1>2, <1>5, <2>2, <2>3
  <1>6. CASE ~(rpm > 0)
    BY <1>2, <1>6
  <1> QED
    BY <1>5, <1>6
ShortTrims == {0} \cup (1000 - Fuel.stft_limit)..(1000 + Fuel.stft_limit)
LongTrims == 750..1250
Duties == 0..100

FuelRecord ==
    [ stft : ShortTrims, ltft : [LtftCells -> LongTrims], film : Nat, dfco : BOOLEAN,
      width : Nat, duty : Duties ]

LEMMA FuelState == Inj!FuelType = FuelRecord
  <1> DEFINE short == {0} \cup (1000 - Fuel.stft_limit)..(1000 + Fuel.stft_limit)
             long == 750..1250
             duties == 0..100
  <1>1. Inj!FuelType = [ stft : short, ltft : [LtftCells -> long], film : Nat, dfco : BOOLEAN,
                         width : Nat, duty : duties ]
    BY DEF Inj!FuelType
  <1>2. short = ShortTrims /\ long = LongTrims /\ duties = Duties
    BY DEF ShortTrims, LongTrims, Duties
  <1> HIDE DEF short, long, duties
  <1> QED
    BY <1>1, <1>2, Zenon DEF FuelRecord

LEMMA TrimWithin ==
    ASSUME Inj!FuelAssumption, NEW stft \in ShortTrims, NEW lambda \in Int
    PROVE  Inj!trim(stft, lambda) \in ShortTrims /\ stft \in Nat
  <1> DEFINE limit == Fuel.stft_limit
             target == Fuel.target
             sum == stft + (target - lambda) \div 10
  <1>1. limit \in 0..1000 /\ target \in Nat
    BY DEF Inj!FuelAssumption
  <1>2. Inj!trim(stft, lambda) = Inj!Clamp(sum, 1000 - limit, 1000 + limit)
    BY DEF Inj!trim
  <1>3. ShortTrims = {0} \cup (1000 - limit)..(1000 + limit)
    BY DEF ShortTrims
  <1> HIDE DEF limit, target
  <1>4. stft \in Nat
    BY <1>1, <1>3
  <1>5. sum \in Int
    BY <1>1, <1>4
  <1> HIDE DEF sum
  <1>6. Inj!Clamp(sum, 1000 - limit, 1000 + limit) \in (1000 - limit)..(1000 + limit)
    BY <1>1, <1>5 DEF Inj!Clamp
  <1> QED
    BY <1>2, <1>3, <1>4, <1>6

LEMMA LearntWithin ==
    ASSUME Inj!FuelAssumption, NEW value \in LongTrims, NEW stft \in Nat
    PROVE  Inj!ltft_update(value, stft) \in LongTrims
  <1> DEFINE learnt == (value * stft) \div 1000
             sum == value * (1000 - LEARN) + learnt * LEARN
             mean == sum \div 1000
  <1>1. value \in Nat /\ LEARN \in Int
    BY DEF LongTrims, Inj!FuelAssumption
  <1>2. value * stft \in Nat
    BY <1>1
  <1>3. learnt \in Int
    BY <1>2
  <1>4. Inj!ltft_update(value, stft) = Inj!Clamp(mean, 750, 1250)
    BY DEF Inj!ltft_update
  <1> HIDE DEF learnt
  <1>5. value * (1000 - LEARN) \in Int /\ learnt * LEARN \in Int
    BY <1>1, <1>3
  <1>6. sum \in Int
    BY <1>5
  <1> HIDE DEF sum
  <1>7. mean \in Int
    BY <1>6
  <1> HIDE DEF mean
  <1> QED
    BY <1>4, <1>7 DEF Inj!Clamp, LongTrims

LEMMA LongTrimRead ==
    ASSUME NEW cells \in [LtftCells -> LongTrims], NEW rpm \in Int, NEW map \in Int
    PROVE  Inj!ltft_get(cells, rpm, map) \in Nat
  <1> DEFINE r == Inj!axis_index(Inj!LtftRpmAxis, rpm)
             l == Inj!axis_index(Inj!LtftLoadAxis, map)
             at(i, j) == IF <<i, j>> \in LtftCells THEN cells[<<i, j>>] ELSE 1000
             a == at(r.low, l.low)
             b == at(r.high, l.low)
             c == at(r.low, l.high)
             d == at(r.high, l.high)
             u == r.frac
             v == l.frac
             value == Inj!ltft_get(cells, rpm, map)
             low == 750
             high == 1250
  <1>1. r \in Place(16) /\ l \in Place(16)
    BY EngineAxes, PlaceOnAxis, SameIndex, Zenon
  <1>2. value = Inj!Between(Inj!Between(a, b, u), Inj!Between(c, d, u), v)
    BY DEF Inj!ltft_get, Inj!bilinear
  <1>3. low \in Int /\ high \in Int /\ LongTrims = low..high /\ low..high \subseteq Nat
    BY DEF LongTrims
  <1>0. 1000 \in low..high
    OBVIOUS
  <1> HIDE DEF r, l, value, low, high
  <1>4. u \in Fractions /\ v \in Fractions
    BY <1>1 DEF Place
  <1>5. \A i, j : at(i, j) \in low..high
    BY <1>0, <1>3
  <1>6. a \in low..high /\ b \in low..high /\ c \in low..high /\ d \in low..high
    BY <1>5
  <1> HIDE DEF a, b, c, d, u, v, at
  <1>7. Inj!Between(a, b, u) \in low..high
    BY <1>3, <1>4, <1>6, BetweenWithin, Zenon
  <1>8. Inj!Between(c, d, u) \in low..high
    BY <1>3, <1>4, <1>6, BetweenWithin, Zenon
  <1>9. value \in low..high
    BY <1>2, <1>3, <1>4, <1>7, <1>8, BetweenWithin
  <1> QED
    BY <1>3, <1>9 DEF value
\* Overrun cuts the fuel and leaves trims and film alone; only a trim that may
\* be learnt moves the long-term map.
FuelDemand(s, after) ==
    /\ after.dfco => /\ after.width = 0 /\ after.duty = 0
                     /\ <<after.stft, after.ltft, after.film>> = <<s.stft, s.ltft, s.film>>
    /\ after.ltft # s.ltft => Inj!learns(after.stft)

LEMMA FuelCut ==
    ASSUME NEW s \in FuelRecord, NEW in
    PROVE  Inj!cut_fuel(s, in) \in FuelRecord /\ FuelDemand(s, Inj!cut_fuel(s, in))
  <1> DEFINE after == [s EXCEPT !.dfco = TRUE, !.width = 0, !.duty = 0]
  <1>1. Inj!cut_fuel(s, in) = after
    BY Zenon DEF Inj!cut_fuel
  <1>2. 0 \in Duties
    BY DEF Duties
  <1>3. after \in FuelRecord
    BY <1>2, Zenon DEF FuelRecord
  <1>4. /\ after.width = 0 /\ after.duty = 0 /\ after.stft = s.stft
        /\ after.ltft = s.ltft /\ after.film = s.film
    BY DEF FuelRecord
  <1> HIDE DEF after
  <1> QED
    BY <1>1, <1>3, <1>4, Zenon DEF FuelDemand

LEMMA TrimBoth ==
    ASSUME Inj!FuelAssumption, NEW stft \in ShortTrims, NEW lambda \in Int
    PROVE  /\ Inj!trim(stft, lambda) \in ShortTrims
           /\ Inj!trim(stft, lambda) \in Nat /\ stft \in Nat
  <1> DEFINE next == Inj!trim(stft, lambda)
  <1>1. next \in ShortTrims /\ stft \in Nat
    BY TrimWithin, Zenon
  <1> HIDE DEF next
  <1>2. next \in Nat
    BY <1>1, TrimWithin, Zenon
  <1> QED
    BY <1>1, <1>2, Zenon DEF next

LEMMA FuelMetered ==
    ASSUME Inj!FuelAssumption, NEW s \in FuelRecord, NEW in, FuelInput(in)
    PROVE  Inj!meter(s, in) \in FuelRecord /\ FuelDemand(s, Inj!meter(s, in))
  <1> DEFINE closed == Fuel.closed_loop /\ Inj!lambda_valid(in.lambda)
             stft == IF closed THEN Inj!trim(s.stft, in.lambda) ELSE s.stft
             cell == Inj!ltft_cell(in.rpm, in.map)
             learning == closed /\ Inj!learns(stft) /\ cell \in LtftCells
             learnt == [s.ltft EXCEPT ![cell] = Inj!ltft_update(@, stft)]
             ltft == IF learning THEN learnt ELSE s.ltft
             base == Inj!base_width(in.rpm, in.map, in.iat)
             tau == Inj!wall_wetting_tau(in.clt)
             wall == IF Fuel.wall_wetting THEN Inj!film_update(s.film, base, tau, in.dt)
                     ELSE [film |-> s.film, width |-> base]
             iat == Inj!iat_correction(in.iat)
             clt == Inj!clt_correction(in.clt)
             baro == Inj!baro_correction(in.baro, in.map)
             flex == Inj!flex_correction(in.flex)
             long == Inj!ltft_get(ltft, in.rpm, in.map)
             factors == [ iat |-> iat, clt |-> clt, baro |-> baro, flex |-> flex,
                          stft |-> stft, ltft |-> long ]
             corrected == Inj!Corrected(wall.width, factors)
             dead == Inj!injector_dead_time(in.vbatt)
             width == corrected + dead
             cycle == Inj!cycle_us(in.rpm)
             duty == Inj!Clamp((width * 100) \div cycle, 0, 100)
             after == Inj!meter(s, in)
  <1>1. after = [ stft |-> stft, ltft |-> ltft, film |-> wall.film, dfco |-> FALSE,
                  width |-> width, duty |-> duty ]
    BY DEF Inj!meter
  <1>2. /\ s.stft \in ShortTrims /\ s.ltft \in [LtftCells -> LongTrims] /\ s.film \in Nat
    BY Zenon DEF FuelRecord
  <1>3. /\ in.rpm \in Nat /\ in.rpm <= 65535 /\ in.rpm \in Int /\ in.map \in Nat /\ in.map \in Int
        /\ in.lambda \in Int /\ in.clt \in Int /\ in.vbatt \in Int /\ in.dt \in Nat
        /\ in.baro \in Nat /\ in.flex \in Nat /\ in.iat \in Int /\ in.iat + 273 > 0
    BY DEF FuelInput
  <1>4. stft \in ShortTrims /\ stft \in Nat
    <2>1. /\ Inj!trim(s.stft, in.lambda) \in ShortTrims
          /\ Inj!trim(s.stft, in.lambda) \in Nat /\ s.stft \in Nat
      <3>1. s.stft \in ShortTrims /\ in.lambda \in Int
        BY <1>2, <1>3
      <3> QED
        BY <3>1, TrimBoth, Zenon
    <2> QED
      BY <1>2, <2>1, Zenon
  <1>5. base \in Nat
    <2>1. in.rpm \in Int /\ in.map \in Nat /\ in.iat \in Int /\ in.iat + 273 > 0
      BY <1>3
    <2> QED
      BY <2>1, BaseWidthWithin, Zenon
  <1>6. tau \in Nat \ {0}
    BY <1>3, TauPositive
  <1>7. clt \in Nat /\ baro \in Nat /\ flex \in Nat
    <2>1. in.clt \in Int /\ in.baro \in Nat /\ in.map \in Nat /\ in.flex \in Nat
      BY <1>3
    <2> QED
      BY <2>1, CorrectionsWithin, Zenon
  <1>8. iat \in Nat
    BY <1>3, IatWithin
  <1>9. dead \in Nat
    BY <1>3, DeadTimeWithin
  <1>10. cycle \in Nat \ {0}
    BY <1>3, CyclePositive
  <1>11. \A cells \in [LtftCells -> LongTrims] : Inj!ltft_get(cells, in.rpm, in.map) \in Nat
    BY <1>3, LongTrimRead
  <1> HIDE DEF after, closed, stft, base, tau, iat, clt, baro, flex, dead, cycle, cell
  <1>12. learning => learnt \in [LtftCells -> LongTrims]
    <2> SUFFICES ASSUME learning PROVE learnt \in [LtftCells -> LongTrims]
      OBVIOUS
    <2> DEFINE value == s.ltft[cell]
               new == Inj!ltft_update(value, stft)
    <2>1. value \in LongTrims
      BY <1>2, Zenon
    <2>2. new \in LongTrims
      BY <1>4, <2>1, LearntWithin
    <2>3. learnt = [s.ltft EXCEPT ![cell] = new]
      BY <1>2, Zenon
    <2> HIDE DEF new, learnt
    <2> QED
      BY <1>2, <2>2, <2>3, Zenon
  <1>13. learning => Inj!learns(stft)
    BY Zenon
  <1> HIDE DEF learning, learnt
  <1>14. ltft \in [LtftCells -> LongTrims]
    BY <1>2, <1>12, Zenon
  <1>15. ltft # s.ltft => Inj!learns(stft)
    BY <1>13, Zenon
  <1> HIDE DEF ltft
  <1>16. long \in Nat
    BY <1>11, <1>14
  <1>17. wall.film \in Nat /\ wall.width \in Nat
    <2>1. FilmSafe(Inj!film_update(s.film, base, tau, in.dt))
      BY <1>2, <1>3, <1>5, <1>6, FilmWithin
    <2>2. FilmSafe([film |-> s.film, width |-> base])
      BY <1>2, <1>5 DEF FilmSafe
    <2>3. FilmSafe(wall)
      BY <2>1, <2>2, Zenon
    <2> HIDE DEF wall
    <2> QED
      BY <2>3, Zenon DEF FilmSafe
  <1> HIDE DEF wall, long
  <1>18. factors \in [iat : Nat, clt : Nat, baro : Nat, flex : Nat, stft : Nat, ltft : Nat]
    BY <1>4, <1>7, <1>8, <1>16
  <1> HIDE DEF factors
  <1>19. corrected \in Nat
    BY <1>17, <1>18, CorrectedWithin
  <1> HIDE DEF corrected
  <1>20. width \in Nat
    BY <1>9, <1>19
  <1> HIDE DEF width
  <1>21. duty \in Duties
    <2>1. width * 100 \in Int
      BY <1>20
    <2> DEFINE share == (width * 100) \div cycle
    <2>2. share \in Int
      BY <1>10, <2>1, Quotient
    <2> HIDE DEF share
    <2>3. Inj!Clamp(share, 0, 100) \in Duties
      BY <2>2 DEF Inj!Clamp, Duties
    <2> QED
      BY <2>3 DEF share
  <1> HIDE DEF duty
  <1>22. after \in FuelRecord
    BY <1>1, <1>4, <1>14, <1>17, <1>20, <1>21 DEF FuelRecord
  <1>23. after.dfco = FALSE /\ after.ltft = ltft /\ after.stft = stft
    BY <1>1
  <1> QED
    BY <1>15, <1>22, <1>23, Zenon DEF FuelDemand, after

LEMMA FuelCalculated ==
    ASSUME Inj!FuelAssumption, NEW s \in FuelRecord, NEW in, FuelInput(in)
    PROVE  Inj!calculate(s, in) \in FuelRecord /\ FuelDemand(s, Inj!calculate(s, in))
  BY FuelCut, FuelMetered, Zenon DEF Inj!calculate

LEMMA FuelReset ==
    ASSUME Inj!FuelAssumption PROVE Inj!NewFuel \in FuelRecord
  <1> DEFINE unlearnt == [cell \in LtftCells |-> 1000]
  <1>1. unlearnt \in [LtftCells -> LongTrims]
    BY DEF LongTrims
  <1>2. 0 \in ShortTrims /\ 0 \in Duties
    BY DEF ShortTrims, Duties
  <1>3. Inj!NewFuel = [ stft |-> 0, ltft |-> unlearnt, film |-> 0, dfco |-> FALSE,
                        width |-> 0, duty |-> 0 ]
    BY DEF Inj!NewFuel
  <1> HIDE DEF unlearnt
  <1> QED
    BY <1>1, <1>2, <1>3, Zenon DEF FuelRecord
----------------------------------------------------------------------------
(* The external TCU bridge: what ExternalTcuProofs shows of it, of the     *)
(* bridge on the bench.                                                    *)

Shifts == INSTANCE ExternalTcuProofs WITH tcu <- st, samples <- steps

\* Both instances are the same bridge.
LEMMA SameBridge ==
    /\ \A t, k : Shifts!tick(t, k) = Tcu!tick(t, k)
    /\ Shifts!TcuType = Tcu!TcuType /\ Shifts!NewTcu = Tcu!NewTcu
    /\ Shifts!TcuAssumption
  <1>1. \A t : Shifts!aged(t) = Tcu!aged(t)
    BY DEF Shifts!aged, Tcu!aged, Shifts!Minus, Tcu!Minus
  <1>2. \A t, a, b, c, d : Shifts!raise_fault(t, a, b, c, d) = Tcu!raise_fault(t, a, b, c, d)
    BY Zenon DEF Shifts!raise_fault, Tcu!raise_fault
  <1>3. \A t : Shifts!complete(t) = Tcu!complete(t) /\ Shifts!timed_out(t) = Tcu!timed_out(t)
    BY <1>2, Zenon DEF Shifts!complete, Tcu!complete, Shifts!timed_out, Tcu!timed_out
  <1>4. \A t : Shifts!clear_to_idle(t) = Tcu!clear_to_idle(t)
    BY Zenon DEF Shifts!clear_to_idle, Tcu!clear_to_idle
  <1>5. \A t : Shifts!start_shift_request(t) = Tcu!start_shift_request(t)
    BY Zenon DEF Shifts!start_shift_request, Tcu!start_shift_request
  <1>6. \A t, rx, tx : Shifts!step_active_shift(t, rx, tx) = Tcu!step_active_shift(t, rx, tx)
    <2> SUFFICES ASSUME NEW t, NEW rx, NEW tx
                 PROVE  Shifts!step_active_shift(t, rx, tx) = Tcu!step_active_shift(t, rx, tx)
      OBVIOUS
    <2> DEFINE Met(a, f7, f8, f4, f3, late, f6, done) ==
                   LET watched == a.requests % 5 # 0
                   IN  IF watched /\ ~rx /\ a.age >= 10 THEN f7
                       ELSE IF watched /\ ~tx /\ a.age >= 14 THEN f8
                       ELSE IF a.requests % 11 = 0 /\ a.age >= 14 THEN f4
                       ELSE IF a.requests % 7 = 0 /\ a.age >= 10 THEN f3
                       ELSE IF a.age >= TIMEOUT_REQUEST THEN late
                       ELSE IF a.requests % 13 = 0 /\ a.age >= STALE_REQUEST THEN f6
                       ELSE IF a.timer = 0 THEN done ELSE a
               s == Shifts!aged(t)
               a == Tcu!aged(t)
    <2>1. Shifts!step_active_shift(t, rx, tx) =
            Met(s, Shifts!raise_fault(s, 7, 5, 5, FALSE), Shifts!raise_fault(s, 8, 5, 5, FALSE),
                Shifts!raise_fault(s, 4, 5, 4, FALSE), Shifts!raise_fault(s, 3, 5, 3, FALSE),
                Shifts!timed_out(s), Shifts!raise_fault(s, 6, 5, 5, FALSE), Shifts!complete(s))
      BY Zenon DEF Shifts!step_active_shift
    <2>2. Tcu!step_active_shift(t, rx, tx) =
            Met(a, Tcu!raise_fault(a, 7, 5, 5, FALSE), Tcu!raise_fault(a, 8, 5, 5, FALSE),
                Tcu!raise_fault(a, 4, 5, 4, FALSE), Tcu!raise_fault(a, 3, 5, 3, FALSE),
                Tcu!timed_out(a), Tcu!raise_fault(a, 6, 5, 5, FALSE), Tcu!complete(a))
      BY Zenon DEF Tcu!step_active_shift
    <2>3. s = a
      BY <1>1
    <2> HIDE DEF Met, s, a
    <2> QED
      BY <1>2, <1>3, <2>1, <2>2, <2>3, Zenon
  <1>7. \A t : Shifts!release(t) = Tcu!release(t)
    BY <1>4, Zenon DEF Shifts!release, Tcu!release
  <1>8. \A t : Shifts!offline(t) = Tcu!offline(t)
    BY <1>2, ZenonT(30) DEF Shifts!offline, Tcu!offline, Shifts!Larger, Tcu!Larger
  <1>9. \A k : /\ Shifts!LinkOnline(k) = Tcu!LinkOnline(k) /\ Shifts!RxFresh(k) = Tcu!RxFresh(k)
               /\ Shifts!TxFresh(k) = Tcu!TxFresh(k)
    BY Zenon DEF Shifts!LinkOnline, Tcu!LinkOnline, Shifts!RxFresh, Tcu!RxFresh,
                 Shifts!TxFresh, Tcu!TxFresh
  <1>10. \A t, k : Shifts!online(t, k) = Tcu!online(t, k)
    BY <1>4, <1>5, <1>6, <1>7, <1>9, SMTT(30) DEF Shifts!online, Tcu!online
  <1>11. \A t, k : Shifts!tick(t, k) = Tcu!tick(t, k)
    BY <1>8, <1>9, <1>10, Zenon DEF Shifts!tick, Tcu!tick
  <1>12. Shifts!TcuType = Tcu!TcuType /\ Shifts!NewTcu = Tcu!NewTcu
    BY DEF Shifts!TcuType, Tcu!TcuType, Shifts!NewTcu, Tcu!NewTcu, Shifts!ShiftFaults,
           Tcu!ShiftFaults, Shifts!ShiftStates, Tcu!ShiftStates, Shifts!ShiftResults,
           Tcu!ShiftResults
  <1>13. Shifts!TcuAssumption
    BY ControllersAssumption DEF Shifts!TcuAssumption, Tcu!TcuAssumption
  <1> QED
    BY <1>11, <1>12, <1>13

TcuSafe(t) == Shifts!TcuSafe(t)

LEMMA NewTcuSafe == TcuSafe(Tcu!NewTcu)
  BY SameBridge, Shifts!NewTcuSafe DEF TcuSafe

LEMMA TcuTick ==
    ASSUME NEW t, TcuSafe(t), NEW k
    PROVE  TcuSafe(Tcu!tick(t, k)) /\ Shifts!ContractStep(t, Tcu!tick(t, k))
  BY SameBridge, Shifts!TcuTick, Zenon DEF TcuSafe

----------------------------------------------------------------------------
(***************************************************************************)
(* What each controller keeps on the bench.  Beside its range this is what *)
(* its next call needs: the presets and profiles the bench has chosen, a   *)
(* step launch that is quiet when idle, a bridge that shows a gear after   *)
(* its request only with a failure, a staged page of numbers.              *)
(***************************************************************************)

LaunchKept(s) ==
    /\ s = [s |-> s.s, p |-> s.p, steady |-> s.steady]
    /\ LaunchSafe(s.s, s.p, s.steady) /\ Preset(s.p)
AlsKept(s) == s = [s |-> s.s, c |-> s.c] /\ AlsConfigured(s.c) /\ AlsSafe(s.s, s.c)
ThrottleKept(s) ==
    s = [s |-> s.s, profile |-> s.profile] /\ s.s \in Dbw!DbwType /\ s.profile \in Profiles
SparkKept(s) == s.s \in SparkRecord
WatchKept(s) == s = [w |-> s.w, now |-> s.now] /\ s.w \in Tasks /\ s.now \in Nat
Measured(s) == s \in [Guard!Limit -> Int]

Kept(u, s) ==
    /\ u = "tcu" => TcuSafe(s)
    /\ u = "launch" => LaunchKept(s)
    /\ u = "antilag" => AlsKept(s)
    /\ u = "traction" => s \in TractionRecord
    /\ u = "dbw" => ThrottleKept(s)
    /\ u = "boost" => s \in Boost!BoostType
    /\ u = "idle" => s \in Idle!IdleType
    /\ u = "vvt" => s \in Vvt!VvtType
    /\ u = "knock" => s \in KnockRecord
    /\ u = "classifier" => ClassifierSafe(s)
    /\ u = "fuel" => s \in FuelRecord
    /\ u = "ignition" => SparkKept(s)
    /\ u = "lambda" => s \in SensorRecord
    /\ u = "actuators" => ActuatorPage(s)
    /\ u = "tables" => TablesSafe(s)
    /\ u = "wheel" => WheelPage(s)
    /\ u = "protection" => Measured(s)
    /\ u = "watchdog" => WatchKept(s)

BenchSafe == unit \in Units /\ steps \in Nat /\ Kept(unit, st)
----------------------------------------------------------------------------
(* A reset leaves every controller so.                                     *)

LEMMA FreshPreset == ASSUME NEW p \in LaunchPresets PROVE Preset(p)
  <1>1. PICK on \in BOOLEAN, mode \in Step!Modes, fuel \in {0, 40} :
            p = LaunchPreset(on, mode, fuel)
    BY DEF LaunchPresets
  <1> DEFINE low == 4000
             high == 5500
             spark == 50
             slip == 50
  <1>2. Step!preset_1 = [ enabled |-> TRUE, mode |-> "two_step", rpm_limit |-> low,
                          rpm_high |-> high, spark_pct |-> spark, fuel_pct |-> 0,
                          slip_target |-> 8 ]
    BY DEF Step!preset_1
  <1>3. low \in Int /\ high \in Int /\ spark \in LaunchRatio /\ fuel \in Int /\ slip \in Int
    BY DEF LaunchRatio
  <1>4. p = [Step!preset_1 EXCEPT !.enabled = on, !.mode = mode, !.fuel_pct = fuel,
                                 !.slip_target = slip]
    BY <1>1, Zenon DEF LaunchPreset
  <1> HIDE DEF low, high, spark, slip
  <1>5. p = [ enabled |-> on, mode |-> mode, rpm_limit |-> low, rpm_high |-> high,
              spark_pct |-> spark, fuel_pct |-> fuel, slip_target |-> slip ]
    BY <1>2, <1>4, Zenon
  <1> QED
    BY <1>3, <1>5 DEF Preset

LEMMA FreshLaunch == ASSUME NEW s \in Fresh("launch") PROVE LaunchKept(s)
  <1>1. PICK p \in LaunchPresets : s = [s |-> Step!NewLaunch, p |-> p, steady |-> TRUE]
    BY DEF Fresh
  <1>2. "idle" \in Step!Phases /\ 0 \in LaunchRatio /\ 0 \in LaunchIntegral
    BY DEF Step!Phases, LaunchRatio, LaunchIntegral
  <1>3. Step!NewLaunch \in LaunchRecord
    BY <1>2, Zenon DEF Step!NewLaunch, LaunchRecord
  <1>4. LaunchQuiet(Step!NewLaunch, p)
    BY DEF LaunchQuiet, Quiet, Step!NewLaunch
  <1> QED
    BY <1>1, <1>3, <1>4, FreshPreset, Zenon DEF LaunchKept, LaunchSafe

LEMMA FreshAls == ASSUME NEW s \in Fresh("antilag") PROVE AlsKept(s)
  <1>1. PICK mode \in Step!AlsModes : s = [s |-> Step!NewAls, c |-> AlsConfig(mode)]
    BY DEF Fresh
  <1>2. AlsConfigured(AlsConfig(mode))
    BY DEF AlsConfigured, AlsConfig
  <1>3. 0 \in AlsIntensity
    BY DEF AlsIntensity
  <1>4. Step!NewAls \in [ active : BOOLEAN, rolling : BOOLEAN, intensity : AlsIntensity,
                          retard : Nat, enrich : Nat ]
    BY <1>3 DEF Step!NewAls
  <1>5. Step!AlsBounded(Step!NewAls, AlsConfig(mode))
    BY DEF Step!AlsBounded, Step!NewAls, AlsConfig, Step!Larger, Step!FULL
  <1> QED
    BY <1>1, <1>2, <1>4, <1>5, Zenon DEF AlsKept, AlsSafe

LEMMA FreshTraction == Dbw!NewTraction \in TractionRecord
  BY DEF Dbw!NewTraction, TractionRecord, TractionIntegral, TractionRetard, TractionCut

LEMMA FreshThrottle == ASSUME NEW s \in Fresh("dbw") PROVE ThrottleKept(s)
  <1>1. PICK p \in Profiles : s = [s |-> Dbw!NewDbw, profile |-> p]
    BY DEF Fresh, Profiles
  <1> DEFINE Full == 0..1000
             Small == -500..500
             Wide == -1000..1000
  <1>2. Dbw!DbwType = [ target : Full, actual : Full, integral : Small, error_prev : Wide,
                        duty : Wide, limp : BOOLEAN ]
    BY DEF Dbw!DbwType
  <1>3. 0 \in Full /\ 0 \in Small /\ 0 \in Wide
    OBVIOUS
  <1> HIDE DEF Full, Small, Wide
  <1>4. Dbw!NewDbw \in Dbw!DbwType
    BY <1>2, <1>3, Zenon DEF Dbw!NewDbw
  <1> QED
    BY <1>1, <1>4, Zenon DEF ThrottleKept

LEMMA FreshBoost ==
    ASSUME Boost!BoostAssumption PROVE Boost!NewBoost \in Boost!BoostType
  <1> DEFINE Target == 0..Boost!SCRAMBLE_KPA
             Duty == 0..100
             Integral == -600..600
             Timer == 0..SCRAMBLE_DURATION
  <1>1. Boost!BoostType = [ target : Target, duty : Duty, integral : Integral, error_prev : Int,
                            scramble : BOOLEAN, timer : Timer, overboost : BOOLEAN ]
    BY Zenon DEF Boost!BoostType
  <1>2. 0 \in Target /\ 0 \in Duty /\ 0 \in Integral /\ 0 \in Timer /\ 0 \in Int
    BY DEF Boost!BoostAssumption, Boost!SCRAMBLE_KPA
  <1> HIDE DEF Target, Duty, Integral, Timer
  <1> QED
    BY <1>1, <1>2, Zenon DEF Boost!NewBoost

LEMMA FreshIdle == Idle!NewIdle \in Idle!IdleType
  <1> DEFINE Valve == 0..1000
             Small == -500..500
             Correction == -Idle!IGN_MAX..Idle!IGN_MAX
             Dashpot == 0..Idle!DASHPOT
  <1>1. Idle!IdleType =
          [ target : Nat, valve : Valve, integral : Small, error_prev : Int,
            correction : Correction, control : BOOLEAN, dashpot : BOOLEAN,
            dashpot_duty : Dashpot ]
    BY DEF Idle!IdleType
  <1>2. 0 \in Valve /\ 0 \in Small /\ 0 \in Correction /\ 0 \in Dashpot /\ 0 \in Int /\ 0 \in Nat
    BY DEF Idle!IGN_MAX, Idle!DASHPOT
  <1> HIDE DEF Valve, Small, Correction, Dashpot
  <1> QED
    BY <1>1, <1>2, Zenon DEF Idle!NewIdle

LEMMA FreshVvt == Vvt!NewVvt \in Vvt!VvtType
  <1> DEFINE Duty == -1000..1000
             Integral == -400..400
             Cam == [duty : Duty, integral : Integral, error_prev : Int]
             still == [duty |-> 0, integral |-> 0, error_prev |-> 0]
  <1>1. Vvt!VvtType = [error : BOOLEAN, channel : [Vvt!VvtChannel -> Cam]]
    BY DEF Vvt!VvtType
  <1>2. 0 \in Duty /\ 0 \in Integral /\ 0 \in Int
    OBVIOUS
  <1> HIDE DEF Duty, Integral
  <1>3. still \in Cam
    BY <1>2, Zenon
  <1>4. Vvt!NewVvt = [error |-> FALSE, channel |-> [c \in Vvt!VvtChannel |-> still]]
    BY Zenon DEF Vvt!NewVvt
  <1> HIDE DEF Cam, still
  <1> QED
    BY <1>1, <1>3, <1>4, Zenon

LEMMA FreshKnock ==
    ASSUME Knock!KnockAssumption PROVE Knock!NewKnock(KnockCells) \in KnockRecord
  <1>1. 0 \in KnockRetard /\ 0 \in KnockSpan /\ 0 \in KnockLevel /\ 100 \in KnockLevel
        /\ 0 \in Nat
    BY DEF Knock!KnockAssumption, KnockRetard, KnockSpan, KnockLevel
  <1> QED
    BY <1>1, Zenon DEF Knock!NewKnock, KnockRecord

LEMMA FreshSpark ==
    ASSUME NEW s, s.s = Ign!NewIgnition PROVE SparkKept(s)
  <1>1. 0 \in Advances /\ 0 \in Dwelling /\ 0 \in Nat
    BY DEF Advances, Dwelling
  <1>2. Ign!NewIgnition \in SparkRecord
    BY <1>1, Zenon DEF Ign!NewIgnition, SparkRecord
  <1> QED
    BY <1>2 DEF SparkKept

LEMMA FreshWatch ==
    ASSUME NEW s \in Fresh("watchdog") PROVE WatchKept(s)
  <1>1. s = [w |-> [task \in 1..3 |-> Guard!NewTask], now |-> 0]
    BY DEF Fresh
  <1> QED
    BY <1>1 DEF WatchKept, Tasks, Guard!NewTask

LEMMA FreshMeasures ==
    ASSUME Guard!ProtectionAssumption
    PROVE  Measured([limit \in Guard!Limit |-> Limits[limit].level])
  BY DEF Guard!ProtectionAssumption, Measured
----------------------------------------------------------------------------
(* What the bench gives a controller is what its lemmas ask for.           *)

LEMMA LaunchGiven == ASSUME NEW in \in LaunchInputs PROVE LaunchInput(in)
  BY DEF LaunchInputs, LaunchInput

LEMMA FuelGiven == ASSUME NEW in \in FuelInputs PROVE FuelInput(in)
  <1>1. PICK p \in {<<900, 30, 0>>, <<3000, 30, 0>>, <<3000, 100, 40>>, <<7000, 160, 90>>},
             clt \in {20, 90}, lambda \in {400, 850, 1150} :
            in = [ rpm |-> p[1], map |-> p[2], tps |-> p[3], clt |-> clt, lambda |-> lambda,
                   iat |-> 30, baro |-> 100, flex |-> 20, vbatt |-> 125, dt |-> 40 ]
    BY DEF FuelInputs
  <1>2. p[1] \in Nat /\ p[1] <= 65535 /\ p[2] \in Nat /\ p[3] \in Int
    OBVIOUS
  <1> QED
    BY <1>1, <1>2 DEF FuelInput

LEMMA SparkGiven == ASSUME NEW in \in SparkInputs PROVE SparkInput(in)
  BY DEF SparkInputs, SparkInput

LEMMA ActuatorGiven == ASSUME NEW page \in ActuatorPages PROVE ActuatorPage(page)
  BY DEF ActuatorPages, ActuatorPage

LEMMA WheelGiven == ASSUME NEW page \in WheelPages PROVE WheelPage(page)
  BY DEF WheelPages, WheelPage

LEMMA CamsGiven ==
    ASSUME NEW in \in Cams
    PROVE  in.rpm \in Int /\ in.load \in Int /\ in.oil_temp \in Int /\ in.actual \in Int
  BY DEF Cams

LEMMA MeasuresGiven ==
    ASSUME Guard!ProtectionAssumption, NEW s \in Measurements PROVE Measured(s)
  <1>1. PICK high \in SUBSET Guard!Limit, d \in {0, 8} :
            s = [limit \in Guard!Limit |->
                    IF limit \in high THEN Limits[limit].level + d ELSE Limits[limit].level - d]
    BY DEF Measurements
  <1>2. \A limit \in Guard!Limit : Limits[limit].level \in Nat
    BY DEF Guard!ProtectionAssumption
  <1> QED
    BY <1>1, <1>2 DEF Measured
----------------------------------------------------------------------------
(* The calls.                                                              *)

LEMMA LaunchCall ==
    ASSUME LaunchKept(st), StepLaunch
    PROVE  LaunchKept(st') /\ Step!LaunchDemand(st.s, st'.s, st.p, st'.steady)
  <1> DEFINE a == st.s
             p == st.p
             w == st.steady
             steady == Step!Steady(w, a, p, p)
  <1>1. PICK in \in LaunchInputs :
            st' = [st EXCEPT !.s = Step!update(a, p, in), !.steady = steady]
    BY DEF StepLaunch
  <1> DEFINE after == Step!update(a, p, in)
  <1>2. st = [s |-> a, p |-> p, steady |-> w] /\ LaunchSafe(a, p, w) /\ Preset(p)
    BY DEF LaunchKept
  <1>3. LaunchSafe(a, p, steady)
    BY <1>2, LaunchSteady, Zenon
  <1>4. LaunchSafe(after, p, steady)
    BY <1>2, <1>3, LaunchGiven, LaunchUpdate, Zenon
  <1>5. steady /\ p.mode \in Step!StepModes /\ after.phase = "idle" => ~Step!Demanding(after)
    BY <1>4, LaunchIdle, Zenon
  <1>6. a \in LaunchRecord
    BY <1>2, Zenon DEF LaunchSafe
  <1>7. Step!Begins(a, after) =>
            /\ p.enabled
            /\ \/ p.mode = "rolling"
               \/ p.mode \in Step!StepModes /\ a.phase \in {"armed", "active"}
    BY <1>2, <1>6, LaunchBegins, Zenon
  <1> HIDE DEF after, steady
  <1>8. st' = [s |-> after, p |-> p, steady |-> steady]
    BY <1>1, <1>2 DEF after, steady
  <1>9. st'.s = after /\ st'.p = p /\ st'.steady = steady
    BY <1>8
  <1>10. Step!LaunchDemand(a, after, p, steady)
    BY <1>5, <1>7, Zenon DEF Step!LaunchDemand
  <1> QED
    BY <1>2, <1>4, <1>8, <1>9, <1>10, Zenon DEF LaunchKept

LEMMA PresetSwitched ==
    ASSUME LaunchKept(st), SwitchPreset
    PROVE  LaunchKept(st') /\ Step!LaunchDemand(st.s, st'.s, st.p, st'.steady)
  <1> DEFINE a == st.s
             old == st.p
             w == st.steady
  <1>1. PICK new \in LaunchPresets :
            st' = [st EXCEPT !.p = new, !.steady = Step!Steady(w, a, old, new)]
    BY DEF SwitchPreset
  <1> DEFINE steady == Step!Steady(w, a, old, new)
  <1>2. st = [s |-> a, p |-> old, steady |-> w] /\ LaunchSafe(a, old, w) /\ Preset(new)
    BY FreshPreset DEF LaunchKept
  <1>3. LaunchSafe(a, new, steady)
    BY <1>2, LaunchSteady, Zenon
  <1>4. steady /\ old.mode \in Step!StepModes /\ a.phase = "idle" => ~Step!Demanding(a)
    <2>1. steady => Step!AtRest(a) \/ w
      BY DEF Step!Steady
    <2>2. Step!AtRest(a) => ~Step!Demanding(a)
      BY DEF Step!AtRest
    <2>3. w /\ old.mode \in Step!StepModes /\ a.phase = "idle" => ~Step!Demanding(a)
      BY <1>2, LaunchIdle, Zenon
    <2> QED
      BY <2>1, <2>2, <2>3, Zenon
  <1>5. ~Step!Begins(a, a)
    BY DEF Step!Begins
  <1> HIDE DEF steady
  <1>6. st' = [s |-> a, p |-> new, steady |-> steady]
    BY <1>1, <1>2 DEF steady
  <1>7. st'.s = a /\ st'.p = new /\ st'.steady = steady
    BY <1>6
  <1>8. Step!LaunchDemand(a, a, old, steady)
    BY <1>4, <1>5, Zenon DEF Step!LaunchDemand
  <1> QED
    BY <1>2, <1>3, <1>6, <1>7, <1>8, Zenon DEF LaunchKept

LEMMA AlsCalled ==
    ASSUME AlsKept(st), NEW in, AlsCall(in),
           in.overrun \in BOOLEAN, in.corner \in BOOLEAN, in.raw \in AlsIntensity
    PROVE  /\ AlsKept(st')
           /\ ~st'.s.rolling /\ st'.s.intensity = 0 => st'.s.retard = 0 /\ st'.s.enrich = 0
  <1> DEFINE a == st.s
             c == st.c
             after == Step!als_update(a, c, in)
  <1>1. st = [s |-> a, c |-> c] /\ AlsConfigured(c) /\ AlsSafe(a, c)
    BY DEF AlsKept
  <1>2. /\ AlsSafe(after, c)
        /\ ~after.rolling /\ after.intensity = 0 => after.retard = 0 /\ after.enrich = 0
    BY <1>1, AlsUpdate, Zenon
  <1>3. st' = [st EXCEPT !.s = after]
    BY DEF AlsCall
  <1> HIDE DEF after
  <1>4. st' = [s |-> after, c |-> c]
    BY <1>1, <1>3
  <1>5. st'.s = after /\ st'.c = c
    BY <1>4
  <1> QED
    BY <1>1, <1>2, <1>4, <1>5, Zenon DEF AlsKept

LEMMA AlsAsked ==
    ASSUME AlsKept(st), AskAls \/ RestAls
    PROVE  /\ AlsKept(st')
           /\ ~st'.s.rolling /\ st'.s.intensity = 0 => st'.s.retard = 0 /\ st'.s.enrich = 0
  <1>1. 0 \in AlsIntensity /\ 3000 \in AlsIntensity /\ 10000 \in AlsIntensity
    BY DEF AlsIntensity
  <1>2. CASE AskAls
    <2> DEFINE Asked == {TRUE}
               Raw == {3000, 10000}
               Given == [overrun : Asked, corner : BOOLEAN, raw : Raw]
    <2>1. AlsRequests = Given
      BY DEF AlsRequests
    <2>2. Asked \subseteq BOOLEAN
      BY Zenon
    <2>3. Raw \subseteq AlsIntensity
      BY <1>1
    <2> HIDE DEF Asked, Raw
    <2>4. PICK in \in Given : AlsCall(in)
      BY <1>2, <2>1, Zenon DEF AskAls
    <2>5. in.overrun \in BOOLEAN /\ in.corner \in BOOLEAN /\ in.raw \in AlsIntensity
      BY <2>2, <2>3, Zenon
    <2> QED
      BY <2>4, <2>5, AlsCalled
  <1>3. CASE RestAls
    <2>1. PICK corner \in BOOLEAN :
              AlsCall([overrun |-> FALSE, corner |-> corner, raw |-> 0])
      BY <1>3 DEF RestAls
    <2> DEFINE in == [overrun |-> FALSE, corner |-> corner, raw |-> 0]
    <2>2. in.overrun \in BOOLEAN /\ in.corner \in BOOLEAN /\ in.raw \in AlsIntensity
      BY <1>1
    <2>3. AlsCall(in)
      BY <2>1
    <2> HIDE DEF in
    <2> QED
      BY <2>2, <2>3, AlsCalled
  <1> QED
    BY <1>2, <1>3

LEMMA TractionCall ==
    ASSUME st \in TractionRecord, StepTraction
    PROVE  st' \in TractionRecord /\ MoreOnlyActive(st, st')
  <1>1. PICK in \in [switch : BOOLEAN, vss : {5, 60}, slip : {0, 5, 6, 30}] :
            st' = Dbw!traction_update(st, Dbw!dry, in)
    BY DEF StepTraction
  <1>2. in.switch \in BOOLEAN /\ in.vss \in Int /\ in.slip \in Int
    OBVIOUS
  <1> QED
    BY <1>1, <1>2, TractionUpdate

LEMMA ThrottleCall ==
    ASSUME ThrottleKept(st), StepDbw
    PROVE  /\ ThrottleKept(st')
           /\ st.s.limp => st'.s.limp
           /\ st'.s.limp => st'.s.target <= Dbw!Config.limp_cap
  <1> DEFINE Given == [ tps1 : {0, 300}, tps2 : {0, 300, 351}, pedal : {0, 55, 100},
                        etb_cut : {0, 20, 120} ]
  <1>1. PICK in \in Given : st' = [st EXCEPT !.s = Dbw!update(st.s, st.profile, in)]
    BY DEF StepDbw
  <1>2. in \in [tps1 : 0..1000, tps2 : 0..1000, pedal : Int, etb_cut : Nat]
    BY SMT
  <1> HIDE DEF Given
  <1> DEFINE a == st.s
             p == st.profile
             after == Dbw!update(a, p, in)
  <1>3. st = [s |-> a, profile |-> p] /\ a \in Dbw!DbwType /\ p \in Profiles
    BY DEF ThrottleKept
  <1>4. /\ after \in Dbw!DbwType
        /\ a.limp => after.limp
        /\ after.limp => after.target <= Dbw!Config.limp_cap
    BY <1>2, <1>3, ThrottleUpdate
  <1> HIDE DEF after
  <1>5. st' = [s |-> after, profile |-> p]
    BY <1>1, <1>3 DEF after
  <1>6. st'.s = after /\ st'.profile = p
    BY <1>5
  <1> QED
    BY <1>3, <1>4, <1>5, <1>6 DEF ThrottleKept

LEMMA BoostCall ==
    ASSUME Boost!BoostAssumption, st \in Boost!BoostType, StepBoost \/ TickScramble
    PROVE  st' \in Boost!BoostType
  <1>1. CASE StepBoost
    <2>1. ASSUME NEW gear \in {0, 1, 5}, NEW rpm \in {1800, 4200}
          PROVE  Boost!set_target(st, gear, rpm) \in Boost!BoostType
      <3>1. gear \in Nat /\ rpm \in Int /\ 0 \in Int /\ 0 \in Nat
        OBVIOUS
      <3> QED
        BY <3>1, BoostCalls
    <2>2. ASSUME NEW kpa \in {110, 260}
          PROVE  Boost!update_pid(st, kpa) \in Boost!BoostType
      <3>1. kpa \in Int /\ 0 \in Int /\ 0 \in Nat
        OBVIOUS
      <3> QED
        BY <3>1, BoostCalls
    <2>3. Boost!activate_scramble(st) \in Boost!BoostType
      <3>1. 0 \in Int /\ 0 \in Nat
        OBVIOUS
      <3> QED
        BY <3>1, BoostCalls
    <2> QED
      BY <1>1, <2>1, <2>2, <2>3 DEF StepBoost
  <1>2. CASE TickScramble
    <2>1. ASSUME NEW dt \in {2, 3}
          PROVE  Boost!tick_scramble(st, dt) \in Boost!BoostType
      <3>1. dt \in Nat /\ 0 \in Int /\ 0 \in Nat
        OBVIOUS
      <3> QED
        BY <3>1, BoostCalls
    <2> QED
      BY <1>2, <2>1 DEF TickScramble
  <1> QED
    BY <1>1, <1>2
LEMMA IdleCall ==
    ASSUME st \in Idle!IdleType, StepIdle PROVE st' \in Idle!IdleType
  <1>1. PICK clt \in {10, 85}, dsg \in BOOLEAN, rpm \in {600, 880, 1500, 3000},
             tps \in {0, 3, 20} :
            st' = Idle!ign_correction(
                      Idle!update_pid([st EXCEPT !.target = Idle!target_rpm_for_clt(clt, dsg)],
                                      rpm, tps), rpm)
    BY DEF StepIdle
  <1>2. clt \in Int /\ rpm \in Int /\ tps \in Int
    OBVIOUS
  <1>3. Idle!ign_correction(
            Idle!update_pid([st EXCEPT !.target = Idle!target_rpm_for_clt(clt, dsg)],
                            rpm, tps), rpm) \in Idle!IdleType
    BY <1>2, IdleUpdate
  <1> QED
    BY <1>1, <1>3

CamsStill(s) ==
    \A c \in Vvt!VvtChannel : s.error \/ c \notin Enabled => s.channel[c].duty = 0

LEMMA CamCall ==
    ASSUME st \in Vvt!VvtType, StepVvt PROVE st' \in Vvt!VvtType /\ CamsStill(st')
  <1>1. PICK in \in Cams : st' = Vvt!update(st, in)
    BY DEF StepVvt
  <1>2. /\ Vvt!update(st, in) \in Vvt!VvtType
        /\ CamsStill(Vvt!update(st, in))
    BY CamsGiven, CamUpdate DEF CamsStill
  <1> QED
    BY <1>1, <1>2, Zenon

LEMMA KnockCall ==
    ASSUME Knock!KnockAssumption, st \in KnockRecord, StepKnock
    PROVE  st' \in KnockRecord /\ RetardOnKnock(st, st')
  <1>1. PICK c \in Channels, cell \in KnockCells, energy \in {10, 400} :
            \/ st' = Knock!fft_evaluate(st, c, cell, energy)
            \/ /\ c \in Cylinders
               /\ \E loudest \in {10, 400} : st' = Knock!soft_evaluate(st, c, energy, loudest, 50)
    BY DEF StepKnock
  <1>2. energy \in Nat /\ 50 \in Nat /\ \A loudest \in {10, 400} : loudest \in Nat
    OBVIOUS
  <1> DEFINE floor == 50
  <1>3. floor \in Nat
    OBVIOUS
  <1> HIDE DEF floor
  <1>4. /\ Knock!fft_evaluate(st, c, cell, energy) \in KnockRecord
        /\ RetardOnKnock(st, Knock!fft_evaluate(st, c, cell, energy))
    BY <1>2, FftKnock
  <1>5. ASSUME c \in Cylinders, NEW loudest \in {10, 400}
        PROVE  /\ Knock!soft_evaluate(st, c, energy, loudest, floor) \in KnockRecord
               /\ RetardOnKnock(st, Knock!soft_evaluate(st, c, energy, loudest, floor))
    BY <1>2, <1>3, <1>5, SoftKnock
  <1> QED
    BY <1>1, <1>4, <1>5 DEF floor

LEMMA ClassifierCall ==
    ASSUME Knock!ClassifierAssumption, ClassifierSafe(st), StepClassifier
    PROVE  ClassifierSafe(st')
  <1>1. CASE \E p \in {0, THRESHOLD_PROB - 1, THRESHOLD_PROB} : st' = Knock!classify(st, p)
    <2>1. PICK p \in {0, THRESHOLD_PROB - 1, THRESHOLD_PROB} : st' = Knock!classify(st, p)
      BY <1>1
    <2>2. p \in 0..100
      BY DEF Knock!ClassifierAssumption
    <2>3. ClassifierSafe(Knock!classify(st, p))
      BY <2>2, ClassifyKeeps
    <2> QED
      BY <2>1, <2>3
  <1>2. CASE \E blob \in Blobs : st' = Knock!load_weights_blob(st, blob)
    BY <1>2, LoadKeeps, Zenon
  <1> QED
    BY <1>1, <1>2 DEF StepClassifier

LEMMA FuelCall ==
    ASSUME Inj!FuelAssumption, st \in FuelRecord, StepFuel
    PROVE  st' \in FuelRecord /\ FuelDemand(st, st')
  <1>1. PICK in \in FuelInputs : st' = Inj!calculate(st, in)
    BY DEF StepFuel
  <1> QED
    BY <1>1, FuelGiven, FuelCalculated

LEMMA SparkCall ==
    ASSUME StepIgnition
    PROVE  SparkKept(st') /\ Ign!SparkNeverLeadsTable(st'.s, st'.in)
  <1>1. PICK in \in SparkInputs : st' = [s |-> Ign!calculate(st.s, in), in |-> in]
    BY DEF StepIgnition
  <1> DEFINE after == Ign!calculate(st.s, in)
  <1>2. after \in SparkRecord /\ Ign!SparkNeverLeadsTable(after, in)
    BY SparkGiven, SparkCalculated
  <1> HIDE DEF after
  <1>3. st' = [s |-> after, in |-> in]
    BY <1>1 DEF after
  <1>4. st'.s = after /\ st'.in = in
    BY <1>3
  <1> QED
    BY <1>2, <1>4 DEF SparkKept

LEMMA SensorCall ==
    ASSUME Lambda!LambdaAssumption, st \in SensorRecord, StepLambda
    PROVE  st' \in SensorRecord /\ SensorDemand(st, st')
  <1> DEFINE Pumped == {-2500, -50, 5000}
             Nernst == {0, 49, 200, 431, 470}
  <1>1. Pumped \subseteq Int /\ Nernst \subseteq Int
    OBVIOUS
  <1>2. \/ \E ip \in Pumped, mv \in Nernst : st' = Lambda!process(st, ip, mv)
        \/ st' = Lambda!reset(st)
    BY DEF StepLambda
  <1> HIDE DEF Pumped, Nernst
  <1>3. CASE \E ip \in Pumped, mv \in Nernst : st' = Lambda!process(st, ip, mv)
    <2>1. PICK ip \in Pumped, mv \in Nernst : st' = Lambda!process(st, ip, mv)
      BY <1>3
    <2>2. ip \in Int /\ mv \in Int
      BY <1>1
    <2> QED
      BY <2>1, <2>2, SensorProcess
  <1>4. CASE st' = Lambda!reset(st)
    <2>1. st' = Lambda!NewSensor
      BY <1>4 DEF Lambda!reset
    <2> QED
      BY <2>1, SensorReset DEF SensorDemand
  <1> QED
    BY <1>2, <1>3, <1>4

LEMMA TablesCall ==
    ASSUME Calib!TablesAssumption, TablesSafe(st), StepTables
    PROVE  TablesSafe(st')
  <1>1. CASE \E frame \in TableFrames : st' = Calib!write_table_frame(st, frame)
    BY <1>1, FrameWritten, Zenon
  <1>2. CASE \E id \in TableIds \cup {99}, x, y \in 0..3, value \in {7, 8} :
                 st' = Calib!WriteCell(st, id, x, y, value)
    <2>1. PICK id \in HostIds, x \in 0..3, y \in 0..3, value \in {7, 8} :
              st' = Calib!WriteCell(st, id, x, y, value)
      BY <1>2 DEF HostIds
    <2>2. x \in Nat /\ y \in Nat /\ value \in Nat
      OBVIOUS
    <2> QED
      BY <2>1, <2>2, CellWritten
  <1> QED
    BY <1>1, <1>2 DEF StepTables

LEMMA WatchCall ==
    ASSUME WatchKept(st), StepWatchdog
    PROVE  WatchKept(st')
  <1> DEFINE w == st.w
             now == st.now
  <1>1. st = [w |-> w, now |-> now] /\ w \in Tasks /\ now \in Nat
    BY DEF WatchKept
  <1> HIDE DEF w, now
  <1>2. ASSUME NEW v \in Tasks, NEW t \in Nat, st' = [w |-> v, now |-> t]
        PROVE  WatchKept(st')
    BY <1>2 DEF WatchKept
  <1>3. CASE \E task \in 1..3, deadline \in {0, 2} :
                 st' = [st EXCEPT !.w = Guard!configure_task(@, task, deadline)]
    <2>1. PICK task \in 1..3, deadline \in {0, 2} :
              st' = [st EXCEPT !.w = Guard!configure_task(st.w, task, deadline)]
      BY <1>3
    <2> DEFINE v == Guard!configure_task(w, task, deadline)
    <2>2. v \in Tasks
      BY <1>1, TaskConfigured
    <2>3. st.w = w
      BY <1>1
    <2> HIDE DEF v
    <2>4. st' = [w |-> v, now |-> now]
      BY <1>1, <2>1, <2>3 DEF v
    <2> QED
      BY <1>1, <1>2, <2>2, <2>4
  <1>4. CASE \E task \in 1..3 : st' = [st EXCEPT !.w = Guard!kick(@, task, st.now)]
    <2>1. PICK task \in 1..3 : st' = [st EXCEPT !.w = Guard!kick(st.w, task, st.now)]
      BY <1>4
    <2> DEFINE v == Guard!kick(w, task, now)
    <2>2. v \in Tasks
      BY <1>1, TaskKicked
    <2>3. st.w = w /\ st.now = now
      BY <1>1
    <2> HIDE DEF v
    <2>4. st' = [w |-> v, now |-> now]
      BY <1>1, <2>1, <2>3 DEF v
    <2> QED
      BY <1>1, <1>2, <2>2, <2>4
  <1>5. CASE st' = [st EXCEPT !.now = @ + 1]
    <2> DEFINE t == now + 1
    <2>1. t \in Nat /\ st.now = now
      BY <1>1
    <2> HIDE DEF t
    <2>2. st' = [w |-> w, now |-> t]
      BY <1>1, <1>5, <2>1 DEF t
    <2> QED
      BY <1>1, <1>2, <2>1, <2>2
  <1> QED
    BY <1>3, <1>4, <1>5 DEF StepWatchdog
----------------------------------------------------------------------------
(* The bench.                                                              *)

\* The assumptions of its parts.
LEMMA PartsAssumption ==
    /\ Tcu!TcuAssumption /\ Boost!BoostAssumption /\ Knock!KnockAssumption
    /\ Inj!FuelAssumption /\ Lambda!LambdaAssumption /\ Knock!ClassifierAssumption
    /\ Calib!TablesAssumption /\ Guard!ProtectionAssumption
  BY ControllersAssumption, Zenon DEF ControllersAssumption

\* What DemandsNeedCause says of a call that takes the controller `u` from the
\* state `s` to the state `t`, and what the shift contract asks of the bridge.
Demanded(u, s, t) ==
    /\ u = "tcu" => Shifts!ContractStep(s, t)
    /\ u = "launch" => Step!LaunchDemand(s.s, t.s, s.p, t.steady)
    /\ u = "antilag" => (~t.s.rolling /\ t.s.intensity = 0 => t.s.retard = 0 /\ t.s.enrich = 0)
    /\ u = "dbw" => /\ s.s.limp => t.s.limp
                    /\ t.s.limp => t.s.target <= Dbw!Config.limp_cap
    /\ u = "vvt" => CamsStill(t)
    /\ u = "traction" => MoreOnlyActive(s, t)
    /\ u = "knock" => RetardOnKnock(s, t)
    /\ u = "fuel" => FuelDemand(s, t)
    /\ u = "ignition" => Ign!SparkNeverLeadsTable(t.s, t.in)
    /\ u = "lambda" => SensorDemand(s, t)

LEMMA Initially == Init => BenchSafe
  <1> SUFFICES ASSUME Init PROVE BenchSafe
    OBVIOUS
  <1>0. unit \in Units /\ steps = 0 /\ st \in Fresh(unit)
    BY DEF Init
  <1>1. ASSUME unit = "tcu" PROVE TcuSafe(st)
    <2>1. st = Tcu!NewTcu
      BY <1>0, <1>1 DEF Fresh
    <2> QED
      BY <2>1, NewTcuSafe
  <1>2. ASSUME unit = "launch" PROVE LaunchKept(st)
    BY <1>0, <1>2, FreshLaunch
  <1>3. ASSUME unit = "antilag" PROVE AlsKept(st)
    BY <1>0, <1>3, FreshAls
  <1>4. ASSUME unit = "traction" PROVE st \in TractionRecord
    <2>1. st = Dbw!NewTraction
      BY <1>0, <1>4 DEF Fresh
    <2> QED
      BY <2>1, FreshTraction
  <1>5. ASSUME unit = "dbw" PROVE ThrottleKept(st)
    BY <1>0, <1>5, FreshThrottle
  <1>6. ASSUME unit = "boost" PROVE st \in Boost!BoostType
    <2>1. st = Boost!NewBoost
      BY <1>0, <1>6 DEF Fresh
    <2> QED
      BY <2>1, PartsAssumption, FreshBoost
  <1>7. ASSUME unit = "idle" PROVE st \in Idle!IdleType
    <2>1. st = Idle!NewIdle
      BY <1>0, <1>7 DEF Fresh
    <2> QED
      BY <2>1, FreshIdle
  <1>8. ASSUME unit = "vvt" PROVE st \in Vvt!VvtType
    <2>1. st = Vvt!NewVvt
      BY <1>0, <1>8 DEF Fresh
    <2> QED
      BY <2>1, FreshVvt
  <1>9. ASSUME unit = "knock" PROVE st \in KnockRecord
    <2>1. st = Knock!NewKnock(KnockCells)
      BY <1>0, <1>9 DEF Fresh
    <2> QED
      BY <2>1, PartsAssumption, FreshKnock
  <1>10. ASSUME unit = "classifier" PROVE ClassifierSafe(st)
    <2>1. st = Knock!NewClassifier
      BY <1>0, <1>10 DEF Fresh
    <2> QED
      BY <2>1, PartsAssumption, ClassifierReset
  <1>11. ASSUME unit = "fuel" PROVE st \in FuelRecord
    <2>1. st = Inj!NewFuel
      BY <1>0, <1>11 DEF Fresh
    <2> QED
      BY <2>1, PartsAssumption, FuelReset
  <1>12. ASSUME unit = "ignition" PROVE SparkKept(st)
    <2>1. st = [s |-> Ign!NewIgnition, in |-> [rpm |-> 0, load |-> 0]]
      BY <1>0, <1>12 DEF Fresh
    <2>2. st.s = Ign!NewIgnition
      BY <2>1
    <2> QED
      BY <2>2, FreshSpark
  <1>13. ASSUME unit = "lambda" PROVE st \in SensorRecord
    <2>1. st = Lambda!NewSensor
      BY <1>0, <1>13 DEF Fresh
    <2> QED
      BY <2>1, PartsAssumption, SensorReset
  <1>14. ASSUME unit = "actuators" PROVE ActuatorPage(st)
    BY <1>0, <1>14 DEF Fresh, ActuatorPage
  <1>15. ASSUME unit = "tables" PROVE TablesSafe(st)
    <2>1. st = Calib!default_table_frames
      BY <1>0, <1>15 DEF Fresh
    <2> QED
      BY <2>1, PartsAssumption, TablesDefault
  <1>16. ASSUME unit = "wheel" PROVE WheelPage(st)
    <2>1. st = Trig!DefaultPage0
      BY <1>0, <1>16 DEF Fresh
    <2>2. WheelPage(Trig!DefaultPage0)
      BY DEF WheelPage, Trig!DefaultPage0
    <2> QED
      BY <2>1, <2>2
  <1>17. ASSUME unit = "protection" PROVE Measured(st)
    <2>1. st = [limit \in Guard!Limit |-> Limits[limit].level]
      BY <1>0, <1>17 DEF Fresh
    <2> QED
      BY <2>1, PartsAssumption, FreshMeasures
  <1>18. ASSUME unit = "watchdog" PROVE WatchKept(st)
    BY <1>0, <1>18, FreshWatch
  <1>19. steps \in Nat
    BY <1>0
  <1> QED
    BY <1>0, <1>1, <1>2, <1>3, <1>4, <1>5, <1>6, <1>7, <1>8, <1>9,
       <1>10, <1>11, <1>12, <1>13, <1>14, <1>15, <1>16, <1>17, <1>18, <1>19, Zenon DEF BenchSafe, Kept

LEMMA Calls ==
    /\ steps \in Nat /\ Counted => unit' = unit /\ steps' \in Nat
    /\ steps \in Nat /\ Uncounted => unit' = unit /\ steps' \in Nat
  BY DEF Counted, Uncounted

\* A call keeps the controller, and asks for something only with cause.
LEMMA BenchCall ==
    ASSUME BenchSafe, Next
    PROVE  /\ unit' = unit /\ steps' \in Nat
           /\ Kept(unit, st') /\ Demanded(unit, st, st')
  <1>0. unit \in Units /\ steps \in Nat /\ Kept(unit, st)
    BY Zenon DEF BenchSafe
  <1>1. CASE StepTcu
    <2>1. unit = "tcu" /\ unit' = unit /\ steps' = steps + 1 /\ st' = Tcu!tick(st, steps')
      BY <1>1 DEF StepTcu, Tcu!Tick
    <2>2. steps' \in Nat
      BY <1>0, <2>1
    <2>3. TcuSafe(st)
      BY <1>0, <2>1, Zenon DEF Kept
    <2>4. TcuSafe(st') /\ Shifts!ContractStep(st, st')
      BY <2>1, <2>3, TcuTick
    <2> QED
      BY <2>1, <2>2, <2>4, Zenon DEF Kept, Demanded
  <1>2. CASE StepLaunch
    <2>1. unit = "launch" /\ unit' = unit /\ steps' \in Nat
      BY <1>0, <1>2, Calls DEF StepLaunch
    <2>2. LaunchKept(st)
      BY <1>0, <2>1, Zenon DEF Kept
    <2>3. LaunchKept(st') /\ Step!LaunchDemand(st.s, st'.s, st.p, st'.steady)
      BY <1>2, <2>2, PartsAssumption, LaunchCall, Zenon
    <2> QED
      BY <2>1, <2>3, Zenon DEF Kept, Demanded
  <1>3. CASE AskAls
    <2>1. unit = "antilag" /\ unit' = unit /\ steps' \in Nat
      BY <1>0, <1>3, Calls DEF AskAls
    <2>2. AlsKept(st)
      BY <1>0, <2>1, Zenon DEF Kept
    <2>3. AlsKept(st') /\ (~st'.s.rolling /\ st'.s.intensity = 0 => st'.s.retard = 0 /\ st'.s.enrich = 0)
      BY <1>3, <2>2, PartsAssumption, AlsAsked, Zenon
    <2> QED
      BY <2>1, <2>3, Zenon DEF Kept, Demanded
  <1>4. CASE RestAls
    <2>1. unit = "antilag" /\ unit' = unit /\ steps' \in Nat
      BY <1>0, <1>4, Calls DEF RestAls
    <2>2. AlsKept(st)
      BY <1>0, <2>1, Zenon DEF Kept
    <2>3. AlsKept(st') /\ (~st'.s.rolling /\ st'.s.intensity = 0 => st'.s.retard = 0 /\ st'.s.enrich = 0)
      BY <1>4, <2>2, PartsAssumption, AlsAsked, Zenon
    <2> QED
      BY <2>1, <2>3, Zenon DEF Kept, Demanded
  <1>5. CASE StepTraction
    <2>1. unit = "traction" /\ unit' = unit /\ steps' \in Nat
      BY <1>0, <1>5, Calls DEF StepTraction
    <2>2. st \in TractionRecord
      BY <1>0, <2>1, Zenon DEF Kept
    <2>3. st' \in TractionRecord /\ MoreOnlyActive(st, st')
      BY <1>5, <2>2, PartsAssumption, TractionCall, Zenon
    <2> QED
      BY <2>1, <2>3, Zenon DEF Kept, Demanded
  <1>6. CASE StepDbw
    <2>1. unit = "dbw" /\ unit' = unit /\ steps' \in Nat
      BY <1>0, <1>6, Calls DEF StepDbw
    <2>2. ThrottleKept(st)
      BY <1>0, <2>1, Zenon DEF Kept
    <2>3. ThrottleKept(st') /\ (st.s.limp => st'.s.limp) /\ (st'.s.limp => st'.s.target <= Dbw!Config.limp_cap)
      BY <1>6, <2>2, PartsAssumption, ThrottleCall, Zenon
    <2> QED
      BY <2>1, <2>3, Zenon DEF Kept, Demanded
  <1>7. CASE StepBoost
    <2>1. unit = "boost" /\ unit' = unit /\ steps' \in Nat
      BY <1>0, <1>7, Calls DEF StepBoost
    <2>2. st \in Boost!BoostType
      BY <1>0, <2>1, Zenon DEF Kept
    <2>3. st' \in Boost!BoostType
      BY <1>7, <2>2, PartsAssumption, BoostCall, Zenon
    <2> QED
      BY <2>1, <2>3, Zenon DEF Kept, Demanded
  <1>8. CASE TickScramble
    <2>1. unit = "boost" /\ unit' = unit /\ steps' \in Nat
      BY <1>0, <1>8, Calls DEF TickScramble
    <2>2. st \in Boost!BoostType
      BY <1>0, <2>1, Zenon DEF Kept
    <2>3. st' \in Boost!BoostType
      BY <1>8, <2>2, PartsAssumption, BoostCall, Zenon
    <2> QED
      BY <2>1, <2>3, Zenon DEF Kept, Demanded
  <1>9. CASE StepIdle
    <2>1. unit = "idle" /\ unit' = unit /\ steps' \in Nat
      BY <1>0, <1>9, Calls DEF StepIdle
    <2>2. st \in Idle!IdleType
      BY <1>0, <2>1, Zenon DEF Kept
    <2>3. st' \in Idle!IdleType
      BY <1>9, <2>2, PartsAssumption, IdleCall, Zenon
    <2> QED
      BY <2>1, <2>3, Zenon DEF Kept, Demanded
  <1>10. CASE StepVvt
    <2>1. unit = "vvt" /\ unit' = unit /\ steps' \in Nat
      BY <1>0, <1>10, Calls DEF StepVvt
    <2>2. st \in Vvt!VvtType
      BY <1>0, <2>1, Zenon DEF Kept
    <2>3. st' \in Vvt!VvtType /\ CamsStill(st')
      BY <1>10, <2>2, PartsAssumption, CamCall, Zenon
    <2> QED
      BY <2>1, <2>3, Zenon DEF Kept, Demanded
  <1>11. CASE StepKnock
    <2>1. unit = "knock" /\ unit' = unit /\ steps' \in Nat
      BY <1>0, <1>11, Calls DEF StepKnock
    <2>2. st \in KnockRecord
      BY <1>0, <2>1, Zenon DEF Kept
    <2>3. st' \in KnockRecord /\ RetardOnKnock(st, st')
      BY <1>11, <2>2, PartsAssumption, KnockCall, Zenon
    <2> QED
      BY <2>1, <2>3, Zenon DEF Kept, Demanded
  <1>12. CASE StepClassifier
    <2>1. unit = "classifier" /\ unit' = unit /\ steps' \in Nat
      BY <1>0, <1>12, Calls DEF StepClassifier
    <2>2. ClassifierSafe(st)
      BY <1>0, <2>1, Zenon DEF Kept
    <2>3. ClassifierSafe(st')
      BY <1>12, <2>2, PartsAssumption, ClassifierCall, Zenon
    <2> QED
      BY <2>1, <2>3, Zenon DEF Kept, Demanded
  <1>13. CASE StepFuel
    <2>1. unit = "fuel" /\ unit' = unit /\ steps' \in Nat
      BY <1>0, <1>13, Calls DEF StepFuel
    <2>2. st \in FuelRecord
      BY <1>0, <2>1, Zenon DEF Kept
    <2>3. st' \in FuelRecord /\ FuelDemand(st, st')
      BY <1>13, <2>2, PartsAssumption, FuelCall, Zenon
    <2> QED
      BY <2>1, <2>3, Zenon DEF Kept, Demanded
  <1>14. CASE StepIgnition
    <2>1. unit = "ignition" /\ unit' = unit /\ steps' \in Nat
      BY <1>0, <1>14, Calls DEF StepIgnition
    <2>2. SparkKept(st)
      BY <1>0, <2>1, Zenon DEF Kept
    <2>3. SparkKept(st') /\ Ign!SparkNeverLeadsTable(st'.s, st'.in)
      BY <1>14, <2>2, PartsAssumption, SparkCall, Zenon
    <2> QED
      BY <2>1, <2>3, Zenon DEF Kept, Demanded
  <1>15. CASE StepLambda
    <2>1. unit = "lambda" /\ unit' = unit /\ steps' \in Nat
      BY <1>0, <1>15, Calls DEF StepLambda
    <2>2. st \in SensorRecord
      BY <1>0, <2>1, Zenon DEF Kept
    <2>3. st' \in SensorRecord /\ SensorDemand(st, st')
      BY <1>15, <2>2, PartsAssumption, SensorCall, Zenon
    <2> QED
      BY <2>1, <2>3, Zenon DEF Kept, Demanded
  <1>16. CASE StagePage
    <2>1. unit \in {"actuators", "wheel"} /\ unit' = unit /\ steps' \in Nat
      BY <1>0, <1>16, Calls DEF StagePage
    <2>2. unit = "actuators" => ActuatorPage(st')
      BY <1>16, ActuatorGiven DEF StagePage
    <2>3. unit = "wheel" => WheelPage(st')
      BY <1>16, WheelGiven DEF StagePage
    <2> QED
      BY <2>1, <2>2, <2>3, Zenon DEF Kept, Demanded
  <1>17. CASE StepTables
    <2>1. unit = "tables" /\ unit' = unit /\ steps' \in Nat
      BY <1>0, <1>17, Calls DEF StepTables
    <2>2. TablesSafe(st)
      BY <1>0, <2>1, Zenon DEF Kept
    <2>3. TablesSafe(st')
      BY <1>17, <2>2, PartsAssumption, TablesCall, Zenon
    <2> QED
      BY <2>1, <2>3, Zenon DEF Kept, Demanded
  <1>18. CASE Measure
    <2>1. unit = "protection" /\ unit' = unit /\ steps' \in Nat /\ st' \in Measurements
      BY <1>0, <1>18, Calls DEF Measure
    <2>2. Measured(st')
      BY <2>1, MeasuresGiven, PartsAssumption
    <2> QED
      BY <2>1, <2>2, Zenon DEF Kept, Demanded
  <1>19. CASE StepWatchdog
    <2>1. unit = "watchdog" /\ unit' = unit /\ steps' \in Nat
      BY <1>0, <1>19, Calls DEF StepWatchdog
    <2>2. WatchKept(st)
      BY <1>0, <2>1, Zenon DEF Kept
    <2>3. WatchKept(st')
      BY <1>19, <2>2, PartsAssumption, WatchCall, Zenon
    <2> QED
      BY <2>1, <2>3, Zenon DEF Kept, Demanded
  <1>20. CASE SwitchPreset
    <2>1. unit = "launch" /\ unit' = unit /\ steps' \in Nat
      BY <1>0, <1>20, Calls DEF SwitchPreset
    <2>2. LaunchKept(st)
      BY <1>0, <2>1, Zenon DEF Kept
    <2>3. LaunchKept(st') /\ Step!LaunchDemand(st.s, st'.s, st.p, st'.steady)
      BY <1>20, <2>2, PresetSwitched, Zenon
    <2> QED
      BY <2>1, <2>3, Zenon DEF Kept, Demanded
  <1> QED
    BY <1>1, <1>2, <1>3, <1>4, <1>5, <1>6, <1>7, <1>8, <1>9,
       <1>10, <1>11, <1>12, <1>13, <1>14, <1>15, <1>16, <1>17, <1>18, <1>19, <1>20, Zenon DEF Next
LEMMA SafeTyped == BenchSafe => BenchTypeOK
  <1> SUFFICES ASSUME BenchSafe PROVE BenchTypeOK
    OBVIOUS
  <1>1. steps \in Nat /\ Kept(unit, st)
    BY Zenon DEF BenchSafe
  <1>2. unit = "tcu" => st \in Tcu!TcuType
    BY <1>1, SameBridge, Zenon DEF Kept, TcuSafe, Shifts!TcuSafe
  <1>3. unit = "launch" => st.s \in Step!LaunchType
    BY <1>1, LaunchState, Zenon DEF Kept, LaunchKept, LaunchSafe
  <1>4. unit = "antilag" => st.s \in Step!AlsType /\ Step!AlsBounded(st.s, st.c)
    BY <1>1, AlsState, Zenon DEF Kept, AlsKept, AlsSafe
  <1>5. unit = "traction" => st \in Dbw!TractionType(Dbw!dry)
    BY <1>1, TractionState, Zenon DEF Kept
  <1>6. unit = "dbw" => st.s \in Dbw!DbwType
    BY <1>1, Zenon DEF Kept, ThrottleKept
  <1>7. /\ unit = "boost" => st \in Boost!BoostType
        /\ unit = "idle" => st \in Idle!IdleType
        /\ unit = "vvt" => st \in Vvt!VvtType
    BY <1>1, Zenon DEF Kept
  <1>8. unit = "knock" => st \in Knock!KnockType(KnockCells)
    BY <1>1, KnockState, Zenon DEF Kept
  <1>9. unit = "classifier" => st \in Knock!ClassifierType
    BY <1>1, Zenon DEF Kept, ClassifierSafe
  <1>10. unit = "fuel" => st \in Inj!FuelType
    BY <1>1, FuelState, Zenon DEF Kept
  <1>11. unit = "ignition" => st.s \in Ign!IgnitionType
    BY <1>1, SparkState, Zenon DEF Kept, SparkKept
  <1>12. unit = "lambda" => st \in Lambda!SensorType
    BY <1>1, SensorState, Zenon DEF Kept
  <1> QED
    BY <1>1, <1>2, <1>3, <1>4, <1>5, <1>6, <1>7, <1>8, <1>9, <1>10, <1>11, <1>12
       DEF BenchTypeOK

LEMMA SafeBounded == BenchSafe => DerivedInBounds
  <1> SUFFICES ASSUME BenchSafe PROVE DerivedInBounds
    OBVIOUS
  <1>1. Kept(unit, st)
    BY Zenon DEF BenchSafe
  <1> DEFINE Dwelt == \A scale \in {65, 100, 170}, coolant \in {-10, 90} :
                          Calib!DwellBounded(Calib!parse_page0_actuator_config(st),
                              Calib!dwell_for_conditions(
                                  Calib!parse_page0_actuator_config(st), scale, coolant))
             Placed == /\ Calib!CellsInPlace(st)
                       /\ \A id \in TableIds : st[id].columns = Columns[id] /\ st[id].rows = Rows[id]
             InTime == Guard!check(st.w, st.now) =>
                           Guard!overdue_task(st.w, st.now) \notin
                               Guard!overdue(Guard!kick(st.w, Guard!overdue_task(st.w, st.now), st.now),
                                             st.now)
  <1>2. ASSUME unit = "actuators" PROVE Dwelt
    <2> DEFINE config == Calib!parse_page0_actuator_config(st)
    <2>1. BoundsOfConfig(config)
      BY <1>1, <1>2, ActuatorsParsed, Zenon DEF Kept
    <2> HIDE DEF config
    <2>2. ASSUME NEW scale \in {65, 100, 170}, NEW coolant \in {-10, 90}
          PROVE  Calib!DwellBounded(config, Calib!dwell_for_conditions(config, scale, coolant))
      <3>1. coolant \in Int
        OBVIOUS
      <3> QED
        BY <2>1, <3>1, DwellApplied
    <2> QED
      BY <2>2 DEF config
  <1>3. ASSUME unit = "wheel" PROVE WheelLogConsistent(st)
    BY <1>1, <1>3, WheelConsistent, Zenon DEF Kept
  <1>4. ASSUME unit = "tables" PROVE Placed
    BY <1>1, <1>4, PartsAssumption, TablesInPlace, Zenon DEF Kept, TablesSafe
  <1>5. ASSUME unit = "classifier" PROVE WindowsSliceable /\ st.weights # "broken"
    BY <1>1, <1>5, Windows, Zenon DEF Kept, ClassifierSafe
  <1>6. ASSUME unit = "protection" PROVE SevereEnough(st)
    BY <1>1, <1>6, PartsAssumption, Severe, Zenon DEF Kept, Measured
  <1>7. ASSUME unit = "watchdog" PROVE InTime
    BY <1>1, <1>7, KickedInTime, Zenon DEF Kept, WatchKept
  <1>8. DerivedInBounds = CASE unit = "actuators" -> Dwelt
                            [] unit = "wheel" -> WheelLogConsistent(st)
                            [] unit = "tables" -> Placed
                            [] unit = "classifier" -> WindowsSliceable /\ st.weights # "broken"
                            [] unit = "protection" -> SevereEnough(st)
                            [] unit = "watchdog" -> InTime
                            [] OTHER -> TRUE
    BY DEF DerivedInBounds
  <1> HIDE DEF Dwelt, Placed, InTime
  <1> QED
    BY <1>2, <1>3, <1>4, <1>5, <1>6, <1>7, <1>8

\* A controller on the bench keeps its range and what its next call needs,
\* whatever the calls before it (the update and evaluate functions).
THEOREM BenchStaysSafe == Spec => []BenchSafe
  <1>1. BenchSafe /\ [Next]_vars => BenchSafe'
    <2> SUFFICES ASSUME BenchSafe, [Next]_vars PROVE BenchSafe'
      OBVIOUS
    <2>1. CASE Next
      <3>1. unit' = unit /\ steps' \in Nat /\ Kept(unit, st') /\ unit \in Units
        BY <2>1, BenchCall, Zenon DEF BenchSafe
      <3> QED
        BY <3>1, Zenon DEF BenchSafe, Units
    <2>2. CASE UNCHANGED vars
      BY <2>2 DEF vars, BenchSafe
    <2> QED
      BY <2>1, <2>2
  <1> QED
    BY <1>1, Initially, PTL DEF Spec

\* Every controller keeps its state in range (the constructors, the update and
\* the evaluate functions of the controllers).
THEOREM ControllersTyped == Spec => []BenchTypeOK
  BY BenchStaysSafe, SafeTyped, PTL

\* What is derived from staged pages, tables, weights and measurements stays
\* inside what it indexes (parse_page0_actuator_config, WriteCell,
\* tooth_intervals_us, extract_features, load_weights_blob, evaluate).
THEOREM DerivedStaysInBounds == Spec => []DerivedInBounds
  BY BenchStaysSafe, SafeBounded, PTL
\* A controller asks for something only while its cause lasts: from arming to
\* release while the presets keep one mode, and whatever presets are edited or
\* switched nothing new unless enabled and armed; with oil pressure, while it
\* intervenes, after a knock of that cylinder; limp mode is never left, overrun leaves trims and film alone, and
\* a running engine's spark never leads the table (the update and evaluate
\* functions of the controllers).
THEOREM ControllersNeedCause == Spec => DemandsNeedCause
  <1> DEFINE Cause ==
        CASE unit = "launch" -> Step!LaunchDemand(st.s, st'.s, st.p, st'.steady)
          [] unit = "antilag" ->
                ~st'.s.rolling /\ st'.s.intensity = 0 => st'.s.retard = 0 /\ st'.s.enrich = 0
          [] unit = "dbw" ->
                /\ st.s.limp => st'.s.limp
                /\ st'.s.limp => st'.s.target <= Dbw!Config.limp_cap
          [] unit = "vvt" ->
                \A c \in Vvt!VvtChannel :
                    st'.error \/ c \notin Enabled => st'.channel[c].duty = 0
          [] unit = "traction" ->
                st'.active \/ (st'.retard <= st.retard /\ st'.etb_cut <= st.etb_cut)
          [] unit = "knock" ->
                \A c \in Cylinders :
                    Knock!total_retard(st', c) > Knock!total_retard(st, c) => st'.event[c]
          [] unit = "fuel" ->
                /\ st'.dfco => /\ st'.width = 0 /\ st'.duty = 0
                               /\ <<st'.stft, st'.ltft, st'.film>> = <<st.stft, st.ltft, st.film>>
                /\ st'.ltft # st.ltft => Inj!learns(st'.stft)
          [] unit = "ignition" -> Ign!SparkNeverLeadsTable(st'.s, st'.in)
          [] unit = "lambda" -> st'.lambda # st.lambda => st'.ready \/ st' = Lambda!NewSensor
          [] OTHER -> TRUE
  <1>1. BenchSafe /\ [Next]_vars => [Cause]_vars
    <2> SUFFICES ASSUME BenchSafe, Next PROVE Cause
      BY Zenon
    <2>1. Demanded(unit, st, st')
      BY BenchCall
    <2> QED
      BY <2>1 DEF Demanded, CamsStill, MoreOnlyActive, RetardOnKnock, FuelDemand, SensorDemand
  <1>2. Spec => [][Cause]_vars
    BY <1>1, BenchStaysSafe, PTL DEF Spec
  <1> QED
    BY <1>2 DEF DemandsNeedCause

\* The counters and the outcome the bridge shows move as ShiftContract says,
\* for every period and limit (ExternalTcuRuntime::tick).
THEOREM BridgeKeepsContract == Spec => ImplementsShiftContract
  <1>1. Init => Shift!Init
    <2> SUFFICES ASSUME Init PROVE Shift!Init
      OBVIOUS
    <2>1. unit \in Units /\ st \in Fresh(unit)
      BY DEF Init
    <2>2. CASE unit = "tcu"
      <3>1. st = Tcu!NewTcu
        BY <2>1, <2>2 DEF Fresh
      <3> QED
        BY <2>2, <3>1 DEF Shift!Init, Tcu!NewTcu, Tcu!Phase
    <2>3. CASE unit # "tcu"
      BY <2>3 DEF Shift!Init
    <2> QED
      BY <2>2, <2>3
  <1>2. BenchSafe /\ [Next]_vars => [Shift!Next]_(Shift!contract)
    <2> SUFFICES ASSUME BenchSafe, [Next]_vars PROVE [Shift!Next]_(Shift!contract)
      OBVIOUS
    <2>1. CASE UNCHANGED vars
      BY <2>1 DEF vars, Shift!contract
    <2>2. CASE Next /\ unit # "tcu"
      <3>1. unit' = unit
        BY <2>2, BenchCall
      <3> QED
        BY <2>2, <3>1 DEF Shift!contract
    <2>3. CASE Next /\ unit = "tcu"
      <3>1. unit' = unit /\ Demanded(unit, st, st')
        BY <2>3, BenchCall
      <3>2. Shifts!ContractStep(st, st')
        BY <2>3, <3>1, Zenon DEF Demanded
      <3>3. st \in Shifts!TcuType
        BY <2>3, Zenon DEF BenchSafe, Kept, TcuSafe, Shifts!TcuSafe
      <3>4. \A t : Shifts!Phase(t) = Tcu!Phase(t)
        BY DEF Shifts!Phase, Tcu!Phase
      <3>5. Tcu!Phase(st) \in {"idle", "pending", "completed", "failed"}
        BY <3>3, <3>4, Shifts!PhaseOf
      <3> QED
        BY <2>3, <3>1, <3>2, <3>4, <3>5
           DEF Shifts!ContractStep, Shifts!Requested, Shifts!Outcome, Shifts!Unchanged,
               Shift!contract, Shift!Next, Shift!Request, Shift!Complete, Shift!TimeOut,
               Shift!Fault, Shift!Release, Shift!Settled
    <2> QED
      BY <2>1, <2>2, <2>3
  <1> QED
    BY <1>1, <1>2, BenchStaysSafe, PTL DEF Spec, ImplementsShiftContract, Shift!Spec
==============================================================================
