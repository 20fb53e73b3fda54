------------------------------- MODULE Curves -------------------------------
(***************************************************************************)
(* What the controllers of the engine share: bounds, the interpolation     *)
(* between breakpoints each of them spells out, and the PID step with a    *)
(* bounded integral.  Floating point is replaced by integers in a unit     *)
(* fine enough for the comparisons a controller makes; gains are products  *)
(* of the code's gain and the period of one update.  The 48 x 48 tables of *)
(* volumetric efficiency and spark, the 16 x 16 axes of the long-term trim *)
(* and the bilinear lookup of fuel.rs and ignition.rs: cells are           *)
(* hundredths of a percent or of a degree, a position between two          *)
(* breakpoints is a fraction in thousandths.                               *)
(***************************************************************************)
EXTENDS Integers, Sequences

Lesser(a, b) == IF a <= b THEN a ELSE b
Larger(a, b) == IF a >= b THEN a ELSE b
Clamp(x, low, high) == IF x < low THEN low ELSE IF x > high THEN high ELSE x
Abs(x) == IF x < 0 THEN -x ELSE x

\* The value at `x` of the curve through (axis[i], row[i]), flat outside it.
Interpolate(axis, row, x) ==
    LET last == Len(axis)
    IN  IF x <= axis[1] THEN row[1]
        ELSE IF x >= axis[last] THEN row[last]
        ELSE LET i == CHOOSE k \in 1..(last - 1) : axis[k] <= x /\ x < axis[k + 1]
             IN  row[i] + ((row[i + 1] - row[i]) * (x - axis[i])) \div (axis[i + 1] - axis[i])

Scaled(row, by) == [i \in DOMAIN row |-> by * row[i]]

\* One step of a PID: its new integral and its unbounded output.
PidStep(gains, integral, error_prev, error) ==
    LET sum == Clamp(integral + gains.i * error, -gains.integral_limit, gains.integral_limit)
    IN  [integral |-> sum,
         output |-> gains.p * error + sum + gains.d * (error - error_prev)]

----------------------------------------------------------------------------
(* Tables of the engine *)

TABLE_SIZE == 48
LTFT_SIZE == 16

\* 500 to 2000 by 100, to 8000 by 200, then 8500 and 9000 rpm.
RpmAxis48 == [i \in 1..TABLE_SIZE |->
                IF i <= 16 THEN 400 + 100 * i
                ELSE IF i <= 46 THEN 2000 + 200 * (i - 16) ELSE 8000 + 500 * (i - 46)]

\* 20 to 200 by 5, then to 310 by 10 kPa.
LoadAxis48 == [i \in 1..TABLE_SIZE |-> IF i <= 37 THEN 15 + 5 * i ELSE 200 + 10 * (i - 37)]

LtftRpmAxis == [i \in 1..LTFT_SIZE |-> 500 * i]
LtftLoadAxis == [i \in 1..LTFT_SIZE |-> Lesser(20 * i, 310)]

Norm(i) == (1000 * (i - 1)) \div (TABLE_SIZE - 1)
Squared(x, centre) == ((x - centre) * (x - centre)) \div 1000

VeCell(r, l) ==
    LET rpm_factor == 1000 - Squared(Norm(r), 700) \div 2
        load_factor == 500 + Norm(l) \div 2
    IN  Clamp(6500 + (25 * rpm_factor * load_factor) \div 10000, 4000, 10000)

IgnitionCell(r, l) ==
    LET rpm_factor == 1000 - (5 * Squared(Norm(r), 400)) \div 2
    IN  Clamp(1500 + (2 * (1000 - Norm(l)) * rpm_factor) \div 1000, 500, 4000)

\* The breakpoints around a value and its place between them; a value off
\* either end sits on the last breakpoint.
axis_index(axis, value) ==
    LET n == Len(axis)
    IN  IF value <= axis[1] THEN [low |-> 1, high |-> 1, frac |-> 0]
        ELSE IF value >= axis[n] THEN [low |-> n, high |-> n, frac |-> 0]
        ELSE LET i == CHOOSE k \in 1..(n - 1) : axis[k] <= value /\ value < axis[k + 1]
             IN  [low |-> i, high |-> i + 1,
                  frac |-> (1000 * (value - axis[i])) \div (axis[i + 1] - axis[i])]

Between(a, b, frac) == a + ((b - a) * frac) \div 1000

bilinear(cell(_, _), r, l) ==
    Between(Between(cell(r.low, l.low), cell(r.high, l.low), r.frac),
            Between(cell(r.low, l.high), cell(r.high, l.high), r.frac), l.frac)

\* VeTable::interpolate and IgnitionTable::interpolate.
ve_interpolate(rpm, map) ==
    bilinear(VeCell, axis_index(RpmAxis48, rpm), axis_index(LoadAxis48, map))
ignition_interpolate(rpm, load) ==
    bilinear(IgnitionCell, axis_index(RpmAxis48, rpm), axis_index(LoadAxis48, load))

Corners(cell(_, _), r, l) == {cell(i, j) : i \in {r.low, r.high}, j \in {l.low, l.high}}

\* A looked-up value stays within the cells around it.
LookupWithinCorners(cell(_, _), value, rpm, load) ==
    LET around == Corners(cell, axis_index(RpmAxis48, rpm), axis_index(LoadAxis48, load))
    IN  (\E c \in around : c <= value) /\ (\E c \in around : value <= c)
=============================================================================
