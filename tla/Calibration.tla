----------------------------- MODULE Calibration -----------------------------
(***************************************************************************)
(* The calibration the host stages (transport.rs).  ActuatorRuntimeConfig: *)
(* what the live frame makes of the injector and dwell fields of page 0,   *)
(* whatever bytes are there; times are microseconds, voltages tenths of a  *)
(* volt, scales hundredths.  The tuning tables: ReadTable, WriteTable and  *)
(* WriteCell; a table has its axes and its cells row by row, and the host  *)
(* may replace the values of a table, never its shape.                     *)
(***************************************************************************)
EXTENDS Curves

CONSTANTS TableIds,     \* the tables of the directory
          Columns, Rows \* x_count and y_count of each

TablesAssumption ==
    /\ Columns \in [TableIds -> Nat \ {0}]
    /\ Rows \in [TableIds -> Nat \ {0}]

----------------------------------------------------------------------------
(* Actuator settings of page 0 *)

DWELL_LOW == 500
DWELL_HIGH == 10000
DWELL_GAP == 100
DEADTIME_LOW == 50
DEADTIME_HIGH == 8000

DefaultActuator ==
    [ cylinders |-> 4, flow |-> 440, deadtime |-> 900, table |-> FALSE,
      fixed |-> 3200, min |-> 800, max |-> 5000 ]

BoundDwell(us) == Clamp(us, DWELL_LOW, DWELL_HIGH)

\* Slip: bounds staged the wrong way round stay that way round.
UnorderedBounds(low, high) == [min |-> low, max |-> high]

\* The two bounds in order and apart: by a tenth of a millisecond, or by what
\* is left of it below the upper limit.
order_bounds(low, high) ==
    LET min == Lesser(low, high)
        max == Larger(low, high)
        raised == BoundDwell(min + DWELL_GAP)
    IN  IF max - min >= DWELL_GAP THEN [min |-> min, max |-> max]
        ELSE IF raised > min THEN [min |-> min, max |-> raised]
        ELSE [min |-> Larger(raised - DWELL_GAP, DWELL_LOW), max |-> raised]

\* `page` is the fields of page 0; `valid` its magic, version and length.
parse_page0_actuator_config(page) ==
    IF ~page.valid THEN DefaultActuator
    ELSE LET bounds == order_bounds(BoundDwell(page.min), BoundDwell(page.max))
         IN  [ cylinders |-> IF page.cylinders = 0 THEN 4 ELSE Lesser(page.cylinders, 16),
               flow |-> IF page.flow >= 50 THEN page.flow ELSE DefaultActuator.flow,
               deadtime |-> IF page.deadtime > 0
                            THEN Clamp(page.deadtime, DEADTIME_LOW, DEADTIME_HIGH)
                            ELSE DefaultActuator.deadtime,
               table |-> page.mode = 1,
               fixed |-> Clamp(BoundDwell(page.fixed), bounds.min, bounds.max),
               min |-> bounds.min, max |-> bounds.max ]

\* Six microseconds a tenth of a volt from 14 V, a quarter percent a degree
\* from 20 degrees.
injector_deadtime_for_conditions(deadtime, vbatt, fuel_temp) ==
    LET voltage == 6 * Clamp(140 - vbatt, -60, 60)
        scale == Clamp(10000 + 25 * Clamp(20 - fuel_temp, -60, 60), 8500, 12000)
    IN  Clamp((Larger(deadtime + voltage, 10) * scale) \div 10000, DEADTIME_LOW, DEADTIME_HIGH)

\* The power law in the battery voltage is a scale between 0.65 and 1.7.
dwell_for_conditions(config, scale, coolant) ==
    LET bias == IF coolant < 40 THEN 10 * Lesser(40 - coolant, 40) ELSE 0
        requested == (config.fixed * scale) \div 100 + bias
    IN  [ requested |-> requested,
          bounded |-> BoundDwell(Clamp(requested, config.min, config.max)) ]

----------------------------------------------------------------------------
\* f32::clamp panics on bounds out of order: the bounds of whatever was staged
\* are ordered and hold the fixed dwell, and the dwell applied is between them.
DwellBounded(config, dwell) ==
    /\ config.min <= config.fixed /\ config.fixed <= config.max
    /\ config.min < config.max
    /\ dwell.bounded \in config.min..config.max
    /\ config.cylinders \in 1..16

----------------------------------------------------------------------------
(* Tables *)

Frame(id, columns, rows, x_bins, y_bins, cells) ==
    [ id |-> id, columns |-> columns, rows |-> rows,
      x_bins |-> x_bins, y_bins |-> y_bins, cells |-> cells ]

Zeros(n) == [i \in 1..n |-> 0]

default_table_frames ==
    [ id \in TableIds |-> Frame(id, Columns[id], Rows[id], Zeros(Columns[id]), Zeros(Rows[id]),
                                Zeros(Columns[id] * Rows[id])) ]

SameShape(current, incoming) ==
    /\ incoming.columns = current.columns /\ incoming.rows = current.rows
    /\ Len(incoming.x_bins) = Len(current.x_bins)
    /\ Len(incoming.y_bins) = Len(current.y_bins)
    /\ Len(incoming.cells) = Len(current.cells)

write_table_frame(tables, incoming) ==
    IF incoming.id \in TableIds /\ SameShape(tables[incoming.id], incoming)
    THEN [tables EXCEPT ![incoming.id] = incoming] ELSE tables

\* The place of a cell in the row-by-row list, counted from one.
Offset(table, x, y) == y * table.columns + x + 1

WriteCell(tables, id, x, y, value) ==
    IF id \in TableIds /\ x < tables[id].columns /\ y < tables[id].rows
    THEN [tables EXCEPT ![id].cells[Offset(tables[id], x, y)] = value] ELSE tables

ReadTable(tables, id) == IF id \in TableIds THEN {tables[id]} ELSE {}

----------------------------------------------------------------------------
\* Every cell the guard of WriteCell lets through is in the list it indexes,
\* and no two cells share a place.
CellsInPlace(tables) ==
    \A id \in TableIds :
        LET t == tables[id]
            places == (0..(t.columns - 1)) \X (0..(t.rows - 1))
        IN  /\ \A p \in places : Offset(t, p[1], p[2]) \in DOMAIN t.cells
            /\ \A p, q \in places :
                   Offset(t, p[1], p[2]) = Offset(t, q[1], q[2]) => p = q
==============================================================================
