------------------------------ MODULE Wideband ------------------------------
(***************************************************************************)
(* WidebandRuntime (wideband.rs): which lambda source a frame reports, from*)
(* the heater warm-up and the held faults of the two integrated channels.  *)
(* The lambda values themselves are a ripple over one value per source.    *)
(***************************************************************************)
EXTENDS Integers

CONSTANTS STEP,                            \* 2: centiseconds per tick
          HEATER_WARMUP, PRIMARY_FAULT_HOLD, SECONDARY_FAULT_HOLD,
          PRIMARY_PERIOD, SECONDARY_PERIOD,  \* 220 and 360 samples
          EXTERNAL_PERIOD, EXTERNAL_WINDOW

WidebandAssumption ==
    /\ {PRIMARY_PERIOD, SECONDARY_PERIOD, EXTERNAL_PERIOD, STEP} \subseteq Nat \ {0}
    /\ {HEATER_WARMUP, PRIMARY_FAULT_HOLD, SECONDARY_FAULT_HOLD,
        EXTERNAL_WINDOW} \subseteq Nat

Down(count) == IF count > STEP THEN count - STEP ELSE 0

NewWideband == [warmup |-> HEATER_WARMUP, primary |-> 0, secondary |-> 0]

heater_ready(w) == w.warmup = 0

\* A fault window opens on its sample and is held from then on, counted down
\* in the tick that opens it too.
held(count, hold, opens) == Down(IF opens THEN hold ELSE count)

tick(w, n, running) ==
    IF ~running THEN NewWideband
    ELSE LET warmup == Down(w.warmup)
         IN  [ warmup |-> warmup,
               primary |-> held(w.primary, PRIMARY_FAULT_HOLD,
                                warmup = 0 /\ n % PRIMARY_PERIOD = 0),
               secondary |-> held(w.secondary, SECONDARY_FAULT_HOLD,
                                  warmup = 0 /\ n % SECONDARY_PERIOD = 0) ]

trusted(w) == heater_ready(w) /\ w.primary = 0 /\ w.secondary = 0

\* WidebandSample.source after the tick of sample n.
source(w, n, running) ==
    IF ~running THEN "unknown"
    ELSE IF ~trusted(w) THEN "analog"
    ELSE IF n % EXTERNAL_PERIOD < EXTERNAL_WINDOW THEN "external"
    ELSE "integrated"

WidebandType == [warmup : Nat, primary : Nat, secondary : Nat]
=============================================================================
