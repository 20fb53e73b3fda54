---------------------------- MODULE Controllers ----------------------------
(***************************************************************************)
(* The engine controllers side by side.  No controller of this crate calls *)
(* another and the packet handlers call none of them, so each is exercised *)
(* on its own, with the inputs on both sides of its thresholds: `unit` is  *)
(* the controller, `st` its state, `steps` the calls made so far.  The     *)
(* derivations from staged pages (trigger wheel, actuator bounds), the     *)
(* tuning tables and the protection limits are exercised the same way.     *)
(***************************************************************************)
EXTENDS Integers, Sequences, FiniteSets, TLC

CONSTANTS SCRAMBLE_DURATION, OVERBOOST,
          Enabled,
          Channels, Cylinders, RETARD_STEP, RETARD_MAX, RECOVERY, FKC_MAX, FKC_RECOVERY,
          THRESHOLD, LEARN_WEIGHT, DamEnabled, LearnEnabled,
          Fuel, LEARN, PW_SCALE, LtftCells,
          ERROR_LIMIT, ERROR_MAX,
          THRESHOLD_PROB, KNOCKS_MOD,
          TableIds, Columns, Rows,
          LOSS_PERIOD, Limits, NEVER_TRIPS
CONSTANTS OFFLINE_PERIOD, OFFLINE_WINDOW, RX_STALE_PERIOD, RX_STALE_WINDOW,
          TX_STALE_PERIOD, TX_STALE_WINDOW, REQUEST_PERIOD, REQUEST_STEP,
          DEFAULT_TIMER, STALE_REQUEST, TIMEOUT_REQUEST, RESULT_HOLD, COUNTER_MOD,
          MAX_SAMPLES
CONSTANTS MAX_STEPS      \* bound: unit -> calls considered, of the counted kind

VARIABLES unit, st, steps

vars == <<unit, st, steps>>

Tcu == INSTANCE ExternalTcu WITH tcu <- st, samples <- steps
Step == INSTANCE Launch
Dbw == INSTANCE DriveByWire
Boost == INSTANCE BoostControl
Idle == INSTANCE IdleControl
Vvt == INSTANCE VvtControl
Knock == INSTANCE KnockControl
Inj == INSTANCE FuelControl
Ign == INSTANCE IgnitionControl
Lambda == INSTANCE LambdaSensor
Calib == INSTANCE Calibration
Trig == INSTANCE TriggerRuntime
Guard == INSTANCE Protection

ASSUME ControllersAssumption ==
    /\ Tcu!TcuAssumption /\ Boost!BoostAssumption /\ Vvt!VvtAssumption
    /\ Knock!KnockAssumption
    /\ Inj!FuelAssumption /\ Lambda!LambdaAssumption /\ Knock!ClassifierAssumption
    /\ Calib!TablesAssumption /\ Trig!LossPeriodAssumption /\ Guard!ProtectionAssumption

Units == { "tcu", "launch", "antilag", "traction", "dbw", "boost", "idle", "vvt",
           "knock", "classifier", "fuel", "ignition", "lambda", "actuators",
           "tables", "wheel", "protection", "watchdog" }

ASSUME BoundAssumption == MAX_STEPS \in [Units -> Nat]

Counted == steps < MAX_STEPS[unit] /\ steps' = steps + 1 /\ UNCHANGED unit
Uncounted == UNCHANGED <<unit, steps>>

----------------------------------------------------------------------------
(* The inputs of each controller.                                          *)

LaunchPreset(on, mode, fuel) ==
    [Step!preset_1 EXCEPT !.enabled = on, !.mode = mode, !.fuel_pct = fuel, !.slip_target = 50]

\* A preset of every mode, with and without a fuel cut, and the same disabled.
LaunchPresets ==
    { LaunchPreset(on, mode, fuel) : on \in BOOLEAN, mode \in Step!Modes, fuel \in {0, 40} }

\* Slip on both sides of the target and on it.
LaunchInputs ==
    [clutch : BOOLEAN, button : BOOLEAN, rpm : {3000, 4500, 6000}, vss : {0, 15, 30},
     slip : {0, 50, 100}]

AlsConfig(mode) == [mode |-> mode, max_retard |-> 25, max_enrich |-> 10,
                    rolling |-> TRUE, ral_retard |-> 8]

AlsRequests == [overrun : {TRUE}, corner : BOOLEAN, raw : {3000, 10000}]

\* The cell an engine runs in, and the one next to it.
KnockCells == {Knock!Cell(3000, 100), Knock!Cell(3600, 100)}

FuelInputs ==
    { [ rpm |-> p[1], map |-> p[2], tps |-> p[3], clt |-> clt, lambda |-> lambda,
        iat |-> 30, baro |-> 100, flex |-> 20, vbatt |-> 125, dt |-> 40 ] :
        p \in {<<900, 30, 0>>, <<3000, 30, 0>>, <<3000, 100, 40>>, <<7000, 160, 90>>},
        clt \in {20, 90}, lambda \in {400, 850, 1150} }

SparkInputs ==
    [ rpm : {200, 400, 850, 3100, 9500}, load : {10, 47, 100, 315}, clt : {0, 50, 90},
      iat : {20, 90}, vbatt : {75, 126, 170}, knock : {0, 450}, idle : {-500, 0, 500},
      flat_shift : BOOLEAN ]

ActuatorPages ==
    [ valid : BOOLEAN, cylinders : {0, 6, 40}, flow : {20, 550}, deadtime : {0, 9000},
      mode : {0, 1}, fixed : {0, 3000, 65535}, min : {0, 480, 9970, 65535},
      max : {0, 510, 560, 9990, 65535} ]

WheelPages ==
    [ cylinders : {0, 5, 8, 20}, type : 0..15, teeth : {0, 2, 4, 36, 60, 255},
      missing : {0, 1, 2, 200}, cam : BOOLEAN, secondary : BOOLEAN ]

Measurements ==
    { [limit \in Guard!Limit |->
          IF limit \in high THEN Limits[limit].level + d ELSE Limits[limit].level - d] :
        high \in SUBSET Guard!Limit, d \in {0, 8} }

\* Frames a host may write: right, or wrong in one place.
TableFrames ==
    { Calib!Frame(id, c, r, Calib!Zeros(x), Calib!Zeros(y), Calib!Zeros(k)) :
        id \in TableIds \cup {99}, c \in {2, 3}, r \in {2, 3}, x \in {2, 3}, y \in {2, 3},
        k \in {4, 6, 9} }

\* Blobs of every length around the right one, and of a wrong shape.
WHOLE_BLOB == Knock!BlobBytes(Knock!Dimensions)
Blobs == { [ bytes |-> bytes, dims |-> dims,
             name |-> IF bytes < WHOLE_BLOB \/ dims # Knock!Dimensions THEN "broken" ELSE "whole" ] :
              bytes \in {0, 12, WHOLE_BLOB - 1, WHOLE_BLOB, WHOLE_BLOB + 4},
              dims \in {Knock!Dimensions, <<24, 32, 16, 3>>} }

Cams == [rpm : {1500, 5000}, load : {50, 110}, oil_kpa : {60, 100}, oil_temp : {20, 90},
         actual : {0, 200}]

----------------------------------------------------------------------------
(* Every controller in the state a reset leaves it in.                     *)

Fresh(u) ==
    CASE u = "tcu" -> {Tcu!NewTcu}
      [] u = "launch" -> {[s |-> Step!NewLaunch, p |-> p, steady |-> TRUE] : p \in LaunchPresets}
      [] u = "antilag" -> {[s |-> Step!NewAls, c |-> AlsConfig(mode)] : mode \in Step!AlsModes}
      [] u = "traction" -> {Dbw!NewTraction}
      [] u = "dbw" -> {[s |-> Dbw!NewDbw, profile |-> p] : p \in DOMAIN Dbw!Throttle}
      [] u = "boost" -> {Boost!NewBoost}
      [] u = "idle" -> {Idle!NewIdle}
      [] u = "vvt" -> {Vvt!NewVvt}
      [] u = "knock" -> {Knock!NewKnock(KnockCells)}
      [] u = "classifier" -> {Knock!NewClassifier}
      [] u = "fuel" -> {Inj!NewFuel}
      [] u = "ignition" -> {[s |-> Ign!NewIgnition, in |-> [rpm |-> 0, load |-> 0]]}
      [] u = "lambda" -> {Lambda!NewSensor}
      [] u = "actuators" -> {[valid |-> FALSE]}
      [] u = "tables" -> {Calib!default_table_frames}
      [] u = "wheel" -> {Trig!DefaultPage0}
      [] u = "protection" -> {[limit \in Guard!Limit |-> Limits[limit].level]}
      [] u = "watchdog" -> {[w |-> [task \in 1..3 |-> Guard!NewTask], now |-> 0]}

Init == unit \in Units /\ steps = 0 /\ st \in Fresh(unit)

----------------------------------------------------------------------------
(* One call.                                                               *)

StepTcu == unit = "tcu" /\ Tcu!Tick /\ UNCHANGED unit

StepLaunch ==
    /\ unit = "launch" /\ Uncounted
    /\ \E in \in LaunchInputs :
           st' = [st EXCEPT !.s = Step!update(@, st.p, in),
                            !.steady = Step!Steady(@, st.s, st.p, st.p)]

\* A preset is edited, or another one selected, between two updates.
SwitchPreset ==
    /\ unit = "launch" /\ Uncounted
    /\ \E p \in LaunchPresets :
           st' = [st EXCEPT !.p = p, !.steady = Step!Steady(@, st.s, st.p, p)]

AlsCall(in) == st' = [st EXCEPT !.s = Step!als_update(@, st.c, in)]

\* Anti-lag is asked for, one call in MAX_STEPS at most, ...
AskAls ==
    /\ unit = "antilag" /\ Counted
    /\ \E in \in AlsRequests : AlsCall(in)

\* ... or it is not.
RestAls ==
    /\ unit = "antilag" /\ Uncounted
    /\ \E corner \in BOOLEAN : AlsCall([overrun |-> FALSE, corner |-> corner, raw |-> 0])

StepTraction ==
    /\ unit = "traction" /\ Counted
    /\ \E in \in [switch : BOOLEAN, vss : {5, 60}, slip : {0, 5, 6, 30}] :
           st' = Dbw!traction_update(st, Dbw!dry, in)

StepDbw ==
    /\ unit = "dbw" /\ Counted
    /\ \E in \in [tps1 : {0, 300}, tps2 : {0, 300, 351}, pedal : {0, 55, 100}, etb_cut : {0, 20, 120}] :
           st' = [st EXCEPT !.s = Dbw!update(@, st.profile, in)]

StepBoost ==
    /\ unit = "boost" /\ Counted
    /\ \/ \E gear \in {0, 1, 5}, rpm \in {1800, 4200} : st' = Boost!set_target(st, gear, rpm)
       \/ \E kpa \in {110, 260} : st' = Boost!update_pid(st, kpa)
       \/ st' = Boost!activate_scramble(st)

TickScramble ==
    /\ unit = "boost" /\ Uncounted
    /\ \E dt \in {2, 3} : st' = Boost!tick_scramble(st, dt)

StepIdle ==
    /\ unit = "idle" /\ Counted
    /\ \E clt \in {10, 85}, dsg \in BOOLEAN, rpm \in {600, 880, 1500, 3000}, tps \in {0, 3, 20} :
           st' = Idle!ign_correction(
                     Idle!update_pid([st EXCEPT !.target = Idle!target_rpm_for_clt(clt, dsg)],
                                     rpm, tps), rpm)

StepVvt ==
    /\ unit = "vvt" /\ Counted
    /\ \E in \in Cams : st' = Vvt!update(st, in)

StepKnock ==
    /\ unit = "knock" /\ Counted
    /\ \E c \in Channels, cell \in KnockCells, energy \in {10, 400} :
           \/ st' = Knock!fft_evaluate(st, c, cell, energy)
           \/ /\ c \in Cylinders
              /\ \E loudest \in {10, 400} :
                     loudest >= energy /\ st' = Knock!soft_evaluate(st, c, energy, loudest, 50)

StepClassifier ==
    /\ unit = "classifier" /\ Uncounted
    /\ \/ \E p \in {0, THRESHOLD_PROB - 1, THRESHOLD_PROB} : st' = Knock!classify(st, p)
       \/ \E blob \in Blobs : st' = Knock!load_weights_blob(st, blob)

StepFuel ==
    /\ unit = "fuel" /\ Counted
    /\ \E in \in FuelInputs : st' = Inj!calculate(st, in)

StepIgnition ==
    /\ unit = "ignition" /\ Counted
    /\ \E in \in SparkInputs : st' = [s |-> Ign!calculate(st.s, in), in |-> in]

StepLambda ==
    /\ unit = "lambda" /\ Counted
    /\ \/ \E ip \in {-2500, -50, 5000}, mv \in {0, 49, 200, 431, 470} :
              st' = Lambda!process(st, ip, mv)
       \/ st' = Lambda!reset(st)

StagePage ==
    /\ unit \in {"actuators", "wheel"} /\ Counted
    /\ st' \in IF unit = "actuators" THEN ActuatorPages ELSE WheelPages

StepTables ==
    /\ unit = "tables" /\ Counted
    /\ \/ \E frame \in TableFrames : st' = Calib!write_table_frame(st, frame)
       \/ \E id \in TableIds \cup {99}, x, y \in 0..3, value \in {7, 8} :
              st' = Calib!WriteCell(st, id, x, y, value)

Measure ==
    /\ unit = "protection" /\ Counted
    /\ st' \in Measurements

StepWatchdog ==
    /\ unit = "watchdog" /\ Counted
    /\ \/ \E task \in 1..3, deadline \in {0, 2} :
              st' = [st EXCEPT !.w = Guard!configure_task(@, task, deadline)]
       \/ \E task \in 1..3 : st' = [st EXCEPT !.w = Guard!kick(@, task, st.now)]
       \/ st' = [st EXCEPT !.now = @ + 1]

Next ==
    \/ StepTcu \/ StepLaunch \/ SwitchPreset \/ AskAls \/ RestAls \/ StepTraction \/ StepDbw
    \/ StepBoost \/ TickScramble \/ StepIdle \/ StepVvt \/ StepKnock \/ StepClassifier
    \/ StepFuel \/ StepIgnition \/ StepLambda \/ StagePage \/ StepTables
    \/ Measure \/ StepWatchdog

\* A control loop calls its controllers for as long as the engine is on.
Fairness == WF_vars(StepTcu) /\ WF_vars(RestAls) /\ WF_vars(TickScramble)

Spec == Init /\ [][Next]_vars /\ Fairness

----------------------------------------------------------------------------
(* Properties.                                                             *)

\* Every controller keeps its state in range: integrals within their limits,
\* duties and cuts within theirs, the fine knock correction above its floor,
\* the trims within a quarter, counters within their width.
BenchTypeOK ==
    /\ steps \in Nat
    /\ CASE unit = "tcu" -> st \in Tcu!TcuType
         [] unit = "launch" -> st.s \in Step!LaunchType
         [] unit = "antilag" -> st.s \in Step!AlsType /\ Step!AlsBounded(st.s, st.c)
         [] unit = "traction" -> st \in Dbw!TractionType(Dbw!dry)
         [] unit = "dbw" -> st.s \in Dbw!DbwType
         [] unit = "boost" -> st \in Boost!BoostType
         [] unit = "idle" -> st \in Idle!IdleType
         [] unit = "vvt" -> st \in Vvt!VvtType
         [] unit = "knock" -> st \in Knock!KnockType(KnockCells)
         [] unit = "classifier" -> st \in Knock!ClassifierType
         [] unit = "fuel" -> st \in Inj!FuelType
         [] unit = "ignition" -> st.s \in Ign!IgnitionType
         [] unit = "lambda" -> st \in Lambda!SensorType
         [] OTHER -> TRUE

\* A controller asks for something only while its cause lasts: a step launch
\* from arming to release, as long as its presets keep one mode, and after any
\* other change of preset nothing new without an enabled preset and an armed
\* launch; cams only with oil pressure, traction only more while it intervenes,
\* a knock correction only after a knock of that cylinder; throttle limp mode,
\* once tripped, is never left and holds the target at its cap; overrun cuts the
\* fuel and leaves trims and film alone; a running engine's spark never leads
\* the table (the update and evaluate functions of the controllers).
DemandsNeedCause ==
    [][ CASE unit = "launch" -> Step!LaunchDemand(st.s, st'.s, st.p, st'.steady)
          [] unit = "antilag" ->
                ~st'.s.rolling /\ st'.s.intensity = 0 => st'.s.retard = 0 /\ st'.s.enrich = 0
          [] unit = "dbw" ->
                /\ st.s.limp => st'.s.limp
                /\ st'.s.limp => st'.s.target <= Dbw!Config.limp_cap
          [] unit = "vvt" ->
                \A c \in Vvt!VvtChannel :
                    st'.error \/ c \notin Enabled => st'.channel[c].duty = 0
          [] unit = "traction" ->
                st'.active \/ (st'.retard <= st.retard /\ st'.etb_cut <= st.etb_cut)
          [] unit = "knock" ->
                \A c \in Cylinders :
                    Knock!total_retard(st', c) > Knock!total_retard(st, c) => st'.event[c]
          [] unit = "fuel" ->
                /\ st'.dfco => /\ st'.width = 0 /\ st'.duty = 0
                               /\ <<st'.stft, st'.ltft, st'.film>> = <<st.stft, st.ltft, st.film>>
                /\ st'.ltft # st.ltft => Inj!learns(st'.stft)
          [] unit = "ignition" -> Ign!SparkNeverLeadsTable(st'.s, st'.in)
          [] unit = "lambda" -> st'.lambda # st.lambda => st'.ready \/ st' = Lambda!NewSensor
          [] OTHER -> TRUE ]_vars

\* The wheel of a staged page 0 gives a tooth log whose marks are inside it
\* and whose longest interval is the reference tooth of a wheel with a gap.
WheelLogConsistent(page) ==
    LET p == Trig!runtime_profile(page)
        count == Trig!event_count(p)
        reference == Trig!reference_event_index(p)
    IN  /\ Trig!select_decoder(page).key \in Trig!PresetKeys
        /\ reference \in 0..(count - 1)
        /\ Trig!secondary_event_indexes(p) \subseteq 0..(count - 1)
        /\ Cardinality(Trig!secondary_event_indexes(p)) = Trig!secondary_slots(p)
        /\ \A sample \in {0, 5} :
              LET interval == Trig!tooth_intervals(p, sample)
              IN  \A i \in 0..(count - 1) :
                      /\ interval[i] > 0
                      /\ p.gap > 0 /\ i # reference => interval[i] < interval[reference]

\* The bands and the harmonics of a knock frequency that leaves its eight
\* bands room are ranges of the spectrum.
WindowsSliceable ==
    \A centre \in 0..248, bw \in 0..20 :
        /\ \A band \in 0..7 : LET r == Knock!band_bins(centre, bw, band)
                              IN  Knock!Sliceable(r) /\ r.low < r.high
        /\ \A order \in {2, 3} : Knock!Sliceable(Knock!harmonic_bins(centre, bw, order))

SevereEnough(values) ==
    LET outcome == Guard!evaluate(values)
        wanted == {Guard!severity(Limits[limit].action) : limit \in outcome.tripped}
    IN  /\ \A w \in wanted : w <= Guard!severity(outcome.action)
        /\ Guard!severity(outcome.action) \in wanted \cup {0}
        /\ outcome.enrich \in 1000..1400

\* Whatever a host stages, writes or loads and whatever is measured, what is
\* derived from it stays inside what it indexes and between bounds in order,
\* where the code would panic otherwise (f32::clamp on bounds out of order,
\* slices and table cells out of range), and the limits tripped get an action
\* as severe as the worst of them (parse_page0_actuator_config, WriteCell,
\* tooth_intervals_us, extract_features, load_weights_blob, evaluate).
DerivedInBounds ==
    CASE unit = "actuators" ->
            LET config == Calib!parse_page0_actuator_config(st)
            IN  \A scale \in {65, 100, 170}, coolant \in {-10, 90} :
                    Calib!DwellBounded(config, Calib!dwell_for_conditions(config, scale, coolant))
      [] unit = "wheel" -> WheelLogConsistent(st)
      [] unit = "tables" ->
            /\ Calib!CellsInPlace(st)
            /\ \A id \in TableIds : st[id].columns = Columns[id] /\ st[id].rows = Rows[id]
      [] unit = "classifier" -> WindowsSliceable /\ st.weights # "broken"
      [] unit = "protection" -> SevereEnough(st)
      [] unit = "watchdog" ->
            Guard!check(st.w, st.now) =>
                LET late == Guard!overdue_task(st.w, st.now)
                IN  late \notin Guard!overdue(Guard!kick(st.w, late, st.now), st.now)
      [] OTHER -> TRUE

\* The counters and the outcome the TCU bridge shows move as ShiftContract
\* says, with the periods and limits of the code, over requests that
\* complete, time out, are denied, aborted and go stale (tcu.rs, tick).
Shift == INSTANCE ShiftContract
         WITH phase <- IF unit = "tcu" THEN Tcu!Phase(st) ELSE "idle",
              requests <- IF unit = "tcu" THEN st.requests ELSE 0,
              acks <- IF unit = "tcu" THEN st.acks ELSE 0,
              timeouts <- IF unit = "tcu" THEN st.timeouts ELSE 0,
              WRAP <- COUNTER_MOD

ImplementsShiftContract == Shift!Spec

\* What was asked for ends: a shift request gets an outcome, anti-lag fades
\* out once nothing asks for it, a scramble runs out (tick, update,
\* tick_scramble called again and again by the control loop).
Shifting == unit = "tcu" /\ st.active /\ steps < MAX_SAMPLES
Fading == unit = "antilag" /\ st.s.intensity > 0
Scrambling == unit = "boost" /\ st.scramble

DemandsEnd ==
    /\ Shifting ~> ~Shifting
    /\ Fading ~> ~Fading
    /\ Scrambling ~> ~Scrambling
=============================================================================
