------------------------------ MODULE LiveData ------------------------------
(***************************************************************************)
(* GetLiveData of FirmwareRuntime (transport.rs): the one packet that      *)
(* drives the simulated engine.  A frame advances the sample counter, the  *)
(* trigger runtime, the TCU bridge, the wideband controller and rotational *)
(* idle, in this order, evaluates the protection limits in between, and    *)
(* appends a line to a running log.  Between frames the host may start,    *)
(* stop and reset the log, capture the trigger, and run                    *)
(* output tests, which look at what the last frame reported.               *)
(*                                                                         *)
(* Simulated sensor values are the few the code chooses between; the       *)
(* values derived from them by formula are left out of the frame.          *)
(***************************************************************************)
EXTENDS Integers, Sequences, FiniteSets, TLC

CONSTANTS LIVE_LOSS_PERIOD,   \* 190: samples between counted sync losses
          LOSS_MOD,           \* 256: sync_loss_counter is u8
          HeaderBytes,        \* lengths of a session header line
          LineBytes,          \* lengths of a sample line
          MAX_SAMPLES,        \* bound: frames considered
          MAX_LOG_BYTES,      \* bound: bytes of a session
          MAX_SESSIONS,       \* bound: sessions considered
          MAX_CAPTURES,       \* bound: captures between two boots
          MAX_MARKERS         \* bound: audited tests between two resets
CONSTANTS OFFLINE_PERIOD, OFFLINE_WINDOW, RX_STALE_PERIOD, RX_STALE_WINDOW,
          TX_STALE_PERIOD, TX_STALE_WINDOW, REQUEST_PERIOD, REQUEST_STEP,
          DEFAULT_TIMER, STALE_REQUEST, TIMEOUT_REQUEST, RESULT_HOLD, COUNTER_MOD
CONSTANTS STEP, ACTIVATION_DELAY, MAX_ACTIVE, COUNT_MAX,
          HEATER_WARMUP, PRIMARY_FAULT_HOLD, SECONDARY_FAULT_HOLD,
          PRIMARY_PERIOD, SECONDARY_PERIOD, EXTERNAL_PERIOD, EXTERNAL_WINDOW,
          Limits, NEVER_TRIPS, LOSS_PERIOD,
          BLOCK_SIZE, SAMPLE_MS, ENTRY_MAX, BLOCKS_MOD, SESSION_MOD

VARIABLES n,            \* live_sample_counter
          tcu,          \* tcu_runtime
          rot,          \* rotational_idle_runtime
          wb,           \* wideband_runtime
          trig,         \* trigger_runtime's counters
          loss,         \* sync_loss_counter
          frame,        \* the last frame, and the protection state it left
          log,          \* the datalogger and the logbook
          flashing,     \* flash_session_active
          captures,     \* history: captures and tooth logs since boot
          markers,      \* history: audited output tests since the last reset
          calm_run      \* history: samples since a shift or a sync loss

live == <<n, tcu, rot, wb, trig, loss, frame>>
history == <<captures, markers, calm_run>>
vars == <<n, tcu, rot, wb, trig, loss, frame, log, flashing, history>>

Tcu == INSTANCE ExternalTcu WITH samples <- n
Rot == INSTANCE RotationalIdle
Wide == INSTANCE Wideband
Guard == INSTANCE Protection
Trig == INSTANCE TriggerRuntime
Log == INSTANCE Datalog

ASSUME LiveAssumption ==
    /\ LIVE_LOSS_PERIOD \in Nat \ {0}
    /\ HeaderBytes \subseteq Nat /\ LineBytes \subseteq Nat
    /\ {MAX_SAMPLES, MAX_LOG_BYTES, MAX_SESSIONS, MAX_CAPTURES, MAX_MARKERS} \subseteq Nat

ASSUME PartsAssumption ==
    /\ Tcu!TcuAssumption /\ Rot!RotationalAssumption /\ Wide!WidebandAssumption
    /\ Guard!ProtectionAssumption /\ Trig!LossPeriodAssumption /\ Log!DatalogAssumption

\* The counts of rotational idle do not saturate in the frames considered, a
\* cut ends on a tick, and hot exhaust does not stop the simulated engine.
ASSUME CutAssumption ==
    /\ MAX_SAMPLES <= COUNT_MAX
    /\ MAX_ACTIVE % STEP = 0
    /\ Limits["egt"].action # "Shutdown"

----------------------------------------------------------------------------
(* One frame.                                                              *)

\* The simulated engine: idling, or pulled along by a shift.
simulated(shifting) ==
    IF shifting THEN [rpm |-> 2150, tps |-> 240, map |-> 62, oil |-> 255]
                ELSE [rpm |-> 980, tps |-> 35, map |-> 36, oil |-> 298]

\* lambda times 14.7, in tenths, for each source; ripple moves it by under
\* one tenth either way.
afr_estimate(source) ==
    CASE source = "integrated" -> 147
      [] source = "external" -> 148
      [] OTHER -> 151

measured(engine, source, k) ==
    [ rpm |-> engine.rpm, map |-> engine.map, oil |-> engine.oil, coolant |-> 88,
      afr |-> afr_estimate(source), egt |-> 805 + (k % 8) ]

\* What a protection action does to the frame.
apply_action(f, action) ==
    CASE action = "None" -> f
      [] action = "IgnitionRetard" -> [f EXCEPT !.effects = {"retarded"}]
      [] action = "FuelEnrich" -> [f EXCEPT !.effects = {"enriched"}]
      [] action = "SparkCut" -> [f EXCEPT !.effects = {"spark_cut", "overrev"}]
      [] action = "FuelCut" -> [f EXCEPT !.effects = {"fuel_cut"}]
      [] action = "SparkAndFuelCut" ->
            [f EXCEPT !.effects = {"spark_cut", "fuel_cut", "overrev"}]
      [] action = "LimpMode" ->
            [f EXCEPT !.effects = {"spark_cut", "fuel_cut"},
                      !.rpm = IF @ > 2500 THEN 2500 ELSE @,
                      !.tps = IF @ > 300 THEN 300 ELSE @]
      [] action = "Shutdown" ->
            [f EXCEPT !.effects = {"spark_cut", "fuel_cut", "critical"},
                      !.rpm = 0, !.tps = 0]

wideband_faults(w) ==
    (IF w.primary > 0 THEN {"o2_primary"} ELSE {}) \cup
    (IF w.secondary > 0 THEN {"o2_secondary"} ELSE {})

BootFrame == [ rpm |-> 0, tps |-> 0, effects |-> {}, faults |-> {}, protect |-> {},
               source |-> "unknown", running |-> FALSE ]

\* The frame of sample k, from the ticked parts.
build_frame(k, t, w) ==
    LET engine == simulated(Tcu!shift_in_progress(t))
        source == Wide!source(w, k, engine.rpm > 450)
        guard == Guard!evaluate(measured(engine, source, k))
    IN  apply_action([ rpm |-> engine.rpm, tps |-> engine.tps, effects |-> {},
                       faults |-> wideband_faults(w), protect |-> guard.tripped,
                       source |-> source, running |-> TRUE ], guard.action)

live_loss(k) == IF k % LIVE_LOSS_PERIOD = 0 THEN (loss + 1) % LOSS_MOD ELSE loss

\* EGT protection sets no flag, and no shift fault has the code 5 that
\* rotational idle is told to stand back for.
protection_gate(f, t) == f.protect \ {"egt"} # {} \/ t.fault = 5

\* Slip: rotational idle is told the losses of the frame before.
RotationalSeesOldLoss(k, f, t) ==
    Rot!tick(rot, k, measured(simulated(FALSE), f.source, k).egt >= 780,
             f.tps <= 80, loss, protection_gate(f, t))

rotational_after(k, f, t) ==
    Rot!tick(rot, k, measured(simulated(FALSE), f.source, k).egt >= 780,
             f.tps <= 80, live_loss(k), protection_gate(f, t))

calm(t, k) == ~Tcu!shift_in_progress(t) /\ live_loss(k) = loss

GetLiveData ==
    /\ n < MAX_SAMPLES
    /\ n' = n + 1
    /\ trig' = Trig!advance_state(trig, n')
    /\ loss' = live_loss(n')
    /\ tcu' = Tcu!tick(tcu, n')
    /\ wb' = Wide!tick(wb, n', simulated(Tcu!shift_in_progress(tcu')).rpm > 450)
    /\ frame' = build_frame(n', tcu', wb')
    /\ rot' = rotational_after(n', frame', tcu')
    /\ \E line \in LineBytes :
          /\ log.active => log.bytes + line <= MAX_LOG_BYTES
          /\ log' = Log!append_log_bytes(log, n', line)
    /\ calm_run' = IF calm(tcu', n') THEN calm_run + 1 ELSE 0
    /\ UNCHANGED <<flashing, captures, markers>>

----------------------------------------------------------------------------
(* What the host does between frames.                                      *)

LogStart ==
    /\ log.session < MAX_SESSIONS
    /\ \E header \in HeaderBytes : log' = Log!log_start(log, n, header)
    /\ UNCHANGED <<live, flashing, history>>

LogStop ==
    /\ log' = Log!log_stop(log, n)
    /\ UNCHANGED <<live, flashing, history>>

\* The audit markers are reset with the totals.
ResetLogbook ==
    /\ ~log.active
    /\ log' = Log!reset_logbook(log)
    /\ markers' = 0
    /\ UNCHANGED <<live, flashing, captures, calm_run>>

SyncRtc ==
    /\ log' = Log!sync_rtc(log)
    /\ UNCHANGED <<live, flashing, history>>

\* Trigger captures and tooth logs advance the trigger runtime as frames do.
GetTriggerCapture ==
    /\ captures < MAX_CAPTURES
    /\ trig' = Trig!advance_state(trig, n)
    /\ captures' = captures + 1
    /\ UNCHANGED <<n, tcu, rot, wb, loss, frame, log, flashing, markers, calm_run>>

EngineTurning == frame.rpm > 100

Audited(force_on) == EngineTurning /\ force_on

\* An accepted test on a known channel; a refused one changes nothing.
RunOutputTest(force_on, force_unsafe) ==
    /\ ~flashing
    /\ frame.protect = {}
    /\ EngineTurning => force_unsafe
    /\ force_unsafe /\ Audited(force_on) => markers < MAX_MARKERS
    /\ IF force_unsafe /\ Audited(force_on)
       THEN /\ log' = Log!record_logbook_audit_marker(log)
            /\ markers' = markers + 1
       ELSE UNCHANGED <<log, markers>>
    /\ UNCHANGED <<live, flashing, captures, calm_run>>

\* A flash session is opened and closed by FirmwareUpdate's packets.
FlashSession ==
    /\ flashing' = ~flashing
    /\ UNCHANGED <<live, log, history>>

Init ==
    /\ n = 0 /\ loss = 0 /\ frame = BootFrame
    /\ tcu = Tcu!NewTcu
    /\ rot = Rot!NewRotational
    /\ wb = Wide!NewWideband
    /\ trig = Trig!NewTrigger
    /\ log = Log!NewLog
    /\ flashing = FALSE
    /\ captures = 0 /\ markers = 0 /\ calm_run = 0

\* Nothing of this state is in the store: a restart forgets the logbook too.
Restart ==
    /\ n' = 0 /\ loss' = 0 /\ frame' = BootFrame
    /\ tcu' = Tcu!NewTcu
    /\ rot' = Rot!NewRotational
    /\ wb' = Wide!NewWideband
    /\ trig' = Trig!NewTrigger
    /\ log' = Log!NewLog
    /\ flashing' = FALSE
    /\ captures' = 0 /\ markers' = 0 /\ calm_run' = 0

Next ==
    \/ GetLiveData
    \/ LogStart
    \/ LogStop
    \/ ResetLogbook
    \/ SyncRtc
    \/ GetTriggerCapture
    \/ \E force_on, force_unsafe \in BOOLEAN : RunOutputTest(force_on, force_unsafe)
    \/ FlashSession
    \/ Restart

Spec == Init /\ [][Next]_vars

----------------------------------------------------------------------------
(* Properties.                                                             *)

\* Every part has its type after any interleaving of frames and host packets
\* (build_live_data_frame and the log functions of transport.rs).
LiveTypeOK ==
    /\ n \in 0..MAX_SAMPLES
    /\ tcu \in Tcu!TcuType
    /\ rot \in Rot!RotationalType
    /\ wb \in Wide!WidebandType
    /\ trig \in [samples : Nat, losses : Nat, synced : Nat]
    /\ loss \in 0..(LOSS_MOD - 1)
    /\ log \in Log!LogType
    /\ flashing \in BOOLEAN
    /\ {captures, markers, calm_run} \subseteq Nat

\* Cylinders are cut only after a full activation delay without a shift and
\* without a sync loss, the current sample included: the TCU, the loss counter
\* and the throttle of one frame reach rotational idle in that same frame
\* (transport.rs:1768-1979, rotational_idle.rs:72-132).
RotationalNeedsCalm == rot.active => calm_run * STEP >= ACTIVATION_DELAY

\* Time in the cut is bounded by the cuts: each activation is worth at most
\* MAX_ACTIVE, exactly that when it timed out, and a running cut is shorter.
CutTimeAccounts ==
    /\ rot.total_active <= rot.activations * MAX_ACTIVE
    /\ rot.total_active >= rot.timeouts * MAX_ACTIVE + rot.timer
    /\ rot.active => rot.timer < MAX_ACTIVE

\* The trigger runtime never misses a simulated loss or counts one twice,
\* although captures advance it between frames: it has advanced once for each
\* frame and capture, and each advance is a loss or a synced cycle
\* (trigger_runtime.rs, advance_state).
LossesMatchSamples ==
    /\ trig.samples = n + captures
    /\ trig.losses = trig.samples \div LOSS_PERIOD
    /\ trig.losses + trig.synced = trig.samples

\* The blocks hold every byte of the session once, and each block a status
\* reports can be read, whatever was started, stopped or reset before; the
\* logbook has an entry for each stopped session and for each test that forced
\* an output of a turning engine, as far as a byte counts, and its totals
\* contain its last session (append_log_bytes, read_log_block, LogStop,
\* RunOutputTest, ResetLogbook).
LogAccounts ==
    /\ Log!BytesInBlocks(log) /\ Log!ReportedBlocksReadable(log)
    /\ LET due == log.total_sessions + markers
       IN  log.entries = IF due > ENTRY_MAX THEN ENTRY_MAX ELSE due
    /\ Log!LastWithinTotals(log)
=============================================================================
