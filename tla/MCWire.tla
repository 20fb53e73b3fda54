------------------------------- MODULE MCWire -------------------------------
(* A message of every form, each sent before a short page request. *)
EXTENDS Wire

key == <<107, 49>>      \* two strings, the second one character of two bytes
label == <<194, 176>>

M(form, value) == [cmd |-> form, form |-> form, value |-> value]

Probe == M("ReadPage", [page_id |-> 7])

IdentityAndDirectories == {
    M("VersionResponse",
      [protocol_version |-> 1, schema_version |-> 258, capabilities |-> <<1, 2, 36>>,
       firmware_id |-> key, firmware_semver |-> label, board_id |-> key,
       serial |-> label, signature |-> key, reset_reason |-> None]),
    M("VersionResponse",
      [protocol_version |-> 1, schema_version |-> 2, capabilities |-> <<4>>,
       firmware_id |-> key, firmware_semver |-> label, board_id |-> << >>,
       serial |-> label, signature |-> key, reset_reason |-> key]),
    M("Capabilities",
      [entries |-> [i \in DOMAIN base_capabilities(TRUE) |->
                      [capability |-> base_capabilities(TRUE)[i]]]]),
    M("TableMetadata",
      [entries |-> <<[id |-> 16, x_scale |-> 1, y_scale |-> 10, value_scale |-> 100,
                      min_value_raw |-> -40, max_value_raw |-> 70000,
                      default_value_raw |-> 0, key |-> key, x_label |-> label,
                      y_label |-> label, z_label |-> label, unit |-> << >>]>>]),
    M("NetworkProfile", HEADLESS_PROFILE),
    M("NetworkProfile", DISPLAY_PROFILE) }

PinsAndSensors == {
    M("PinDirectory",
      [entries |-> <<[pin_id |-> key, label |-> label, electrical_class |-> key,
                      flags |-> 5, timer_instance |-> key, timer_channel |-> label,
                      adc_instance |-> << >>, adc_channel |-> None,
                      board_path |-> key,
                      routes |-> <<[function_class |-> "CaptureInput",
                                    mux_mode |-> label, signal |-> key,
                                    exclusive_resource |-> key],
                                   [function_class |-> "Debug", mux_mode |-> label,
                                    signal |-> key, exclusive_resource |-> None]>>]>>]),
    M("PinAssignments",
      [entries |-> <<[function |-> "CrankInput", pin_id |-> key, pin_label |-> label],
                     [function |-> "Ignition2", pin_id |-> key, pin_label |-> label]>>]),
    M("PinAssign", [entries |-> << >>]),
    M("OutputTestDirectory",
      [entries |-> <<[channel |-> 3, group |-> "aux", default_pulse_ms |-> None,
                      function |-> key, label |-> label],
                     [channel |-> 4, group |-> "coils", default_pulse_ms |-> 250,
                      function |-> key, label |-> label]>>]),
    M("SensorRaw", [adc |-> 4095, voltage |-> -2]),
    M("SensorRawDirectory",
      [entries |-> <<[channel |-> 1, expected_min_mv |-> 200, expected_max_mv |-> 4800,
                      fault_low_mv |-> 50, fault_high_mv |-> 4950, key |-> key,
                      label |-> label, unit |-> label, pin_id |-> key,
                      pin_label |-> label]>>]),
    M("FreezeFrames",
      [entries |-> <<[code |-> key, label |-> label, reason |-> key,
                      rev_counter |-> 70000, rpm |-> 6500, map_kpa |-> 101,
                      tps_pct |-> 55, coolant_c |-> 90, lambda |-> 98,
                      vbatt |-> 138, gear |-> 3]>>]) }

TriggerAndCan == {
    M("TriggerDecoderDirectory",
      [entries |-> <<[requires_secondary |-> TRUE, supports_sequential |-> FALSE,
                      expected_engine_cycle_deg |-> 720, key |-> key, label |-> label,
                      family |-> key, decoder |-> key, pattern_kind |-> label,
                      primary_input_label |-> key, secondary_input_label |-> None,
                      primary_sensor_kind |-> key, secondary_sensor_kind |-> key,
                      edge_policy |-> label, sync_strategy |-> label,
                      primary_pattern_hint |-> label, secondary_pattern_hint |-> None,
                      reference_description |-> key]>>]),
    M("TriggerCapture",
      [preset_key |-> key, preset_label |-> label, sync_state |-> key,
       trigger_rpm |-> 900, sync_loss_counter |-> 1, synced_cycles |-> 66000,
       engine_cycle_deg |-> 720, capture_window_us |-> 133333, sample_period_us |-> 2,
       primary_label |-> label, secondary_label |-> key, tooth_count |-> 60,
       sync_gap_tooth_count |-> 2, primary_edge_count |-> 58,
       secondary_edge_count |-> 2, primary_samples |-> <<1, 0, 1>>,
       secondary_samples |-> <<0, 1, 0>>]),
    M("TriggerToothLog",
      [preset_key |-> key, preset_label |-> label, sync_state |-> key,
       trigger_rpm |-> 900, engine_cycle_deg |-> 720, primary_label |-> label,
       secondary_label |-> None, reference_event_index |-> 1,
       dominant_gap_ratio |-> 3,
       tooth_intervals_us |-> <<[us |-> 1111], [us |-> 70000]>>,
       secondary_event_indexes |-> <<[index |-> 300]>>]),
    M("CanTemplateDirectory",
      [entries |-> <<[id |-> 1, can_id |-> 1024, extended_id |-> FALSE, dlc |-> 8,
                      key |-> key, label |-> label, direction |-> label,
                      category |-> key]>>]),
    M("CanSignalDirectory",
      [entries |-> <<[id |-> 1, template_id |-> 1, start_bit |-> 16, bit_length |-> 8,
                      flags |-> 3, scale |-> 1, offset |-> -40, min |-> -40,
                      max |-> 215, key |-> key, label |-> label, maps_to |-> key,
                      unit |-> label]>>]) }

Status(page, generation, valid) ==
    [page_id |-> page, ram_crc |-> 5, flash_crc |-> -5, needs_burn |-> TRUE,
     flash_generation |-> generation, flash_valid |-> valid]

\* The payload of a page may hold the bytes of a frame's head.
PagesAndTables == {
    M("PageStatuses", [entries |-> <<Status(0, 3, TRUE), Status(9, 0, FALSE)>>]),
    M("ReadPage", [page_id |-> 0]),
    M("BurnPage", [page_id |-> 9]),
    M("PageData", [page_id |-> 1, payload |-> <<83, 84, 0, 1, 32, 7>>]),
    M("WritePage", [page_id |-> 1, payload |-> << >>]),
    M("Ack", [page_id |-> 3, needs_burn |-> TRUE]),
    M("Nack", [code |-> 5, reason |-> key]),
    M("TableData",
      [table_id |-> 2, x_bins |-> <<[raw |-> 500], [raw |-> 1000]>>,
       y_bins |-> <<[raw |-> 20]>>, data |-> <<[raw |-> 800], [raw |-> 65535]>>]),
    M("WriteTable", [table_id |-> 1, x_bins |-> << >>, y_bins |-> << >>, data |-> << >>]) }

FlashAndLog == {
    M("UpdateStatus",
      [state |-> 2, active_bank |-> 0, last_good_bank |-> 0, pending_bank |-> None,
       boot_attempts |-> 1, rollback_counter |-> 256, candidate_size |-> 70000,
       candidate_crc |-> -1, health_window_remaining_ms |-> 15000]),
    [cmd |-> "Ack", form |-> "FlashSession",
     value |-> [session_id |-> 1, next_block |-> 16, rolling_crc |-> -7]],
    M("FlashResume", [session_id |-> None]),
    M("FlashResume", [session_id |-> 70000]),
    M("LogStatusResponse",
      [active |-> TRUE, storage_present |-> TRUE, rtc_synced |-> FALSE,
       logbook_entries |-> 3, session_id |-> 2, elapsed_ms |-> 70000,
       bytes_written |-> 4096, block_count |-> 2, block_size |-> 512]),
    M("LogbookSummaryResponse",
      [sessions |-> 4, entries |-> 6, total_elapsed_ms |-> 90000,
       total_bytes_written |-> 8192, last_session_id |-> 4, last_elapsed_ms |-> 1000,
       last_bytes_written |-> 1024, last_block_count |-> 2, rtc_synced |-> TRUE,
       last_rtc_sync_ms |-> -1]),
    M("LogBlockData", [block_index |-> 1, total_blocks |-> 2, payload |-> <<84, 83, 84>>]),
    M("SyncRtc", [epoch_high |-> 1, epoch_low |-> -1]) }

\* Frames of values of their own for every field, of the bounds of every
\* field, and of measurements past them.
LiveFrame(Value(_, _)) ==
    [ name \in {LiveDataFrame[i].name : i \in DOMAIN LiveDataFrame} \ {"pad"} |->
        LET i == CHOOSE k \in DOMAIN LiveDataFrame : LiveDataFrame[k].name = name
        IN  Value(LiveDataFrame[i], i) * (LIVE_UNIT \div LiveDataFrame[i].scale) ]

MeasuredInFloat == {"rpm_accel", "map_kpa", "coolant_c", "mcu_temp_c", "lambda", "ve_pct"}

LiveFrames == {
    M("LiveData", LiveFrame(LAMBDA slot, i : IF slot.kind.low < 0 THEN -i ELSE i)),
    M("LiveData", LiveFrame(LAMBDA slot, i : slot.kind.high)),
    M("LiveData", LiveFrame(LAMBDA slot, i :
        slot.kind.low - (IF slot.name \in MeasuredInFloat THEN 1 ELSE 0))) }

MCMessages ==
    LiveFrames \cup
    IdentityAndDirectories \cup PinsAndSensors \cup TriggerAndCan
      \cup PagesAndTables \cup FlashAndLog

MCScripts == {<<m, Probe>> : m \in MCMessages}
=============================================================================
