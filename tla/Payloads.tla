------------------------------ MODULE Payloads ------------------------------
(***************************************************************************)
(* The payload of every packet (protocol.rs): an encoder for each and the  *)
(* decoder's steps in the code's order.  A value is a record of fields, a  *)
(* directory has the field `entries`.                                      *)
(***************************************************************************)
EXTENDS PayloadReader, WireCodes

----------------------------------------------------------------------------
(* Identity, directories and capabilities *)

encode_identity_payload(v) ==
    U8(v.protocol_version) \o U16(v.schema_version) \o U8(Len(v.capabilities))
      \o push_string(v.firmware_id) \o push_string(v.firmware_semver)
      \o push_string(v.board_id) \o push_string(v.serial)
      \o push_string(v.signature) \o push_optional(v.reset_reason) \o v.capabilities

\* What is left after the signature tells an identity of the form without a
\* reset reason, which holds just the capabilities, from the current one.
decode_identity_payload(payload) ==
    LET head == Run(<<Need(4), Num("protocol_version", 1), Num("schema_version", 2),
                      Count("capabilities", 1), Str("firmware_id"),
                      Str("firmware_semver"), Str("board_id"), Str("serial"),
                      Str("signature")>>, Start(payload))
        legacy == Left(head) = head.counts["capabilities"]
        whole == IF legacy THEN Field(head, "reset_reason", None)
                 ELSE Run(<<OptStr("reset_reason")>>, head)
    IN  IF head.error # "none" THEN head
        ELSE Run(<<Room("capabilities", 1, 0), Raw("capabilities", "capabilities"), End>>,
                 whole)

encode_capabilities_payload(v) ==
    Counted(v.entries, LAMBDA e : U8(Capability_code[e.capability]))

decode_capabilities_payload ==
    <<Need(1), Count("entries", 1), Room("entries", 1, 0),
      Each("entries", "entries", <<Code("capability", Capability_from)>>), End>>

encode_table_metadata_payload(v) ==
    Counted(v.entries, LAMBDA e :
        U8(e.id) \o U16(e.x_scale) \o U16(e.y_scale) \o U16(e.value_scale)
          \o U32(e.min_value_raw) \o U32(e.max_value_raw) \o U32(e.default_value_raw)
          \o push_string(e.key) \o push_string(e.x_label) \o push_string(e.y_label)
          \o push_string(e.z_label) \o push_string(e.unit))

decode_table_metadata_payload ==
    Directory(<<Need(19), Num("id", 1), Num("x_scale", 2), Num("y_scale", 2),
                Num("value_scale", 2), Num("min_value_raw", 4),
                Num("max_value_raw", 4), Num("default_value_raw", 4), Str("key"),
                Str("x_label"), Str("y_label"), Str("z_label"), Str("unit")>>)

----------------------------------------------------------------------------
(* Pins, outputs and sensors *)

encode_pin_capability(pin) ==
    push_string(pin.pin_id) \o push_string(pin.label)
      \o push_string(pin.electrical_class) \o U16(pin.flags)
      \o push_string(pin.timer_instance) \o push_string(pin.timer_channel)
      \o push_string(pin.adc_instance) \o OrMax(1, pin.adc_channel)
      \o push_string(pin.board_path)
      \o Counted(pin.routes, LAMBDA r :
            U8(PinFunctionClass_code[r.function_class]) \o push_string(r.mux_mode)
              \o push_string(r.signal) \o push_optional(r.exclusive_resource))

encode_pin_directory_payload(v) == Counted(v.entries, encode_pin_capability)

decode_pin_directory_payload ==
    Directory(<<Str("pin_id"), Str("label"), Str("electrical_class"), Need(2),
                Num("flags", 2), Str("timer_instance"), Str("timer_channel"),
                Str("adc_instance"), Need(1), Opt("adc_channel", 1),
                Str("board_path"), Need(1), Count("routes", 1),
                Each("routes", "routes",
                     <<Need(1), Code("function_class", PinFunctionClass_from),
                       Str("mux_mode"), Str("signal"), OptStr("exclusive_resource")>>)>>)

encode_pin_assignments_payload(v) ==
    Counted(v.entries, LAMBDA e :
        U8(EcuFunction_code[e.function]) \o push_string(e.pin_id)
          \o push_string(e.pin_label))

decode_pin_assignments_payload ==
    Directory(<<Need(1), Code("function", EcuFunction_from), Str("pin_id"),
                Str("pin_label")>>)

encode_output_test_directory_payload(v) ==
    Counted(v.entries, LAMBDA e :
        U8(e.channel) \o U8(output_group_code[e.group]) \o OrMax(2, e.default_pulse_ms)
          \o push_string(e.function) \o push_string(e.label))

decode_output_test_directory_payload ==
    Directory(<<Need(4), Num("channel", 1), Code("group", output_group_key),
                Opt("default_pulse_ms", 2), Str("function"), Str("label")>>)

encode_sensor_raw_payload(v) == U16(v.adc) \o U32(v.voltage)

decode_sensor_raw_payload == <<Exactly(6), Num("adc", 2), Num("voltage", 4)>>

encode_sensor_raw_directory_payload(v) ==
    Counted(v.entries, LAMBDA e :
        U8(e.channel) \o U16(e.expected_min_mv) \o U16(e.expected_max_mv)
          \o U16(e.fault_low_mv) \o U16(e.fault_high_mv) \o push_string(e.key)
          \o push_string(e.label) \o push_string(e.unit) \o push_string(e.pin_id)
          \o push_string(e.pin_label))

decode_sensor_raw_directory_payload ==
    Directory(<<Need(9), Num("channel", 1), Num("expected_min_mv", 2),
                Num("expected_max_mv", 2), Num("fault_low_mv", 2),
                Num("fault_high_mv", 2), Str("key"), Str("label"), Str("unit"),
                Str("pin_id"), Str("pin_label")>>)

encode_freeze_frames_payload(v) ==
    Counted(v.entries, LAMBDA e :
        push_string(e.code) \o push_string(e.label) \o push_string(e.reason)
          \o U32(e.rev_counter) \o U16(e.rpm) \o U16(e.map_kpa) \o U16(e.tps_pct)
          \o U16(e.coolant_c) \o U16(e.lambda) \o U16(e.vbatt) \o U8(e.gear))

\* The decoder scales the fixed-point fields to physical units: not modelled.
decode_freeze_frames_payload ==
    Directory(<<Str("code"), Str("label"), Str("reason"), Need(17),
                Num("rev_counter", 4), Num("rpm", 2), Num("map_kpa", 2),
                Num("tps_pct", 2), Num("coolant_c", 2), Num("lambda", 2),
                Num("vbatt", 2), Num("gear", 1)>>)

----------------------------------------------------------------------------
(* Trigger *)

encode_trigger_decoder_directory_payload(v) ==
    Counted(v.entries, LAMBDA e :
        PutFlag(e.requires_secondary) \o PutFlag(e.supports_sequential)
          \o U16(e.expected_engine_cycle_deg)
          \o push_string(e.key) \o push_string(e.label) \o push_string(e.family)
          \o push_string(e.decoder) \o push_string(e.pattern_kind)
          \o push_string(e.primary_input_label)
          \o push_optional(e.secondary_input_label)
          \o push_string(e.primary_sensor_kind)
          \o push_optional(e.secondary_sensor_kind)
          \o push_string(e.edge_policy) \o push_string(e.sync_strategy)
          \o push_string(e.primary_pattern_hint)
          \o push_optional(e.secondary_pattern_hint)
          \o push_string(e.reference_description))

decode_trigger_decoder_directory_payload ==
    Directory(<<Need(4), Flag("requires_secondary"), Flag("supports_sequential"),
                Num("expected_engine_cycle_deg", 2), Str("key"), Str("label"),
                Str("family"), Str("decoder"), Str("pattern_kind"),
                Str("primary_input_label"), OptStr("secondary_input_label"),
                Str("primary_sensor_kind"), OptStr("secondary_sensor_kind"),
                Str("edge_policy"), Str("sync_strategy"),
                Str("primary_pattern_hint"), OptStr("secondary_pattern_hint"),
                Str("reference_description")>>)

encode_trigger_capture_payload(v) ==
    push_string(v.preset_key) \o push_string(v.preset_label)
      \o push_string(v.sync_state) \o U16(v.trigger_rpm) \o U32(v.sync_loss_counter)
      \o U32(v.synced_cycles) \o U16(v.engine_cycle_deg) \o U32(v.capture_window_us)
      \o U16(v.sample_period_us) \o push_string(v.primary_label)
      \o push_optional(v.secondary_label) \o U16(v.tooth_count)
      \o U8(v.sync_gap_tooth_count) \o U16(v.primary_edge_count)
      \o U16(v.secondary_edge_count) \o U16(Len(v.primary_samples))
      \o v.primary_samples \o v.secondary_samples

\* The second check asks for seven bytes before nine are read.
decode_trigger_capture_payload ==
    <<Str("preset_key"), Str("preset_label"), Str("sync_state"), Need(19),
      Num("trigger_rpm", 2), Num("sync_loss_counter", 4), Num("synced_cycles", 4),
      Num("engine_cycle_deg", 2), Num("capture_window_us", 4),
      Num("sample_period_us", 2), Str("primary_label"), OptStr("secondary_label"),
      Need(7), Num("tooth_count", 2), Num("sync_gap_tooth_count", 1),
      Num("primary_edge_count", 2), Num("secondary_edge_count", 2),
      Count("samples", 2), Room("samples", 2, 0), Raw("primary_samples", "samples"),
      Raw("secondary_samples", "samples"), End>>

encode_trigger_tooth_log_payload(v) ==
    push_string(v.preset_key) \o push_string(v.preset_label)
      \o push_string(v.sync_state) \o U16(v.trigger_rpm) \o U16(v.engine_cycle_deg)
      \o push_string(v.primary_label) \o push_optional(v.secondary_label)
      \o U16(v.reference_event_index) \o U32(v.dominant_gap_ratio)
      \o U16(Len(v.tooth_intervals_us))
      \o ForEach(v.tooth_intervals_us, LAMBDA e : U32(e.us))
      \o Counted(v.secondary_event_indexes, LAMBDA e : U16(e.index))

decode_trigger_tooth_log_payload ==
    <<Str("preset_key"), Str("preset_label"), Str("sync_state"), Need(10),
      Num("trigger_rpm", 2), Num("engine_cycle_deg", 2), Str("primary_label"),
      OptStr("secondary_label"), Need(8), Num("reference_event_index", 2),
      Num("dominant_gap_ratio", 4), Count("teeth", 2), Room("teeth", 4, 1),
      Each("tooth_intervals_us", "teeth", <<Num("us", 4)>>),
      Count("secondary", 1), Room("secondary", 2, 0),
      Each("secondary_event_indexes", "secondary", <<Num("index", 2)>>), End>>

----------------------------------------------------------------------------
(* CAN directories *)

encode_can_template_directory_payload(v) ==
    Counted(v.entries, LAMBDA e :
        U8(e.id) \o U32(e.can_id) \o PutFlag(e.extended_id) \o U8(e.dlc)
          \o push_string(e.key) \o push_string(e.label) \o push_string(e.direction)
          \o push_string(e.category))

decode_can_template_directory_payload ==
    Directory(<<Need(7), Num("id", 1), Num("can_id", 4), Flag("extended_id"),
                Num("dlc", 1), Str("key"), Str("label"), Str("direction"),
                Str("category")>>)

encode_can_signal_directory_payload(v) ==
    Counted(v.entries, LAMBDA e :
        U8(e.id) \o U8(e.template_id) \o U8(e.start_bit) \o U8(e.bit_length)
          \o U8(e.flags) \o U32(e.scale) \o U32(e.offset) \o U32(e.min) \o U32(e.max)
          \o push_string(e.key) \o push_string(e.label) \o push_string(e.maps_to)
          \o push_string(e.unit))

decode_can_signal_directory_payload ==
    Directory(<<Need(21), Num("id", 1), Num("template_id", 1), Num("start_bit", 1),
                Num("bit_length", 1), Num("flags", 1), Num("scale", 4),
                Num("offset", 4), Num("min", 4), Num("max", 4), Str("key"),
                Str("label"), Str("maps_to"), Str("unit")>>)

----------------------------------------------------------------------------
(* Pages *)

encode_page_statuses_payload(v) ==
    Counted(v.entries, LAMBDA e :
        U8(e.page_id) \o U32(e.ram_crc) \o U32(e.flash_crc) \o PutFlag(e.needs_burn)
          \o U32(e.flash_generation) \o PutFlag(e.flash_valid))

\* Ten bytes a page, or fifteen: the length of the whole payload tells.  The
\* short form reads as generation 0 of a valid image.
decode_page_statuses_payload(payload) ==
    LET head == Run(<<Need(1), Count("entries", 1)>>, Start(payload))
        count == head.counts["entries"]
        short == <<Num("page_id", 1), Num("ram_crc", 4), Num("flash_crc", 4),
                   Flag("needs_burn")>>
        long == short \o <<Num("flash_generation", 4), Flag("flash_valid")>>
    IN  IF head.error # "none" THEN head
        ELSE IF Len(payload) = 1 + count * 15
        THEN Run(<<Each("entries", "entries", long)>>, head)
        ELSE IF Len(payload) = 1 + count * 10
        THEN LET read == Run(<<Each("entries", "entries", short)>>, head)
             IN  Field(read, "entries",
                       [ i \in 1..count |-> read.out["entries"][i]
                           @@ [flash_generation |-> 0, flash_valid |-> TRUE] ])
        ELSE Fail(head, "malformed")

encode_page_request(v) == U8(v.page_id)

decode_page_request == <<Exactly(1), Num("page_id", 1)>>

encode_page_payload(v) ==
    U8(v.page_id) \o U16(Len(v.payload)) \o U32(Checksum(v.payload)) \o v.payload

decode_page_payload(payload) ==
    LET c == Run(<<Need(7), Num("page_id", 1), Count("len", 2), Room("len", 1, 4),
                   Num("payload_crc", 4), Raw("payload", "len"), End>>,
                 Start(payload))
    IN  IF c.error = "none" /\ c.out["payload_crc"] # Checksum(c.out["payload"])
        THEN Fail(c, "malformed") ELSE c

encode_ack_payload(v) == U8(v.page_id) \o PutFlag(v.needs_burn)

decode_ack_payload == <<Exactly(2), Num("page_id", 1), Flag("needs_burn")>>

encode_nack_payload(v) == U8(v.code) \o push_string(v.reason)

decode_nack_payload == <<Need(1), Num("code", 1), Str("reason"), End>>

to_payload(v) ==
    U8(v.table_id) \o U8(Len(v.x_bins)) \o U8(Len(v.y_bins))
      \o ForEach(v.x_bins, LAMBDA e : U16(e.raw)) \o ForEach(v.y_bins, LAMBDA e : U16(e.raw))
      \o ForEach(v.data, LAMBDA e : U16(e.raw))

decode_raw_table_payload(payload) ==
    LET head == Run(<<Need(3), Num("table_id", 1), Count("x", 1), Count("y", 1)>>,
                    Start(payload))
        x == head.counts["x"]
        y == head.counts["y"]
        cells == [head EXCEPT !.counts = ("cells" :> (x * y)) @@ @]
    IN  IF head.error # "none" THEN head
        ELSE IF Left(head) # 2 * (x + y + (x * y)) THEN Fail(head, "malformed")
        ELSE Run(<<Each("x_bins", "x", <<Num("raw", 2)>>),
                   Each("y_bins", "y", <<Num("raw", 2)>>),
                   Each("data", "cells", <<Num("raw", 2)>>)>>, cells)

----------------------------------------------------------------------------
(* Firmware update and network *)

encode_firmware_update_status_payload(v) ==
    U8(v.state) \o U8(v.active_bank) \o U8(v.last_good_bank)
      \o OrMax(1, v.pending_bank) \o U8(v.boot_attempts) \o U16(v.rollback_counter)
      \o U32(v.candidate_size) \o U32(v.candidate_crc)
      \o U32(v.health_window_remaining_ms)

decode_firmware_update_status_payload ==
    <<Exactly(19), Num("state", 1), Num("active_bank", 1), Num("last_good_bank", 1),
      Opt("pending_bank", 1), Num("boot_attempts", 1), Num("rollback_counter", 2),
      Num("candidate_size", 4), Num("candidate_crc", 4),
      Num("health_window_remaining_ms", 4)>>

encode_flash_resume_payload(v) ==
    U32(v.session_id) \o U32(v.next_block) \o U32(v.rolling_crc)

decode_flash_resume_payload ==
    <<Exactly(12), Num("session_id", 4), Num("next_block", 4), Num("rolling_crc", 4)>>

\* A request is empty, or names a session.
decode_flash_resume_request_payload(payload) ==
    IF payload = << >> THEN Field(Start(payload), "session_id", None)
    ELSE Run(<<Exactly(4), Num("session_id", 4)>>, Start(payload))

encode_network_profile_payload(v) ==
    U8(ProductTrack_code[v.product_track]) \o PutFlag(v.multi_master_can)
      \o Counted(v.links, LAMBDA l :
            U8(TransportLinkKind_code[l.kind]) \o PutFlag(l.realtime_safe)
              \o PutFlag(l.firmware_update_allowed)
              \o Counted(l.classes, LAMBDA e : U8(MessageClass_code[e.class])))

decode_network_profile_payload ==
    <<Need(3), Code("product_track", ProductTrack_from), Flag("multi_master_can"),
      Count("links", 1),
      Each("links", "links",
           <<Need(4), Code("kind", TransportLinkKind_from), Flag("realtime_safe"),
             Flag("firmware_update_allowed"), Count("classes", 1),
             Room("classes", 1, 0),
             Each("classes", "classes", <<Code("class", MessageClass_from)>>)>>), End>>

----------------------------------------------------------------------------
(* Datalog *)

encode_log_status_payload(v) ==
    PutFlag(v.active) \o PutFlag(v.storage_present) \o PutFlag(v.rtc_synced)
      \o U8(v.logbook_entries) \o U32(v.session_id) \o U32(v.elapsed_ms)
      \o U32(v.bytes_written) \o U16(v.block_count) \o U16(v.block_size)

decode_log_status_payload ==
    <<Exactly(20), Flag("active"), Flag("storage_present"), Flag("rtc_synced"),
      Num("logbook_entries", 1), Num("session_id", 4), Num("elapsed_ms", 4),
      Num("bytes_written", 4), Num("block_count", 2), Num("block_size", 2)>>

\* Slip: the totals and the last session change places.
SummarySwapped(v) ==
    U32(v.sessions) \o U16(v.entries) \o U32(v.last_elapsed_ms)
      \o U32(v.last_bytes_written) \o U32(v.last_session_id) \o U32(v.total_elapsed_ms)
      \o U32(v.total_bytes_written) \o U16(v.last_block_count) \o PutFlag(v.rtc_synced)
      \o U32(v.last_rtc_sync_ms)

encode_logbook_summary_payload(v) ==
    U32(v.sessions) \o U16(v.entries) \o U32(v.total_elapsed_ms)
      \o U32(v.total_bytes_written) \o U32(v.last_session_id) \o U32(v.last_elapsed_ms)
      \o U32(v.last_bytes_written) \o U16(v.last_block_count) \o PutFlag(v.rtc_synced)
      \o U32(v.last_rtc_sync_ms)

decode_logbook_summary_payload ==
    <<Exactly(33), Num("sessions", 4), Num("entries", 2), Num("total_elapsed_ms", 4),
      Num("total_bytes_written", 4), Num("last_session_id", 4),
      Num("last_elapsed_ms", 4), Num("last_bytes_written", 4),
      Num("last_block_count", 2), Flag("rtc_synced"), Num("last_rtc_sync_ms", 4)>>

encode_log_block_payload(v) ==
    U16(v.block_index) \o U16(v.total_blocks) \o U16(Len(v.payload))
      \o U32(Checksum(v.payload)) \o v.payload

decode_log_block_payload(payload) ==
    LET c == Run(<<Need(10), Num("block_index", 2), Num("total_blocks", 2),
                   Count("len", 2), Room("len", 1, 4), Num("payload_crc", 4),
                   Raw("payload", "len"), End>>, Start(payload))
    IN  IF c.error = "none" /\ c.out["payload_crc"] # Checksum(c.out["payload"])
        THEN Fail(c, "malformed") ELSE c

\* The eight bytes of the epoch as two words.
encode_sync_rtc_payload(v) == U32(v.epoch_high) \o U32(v.epoch_low)

decode_sync_rtc_payload == <<Exactly(8), Num("epoch_high", 4), Num("epoch_low", 4)>>

----------------------------------------------------------------------------
(* The live-data frame (live_data.rs): 128 bytes without counts or strings. *)
(* A value is in ten-thousandths, the finest scale of the frame.            *)

LIVE_UNIT == 10000

\* What a field is cast to, and the bounds a floating-point value is cut off
\* at before the cast; an integer of the same width needs none.
u8 == [w |-> 1, low |-> 0, high |-> 255]
i8 == [w |-> 1, low |-> -128, high |-> 127]
u16 == [w |-> 2, low |-> 0, high |-> 65535]
i16 == [w |-> 2, low |-> -32768, high |-> 32767]
u32 == [w |-> 4, low |-> 0, high |-> 200000]  \* bound: what TLC counts in LIVE_UNITs

Slots(kind, scale, names) ==
    [i \in DOMAIN names |-> [name |-> names[i], kind |-> kind, scale |-> scale]]

pad == Slots(u8, 1, <<"pad">>)

\* The engine: speed, pressures, temperatures, fuel, spark, cams.
engine_slots ==
    Slots(u32, 1, <<"timestamp_ms">>)
    \o Slots(u16, 1, <<"rpm">>) \o Slots(i16, 1, <<"rpm_accel">>)
    \o Slots(u8, 1, <<"sync_loss_counter">>) \o pad
    \o Slots(u16, 10, <<"map_kpa", "baro_kpa", "oil_pressure_kpa", "fuel_pressure_kpa">>)
    \o Slots(i16, 10, <<"boost_kpa", "coolant_c", "intake_c", "oil_temp_c", "fuel_temp_c",
                        "aux_temp1_c", "aux_temp2_c">>)
    \o Slots(i8, 1, <<"mcu_temp_c">>) \o pad
    \o Slots(i16, 100, <<"tps_pct", "pedal_pct", "fuel_load", "ign_load">>)
    \o Slots(u16, 10000, <<"lambda", "lambda2">>) \o Slots(u16, 100, <<"afr_target">>)
    \o Slots(u8, 2, <<"injector_duty_pct">>) \o Slots(u8, 1, <<"ve_pct">>)
    \o Slots(i16, 100, <<"fuel_correction_pct">>) \o Slots(u8, 1, <<"accel_enrich_pct">>) \o pad
    \o Slots(u16, 1000, <<"actual_pulsewidth_ms">>) \o Slots(u16, 100, <<"wall_fuel_mg">>)
    \o Slots(i16, 10, <<"advance_deg">>) \o Slots(u16, 1000, <<"dwell_ms">>)
    \o Slots(i16, 1, <<"injection_offset_deg">>)
    \o Slots(u16, 100, <<"vbatt">>) \o Slots(i16, 1000, <<"vref_mv">>)

\* Vehicle, controllers and corrections.
controller_slots ==
    Slots(u16, 1, <<"vss_kmh">>) \o Slots(u8, 1, <<"gear">>) \o pad
    \o Slots(i16, 10, <<"vvt_b1_intake_deg", "vvt_b1_exhaust_deg", "vvt_b2_intake_deg",
                        "vvt_b2_exhaust_deg">>)
    \o Slots(u8, 1, <<"knock_level">>) \o Slots(i8, 1, <<"knock_retard_deg">>)
    \o Slots(u16, 10, <<"boost_target_kpa">>) \o Slots(u8, 1, <<"boost_duty_pct">>)
    \o Slots(u16, 1, <<"idle_target_rpm">>) \o Slots(u8, 1, <<"idle_valve_pct">>)
    \o Slots(i16, 100, <<"correction_iat", "correction_clt", "correction_baro",
                         "correction_flex">>)

\* Flags, counters, rotational idle and the transmission.
status_slots ==
    Slots(u32, 1, <<"status_flags">>) \o Slots(u8, 1, <<"protect_flags">>)
    \o Slots(u16, 1, <<"error_flags">>) \o Slots(u8, 1, <<"live_frame_seq">>)
    \o Slots(u16, 1, <<"revolution_counter", "loops_per_sec">>)
    \o Slots(u8, 1, <<"free_heap_pct", "rotational_idle_cut_pct">>)
    \o Slots(u16, 1, <<"rotational_idle_timer_cs">>)
    \o Slots(u8, 1, <<"rotational_idle_active_cylinders", "rotational_idle_gate_code",
                      "rotational_idle_sync_guard_events", "transmission_status_flags",
                      "transmission_requested_gear", "transmission_torque_reduction_pct">>)
    \o Slots(u16, 1, <<"transmission_torque_reduction_timer_cs">>)
    \o Slots(u8, 1, <<"transmission_shift_result_code", "transmission_shift_request_counter",
                      "transmission_shift_timeout_counter", "transmission_shift_fault_code",
                      "transmission_state_code">>)
    \o Slots(u16, 1, <<"transmission_request_age_cs">>)
    \o Slots(u8, 1, <<"transmission_ack_counter">>)

LiveDataFrame == engine_slots \o controller_slots \o status_slots

\* The number a value is sent as: scaled, rounded, cut off at the bounds.
sent_as(slot, v) ==
    LET per == LIVE_UNIT \div slot.scale
        raw == (v + (per \div 2)) \div per
    IN  IF raw < slot.kind.low THEN slot.kind.low
        ELSE IF raw > slot.kind.high THEN slot.kind.high ELSE raw

\* What the host reads back for a value.
seen_as(slot, v) == sent_as(slot, v) * (LIVE_UNIT \div slot.scale)

encode_live_data(v) ==
    ForEach(LiveDataFrame, LAMBDA slot :
        IF slot.name = "pad" THEN <<0>> ELSE Bytes(slot.kind.w, sent_as(slot, v[slot.name])))

\* The decoder spells out the layout a second time.
Scaled(kind, scale, names) ==
    [ i \in DOMAIN names |->
        [ step |-> "fixed", name |-> names[i], w |-> kind.w, as |-> "scaled",
          signed |-> kind.low < 0, per |-> LIVE_UNIT \div scale ] ]

skip == Scaled(u8, 1, <<"pad">>)

engine_reads ==
    Scaled(u32, 1, <<"timestamp_ms">>) \o Scaled(u16, 1, <<"rpm">>)
    \o Scaled(i16, 1, <<"rpm_accel">>) \o Scaled(u8, 1, <<"sync_loss_counter">>) \o skip
    \o Scaled(u16, 10, <<"map_kpa", "baro_kpa", "oil_pressure_kpa", "fuel_pressure_kpa">>)
    \o Scaled(i16, 10, <<"boost_kpa", "coolant_c", "intake_c", "oil_temp_c", "fuel_temp_c",
                         "aux_temp1_c", "aux_temp2_c">>)
    \o Scaled(i8, 1, <<"mcu_temp_c">>) \o skip
    \o Scaled(i16, 100, <<"tps_pct", "pedal_pct", "fuel_load", "ign_load">>)
    \o Scaled(u16, 10000, <<"lambda", "lambda2">>) \o Scaled(u16, 100, <<"afr_target">>)
    \o Scaled(u8, 2, <<"injector_duty_pct">>) \o Scaled(u8, 1, <<"ve_pct">>)
    \o Scaled(i16, 100, <<"fuel_correction_pct">>)
    \o Scaled(u8, 1, <<"accel_enrich_pct">>) \o skip
    \o Scaled(u16, 1000, <<"actual_pulsewidth_ms">>) \o Scaled(u16, 100, <<"wall_fuel_mg">>)
    \o Scaled(i16, 10, <<"advance_deg">>) \o Scaled(u16, 1000, <<"dwell_ms">>)
    \o Scaled(i16, 1, <<"injection_offset_deg">>)
    \o Scaled(u16, 100, <<"vbatt">>) \o Scaled(i16, 1000, <<"vref_mv">>)

controller_reads ==
    Scaled(u16, 1, <<"vss_kmh">>) \o Scaled(u8, 1, <<"gear">>) \o skip
    \o Scaled(i16, 10, <<"vvt_b1_intake_deg", "vvt_b1_exhaust_deg", "vvt_b2_intake_deg",
                         "vvt_b2_exhaust_deg">>)
    \o Scaled(u8, 1, <<"knock_level">>) \o Scaled(i8, 1, <<"knock_retard_deg">>)
    \o Scaled(u16, 10, <<"boost_target_kpa">>) \o Scaled(u8, 1, <<"boost_duty_pct">>)
    \o Scaled(u16, 1, <<"idle_target_rpm">>) \o Scaled(u8, 1, <<"idle_valve_pct">>)
    \o Scaled(i16, 100, <<"correction_iat", "correction_clt", "correction_baro",
                          "correction_flex">>)

status_reads ==
    Scaled(u32, 1, <<"status_flags">>) \o Scaled(u8, 1, <<"protect_flags">>)
    \o Scaled(u16, 1, <<"error_flags">>) \o Scaled(u8, 1, <<"live_frame_seq">>)
    \o Scaled(u16, 1, <<"revolution_counter", "loops_per_sec">>)
    \o Scaled(u8, 1, <<"free_heap_pct", "rotational_idle_cut_pct">>)
    \o Scaled(u16, 1, <<"rotational_idle_timer_cs">>)
    \o Scaled(u8, 1, <<"rotational_idle_active_cylinders", "rotational_idle_gate_code",
                       "rotational_idle_sync_guard_events", "transmission_status_flags",
                       "transmission_requested_gear", "transmission_torque_reduction_pct">>)
    \o Scaled(u16, 1, <<"transmission_torque_reduction_timer_cs">>)
    \o Scaled(u8, 1, <<"transmission_shift_result_code", "transmission_shift_request_counter",
                       "transmission_shift_timeout_counter", "transmission_shift_fault_code",
                       "transmission_state_code">>)
    \o Scaled(u16, 1, <<"transmission_request_age_cs">>)
    \o Scaled(u8, 1, <<"transmission_ack_counter">>)

\* The callers hand over an array of exactly the frame's size.
decode_live_data == <<Exactly(128)>> \o engine_reads \o controller_reads \o status_reads

----------------------------------------------------------------------------
(* By packet: the form of a payload is its command, or for the Ack of a flash  *)
(* session, "FlashSession".                                                   *)

encode(form, v) ==
    CASE form = "VersionResponse"     -> encode_identity_payload(v)
      [] form = "LiveData"            -> encode_live_data(v)
      [] form = "Capabilities"        -> encode_capabilities_payload(v)
      [] form = "TableMetadata"       -> encode_table_metadata_payload(v)
      [] form = "PinDirectory"        -> encode_pin_directory_payload(v)
      [] form \in {"PinAssignments", "PinAssign"} -> encode_pin_assignments_payload(v)
      [] form = "OutputTestDirectory" -> encode_output_test_directory_payload(v)
      [] form = "SensorRaw"           -> encode_sensor_raw_payload(v)
      [] form = "SensorRawDirectory"  -> encode_sensor_raw_directory_payload(v)
      [] form = "FreezeFrames"        -> encode_freeze_frames_payload(v)
      [] form = "TriggerDecoderDirectory" -> encode_trigger_decoder_directory_payload(v)
      [] form = "TriggerCapture"      -> encode_trigger_capture_payload(v)
      [] form = "TriggerToothLog"     -> encode_trigger_tooth_log_payload(v)
      [] form = "CanTemplateDirectory" -> encode_can_template_directory_payload(v)
      [] form = "CanSignalDirectory"  -> encode_can_signal_directory_payload(v)
      [] form = "PageStatuses"        -> encode_page_statuses_payload(v)
      [] form \in {"ReadPage", "BurnPage"} -> encode_page_request(v)
      [] form \in {"PageData", "WritePage"} -> encode_page_payload(v)
      [] form = "Ack"                 -> encode_ack_payload(v)
      [] form = "Nack"                -> encode_nack_payload(v)
      [] form \in {"TableData", "WriteTable"} -> to_payload(v)
      [] form = "UpdateStatus"        -> encode_firmware_update_status_payload(v)
      [] form = "FlashSession"       -> encode_flash_resume_payload(v)
      [] form = "FlashResume"         -> IF v.session_id = None THEN << >> ELSE U32(v.session_id)
      [] form = "NetworkProfile"      -> encode_network_profile_payload(v)
      [] form = "LogStatusResponse"   -> encode_log_status_payload(v)
      [] form = "LogbookSummaryResponse" -> encode_logbook_summary_payload(v)
      [] form = "LogBlockData"        -> encode_log_block_payload(v)
      [] form = "SyncRtc"             -> encode_sync_rtc_payload(v)

decode(form, p) ==
    CASE form = "VersionResponse"     -> decode_identity_payload(p)
      [] form = "LiveData"            -> Run(decode_live_data, Start(p))
      [] form = "Capabilities"        -> Run(decode_capabilities_payload, Start(p))
      [] form = "TableMetadata"       -> Run(decode_table_metadata_payload, Start(p))
      [] form = "PinDirectory"        -> Run(decode_pin_directory_payload, Start(p))
      [] form \in {"PinAssignments", "PinAssign"} ->
             Run(decode_pin_assignments_payload, Start(p))
      [] form = "OutputTestDirectory" -> Run(decode_output_test_directory_payload, Start(p))
      [] form = "SensorRaw"           -> Run(decode_sensor_raw_payload, Start(p))
      [] form = "SensorRawDirectory"  -> Run(decode_sensor_raw_directory_payload, Start(p))
      [] form = "FreezeFrames"        -> Run(decode_freeze_frames_payload, Start(p))
      [] form = "TriggerDecoderDirectory" ->
             Run(decode_trigger_decoder_directory_payload, Start(p))
      [] form = "TriggerCapture"      -> Run(decode_trigger_capture_payload, Start(p))
      [] form = "TriggerToothLog"     -> Run(decode_trigger_tooth_log_payload, Start(p))
      [] form = "CanTemplateDirectory" -> Run(decode_can_template_directory_payload, Start(p))
      [] form = "CanSignalDirectory"  -> Run(decode_can_signal_directory_payload, Start(p))
      [] form = "PageStatuses"        -> decode_page_statuses_payload(p)
      [] form \in {"ReadPage", "BurnPage"} -> Run(decode_page_request, Start(p))
      [] form \in {"PageData", "WritePage"} -> decode_page_payload(p)
      [] form = "Ack"                 -> Run(decode_ack_payload, Start(p))
      [] form = "Nack"                -> Run(decode_nack_payload, Start(p))
      [] form \in {"TableData", "WriteTable"} -> decode_raw_table_payload(p)
      [] form = "UpdateStatus"        -> Run(decode_firmware_update_status_payload, Start(p))
      [] form = "FlashSession"       -> Run(decode_flash_resume_payload, Start(p))
      [] form = "FlashResume"         -> decode_flash_resume_request_payload(p)
      [] form = "NetworkProfile"      -> Run(decode_network_profile_payload, Start(p))
      [] form = "LogStatusResponse"   -> Run(decode_log_status_payload, Start(p))
      [] form = "LogbookSummaryResponse" -> Run(decode_logbook_summary_payload, Start(p))
      [] form = "LogBlockData"        -> decode_log_block_payload(p)
      [] form = "SyncRtc"             -> Run(decode_sync_rtc_payload, Start(p))
============================================================================
