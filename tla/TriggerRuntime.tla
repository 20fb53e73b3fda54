--------------------------- MODULE TriggerRuntime ---------------------------
(***************************************************************************)
(* TriggerRuntime (trigger_runtime.rs) with the decoder catalogue of       *)
(* trigger.rs and the wheel arithmetic of trigger_model.rs: which decoder  *)
(* page 0 selects, the wheel it stands for, the tooth log it shows, and    *)
(* the counters of its synchronisation.  Angles are degrees, intervals     *)
(* microseconds, gap ratios hundredths; the sampled trace of a capture is  *)
(* a drawing of the intervals and is left out.                             *)
(***************************************************************************)
EXTENDS Integers, Sequences

CONSTANT LOSS_PERIOD    \* 173: samples between simulated sync losses

LossPeriodAssumption == LOSS_PERIOD \in Nat \ {0}

Clamp(x, low, high) == IF x < low THEN low ELSE IF x > high THEN high ELSE x

----------------------------------------------------------------------------
(* SUPPORTED_TRIGGER_DECODERS: every preset has a cycle of 720 degrees.    *)

Preset(home, secondary) == [cycle |-> 720, home |-> home, secondary |-> secondary]

UniversalDecoders == { "generic_60_2", "generic_36_1", "dual_wheel",
                       "distributor_basic_4", "distributor_basic_6", "distributor_basic_8" }

OemDecoders == { "honda_k20_12_1", "toyota_36_2_2_2", "gm_24x", "nissan_360_slot",
                 "subaru_6_7", "mitsubishi_4g63", "mazda_36_2_1", "ford_st170" }

MoreOemDecoders == { "gm_58x", "toyota_2jz_vvti", "bmw_m54_60_2", "ford_coyote",
                     "subaru_ej_36_2_2_2", "mazda_bp_4_1", "nissan_vq_36_2_2_2" }

PresetKeys == UniversalDecoders \cup OemDecoders \cup MoreOemDecoders

\* Decoders that find home by a missing tooth, and those of one signal only.
HomeDecoders == { "generic_60_2", "generic_36_1", "ford_st170", "toyota_2jz_vvti",
                  "bmw_m54_60_2", "ford_coyote" }
SingleDecoders == {"distributor_basic_4", "distributor_basic_6", "distributor_basic_8"}

Presets == [key \in PresetKeys |-> Preset(key \in HomeDecoders, key \notin SingleDecoders)]

\* An unknown key shows the first preset of the catalogue.
find_preset(key) ==
    IF key \in PresetKeys THEN Presets[key] ELSE Presets["generic_60_2"]

oem_nominal_events(key) ==
    CASE key \in {"mitsubishi_4g63", "mazda_bp_4_1"} -> 8
      [] key \in {"honda_k20_12_1", "subaru_6_7"} -> 12
      [] key \in {"gm_24x", "dual_wheel"} -> 48
      [] key \in {"toyota_36_2_2_2", "subaru_ej_36_2_2_2", "nissan_vq_36_2_2_2"} -> 64
      [] key = "toyota_2jz_vvti" -> 68
      [] key \in {"mazda_36_2_1", "ford_st170", "ford_coyote"} -> 70
      [] key = "nissan_360_slot" -> 90
      [] key \in {"gm_58x", "bmw_m54_60_2"} -> 116
      [] OTHER -> 36

----------------------------------------------------------------------------
(* Decoder selection.  Page 0 is [cylinders, type, teeth, missing, cam,    *)
(* secondary], the bytes Page0TriggerConfig::parse takes from it.          *)

DefaultPage0 == [ cylinders |-> 4, type |-> 0, teeth |-> 60, missing |-> 2,
                  cam |-> TRUE, secondary |-> TRUE ]

sanitize_cylinder_count(value) == IF value = 0 THEN 4 ELSE Clamp(value, 1, 16)

normalize_distributor_cylinders(value) ==
    LET cylinders == sanitize_cylinder_count(value)
    IN  IF cylinders >= 8 THEN 8 ELSE IF cylinders >= 6 THEN 6 ELSE 4

sanitize_total(teeth) == IF teeth < 4 THEN 60 ELSE Clamp(teeth, 4, 512)

\* At least one tooth is missing and at least one is left.
sanitize_missing(teeth, missing) ==
    IF missing = 0 THEN 2 ELSE Clamp(missing, 1, sanitize_total(teeth) - 1)

MissingTooth(page) ==
    LET total == sanitize_total(page.teeth)
        missing == sanitize_missing(page.teeth, page.missing)
    IN  [ key |-> IF total = 36 /\ missing = 1 THEN "generic_36_1" ELSE "generic_60_2",
          mode |-> "missing_tooth", teeth |-> total, events |-> missing ]

DualWheel(page, events) ==
    [ key |-> "dual_wheel", mode |-> "dual_wheel",
      teeth |-> Clamp(page.teeth, 4, 96), events |-> events ]

Distributor(page) ==
    LET cylinders == normalize_distributor_cylinders(page.cylinders)
    IN  [ key |-> CASE cylinders = 8 -> "distributor_basic_8"
                    [] cylinders = 6 -> "distributor_basic_6"
                    [] OTHER -> "distributor_basic_4",
          mode |-> "distributor", teeth |-> cylinders, events |-> 0 ]

CatalogDefault(key) == [key |-> key, mode |-> "catalog", teeth |-> 0, events |-> 0]

\* The decoder of the types 1 to 9.
CatalogTypes ==
    << "subaru_6_7", "mitsubishi_4g63", "gm_24x", "honda_k20_12_1", "honda_k20_12_1",
       "nissan_vq_36_2_2_2", "nissan_360_slot", "toyota_36_2_2_2", "ford_st170" >>

Phased(page) == page.secondary \/ page.cam

select_decoder(page) ==
    LET second == IF page.secondary THEN 2 ELSE 1
    IN  CASE page.type \in DOMAIN CatalogTypes -> CatalogDefault(CatalogTypes[page.type])
          [] page.type = 10 /\ Phased(page) -> DualWheel(page, 1)
          [] page.type \in {11, 12} -> Distributor(page)
          [] page.type = 13 -> DualWheel(page, second)
          [] page.type = 14 /\ Phased(page) -> DualWheel(page, second)
          [] page.type = 14 /\ ~Phased(page) /\ page.missing = 0 -> Distributor(page)
          [] OTHER -> MissingTooth(page)

----------------------------------------------------------------------------
(* The wheel: events per cycle, dominant gap in hundredths (0 for none).   *)

\* missing_tooth of trigger_model.rs for a four-stroke engine, two revolutions
\* a cycle, rising edges.
visible_events(wheel) == 2 * (wheel.teeth - wheel.events)

runtime_profile(page) ==
    LET wheel == select_decoder(page)
        preset == find_preset(wheel.key)
        phase == IF Phased(page) THEN 1 ELSE 0
    IN  CASE wheel.mode = "missing_tooth" ->
                [ cycle |-> 720, primary |-> visible_events(wheel),
                  secondary |-> phase, gap |-> 100 * (wheel.events + 1),
                  missing |-> Clamp(wheel.events, 0, 255),
                  reference |-> visible_events(wheel) \div 2 ]
          [] wheel.mode = "distributor" ->
                [ cycle |-> 720, primary |-> wheel.teeth, secondary |-> phase,
                  gap |-> 0, missing |-> 0, reference |-> 0 ]
          [] wheel.mode = "dual_wheel" ->
                [ cycle |-> 720, primary |-> 2 * wheel.teeth,
                  secondary |-> phase * wheel.events,
                  gap |-> 0, missing |-> 0, reference |-> wheel.teeth \div 2 ]
          [] wheel.mode = "catalog" ->
                [ cycle |-> preset.cycle, primary |-> oem_nominal_events(wheel.key),
                  secondary |-> IF preset.secondary \/ Phased(page) THEN 2 ELSE 0,
                  gap |-> IF preset.home THEN 145 ELSE 0,
                  missing |-> IF preset.home THEN 1 ELSE 0, reference |-> 0 ]

----------------------------------------------------------------------------
(* The tooth log of a profile `p` at sample `n`.                           *)

MIN_EVENTS == 6
MAX_EVENTS == 96
MAX_SECONDARY == 8

trigger_rpm(n) == 780 + (n % 180)

capture_window_us(cycle, rpm) == ((60000000 \div rpm) * cycle) \div 360

event_count(p) == Clamp(IF p.primary < 4 THEN 4 ELSE p.primary, MIN_EVENTS, MAX_EVENTS)

gap_index(p) == event_count(p) \div 2

\* The plain interval at `index` (from 0), with up to three steps of jitter.
jittered(base, n, index) ==
    LET step == IF base \div 40 < 1 THEN 1 ELSE base \div 40
    IN  base + (((n + index) % 7) - 3) * step

is_gap(p, index) == p.gap > 0 /\ index = gap_index(p)

\* tooth_intervals_us as a function of the index.
tooth_intervals(p, n) ==
    LET count == event_count(p)
        base == capture_window_us(p.cycle, trigger_rpm(n)) \div count
    IN  [ index \in 0..(count - 1) |->
            LET plain == jittered(base, n, index)
            IN  IF is_gap(p, index) THEN (plain * p.gap + 50) \div 100 ELSE plain ]

secondary_slots(p) == Clamp(p.secondary, 0, MAX_SECONDARY)

\* The secondary events split the log evenly; equal indexes are merged.
secondary_event_indexes(p) ==
    { (slot * event_count(p)) \div (secondary_slots(p) + 1) : slot \in 1..secondary_slots(p) }

reference_event_index(p) ==
    IF p.gap > 0 THEN gap_index(p) ELSE Clamp(p.reference, 0, event_count(p) - 1)

----------------------------------------------------------------------------
(* Synchronisation: [samples, losses, synced].                             *)

NewTrigger == [samples |-> 0, losses |-> 0, synced |-> 0]

Losing(samples) == samples % LOSS_PERIOD = 0

\* Slip: the runtime follows the live counter and loses its own advances.
FollowLiveCounter(t, n) ==
    IF Losing(n) THEN [samples |-> n, losses |-> t.losses + 1, synced |-> t.synced]
                 ELSE [samples |-> n, losses |-> t.losses, synced |-> t.synced + 1]

\* The runtime counts its own advances and jumps ahead to the live counter.
advance_state(t, n) ==
    LET next == IF n > t.samples + 1 THEN n ELSE t.samples + 1
    IN  IF Losing(next)
        THEN [samples |-> next, losses |-> t.losses + 1, synced |-> t.synced]
        ELSE [samples |-> next, losses |-> t.losses, synced |-> t.synced + 1]

sync_state(t) == IF Losing(t.samples) THEN "syncing" ELSE "locked"
=============================================================================
