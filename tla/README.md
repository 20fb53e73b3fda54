# Verification of the ST ECU firmware runtime

This directory holds TLA+ models of `st-ecu-firmware` (the crate under
`src/`), the TLC runs that check them on small instances, and TLAPS proofs of
the theorems that hold for every value of the constants. Paths below are
relative to the repository; `transport.rs:1608` is `src/transport.rs` line 1608.

    tlc -workers 2 -config MCFirmwareUpdate.cfg MCFirmwareUpdate.tla
    tlapm FirmwareUpdateProofs.tla

## 1. The system

The crate is the ECU side of a request/response protocol. One object,
`FirmwareRuntime` (`transport.rs`), owns all mutable state and has one entry
point, `handle_packet`: it ticks the update health window, dispatches on the
command, changes state and returns one reply. There are no threads, callbacks
or queues. What makes it hard is what surrounds the calls:

- the order of packets is the host's choice, and most handlers accept their
  packet in states nobody wrote a test for;
- time passes between packets (`Instant::now()`), and timeouts are noticed only
  by the next packet;
- power can be lost between any two packets. The runtime starts again from the
  `ConfigStore` its constructor is given: the flash slots of the pages, the RAM
  copies the caller put there, the resume scratch of an unfinished transfer;
- the same fact is often kept twice (session flags and `update_state`, page 3
  and `pin_assignments`, page 0 and the trigger decoder, the nonce counter and
  its record in page 9), and separate handlers have to keep the copies in step;
- one packet, `GetLiveData`, drives every simulated part of the engine, in an
  order that decides what each part sees of the others;
- the bytes between host and ECU are split and damaged on the way.

The engine controllers (launch control, fuel, knock and so on) are libraries
beside that runtime: no packet handler and no other controller calls them.

### Inventory

| component | state | operations | interacts with | what makes it correct |
|---|---|---|---|---|
| firmware update (`transport.rs:1480-1627`, `2405-2680`) | `flash_*`, `update_*`, the store's resume scratch | EnterBootloader, FlashResume, FlashBlock, FlashVerify, FlashComplete, ConfirmBootHealthy, window tick, restart | authentication, store | flags and state agree; only approved images go on trial; resumes never mix transfers; bounded loss; windows close in time |
| bootloader authentication (`1401-1478`, `2411-2468`) | `bootloader_auth_*` | challenge, answer, refresh, restart | opens the flash session; its end drops the challenge | single-use challenges; throttling; lockouts end |
| configuration store (`config.rs`) | RAM page, flash slot, erase count per page | write, burn, burn all, restore, import with migration | every page handler | headers predict burns; imports migrate exactly what is old |
| page packets and page crypto (`transport.rs:328-378`, `1315-1399`, `2214-2404`; `crypto.rs`) | pages 0, 3, 9, `pin_assignments`, trigger configuration, nonce counter | ReadPage, WritePage, BurnPage, PinAssign, restart | store, trigger runtime, io | running configuration = staged pages; nonces only increase |
| pin assignment (`io.rs`), board tables (`board.rs`, `pinmux.rs`) | none (pure) | validate, override, lookups | page 3 | no pin, timer channel or bus line claimed twice |
| calibration tables and page-0 derivations (`transport.rs:520-900`) | tuning tables, actuator bounds | ReadTable, WriteTable, WriteCell, parse of page 0 | live data | a table keeps its shape; bounds in order |
| datalogger and logbook (`1667-1766`, `2062-2164`) | `log_*` | LogStart, LogStop, LogStatus, ReadLogBlock, ResetLogbook, SyncRtc, sample | live data, output tests | blocks readable and accounted; totals add up |
| live data and output tests (`1768-2005`, `2261-2306`) | sample counter, last rpm, last flags | GetLiveData, RunOutputTest | all simulated parts, log, flash session | parts see the frame they are in; tests leave a trace |
| external TCU (`tcu.rs`) | shift request, counters, freshness | tick | live data | one request at a time, each ends in one outcome |
| rotational idle (`rotational_idle.rs`) | gate, delay, counters | tick | TCU, sync losses, protection | cuts only in calm; time in the cut accounted |
| wideband (`wideband.rs`, `lambda_dfsdm.rs`) | source, heater, faults | tick, process | live data | faults held, errors counted, table in range |
| protection, watchdog (`protection.rs`) | limits, task deadlines | evaluate, configure, kick, check | live data, output tests | the worst limit decides; an overdue task is named |
| launch, anti-lag, traction, drive-by-wire | phases, timers, cuts, latches | update | none in this repository | what is asked for has a cause and ends |
| idle, boost, VVT | PID integrals, targets, timers | update, tick | none in this repository | duties within their limits |
| fuel, ignition, knock | trims, wall film, dwell, retard, learnt noise | calculate, evaluate, learn, load weights | none in this repository | overrun learns nothing; spark never leads its table; retard has a knock |
| trigger runtime (`trigger_runtime.rs`, `trigger.rs`) | selection, sync counters | apply page 0, advance, capture, tooth log | page 0, live data | any page 0 selects a usable wheel; no loss missed |
| packet framing and payloads (`protocol.rs`, `network.rs`, `contract.rs`) | none | encode, decode, resynchronise | every packet | decode inverts encode; damage is refused |
| boot, reset, MCU, engine and HAL types | none | constants | | |

`PROJECT.json` lists the same parts with their status, and under `hazards`
every place where this code is hard to test, with the property that would
notice.

## 2. Modules

    UpdateLifecycle               the life cycle promised to the host (abstract)
      ^ implemented by
    FirmwareUpdate                flash session, health window, resume scratch
      ^ EXTENDS
    BootloaderSession --INSTANCE--> BootloaderAuth

    ConfigStore                   staged pages, burns, migration
    ConfigRuntime --EXTENDS--> PinAssignment

    LiveData --INSTANCE--> ExternalTcu, RotationalIdle, Wideband, Protection,
                           TriggerRuntime, Datalog

    Controllers --INSTANCE--> Launch (with anti-lag), DriveByWire (with
                              traction), BoostControl, IdleControl,
                              VvtControl, KnockControl, FuelControl,
                              IgnitionControl, LambdaSensor, Calibration,
                              TriggerRuntime, Protection, ExternalTcu
                              (over Curves)
    ShiftContract                 what the TCU bridge promises (abstract)

    Wire --EXTENDS--> Payloads --EXTENDS--> PayloadReader, WireCodes

`MC<Module>.tla` gives the constants that a cfg cannot express. The theorems are
in `<Module>Proofs.tla` for FirmwareUpdate, BootloaderAuth, ConfigStore,
ConfigRuntime, ExternalTcu, LiveData, Controllers and Wire; those of
BootloaderSession are at the end of FirmwareUpdateProofs, on which they rest. A
definition whose comment begins with `Slip` is a plausible mistake in the
definition that follows it; nothing uses it, it documents which error a
property notices (`mutants` in `PROJECT.json`).

### FirmwareUpdate

`flash` and `upd` are records of the `flash_*` and `update_*` fields, `scratch`
is the `FlashResumeScratch` in the store, `window_age` is a history variable.
Each handler is one action that begins with `Ticked`, the state after
`tick_update_health_window`, because `handle_packet` calls it first
(`transport.rs:2008`). All refused packets (wrong session, index, length, crc,
tag, signature or state) and all queries are `PacketWithoutEffect`: they tick
the window and change nothing else. `Advance` lets time pass; `Reboot` is
`new_with_store` over the surviving scratch.

Two abstractions matter. A stored `Instant` is represented by its age, in ticks
of 1/`TICKS_PER_MS` millisecond, so the truncation in `as_millis()` is visible.
`Crc` is an arbitrary function: the runs use one full of collisions, the
theorems hold for every one, so nothing rests on the checksum being injective.
`Signed` stands for `verify_flash_signature`; a matching auth tag exists for
every image. The state `PendingCommit` of the enum is never assigned and has
no place in the model.

### UpdateLifecycle

Phase, running bank, bank on trial, descriptor of the candidate, rollback
count. Receiving and Verified are one phase here; the transfer, the clock and
the scratch are hidden. `RollBackAndOpenTransfer` is there because the packet
that finds a trial expired may itself be the EnterBootloader that opens the
next transfer: one call, two transitions.

### BootloaderAuth and BootloaderSession

`auth` is the record of `bootloader_auth_*`; the two stored Instants are kept
relative to now (`since_attempt`, `lockout_left`). An answer is modelled by the
challenge it is the right answer to, so a stale answer is just an answer to
another challenge. Challenges are named cyclically; a name returns only after
the others. `spent` and `failures` are histories.

`BootloaderSession` runs both machines as one runtime. `AuthenticatedEnter` is
`Auth!Right` together with `EnterBootloader`; every other answer is an
authentication step together with `PacketWithoutEffect`; FlashComplete calls
`reset_flash_transfer_state`, which also drops a pending challenge; `Clock` and
`Restart` move both. That each part keeps its own specification is how the
composition is written and is no result; what it is for are the properties that
relate the two. The history `asked` is the phase of the update in which the
pending challenge was asked for: a challenge may be asked for in any phase, and
`ChallengeEndsWithSession` says that it cannot be carried from a transfer into
the health window that follows, where answering it would end the trial.

### ConfigStore

One record `store` with `ram`, `slot` and `cycles` per page. Operations are
functions of the store (`burn_page(s, p)`, `import_persisted_page_image(s, p,
image)`), the actions apply them. A payload is its magic and version bytes (all
the migrators touch) and a body they must keep.

### ConfigRuntime, PinAssignment

Pages 0, 3 and 9 with what the runtime derives from them. It models an
identity with page crypto. `used` is the highest nonce ever sent. Restart is
`new_with_store` on the store as it is, RAM copy included: that is what the
constructor receives and what `read_persisted_page_crypto_counter` falls back
to. A store whose RAM copy of page 9 is gone as well as its flash slot is not
modelled: the counter then starts from the key. `HostRewindsNonce` says whether a host may write an older copy of the nonce
record into page 9.

Page 3 holds lists of requests, a function with a pin, in page order. What a
list means is decided by `PinAssignment`, translated from `io.rs`: fixed paths,
the merge of an override with the default set, the claim of a pin and of the
exclusive resource of its route. It also holds the table of `board.rs`: 48 pins with
their classes, routes and reservations. A list that does not parse, or
that claims something twice, goes through the rejection path, which leaves the
canonical form of the previous assignments in RAM.

### LiveData and its parts

`GetLiveData` is one action: it advances the sample counter and ticks the parts
in the order of `build_live_data_frame`, so that it is visible which part sees
which value of the frame. Between frames the host may start, stop and reset the
log, capture the trigger, run output tests, open a flash session, or lose power.
Simulated sensors are the values the code chooses between; the sinusoidal
ripple on them crosses no threshold and is left out. `captures`, `markers` and
`calm_run` are histories.

`ExternalTcu`, `RotationalIdle`, `Wideband`, `Protection` and `Datalog` are
the tick functions as operators on a record of the struct's fields.
`TriggerRuntime` also holds the decoder catalogue of `trigger.rs`: which preset
page 0 selects, the wheel it stands for and the tooth log it shows. A line of
the log is its length, a block of the log its length too.

`ShiftContract` is what a host that reads the counters may rely on: a request
is pending until it has one outcome, an acknowledgement is one completed
request, a timeout one timed-out request.

### Controllers and its parts

Each controller is a module of pure update functions over a record of its
fields; `Controllers` is the bench that drives them one at a time (`unit`), with
inputs on both sides of every threshold. They share no state because the code
gives them none. Floating-point quantities are integers in a unit fine enough
for the comparisons made on them (`Curves` holds the interpolation and PID
arithmetic in scaled integers); rounding in the last place is not modelled.
The bench also drives what is derived from bytes a host stages: `Calibration`
(actuator bounds, tuning tables) and the wheels of `TriggerRuntime`.

### Wire, Payloads, PayloadReader, WireCodes

`Payloads` has an encoder and a decoder for every payload form of
`protocol.rs`. A decoder is the list of its reading steps in the order of the
code, run by `PayloadReader`: length checks, indexed fields, strings, counted
arrays. An indexed field past the end of the payload is the error "overrun",
which stands for the panic of a slice index, so that a missing length check is
visible. `Wire` frames packets, delivers the bytes in chunks, may change one of
them and resynchronises. The receiver's loop is not in the repository:
`from_bytes` leaves the bytes it refuses to its caller, and the model drops one
byte and tries again. `WireCodes` holds the code tables, in both directions where
the source has both, and the capabilities and link contracts that are announced.
`Checksum` stands for the crc: it detects any change of a single byte.
The scripts a sender may have are those of `WireAssumption`: known commands,
and payloads of bytes within the limit that `from_bytes` sets and `to_bytes`
does not check.

## 3. Runs

| run | bounds | checks |
|---|---|---|
| `firmware_update` | bytes {0,1}, blocks of 1-2, buffer 5, stride 2, 4 session ids, window 3 ms of 2 ticks, 2 rollbacks | all invariants of FirmwareUpdate, `RollbackNotEarly`, refinement of UpdateLifecycle |
| `update_truncation` | two ticks per ms | violated: the window may stay open for ever |
| `update_verdict` | as above, no fairness | violated: EnterBootloader drops a trial |
| `bootloader_auth` | lockout after 3, retry 2, lockout 5 ticks, 3 challenges | types, agreement, single use, throttling, lockout ends |
| `bootloader_session` | both machines, smaller; one tick per ms, window 4 | session opens only for a fresh answer; a pending challenge belongs to the session or trial under way; the window closes (fairness) |
| `config_store` | the two pages with migrators, generations 0-1 | types, headers, import |
| `config_runtime` | four request lists, five overrides, two values of pages 0 and 9, stride 2, nonces 0-6 | types, agreement, `PinsDriveOneThingEach`, nonces |
| `nonce_rewind` | a host that writes page 9 back | violated: the counter goes back |
| `pin_retention` | nonces 0-3 | violated: a restart replaces the burned pins |
| `live_data` | 30 frames, shortened periods, blocks of 4, 8 log bytes, 2 sessions, 2 captures, 1 marker, 2 entries | types, calm before cuts, time, losses and log accounted |
| `controllers` | the TCU with its real periods for 7800 samples, other controllers 1-6 counted calls over inputs on both sides of each threshold | ranges, demands have a cause and end, derived bounds, refinement of ShiftContract |
| `wire` | one message of every payload form before a probe, chunks of 4 and 7 bytes, one byte changed | packets as sent or not at all; an undamaged line never loses its place; every payload decodes to what was encoded, every truncation refused |

Why the bounds suffice:

- *Update.* The buffer holds more than one block and more than one persist
  stride, so that a transfer can be ahead of its scratch, be resumed from it,
  and overrun the buffer with one block and not with another. Four session ids
  allow two transfers, a power loss and two more. The window is longer than one
  elapsed step, so it is charged in parts. Images include blank, signed,
  unsigned and colliding ones. Saturation is reached for the rollback counter,
  generations and erase counts.
- *Configuration.* Six nonces at stride two allow three persisted records and
  two restarts between them. The lists and overrides include an ordinary one,
  an empty one, a swap, a pin of another class, a reserved pin, a function off
  its fixed path, and two functions on the two pins (PB0, PC8) that share one
  timer channel.
- *Live data.* The periods are shortened so that requests, losses, faults,
  stale streams, link cuts and rotational cuts meet within 30 frames; the order
  of tests in each tick, which is what is checked, does not depend on them.
  Eight bytes and blocks of four make lines that end inside, at and beyond a
  block; the block count wraps at 2 and the entries saturate at 2.
- *Controllers.* 7800 samples are 260 requests, so the u8 counters wrap, and
  every kind of outcome (each fifth request times out, each seventh is denied,
  each eleventh aborts, each thirteenth goes stale) meets link cuts and stale
  streams at the real periods. The stateless derivations need one call. The
  others need as many as it takes to arm, act, saturate and release, with
  limits (knock floor, scramble time) a few steps away.
- *Wire.* Chunks of 4 and 7 split frames in the head, the payload and the crc.
  The changed byte may be the start byte, the version, a length byte, the
  command or payload. Values reach both ends of each field's width.

`CHECK_DEADLOCK FALSE` is set where the bound of a history ends the behaviour.

### Fairness

`FairSpec` of FirmwareUpdate assumes that time passes (`WF(Advance)`) and that
some packet keeps coming (`WF(PacketWithoutEffect)`): the code has no timer of
its own, so without packets nothing could close a window, and `GetUpdateStatus`
exists for a host to follow one. `SessionFairSpec` of BootloaderSession assumes
the same of the composed runtime (`Clock`, `Poll`). They assume nothing about
confirming, transferring or restarting, which are the user's choices.
`AuthFairSpec` assumes that time passes and that a host that wants in keeps
asking for a challenge; wrong answers of others may come at any time in between.
`Controllers` assumes that the control loop keeps calling the TCU bridge, an
anti-lag that nothing asks for, and the scramble timer; never that anything is
asked for.

## 4. What the code does not do

Four runs end in a violation; each shows behaviour of the code that a document
or comment of the repository excludes (`findings` in `PROJECT.json`).

1. **A health window polled faster than once a millisecond never closes.**
   `tick_update_health_window` drops the fraction of a millisecond and moves
   its anchor all the same. Moving the anchor only by what was charged would
   repair it.
2. **EnterBootloader abandons a trial silently**, neither committed nor counted
   as rolled back.
3. **A restart overwrites burned pin assignments** with the defaults.
4. **An older copy of page 9 rewinds the nonce counter** at the next restart,
   because the record shares the page with host settings.

Modelling also showed behaviour that contradicts no document but that a
maintainer may want to know. The models have it as it is.

- Rotational idle stands back for `shift_fault_code == 5`, a code no path of
  `tcu.rs` assigns; EGT protection acts but sets no protection flag, so output
  tests and rotational idle do not see it. With the simulated values no limit
  ever trips.
- RunOutputTest before the first frame tests against rpm 0.
- LogStart while a session runs discards that session; ResetLogbook also erases
  audit markers and the session id; the logbook does not survive a restart; the
  reported block count is the low 16 bits of the real one.
- A denied shift whose gear is still shown becomes a link fault when the link is
  cut.
- The trigger runtime's jump ahead to the live counter (`trigger_runtime.rs:222`)
  never happens after a boot, because every frame advances both: no run reaches
  it, and the losses are counted one advance at a time. The tooth log of a 60-2 wheel over
  720 degrees is clamped to 96 intervals.
- Launch looks its preset up at every update, and presets are public: `hard_cut`
  survives a release, disabling the preset in a launch keeps the retard, mode
  Disabled keeps fuel cut, ratio and retard, and a change between step modes may
  leave idle what the other mode asked for. `DemandsNeedCause` therefore claims a
  quiet idle only of a launch whose presets stayed enabled and of one mode since
  it was at rest (the history `steady`); of every other, only that nothing new is
  asked for. A disabled anti-lag keeps
  its rolling flag. `overboost_cut_delay` is not used. `configure_task` of the
  watchdog does not kick.
- The base pulse width is not divided by the cylinders; overrun leaves the wall
  film as it was; cranking advance ignores knock and flat shift; lambda voltages
  between the dead and the converged band neither count nor clear errors.
- `knock_ml` at the top of the spectrum with no bandwidth reaches past it.
- A page-3 write with no entries leaves no function assigned.
- A capture payload of 7 or 8 bytes passes the length check of
  `decode_trigger_capture_payload`, which then reads 9. A string longer than
  255 bytes is encoded with a wrapped length. Truncated identities and page
  statuses decode as their legacy forms.

## 5. Proofs

The runs cover small instances; the theorems hold for every buffer, block,
stride and window size, every checksum, every set of signed images and every
number of sessions, under the assumptions named in the modules
(`SizeAssumption`, `SessionAssumption`, `AuthAssumption`,
`RuntimeAssumption`, ...). They say no more than what the code's constants
satisfy: e.g. `BUFFER_MAX < BLOCK_INDEX_MAX` (2 MiB against `u32::MAX`) and
`MaxSessions < SESSION_ID_LIMIT`, that the session counter does not wrap.

**FirmwareUpdateProofs.** The inductive invariant `Safe` joins `TypeOK`,
`StateMatchesSession`, `PendingOnlyInWindow`, `BlocksMatchBytes`,
`VerifiedImageApproved` and `CandidateApproved`. None is inductive alone:
that a confirmed bank exists needs `PendingOnlyInWindow`; that a candidate is
approved needs the verified session it came from, and that it is storable
needs `BlocksMatchBytes`. `ResumeNeverSplices` adds `IdsBelowCounter` (no id
above the counter is in use, and a restart restores the counter from the
scratch). `PowerLossBounded` adds `PersistedSinceStride`. `RollbackIsNotEarly`
rests on `Charged`: what has been charged to the window and not yet ticked
never exceeds its age. The converse, that a health marker after the deadline
loses, is not a theorem: it is false of the code, as `update_truncation` shows.
`UpdateImplementsLifecycle` maps the initial state and every action to a step
or a stutter of `UpdateLifecycle`; the tick is mapped on its own (`Seen`)
because it precedes every handler.

**BootloaderAuthProofs.** `AuthSafe` joins the three invariants; a lockout
without a pending challenge is what makes the challenge single use.
`FailuresAreThrottled` adds `Spaced`: the i-th last failure is i - 1 retry
intervals old, plus the time waited since the last one, plus a lockout when one
lies between. It is what an answer, once read, can rely on: no rate limit holds
then, and a full history has a lockout behind it, because the counter it filled
was cleared only by one that ran out.

**BootloaderSession**, at the end of FirmwareUpdateProofs. `SessionProjects`
reads a behaviour of the composed runtime as one of each part, so `Safe` and
`AuthSafe` hold of it. `SessionIsAuthenticated` follows from `AuthSafe` at the
moment of the step. `ChallengesEndWithSessions` needs both sides: from `Safe`, that
a trial excludes an open session and that a packet that only ticks the window
never enters a phase with one (`PhaseKept`); from `AuthSafe`, that a challenge is
pending only after a request (`RefusedChallenge`).

**ConfigRuntimeProofs.** `RuntimeFollowsPages` with the page types is one
invariant (`Staged`). `PinsDriveOneThing` rests on what the validation accepts
(`AcceptedDrivesOneThing`), for every list of requests;
the default set is checked by evaluation. The nonce theorems assume a host that
does not rewind (`HostRewindsNonce = FALSE`) and strengthen
`RestartSkipsUsedNonces` with where each persisted record may lie between the
counter and its next threshold; flash damage is covered because RAM then holds
the record as well.

**ConfigStoreProofs.** `StoreOK` is `StoreTypeOK` with the domains of the
store's functions, without which an EXCEPT says nothing; every operation keeps
it. The other three hold in each state that satisfies it, so no further
invariant is needed. `PayloadAssumption` (a payload is a magic, a version and a
body, and migration stays within the payloads) and `NoneAssumption` are used.

**LiveDataProofs.** One invariant per part of the frame, each with the step of
the frame and the few operations between frames that touch it:

- `LossesSafe`: the runtime is one advance behind each new frame at most, so it
  sees one multiple of the loss period at a time; the rest is that a quotient
  grows by one exactly at a multiple (`NextQuotient`).
- `LogSafe` makes `LogAccounts` inductive: a session started in the past, and a
  logbook without sessions has no time in its totals.
- `RotationalSafe`: time still due to the running cut is reserved (`Reserved`),
  the timer is a multiple of `STEP`, so that the limit is met exactly,
  rotational idle has seen the loss counter of the last frame, and the delay it
  armed for is covered by calm frames. That a shift is seen in its own frame
  (`ShiftIsSeen`) is where the order of the parts matters. `CutAssumption` is
  needed here: no counter saturates in `MAX_SAMPLES`, `MAX_ACTIVE` is a multiple
  of `STEP`, hot exhaust does not shut the engine down.
- `OthersSafe` is what is left of the types, the bridge's among them.

**ExternalTcuProofs.** `TcuSafe`: a bridge that shows a gear after its request
shows a failure with it. With it, each tick is a step of `ShiftContract` or a
stutter (`TcuImplementsContract`): the sample that raises a request is too early
for any outcome of it, so one tick is never two steps. LiveData and Controllers
each tick a bridge of their own; their proofs show that it is the same function
(`SameBridge`) and use the lemmas of this module for it.

**ControllersProofs.** Most of it is about the operators of the controllers,
for all inputs: what an update returns is shown for every state in range and
every sensor value, of which the bench tries a few. The parts that carry the
properties:

- *Limits.* A PID output or integral is what a clamp leaves; the work is that
  the arithmetic before it stays an integer of known sign (quotients, `Quotient`;
  interpolations that stay between their corners, `BetweenWithin`; the cycle time
  and the air density that divide, `CyclePositive`; the square root of the air
  temperature correction, `RootFound`).
- *Cause.* The preset of a launch may change before any update. What is new in a
  demand is asked for by an enabled preset and an armed launch, whatever the
  state before (`LaunchBegins`). A step launch that was steady is quiet when idle
  (`LaunchQuiet`), which needs that a two-step launch is quiet when armed, that a
  three-step launch never cuts fuel, since its release leaves that cut as it was,
  and that a disabled preset was met at rest. More retard in one cylinder only, the
  one that knocked (`RetardOnKnock`): the learnt correction is the cylinder's own.
  The spark of a running engine is the table plus corrections that only take
  away, and the idle correction (`SparkCalculated`).
- *Derived.* A missing-tooth wheel selected by any page 0 has teeth left
  (`Selected`) and its gap, when there is one, is wider than an interval can be
  (`Profile`), so its marks are distinct and inside the log and the reference
  interval is the longest; two cells of a table never share a
  place (`TablesInPlace`), by the uniqueness of quotients; the band windows of any
  usable frequency are ordered and inside the spectrum (`Windows`); the action is
  as severe as the worst of the limits escalated so far (`CoversMore`), whatever
  their order (`Severe`).

`BenchSafe` joins, per controller, its range with what its next call needs.
`Initially` shows it of every constructor, `BenchCall` has one step per
action, and gives the demand of that call as well, so that `ControllersTyped`,
`DerivedStaysInBounds`, `ControllersNeedCause` and `BridgeKeepsContract` follow
from one induction. `BenchSafe` names no bound: the number of calls is
arbitrary. The calibrations that are constants of the code (the gains,
the traction preset `dry`, the tables of `Curves`) are used as they are.

**WireProofs.** The payload of a message may be any bytes, the head of a frame
among them, so no invariant can look at one byte at a time. `FramesInOrder`
says instead that what the receiver holds followed by what is on the line is,
end to end, the frames of the messages sent and not yet taken; `Laid` says it
with the places where the frames end among all bytes ever sent (`cut`), which a
packet taken does not move and a packet sent only adds to. It rests on what a
frame is (`Frame`: its length, its command and its checksum stand where
`from_bytes` reads them) and on what `from_bytes` makes of any bytes that begin
as a frame does (`FrameFound`: it waits up to the last byte, then finds that
packet and that length). From it follows `UndamagedArrives`, for every script
and every set of chunk sizes. Of the checksum, a recursive function, only that
it fits its two bytes is used, so any checksum of two bytes would do; that takes
an induction of its own (`Induction`, `Recursion`, `ChecksumRange`). That the two tables of commands, written separately,
undo each other is `CommandsUndo`.

**Only model-checked.** Liveness (`WindowCloses`, `LockoutEnds`, `DemandsEnd`)
is outside the prover's reach. So is what a decoder returns for every payload
(`PayloadsDecode`): it is an induction over a payload for each of the forms.
`PacketsAsSent` is proved while no byte has changed. Once one has, it is a fact
about the messages of the run and no theorem: a payload may hold a whole frame,
which a receiver that resynchronises inside it would take for a packet, and no
checksum of two bytes detects every such coincidence.

## 6. Not modelled

- AES-GCM, ed25519 and the crc are library functions and appear as what their
  callers may conclude. The nonce counter is a natural number below
  `MaxCounter`: it starts from eight bytes of key material, and the wrap at
  2^64 is listed as a hazard.
- The band-pass filter, FFT and network layers of knock detection, and the
  sinusoidal formulas of the simulated sensors: numeric functions without
  state. The knock modules begin at the energy of a window.
- GetDtc, ClearDtc and the sensor queries return or empty one list.
- The drawing of a trigger capture as samples, and the simulator of
  `trigger_model.rs` apart from the wheel arithmetic the runtime uses.
- MCU, boot, reset, engine and HAL modules: constants and type definitions on
  which nothing runs here. Labels, tolerances and mux modes of the board.
- `overlay_persisted_flash_pages` and other helpers of the host-side harness.

## 7. Plan

The order of work was the order of the inventory: the update and its
authentication, the store and the staged pages, then the live frame, the
controllers and the wire. Left to do, most useful first:

1. A host that retries over a channel that loses replies, composed with
   FirmwareUpdate: which of the packets may be sent twice without harm.
2. One runtime of FirmwareUpdate, ConfigRuntime and LiveData. They share the
   store, the clock and the flash session flag; the models couple them at those
   points only (`flashing` in LiveData, the scratch in FirmwareUpdate).
