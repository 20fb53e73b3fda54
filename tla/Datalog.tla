------------------------------ MODULE Datalog ------------------------------
(***************************************************************************)
(* The datalogger and the logbook of FirmwareRuntime (transport.rs): one   *)
(* session at a time, its bytes cut into blocks the host reads back, and   *)
(* the totals of the sessions that were stopped.  A block is its length,   *)
(* and every stored block is full until LogStop stores the staged rest.    *)
(***************************************************************************)
EXTENDS Integers

CONSTANTS BLOCK_SIZE,     \* log_block_size
          SAMPLE_MS,      \* 20: milliseconds a sample stands for
          ENTRY_MAX,      \* 255: logbook_entries is a saturating u8
          BLOCKS_MOD,     \* 65536: block counts are reported as u16
          SESSION_MOD     \* 2^32: session ids are u32, never 0

DatalogAssumption ==
    /\ {BLOCK_SIZE, SAMPLE_MS, ENTRY_MAX} \subseteq Nat \ {0}
    /\ {BLOCKS_MOD, SESSION_MOD} \subseteq Nat \ {0, 1}

NewLog ==
    [ active |-> FALSE, session |-> 0, started |-> 0, latched |-> 0,
      bytes |-> 0, blocks |-> 0, staging |-> 0,
      entries |-> 0, total_sessions |-> 0, total_elapsed |-> 0, total_bytes |-> 0,
      last_elapsed |-> 0, last_bytes |-> 0, last_blocks |-> 0,
      rtc_synced |-> FALSE ]

current_runtime_ms(n) == n * SAMPLE_MS

current_log_elapsed_ms(log, n) ==
    IF log.active THEN current_runtime_ms(n) - current_runtime_ms(log.started)
                  ELSE log.latched

\* The staged bytes count as a block only while the session runs.
current_log_block_count(log) ==
    LET stored == log.blocks % BLOCKS_MOD
    IN  IF log.active /\ log.staging > 0 /\ stored < BLOCKS_MOD - 1
        THEN stored + 1 ELSE stored

append_log_bytes(log, n, length) ==
    IF ~log.active \/ length = 0 THEN log
    ELSE [log EXCEPT !.bytes = @ + length,
                     !.blocks = @ + (log.staging + length) \div BLOCK_SIZE,
                     !.staging = (@ + length) % BLOCK_SIZE,
                     !.latched = current_log_elapsed_ms(log, n)]

next_session(session) ==
    IF (session + 1) % SESSION_MOD = 0 THEN 1 ELSE session + 1

\* A session that is still running is discarded without being counted.
log_start(log, n, header) ==
    append_log_bytes([log EXCEPT !.active = TRUE, !.session = next_session(@),
                                 !.started = n, !.latched = 0, !.bytes = 0,
                                 !.blocks = 0, !.staging = 0],
                     n, header)

\* Slip: the count wraps into the reserved values.
UnsaturatedEntry(entries) == entries + 1

SaturatingEntry(entries) == IF entries < ENTRY_MAX THEN entries + 1 ELSE entries

log_stop(log, n) ==
    IF ~log.active THEN log
    ELSE LET elapsed == current_log_elapsed_ms(log, n)
             stored  == IF log.staging > 0 THEN log.blocks + 1 ELSE log.blocks
         IN  [log EXCEPT !.active = FALSE, !.latched = elapsed,
                         !.blocks = stored, !.staging = 0,
                         !.entries = SaturatingEntry(@),
                         !.total_sessions = @ + 1,
                         !.total_elapsed = @ + elapsed,
                         !.total_bytes = @ + log.bytes,
                         !.last_elapsed = elapsed,
                         !.last_bytes = log.bytes,
                         !.last_blocks = stored % BLOCKS_MOD]

\* Refused while a session runs; the clock stays synchronised.
reset_logbook(log) ==
    [NewLog EXCEPT !.rtc_synced = log.rtc_synced, !.started = log.started]

sync_rtc(log) == [log EXCEPT !.rtc_synced = TRUE]

\* Slip: a marker is written over the last entry.
MarkerReusesEntry(log) == log

record_logbook_audit_marker(log) == [log EXCEPT !.entries = SaturatingEntry(@)]

\* The length of the block at `index`, 0 when there is none.
read_log_block(log, index) ==
    LET rest == log.bytes % BLOCK_SIZE
    IN  IF index < log.blocks
        THEN IF ~log.active /\ index = log.blocks - 1 /\ rest # 0 THEN rest ELSE BLOCK_SIZE
        ELSE IF log.active /\ index = log.blocks THEN log.staging
        ELSE 0

LogType ==
    [ active : BOOLEAN, session : 0..(SESSION_MOD - 1), started : Nat, latched : Nat,
      bytes : Nat, blocks : Nat, staging : 0..(BLOCK_SIZE - 1),
      entries : 0..ENTRY_MAX, total_sessions : Nat, total_elapsed : Nat,
      total_bytes : Nat, last_elapsed : Nat, last_bytes : Nat,
      last_blocks : 0..(BLOCKS_MOD - 1), rtc_synced : BOOLEAN ]

\* The blocks and the staged rest hold every byte of the session, once; a
\* stopped session is all blocks.
BytesInBlocks(log) ==
    IF log.active THEN log.bytes = log.blocks * BLOCK_SIZE + log.staging
    ELSE /\ log.staging = 0
         /\ log.bytes <= log.blocks * BLOCK_SIZE
         /\ log.blocks > 0 => log.bytes > (log.blocks - 1) * BLOCK_SIZE

\* A host that reads the blocks a status reports finds each of them.
ReportedBlocksReadable(log) ==
    \A index \in 0..(current_log_block_count(log) - 1) : read_log_block(log, index) > 0

\* The summary of the last session is part of the totals.
LastWithinTotals(log) ==
    /\ log.last_elapsed <= log.total_elapsed
    /\ log.last_bytes <= log.total_bytes
    /\ log.total_sessions = 1 => /\ log.last_elapsed = log.total_elapsed
                                 /\ log.last_bytes = log.total_bytes
    /\ log.total_sessions = 0 => log.total_bytes = 0 /\ log.last_blocks = 0
=============================================================================
