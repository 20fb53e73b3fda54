--------------------------- MODULE LiveDataProofs ---------------------------
(***************************************************************************)
(* Theorems about LiveData and the parts a frame ticks, for every value of *)
(* the periods and bounds.                                                 *)
(***************************************************************************)
EXTENDS LiveData, TLAPS

----------------------------------------------------------------------------
(* Division.                                                               *)

LEMMA DivMod ==
    ASSUME NEW a \in Nat, NEW d \in Nat \ {0}
    PROVE  /\ a \div d \in Nat
           /\ a % d \in 0..(d - 1)
           /\ a = d * (a \div d) + (a % d)
  OBVIOUS

\* The quotient is the only number with its remainder.
LEMMA QuotientUnique ==
    ASSUME NEW d \in Nat \ {0}, NEW a \in Nat, NEW b \in Nat,
           NEW r \in 0..(d - 1), NEW q \in 0..(d - 1), d * a + r = d * b + q
    PROVE  a = b
  <1>1. CASE a < b
    <2>1. d * (a + 1) <= d * b
      BY <1>1, SMT
    <2> QED
      BY <2>1, SMT
  <1>2. CASE b < a
    <2>1. d * (b + 1) <= d * a
      BY <1>2, SMT
    <2> QED
      BY <2>1, SMT
  <1> QED
    BY <1>1, <1>2

LEMMA NextQuotient ==
    ASSUME NEW a \in Nat, NEW d \in Nat \ {0}
    PROVE  (a + 1) \div d = IF (a + 1) % d = 0 THEN a \div d + 1 ELSE a \div d
  <1> DEFINE q == a \div d
             r == a % d
  <1>1. q \in Nat /\ r \in 0..(d - 1) /\ a = d * q + r
    BY DivMod
  <1>0. a + 1 \in Nat
    OBVIOUS
  <1>2. /\ (a + 1) \div d \in Nat /\ (a + 1) % d \in 0..(d - 1)
        /\ a + 1 = d * ((a + 1) \div d) + ((a + 1) % d)
    BY <1>0, DivMod, Zenon
  <1> HIDE DEF q, r
  <1>3. CASE r = d - 1
    <2>0. d * (q + 1) = d * q + d
      BY <1>1, SMT
    <2>1. a + 1 = d * (q + 1) + 0
      BY <1>1, <1>3, <2>0, SMT
    <2>2. (a + 1) \div d = q + 1
      BY <1>1, <1>2, <2>1, QuotientUnique
    <2>3. (a + 1) % d = 0
      BY <1>1, <1>2, <2>0, <2>1, <2>2, SMT
    <2> QED
      BY <2>2, <2>3 DEF q
  <1>4. CASE r # d - 1
    <2>1. a + 1 = d * q + (r + 1) /\ r + 1 \in 0..(d - 1)
      BY <1>1, <1>4, SMT
    <2>2. (a + 1) \div d = q
      BY <1>1, <1>2, <2>1, QuotientUnique
    <2>3. (a + 1) % d = r + 1
      BY <1>1, <1>2, <2>1, <2>2, SMT
    <2> QED
      BY <1>1, <2>2, <2>3 DEF q
  <1> QED
    BY <1>3, <1>4

----------------------------------------------------------------------------
(* Losses of the trigger runtime.                                          *)

TriggerType == [samples : Nat, losses : Nat, synced : Nat]

LossesSafe ==
    /\ n \in Nat /\ captures \in Nat
    /\ trig \in TriggerType
    /\ LossesMatchSamples

\* One advance, by a frame or by a capture: the runtime is never behind the
\* live counter, so it advances by one and sees one multiple of the period.
LEMMA AdvanceCountsOne ==
    ASSUME NEW t \in TriggerType, NEW k \in Nat, k <= t.samples + 1,
           t.losses = t.samples \div LOSS_PERIOD, t.losses + t.synced = t.samples
    PROVE  LET a == Trig!advance_state(t, k)
           IN  /\ a \in TriggerType
               /\ a.samples = t.samples + 1
               /\ a.losses = a.samples \div LOSS_PERIOD
               /\ a.losses + a.synced = a.samples
  <1> DEFINE a == Trig!advance_state(t, k)
  <1>1. LOSS_PERIOD \in Nat \ {0}
    BY PartsAssumption DEF Trig!LossPeriodAssumption
  <1>2. t.samples \in Nat /\ t.losses \in Nat /\ t.synced \in Nat
    BY DEF TriggerType
  <1>3. a = IF (t.samples + 1) % LOSS_PERIOD = 0
            THEN [samples |-> t.samples + 1, losses |-> t.losses + 1, synced |-> t.synced]
            ELSE [samples |-> t.samples + 1, losses |-> t.losses, synced |-> t.synced + 1]
    BY <1>2, SMT DEF Trig!advance_state, Trig!Losing
  <1>4. (t.samples + 1) \div LOSS_PERIOD =
            IF (t.samples + 1) % LOSS_PERIOD = 0 THEN t.losses + 1 ELSE t.losses
    BY <1>1, <1>2, NextQuotient
  <1> HIDE DEF a
  <1>5. a \in TriggerType
    BY <1>2, <1>3 DEF TriggerType
  <1>6. a.samples = t.samples + 1
    BY <1>3
  <1>7. a.losses = (t.samples + 1) \div LOSS_PERIOD
    BY <1>3, <1>4
  <1>8. a.losses + a.synced = t.samples + 1
    BY <1>2, <1>3
  <1> QED
    BY <1>5, <1>6, <1>7, <1>8 DEF a

LEMMA LossesInit == Init => LossesSafe
  <1> SUFFICES ASSUME Init PROVE LossesSafe
    OBVIOUS
  <1>1. LOSS_PERIOD \in Nat \ {0}
    BY PartsAssumption DEF Trig!LossPeriodAssumption
  <1>2. trig = [samples |-> 0, losses |-> 0, synced |-> 0] /\ n = 0 /\ captures = 0
    BY DEF Init, Trig!NewTrigger
  <1>3. 0 \div LOSS_PERIOD = 0
    BY <1>1
  <1> QED
    BY <1>2, <1>3 DEF LossesSafe, LossesMatchSamples, TriggerType

LEMMA LossesStep == LossesSafe /\ [Next]_vars => LossesSafe'
  <1> SUFFICES ASSUME LossesSafe, [Next]_vars PROVE LossesSafe'
    OBVIOUS
  <1> USE DEF LossesSafe, LossesMatchSamples
  <1>1. LOSS_PERIOD \in Nat \ {0}
    BY PartsAssumption DEF Trig!LossPeriodAssumption
  <1>2. CASE GetLiveData
    <2>1. n' = n + 1 /\ trig' = Trig!advance_state(trig, n + 1) /\ captures' = captures
      BY <1>2 DEF GetLiveData
    <2>2. n + 1 \in Nat /\ n + 1 <= trig.samples + 1
      OBVIOUS
    <2> QED
      BY <2>1, <2>2, AdvanceCountsOne
  <1>3. CASE GetTriggerCapture
    <2>1. n' = n /\ trig' = Trig!advance_state(trig, n) /\ captures' = captures + 1
      BY <1>3 DEF GetTriggerCapture
    <2>2. n <= trig.samples + 1
      OBVIOUS
    <2> QED
      BY <2>1, <2>2, AdvanceCountsOne
  <1>4. CASE Restart
    <2>1. trig' = [samples |-> 0, losses |-> 0, synced |-> 0] /\ n' = 0 /\ captures' = 0
      BY <1>4 DEF Restart, Trig!NewTrigger
    <2>2. 0 \div LOSS_PERIOD = 0
      BY <1>1
    <2> QED
      BY <2>1, <2>2 DEF TriggerType
  <1>5. CASE UNCHANGED <<n, trig, captures>>
    BY <1>5
  <1> QED
    BY <1>2, <1>3, <1>4, <1>5
       DEF Next, vars, live, history, LogStart, LogStop, ResetLogbook, SyncRtc,
           RunOutputTest, FlashSession

\* The trigger runtime never misses a simulated loss and counts none twice,
\* however captures and frames interleave (advance_state).
THEOREM LossesMatch == Spec => []LossesMatchSamples
  <1>1. LossesSafe => LossesMatchSamples
    BY DEF LossesSafe
  <1> QED
    BY <1>1, LossesInit, LossesStep, PTL DEF Spec

----------------------------------------------------------------------------
(* The log.                                                                *)

LEMMA LogSizes ==
    /\ BLOCK_SIZE \in Nat \ {0} /\ SAMPLE_MS \in Nat \ {0} /\ ENTRY_MAX \in Nat \ {0}
    /\ BLOCKS_MOD \in Nat \ {0, 1} /\ SESSION_MOD \in Nat \ {0, 1}
    /\ HeaderBytes \subseteq Nat /\ LineBytes \subseteq Nat
  BY PartsAssumption, LiveAssumption DEF Log!DatalogAssumption

\* A session that started earlier has lasted a natural number of milliseconds.
LEMMA ElapsedIsNat ==
    ASSUME NEW l \in Log!LogType, NEW k \in Nat, l.started <= k
    PROVE  Log!current_log_elapsed_ms(l, k) \in Nat
  <1>1. l.started \in Nat /\ l.latched \in Nat /\ l.active \in BOOLEAN
    BY DEF Log!LogType
  <1>2. l.started * SAMPLE_MS <= k * SAMPLE_MS
    BY <1>1, LogSizes
  <1>3. l.started * SAMPLE_MS \in Nat /\ k * SAMPLE_MS \in Nat
    BY <1>1, LogSizes
  <1> QED
    BY <1>1, <1>2, <1>3 DEF Log!current_log_elapsed_ms, Log!current_runtime_ms

\* Appending keeps bytes and blocks in step and touches nothing of the logbook.
LEMMA AppendAccounts ==
    ASSUME NEW l \in Log!LogType, Log!BytesInBlocks(l),
           NEW k \in Nat, l.started <= k, NEW length \in Nat
    PROVE  LET a == Log!append_log_bytes(l, k, length)
           IN  /\ a \in Log!LogType
               /\ Log!BytesInBlocks(a)
               /\ a.active = l.active /\ a.started = l.started
               /\ a.entries = l.entries /\ a.total_sessions = l.total_sessions
               /\ a.total_elapsed = l.total_elapsed /\ a.total_bytes = l.total_bytes
               /\ a.last_elapsed = l.last_elapsed /\ a.last_bytes = l.last_bytes
               /\ a.last_blocks = l.last_blocks
  <1> DEFINE a == Log!append_log_bytes(l, k, length)
             more == l.staging + length
             elapsed == Log!current_log_elapsed_ms(l, k)
  <1>1. CASE ~l.active \/ length = 0
    <2>1. a = l
      BY <1>1 DEF Log!append_log_bytes
    <2> QED
      BY <2>1
  <1>2. CASE l.active /\ length # 0
    <2>1. a = [l EXCEPT !.bytes = l.bytes + length,
                        !.blocks = l.blocks + (more \div BLOCK_SIZE),
                        !.staging = more % BLOCK_SIZE,
                        !.latched = elapsed]
      BY <1>2 DEF Log!append_log_bytes
    <2>2. l.staging \in Nat /\ l.bytes \in Nat /\ l.blocks \in Nat
      BY LogSizes DEF Log!LogType
    <2>3. more \in Nat
      BY <2>2
    <2>4. /\ more \div BLOCK_SIZE \in Nat
          /\ more % BLOCK_SIZE \in 0..(BLOCK_SIZE - 1)
          /\ more = BLOCK_SIZE * (more \div BLOCK_SIZE) + (more % BLOCK_SIZE)
      BY <2>3, LogSizes, DivMod
    <2>5. elapsed \in Nat
      BY ElapsedIsNat
    <2> DEFINE q == more \div BLOCK_SIZE
               r == more % BLOCK_SIZE
    <2>6. l.bytes + length = (l.blocks + q) * BLOCK_SIZE + r
      <3>1. l.bytes = l.blocks * BLOCK_SIZE + l.staging
        BY <1>2 DEF Log!BytesInBlocks
      <3> HIDE DEF q, r
      <3>2. l.staging + length = BLOCK_SIZE * q + r
        BY <2>4 DEF q, r
      <3>3. q \in Nat /\ r \in Nat
        BY <2>4, LogSizes DEF q, r
      <3>4. (l.blocks + q) * BLOCK_SIZE = l.blocks * BLOCK_SIZE + BLOCK_SIZE * q
        BY <2>2, <3>3, LogSizes
      <3>5. l.blocks * BLOCK_SIZE \in Nat /\ BLOCK_SIZE * q \in Nat
        BY <2>2, <3>3, LogSizes
      <3> QED
        BY <2>2, <3>1, <3>2, <3>3, <3>4, <3>5
    <2> HIDE DEF q, r, elapsed, a
    <2>7. a = [l EXCEPT !.bytes = l.bytes + length, !.blocks = l.blocks + q,
                        !.staging = r, !.latched = elapsed]
      BY <2>1 DEF q, r
    <2>8. l.blocks + q \in Nat /\ r \in 0..(BLOCK_SIZE - 1) /\ l.bytes + length \in Nat
      BY <2>2, <2>4 DEF q, r
    <2>9. a \in Log!LogType
      BY <2>5, <2>7, <2>8 DEF Log!LogType
    <2>10. Log!BytesInBlocks(a)
      <3>1. a.active /\ a.bytes = l.bytes + length /\ a.blocks = l.blocks + q /\ a.staging = r
        BY <1>2, <2>7 DEF Log!LogType
      <3> QED
        BY <2>6, <3>1 DEF Log!BytesInBlocks
    <2> QED
      BY <2>7, <2>9, <2>10 DEF a, Log!LogType
  <1> QED
    BY <1>1, <1>2 DEF Log!LogType

\* Stopping turns the staged rest into a last block.
LEMMA StopAccounts ==
    ASSUME NEW l \in Log!LogType, Log!BytesInBlocks(l), NEW k \in Nat, l.started <= k
    PROVE  LET s == Log!log_stop(l, k)
           IN  /\ s \in Log!LogType
               /\ Log!BytesInBlocks(s)
               /\ s.started = l.started
  <1> DEFINE s == Log!log_stop(l, k)
             elapsed == Log!current_log_elapsed_ms(l, k)
             stored == IF l.staging > 0 THEN l.blocks + 1 ELSE l.blocks
  <1>1. CASE ~l.active
    BY <1>1 DEF Log!log_stop
  <1>2. CASE l.active
    <2>1. s = [l EXCEPT !.active = FALSE, !.latched = elapsed,
                        !.blocks = stored, !.staging = 0,
                        !.entries = Log!SaturatingEntry(l.entries),
                        !.total_sessions = l.total_sessions + 1,
                        !.total_elapsed = l.total_elapsed + elapsed,
                        !.total_bytes = l.total_bytes + l.bytes,
                        !.last_elapsed = elapsed,
                        !.last_bytes = l.bytes,
                        !.last_blocks = stored % BLOCKS_MOD]
      BY <1>2 DEF Log!log_stop
    <2>2. elapsed \in Nat
      BY ElapsedIsNat
    <2>3. /\ l.staging \in 0..(BLOCK_SIZE - 1) /\ l.bytes \in Nat /\ l.blocks \in Nat
          /\ l.total_sessions \in Nat /\ l.total_elapsed \in Nat /\ l.total_bytes \in Nat
          /\ l.entries \in 0..ENTRY_MAX /\ l.active \in BOOLEAN
      BY DEF Log!LogType
    <2>4. stored \in Nat
      BY <2>3
    <2>5. stored % BLOCKS_MOD \in 0..(BLOCKS_MOD - 1)
      BY <2>4, LogSizes, DivMod
    <2>6. Log!SaturatingEntry(l.entries) \in 0..ENTRY_MAX
      BY <2>3, LogSizes DEF Log!SaturatingEntry
    <2>7. /\ l.bytes <= stored * BLOCK_SIZE
          /\ stored > 0 => l.bytes > (stored - 1) * BLOCK_SIZE
      <3>1. l.bytes = l.blocks * BLOCK_SIZE + l.staging
        BY <1>2 DEF Log!BytesInBlocks
      <3>2. /\ (l.blocks + 1) * BLOCK_SIZE = l.blocks * BLOCK_SIZE + BLOCK_SIZE
            /\ (l.blocks - 1) * BLOCK_SIZE = l.blocks * BLOCK_SIZE - BLOCK_SIZE
            /\ l.blocks * BLOCK_SIZE \in Nat
        BY <2>3, LogSizes
      <3>3. CASE l.staging > 0
        <4>1. stored = l.blocks + 1 /\ stored - 1 = l.blocks
          BY <2>3, <3>3
        <4> QED
          BY <2>3, <3>1, <3>2, <3>3, <4>1, LogSizes
      <3>4. CASE ~(l.staging > 0)
        <4>1. stored = l.blocks /\ l.staging = 0
          BY <2>3, <3>4
        <4> QED
          BY <2>3, <3>1, <3>2, <4>1, LogSizes
      <3> QED
        BY <3>3, <3>4
    <2> HIDE DEF s, elapsed, stored
    <2>8. s \in Log!LogType
      <3>1. /\ l.total_sessions + 1 \in Nat /\ l.total_elapsed + elapsed \in Nat
            /\ l.total_bytes + l.bytes \in Nat /\ 0 \in 0..(BLOCK_SIZE - 1)
        BY <2>2, <2>3, LogSizes
      <3> QED
        BY <2>1, <2>2, <2>3, <2>4, <2>5, <2>6, <3>1, Zenon DEF Log!LogType
    <2>9. Log!BytesInBlocks(s)
      <3>1. ~s.active /\ s.staging = 0 /\ s.blocks = stored /\ s.bytes = l.bytes
        BY <2>1 DEF Log!LogType
      <3> QED
        BY <2>7, <3>1 DEF Log!BytesInBlocks
    <2>10. s.started = l.started
      BY <2>1 DEF Log!LogType
    <2> QED
      BY <2>8, <2>9, <2>10 DEF s
  <1> QED
    BY <1>1, <1>2 DEF Log!LogType

\* Starting discards what a running session had logged.
LEMMA StartAccounts ==
    ASSUME NEW l \in Log!LogType, NEW k \in Nat, NEW header \in Nat
    PROVE  LET s == Log!log_start(l, k, header)
           IN  /\ s \in Log!LogType
               /\ Log!BytesInBlocks(s)
               /\ s.started = k
               /\ s.entries = l.entries /\ s.total_sessions = l.total_sessions
               /\ s.total_elapsed = l.total_elapsed /\ s.total_bytes = l.total_bytes
               /\ s.last_elapsed = l.last_elapsed /\ s.last_bytes = l.last_bytes
               /\ s.last_blocks = l.last_blocks
  <1> DEFINE b == [l EXCEPT !.active = TRUE, !.session = Log!next_session(l.session),
                            !.started = k, !.latched = 0, !.bytes = 0,
                            !.blocks = 0, !.staging = 0]
  <1>1. l.session \in 0..(SESSION_MOD - 1)
    BY DEF Log!LogType
  <1>2. Log!next_session(l.session) \in 0..(SESSION_MOD - 1)
    <2>1. CASE l.session + 1 = SESSION_MOD
      <3>1. SESSION_MOD % SESSION_MOD = 0
        BY LogSizes
      <3> QED
        BY <2>1, <3>1, LogSizes DEF Log!next_session
    <2>2. CASE l.session + 1 # SESSION_MOD
      BY <1>1, <2>2, LogSizes DEF Log!next_session
    <2> QED
      BY <2>1, <2>2
  <1>3. b \in Log!LogType
    <2>1. 0 \in 0..(BLOCK_SIZE - 1) /\ 0 \in Nat
      BY LogSizes
    <2> QED
      BY <1>2, <2>1, Zenon DEF Log!LogType
  <1>4. Log!BytesInBlocks(b)
    BY LogSizes DEF Log!BytesInBlocks, Log!LogType
  <1>5. b.started = k /\ b.started <= k
    BY DEF Log!LogType
  <1>6. Log!log_start(l, k, header) = Log!append_log_bytes(b, k, header)
    BY DEF Log!log_start
  <1>7. /\ b.entries = l.entries /\ b.total_sessions = l.total_sessions
        /\ b.total_elapsed = l.total_elapsed /\ b.total_bytes = l.total_bytes
        /\ b.last_elapsed = l.last_elapsed /\ b.last_bytes = l.last_bytes
        /\ b.last_blocks = l.last_blocks
    BY DEF Log!LogType
  <1> HIDE DEF b
  <1> QED
    BY <1>3, <1>4, <1>5, <1>6, <1>7, AppendAccounts

\* The block count reported is no larger than the number of blocks there are.
LEMMA ReportedAreReadable ==
    ASSUME NEW l \in Log!LogType, Log!BytesInBlocks(l)
    PROVE  Log!ReportedBlocksReadable(l)
  <1>1. /\ l.staging \in Nat /\ l.bytes \in Nat /\ l.blocks \in Nat
        /\ l.active \in BOOLEAN
    BY LogSizes DEF Log!LogType
  <1> DEFINE stored == l.blocks % BLOCKS_MOD
             rest == l.bytes % BLOCK_SIZE
  <1>2. stored \in Nat /\ stored <= l.blocks
    <2>0. BLOCKS_MOD \in Nat \ {0}
      BY LogSizes
    <2>1. /\ l.blocks \div BLOCKS_MOD \in Nat /\ stored \in 0..(BLOCKS_MOD - 1)
          /\ l.blocks = BLOCKS_MOD * (l.blocks \div BLOCKS_MOD) + stored
      BY <1>1, <2>0, DivMod, Zenon
    <2>4. stored \in Nat
      BY <2>0, <2>1
    <2>2. BLOCKS_MOD * (l.blocks \div BLOCKS_MOD) \in Nat
      BY <2>1, LogSizes
    <2>3. ASSUME NEW x \in Nat, NEW y \in Nat, l.blocks = x + y PROVE y <= l.blocks
      BY <2>3
    <2> QED
      BY <2>1, <2>2, <2>3, <2>4, Zenon
  <1>3. rest \in Nat
    BY <1>1, LogSizes, DivMod
  <1> HIDE DEF stored, rest
  <1>4. SUFFICES ASSUME NEW index \in 0..(Log!current_log_block_count(l) - 1)
                 PROVE  Log!read_log_block(l, index) > 0
    BY DEF Log!ReportedBlocksReadable
  <1>5. Log!current_log_block_count(l) =
            IF l.active /\ l.staging > 0 /\ stored < BLOCKS_MOD - 1 THEN stored + 1 ELSE stored
    BY DEF Log!current_log_block_count, stored
  <1>6. Log!read_log_block(l, index) =
            IF index < l.blocks
            THEN IF ~l.active /\ index = l.blocks - 1 /\ rest # 0 THEN rest ELSE BLOCK_SIZE
            ELSE IF l.active /\ index = l.blocks THEN l.staging ELSE 0
    BY DEF Log!read_log_block, rest
  <1>7. CASE index < l.blocks
    BY <1>3, <1>6, <1>7, LogSizes
  <1>8. CASE ~(index < l.blocks)
    <2>1. l.active /\ l.staging > 0 /\ index = l.blocks
      BY <1>1, <1>2, <1>5, <1>8
    <2> QED
      BY <1>6, <1>8, <2>1
  <1> QED
    BY <1>7, <1>8

EntriesDue == log.total_sessions + markers

EntriesCounted == log.entries = IF EntriesDue > ENTRY_MAX THEN ENTRY_MAX ELSE EntriesDue

\* LogAccounts made inductive: sessions start in the past, and a logbook
\* without sessions has no time in its totals either.
LogSafe ==
    /\ n \in Nat /\ markers \in Nat
    /\ log \in Log!LogType
    /\ log.started <= n
    /\ Log!BytesInBlocks(log)
    /\ EntriesCounted
    /\ Log!LastWithinTotals(log)
    /\ log.total_sessions = 0 => log.total_elapsed = 0

LEMMA LogSafeIsEnough == LogSafe => LogAccounts
  BY ReportedAreReadable DEF LogSafe, LogAccounts, EntriesCounted, EntriesDue

LEMMA NewLogSafe ==
    /\ Log!NewLog \in Log!LogType
    /\ Log!BytesInBlocks(Log!NewLog)
    /\ Log!LastWithinTotals(Log!NewLog)
    /\ Log!NewLog.started = 0 /\ Log!NewLog.entries = 0
    /\ Log!NewLog.total_sessions = 0 /\ Log!NewLog.total_elapsed = 0
  <1>1. 0 \in Nat /\ 0 \in 0..(BLOCK_SIZE - 1) /\ 0 \in 0..ENTRY_MAX
        /\ 0 \in 0..(BLOCKS_MOD - 1) /\ 0 \in 0..(SESSION_MOD - 1)
    BY LogSizes
  <1>2. Log!NewLog \in Log!LogType
    BY <1>1, Zenon DEF Log!NewLog, Log!LogType
  <1> QED
    BY <1>2, LogSizes DEF Log!NewLog, Log!BytesInBlocks, Log!LastWithinTotals

LEMMA LogInit == Init => LogSafe
  BY NewLogSafe, LogSizes DEF Init, LogSafe, EntriesCounted, EntriesDue

\* An entry more is due and counted.
LEMMA OneMoreEntry ==
    ASSUME NEW entries \in 0..ENTRY_MAX, NEW due \in Nat,
           entries = IF due > ENTRY_MAX THEN ENTRY_MAX ELSE due
    PROVE  /\ Log!SaturatingEntry(entries) \in 0..ENTRY_MAX
           /\ Log!SaturatingEntry(entries) =
                  IF due + 1 > ENTRY_MAX THEN ENTRY_MAX ELSE due + 1
  BY LogSizes DEF Log!SaturatingEntry

LEMMA LogStep == LogSafe /\ [Next]_vars => LogSafe'
  <1> SUFFICES ASSUME LogSafe, [Next]_vars PROVE LogSafe'
    OBVIOUS
  <1> USE DEF LogSafe
  <1>1. /\ log.entries \in 0..ENTRY_MAX /\ log.total_sessions \in Nat
        /\ log.total_elapsed \in Nat /\ log.total_bytes \in Nat /\ log.bytes \in Nat
        /\ log.active \in BOOLEAN /\ log.started \in Nat
        /\ log.last_elapsed \in Nat /\ log.last_bytes \in Nat
    BY DEF Log!LogType
  <1>2. EntriesDue \in Nat
    BY <1>1 DEF EntriesDue
  <1>3. ASSUME GetLiveData PROVE LogSafe'
    <2>1. /\ n' = n + 1 /\ markers' = markers
          /\ \E line \in LineBytes : log' = Log!append_log_bytes(log, n + 1, line)
      BY <1>3 DEF GetLiveData
    <2>2. PICK line \in LineBytes : log' = Log!append_log_bytes(log, n + 1, line)
      BY <2>1
    <2>3. line \in Nat /\ n + 1 \in Nat /\ log.started <= n + 1
      BY <1>1, LogSizes
    <2>4. /\ log' \in Log!LogType /\ Log!BytesInBlocks(log')
          /\ log'.started = log.started
          /\ log'.entries = log.entries /\ log'.total_sessions = log.total_sessions
          /\ log'.total_elapsed = log.total_elapsed /\ log'.total_bytes = log.total_bytes
          /\ log'.last_elapsed = log.last_elapsed /\ log'.last_bytes = log.last_bytes
          /\ log'.last_blocks = log.last_blocks
      BY <2>2, <2>3, AppendAccounts
    <2> QED
      BY <2>1, <2>3, <2>4 DEF EntriesCounted, EntriesDue, Log!LastWithinTotals
  <1>4. ASSUME LogStart PROVE LogSafe'
    <2>1. /\ n' = n /\ markers' = markers
          /\ \E header \in HeaderBytes : log' = Log!log_start(log, n, header)
      BY <1>4 DEF LogStart, live, history
    <2>2. PICK header \in HeaderBytes : log' = Log!log_start(log, n, header)
      BY <2>1
    <2>3. header \in Nat /\ n \in Nat /\ log \in Log!LogType
      BY LogSizes
    <2>7. LET s == Log!log_start(log, n, header)
          IN  /\ s \in Log!LogType
              /\ Log!BytesInBlocks(s)
              /\ s.started = n
              /\ s.entries = log.entries /\ s.total_sessions = log.total_sessions
              /\ s.total_elapsed = log.total_elapsed /\ s.total_bytes = log.total_bytes
              /\ s.last_elapsed = log.last_elapsed /\ s.last_bytes = log.last_bytes
              /\ s.last_blocks = log.last_blocks
      BY <2>3, StartAccounts, Zenon
    <2>4. /\ log' \in Log!LogType /\ Log!BytesInBlocks(log')
          /\ log'.started = n
          /\ log'.entries = log.entries /\ log'.total_sessions = log.total_sessions
          /\ log'.total_elapsed = log.total_elapsed /\ log'.total_bytes = log.total_bytes
          /\ log'.last_elapsed = log.last_elapsed /\ log'.last_bytes = log.last_bytes
          /\ log'.last_blocks = log.last_blocks
      BY <2>2, <2>7
    <2>5. log'.started <= n'
      BY <2>1, <2>4
    <2>6. EntriesDue' = EntriesDue /\ Log!LastWithinTotals(log')
      BY <2>1, <2>4 DEF EntriesDue, Log!LastWithinTotals
    <2> QED
      BY <2>1, <2>4, <2>5, <2>6 DEF EntriesCounted
  <1>5. ASSUME LogStop PROVE LogSafe'
    <2>1. n' = n /\ markers' = markers /\ log' = Log!log_stop(log, n)
      BY <1>5 DEF LogStop, live, history
    <2>2. /\ log' \in Log!LogType /\ Log!BytesInBlocks(log')
          /\ log'.started = log.started
      BY <2>1, StopAccounts
    <2>3. CASE ~log.active
      <3>1. log' = log
        BY <2>1, <2>3 DEF Log!log_stop
      <3> QED
        BY <2>1, <3>1 DEF EntriesCounted, EntriesDue
    <2>4. CASE log.active
      <3> DEFINE elapsed == Log!current_log_elapsed_ms(log, n)
      <3>1. elapsed \in Nat
        BY ElapsedIsNat
      <3>2. /\ log'.entries = Log!SaturatingEntry(log.entries)
            /\ log'.total_sessions = log.total_sessions + 1
            /\ log'.total_elapsed = log.total_elapsed + elapsed
            /\ log'.total_bytes = log.total_bytes + log.bytes
            /\ log'.last_elapsed = elapsed /\ log'.last_bytes = log.bytes
        BY <2>1, <2>4 DEF Log!log_stop, Log!LogType
      <3> HIDE DEF elapsed
      <3>3. Log!LastWithinTotals(log')
        BY <1>1, <3>1, <3>2 DEF Log!LastWithinTotals
      <3>4. log'.entries = IF EntriesDue + 1 > ENTRY_MAX THEN ENTRY_MAX ELSE EntriesDue + 1
        BY <1>1, <1>2, <3>2, OneMoreEntry DEF EntriesCounted
      <3>5. EntriesDue' = EntriesDue + 1
        BY <1>1, <2>1, <3>2 DEF EntriesDue
      <3> QED
        BY <1>1, <2>1, <2>2, <3>2, <3>3, <3>4, <3>5 DEF EntriesCounted
    <2> QED
      BY <1>1, <2>3, <2>4
  <1>6. ASSUME ResetLogbook PROVE LogSafe'
    <2>1. n' = n /\ markers' = 0 /\ log' = Log!reset_logbook(log)
      BY <1>6 DEF ResetLogbook, live
    <2>2. log' = [Log!NewLog EXCEPT !.rtc_synced = log.rtc_synced, !.started = log.started]
      BY <2>1 DEF Log!reset_logbook
    <2>3. log.rtc_synced \in BOOLEAN
      BY DEF Log!LogType
    <2>4. log' \in Log!LogType
      BY <1>1, <2>2, <2>3, NewLogSafe DEF Log!LogType
    <2>5. /\ log'.started = log.started
          /\ \A field \in {"active", "bytes", "blocks", "staging", "entries", "total_sessions",
                           "total_elapsed", "total_bytes", "last_elapsed", "last_bytes",
                           "last_blocks"} : log'[field] = Log!NewLog[field]
      BY <2>2 DEF Log!NewLog
    <2> QED
      BY <2>1, <2>4, <2>5, NewLogSafe, LogSizes
         DEF EntriesCounted, EntriesDue, Log!LastWithinTotals, Log!BytesInBlocks
  <1>7. ASSUME log' = [log EXCEPT !.rtc_synced = TRUE], n' = n, markers' = markers
        PROVE  LogSafe'
    <2>1. log' \in Log!LogType
      BY <1>7 DEF Log!LogType
    <2>2. \A field \in {"active", "bytes", "blocks", "staging", "started", "entries",
                        "total_sessions", "total_elapsed", "total_bytes", "last_elapsed",
                        "last_bytes", "last_blocks"} : log'[field] = log[field]
      BY <1>7 DEF Log!LogType
    <2> QED
      BY <1>7, <2>1, <2>2
         DEF EntriesCounted, EntriesDue, Log!LastWithinTotals, Log!BytesInBlocks
  <1>8. ASSUME log' = Log!record_logbook_audit_marker(log), n' = n, markers' = markers + 1
        PROVE  LogSafe'
    <2>1. log' = [log EXCEPT !.entries = Log!SaturatingEntry(log.entries)]
      BY <1>8 DEF Log!record_logbook_audit_marker
    <2>2. /\ Log!SaturatingEntry(log.entries) \in 0..ENTRY_MAX
          /\ Log!SaturatingEntry(log.entries) =
                 IF EntriesDue + 1 > ENTRY_MAX THEN ENTRY_MAX ELSE EntriesDue + 1
      BY <1>1, <1>2, OneMoreEntry DEF EntriesCounted
    <2>3. log' \in Log!LogType
      BY <2>1, <2>2 DEF Log!LogType
    <2>4. /\ log'.entries = Log!SaturatingEntry(log.entries)
          /\ \A field \in {"active", "bytes", "blocks", "staging", "started",
                           "total_sessions", "total_elapsed", "total_bytes", "last_elapsed",
                           "last_bytes", "last_blocks"} : log'[field] = log[field]
      BY <2>1 DEF Log!LogType
    <2>5. EntriesDue' = EntriesDue + 1
      BY <1>1, <1>8, <2>4 DEF EntriesDue
    <2> QED
      BY <1>8, <2>2, <2>3, <2>4, <2>5
         DEF EntriesCounted, Log!LastWithinTotals, Log!BytesInBlocks
  <1>9. ASSUME Restart PROVE LogSafe'
    BY <1>9, NewLogSafe, LogSizes DEF Restart, EntriesCounted, EntriesDue
  <1>10. ASSUME UNCHANGED <<log, n, markers>> PROVE LogSafe'
    BY <1>10 DEF EntriesCounted, EntriesDue
  <1>11. SyncRtc => log' = [log EXCEPT !.rtc_synced = TRUE] /\ n' = n /\ markers' = markers
    BY DEF SyncRtc, Log!sync_rtc, live, history
  <1>12. ASSUME NEW force_on \in BOOLEAN, NEW force_unsafe \in BOOLEAN,
                RunOutputTest(force_on, force_unsafe)
         PROVE  \/ log' = Log!record_logbook_audit_marker(log) /\ n' = n /\ markers' = markers + 1
                \/ UNCHANGED <<log, n, markers>>
    BY <1>12 DEF RunOutputTest, live
  <1>13. GetTriggerCapture \/ FlashSession \/ UNCHANGED vars => UNCHANGED <<log, n, markers>>
    BY DEF GetTriggerCapture, FlashSession, vars, live, history
  <1> QED
    BY <1>3, <1>4, <1>5, <1>6, <1>7, <1>8, <1>9, <1>10, <1>11, <1>12, <1>13, Zenon DEF Next

\* Blocks hold every byte of the session once and can be read back as a status
\* reports them; entries and totals count what was stopped and audited
\* (append_log_bytes, read_log_block, LogStop, RunOutputTest, ResetLogbook).
THEOREM LogIsAccounted == Spec => []LogAccounts
  BY LogInit, LogStep, LogSafeIsEnough, PTL DEF Spec

----------------------------------------------------------------------------
(* Time in the cut of rotational idle.                                     *)

LEMMA CutSizes ==
    /\ STEP \in Nat \ {0} /\ ACTIVATION_DELAY \in Nat \ {0} /\ MAX_ACTIVE \in Nat \ {0}
    /\ LOSS_MOD \in Nat \ {0} /\ COUNT_MAX \in Nat \ {0} /\ MAX_SAMPLES \in Nat
    /\ MAX_SAMPLES <= COUNT_MAX
    /\ \E ticks \in Nat : MAX_ACTIVE = ticks * STEP
  <1>1. /\ STEP \in Nat \ {0} /\ ACTIVATION_DELAY \in Nat \ {0} /\ MAX_ACTIVE \in Nat \ {0}
        /\ LOSS_MOD \in Nat \ {0} /\ COUNT_MAX \in Nat \ {0} /\ MAX_SAMPLES \in Nat
    BY PartsAssumption, LiveAssumption DEF Rot!RotationalAssumption
  <1>2. /\ MAX_ACTIVE \div STEP \in Nat
        /\ MAX_ACTIVE = STEP * (MAX_ACTIVE \div STEP) + (MAX_ACTIVE % STEP)
    BY <1>1, DivMod, Zenon
  <1>3. MAX_ACTIVE = (MAX_ACTIVE \div STEP) * STEP
    BY <1>1, <1>2, CutAssumption
  <1> QED
    BY <1>1, <1>2, <1>3, CutAssumption

\* What an activation not yet ended may still take.
Reserved(r) == IF r.active THEN MAX_ACTIVE - r.timer ELSE 0

\* The account of rotational idle after k samples, in a form one tick keeps.
CutSafe(r, k) ==
    /\ r \in Rot!RotationalType
    /\ r.activations <= k
    /\ \E ticks \in Nat : r.timer = ticks * STEP
    /\ r.active => r.timer < MAX_ACTIVE /\ r.delay >= ACTIVATION_DELAY
    /\ ~r.active => r.timer = 0
    /\ r.total_active + Reserved(r) <= r.activations * MAX_ACTIVE
    /\ r.total_active >= r.timeouts * MAX_ACTIVE + r.timer

LEMMA CountedOnce ==
    ASSUME NEW count \in 0..COUNT_MAX, NEW by \in Nat
    PROVE  /\ Rot!Counted(count, by) \in 0..COUNT_MAX
           /\ Rot!Counted(count, by) <= count + by
           /\ count + by <= COUNT_MAX => Rot!Counted(count, by) = count + by
  BY CutSizes DEF Rot!Counted

\* A closed gate ends the cut and keeps every count but its own.
LEMMA GateEnds ==
    ASSUME NEW r \in Rot!RotationalType, NEW gate \in Rot!Gates
    PROVE  LET a == Rot!apply_gate(r, gate)
           IN  /\ a \in Rot!RotationalType
               /\ ~a.active /\ a.timer = 0 /\ a.delay = 0
               /\ a.seen_loss = r.seen_loss /\ a.activations = r.activations
               /\ a.timeouts = r.timeouts /\ a.total_active = r.total_active
  <1> DEFINE a == Rot!apply_gate(r, gate)
             counted == Rot!Counted(r.histogram[gate], 1)
  <1>1. r.histogram[gate] \in 0..COUNT_MAX
    BY DEF Rot!RotationalType
  <1>2. counted \in 0..COUNT_MAX
    BY <1>1, CountedOnce
  <1>3. a = [r EXCEPT !.histogram = [r.histogram EXCEPT ![gate] = counted],
                      !.active = FALSE, !.armed = FALSE, !.delay = 0, !.timer = 0,
                      !.cylinders = 0, !.gate = gate]
    BY DEF Rot!apply_gate, Rot!RotationalType
  <1> HIDE DEF a, counted
  <1>4. [r.histogram EXCEPT ![gate] = counted] \in [Rot!Gates -> 0..COUNT_MAX]
    BY <1>2 DEF Rot!RotationalType
  <1>5. a \in Rot!RotationalType
    BY <1>3, <1>4 DEF Rot!RotationalType
  <1> QED
    BY <1>3, <1>5 DEF a, Rot!RotationalType

\* A gate that closes gives back what was reserved.
LEMMA GateSafe ==
    ASSUME NEW k \in Nat, NEW r, CutSafe(r, k), NEW gate \in Rot!Gates
    PROVE  CutSafe(Rot!apply_gate(r, gate), k)
  <1> DEFINE a == Rot!apply_gate(r, gate)
  <1>1. r \in Rot!RotationalType
    BY DEF CutSafe
  <1>2. /\ a \in Rot!RotationalType
        /\ ~a.active /\ a.timer = 0 /\ a.delay = 0
        /\ a.activations = r.activations
        /\ a.timeouts = r.timeouts /\ a.total_active = r.total_active
    BY <1>1, GateEnds
  <1> HIDE DEF a
  <1>3. /\ r.total_active \in Nat /\ r.timer \in Nat /\ r.timeouts \in Nat
        /\ r.activations \in Nat /\ r.timeouts * MAX_ACTIVE \in Nat
        /\ r.activations * MAX_ACTIVE \in Nat
    BY <1>1, CutSizes DEF Rot!RotationalType
  <1>4. a.timer = 0 * STEP
    BY <1>2, CutSizes
  <1>5. r.total_active <= r.activations * MAX_ACTIVE
    BY <1>3, CutSizes DEF CutSafe, Reserved
  <1>6. r.total_active >= r.timeouts * MAX_ACTIVE
    BY <1>3 DEF CutSafe
  <1>7. Reserved(a) = 0
    BY <1>2 DEF Reserved
  <1> QED
    BY <1>2, <1>3, <1>4, <1>5, <1>6, <1>7 DEF CutSafe, a

\* Fields the account does not mention may change.
LEMMA SameAccount ==
    ASSUME NEW k \in Nat, NEW r, CutSafe(r, k), NEW a \in Rot!RotationalType,
           a.active = r.active, a.timer = r.timer, a.delay = r.delay,
           a.activations = r.activations, a.timeouts = r.timeouts,
           a.total_active = r.total_active
    PROVE  CutSafe(a, k) /\ CutSafe(a, k + 1)
  <1>1. r.activations \in Nat /\ r.activations <= k
    BY DEF CutSafe, Rot!RotationalType
  <1>2. r.activations <= k + 1
    BY <1>1
  <1>3. Reserved(a) = Reserved(r)
    BY DEF Reserved
  <1> QED
    BY <1>1, <1>2, <1>3, Zenon DEF CutSafe

LEMMA ArmingSafe ==
    ASSUME NEW k \in Nat, k + 1 <= MAX_SAMPLES, NEW r, CutSafe(r, k), ~r.active,
           NEW j \in Nat
    PROVE  LET a == Rot!arming(r, j)
           IN  /\ CutSafe(a, k + 1)
               /\ a.delay = r.delay + STEP /\ a.seen_loss = r.seen_loss
  <1> DEFINE a == Rot!arming(r, j)
             counted == Rot!Counted(r.activations, 1)
  <1>1. /\ r \in Rot!RotationalType
        /\ r.activations \in 0..COUNT_MAX /\ r.delay \in Nat /\ r.timer = 0
        /\ r.timeouts \in Nat /\ r.total_active \in Nat
        /\ r.activations <= k /\ r.timeouts * MAX_ACTIVE \in Nat
        /\ r.activations * MAX_ACTIVE \in Nat
        /\ r.total_active <= r.activations * MAX_ACTIVE
        /\ r.total_active >= r.timeouts * MAX_ACTIVE
    BY CutSizes DEF CutSafe, Reserved, Rot!RotationalType
  <1>2. r.delay + STEP \in Nat /\ 0 * STEP = 0
    BY <1>1, CutSizes
  <1>3. CASE r.delay + STEP >= ACTIVATION_DELAY
    <2>1. \E cylinders \in {2, 3} :
              a = [r EXCEPT !.delay = r.delay + STEP, !.active = TRUE, !.timer = 0,
                            !.activations = counted, !.cylinders = cylinders]
      BY <1>1, <1>3 DEF Rot!arming, Rot!activate, Rot!advance_scheduler, Rot!RotationalType
    <2>2. PICK cylinders \in {2, 3} :
              a = [r EXCEPT !.delay = r.delay + STEP, !.active = TRUE, !.timer = 0,
                            !.activations = counted, !.cylinders = cylinders]
      BY <2>1
    <2>3. counted = r.activations + 1 /\ counted \in 0..COUNT_MAX
      <3>1. r.activations \in 0..COUNT_MAX /\ 1 \in Nat /\ r.activations + 1 <= COUNT_MAX
        BY <1>1, CutSizes
      <3> QED
        BY <3>1, CountedOnce, Zenon
    <2> HIDE DEF a, counted
    <2>4. a \in Rot!RotationalType
      BY <1>1, <1>2, <2>2, <2>3 DEF Rot!RotationalType
    <2>5. /\ a.active /\ a.delay = r.delay + STEP /\ a.timer = 0
          /\ a.activations = counted /\ a.timeouts = r.timeouts
          /\ a.total_active = r.total_active /\ a.seen_loss = r.seen_loss
      BY <1>1, <2>2 DEF Rot!RotationalType
    <2>6. (r.activations + 1) * MAX_ACTIVE = r.activations * MAX_ACTIVE + MAX_ACTIVE
      BY <1>1, CutSizes
    <2>7. /\ a.total_active + Reserved(a) <= a.activations * MAX_ACTIVE
          /\ a.total_active >= a.timeouts * MAX_ACTIVE + a.timer
          /\ a.timer < MAX_ACTIVE /\ a.activations <= k + 1
      BY <1>1, <2>3, <2>5, <2>6, CutSizes DEF Reserved
    <2>8. CutSafe(a, k + 1)
      <3>1. \E ticks \in Nat : a.timer = ticks * STEP
        BY <1>2, <2>5
      <3> QED
        BY <1>3, <2>4, <2>5, <2>7, <3>1, Zenon DEF CutSafe
    <2> QED
      BY <2>5, <2>8 DEF a
  <1>4. CASE ~(r.delay + STEP >= ACTIVATION_DELAY)
    <2>1. a = [r EXCEPT !.delay = r.delay + STEP]
      BY <1>1, <1>4 DEF Rot!arming, Rot!RotationalType
    <2> HIDE DEF a
    <2>2. a \in Rot!RotationalType
      BY <1>1, <1>2, <2>1 DEF Rot!RotationalType
    <2>3. /\ ~a.active /\ a.delay = r.delay + STEP /\ a.timer = 0
          /\ a.activations = r.activations /\ a.timeouts = r.timeouts
          /\ a.total_active = r.total_active /\ a.seen_loss = r.seen_loss
      BY <1>1, <2>1 DEF Rot!RotationalType
    <2>4. /\ a.total_active + Reserved(a) <= a.activations * MAX_ACTIVE
          /\ a.total_active >= a.timeouts * MAX_ACTIVE + a.timer
          /\ a.activations <= k + 1
      BY <1>1, <2>3 DEF Reserved
    <2>5. CutSafe(a, k + 1)
      <3>1. \E ticks \in Nat : a.timer = ticks * STEP
        BY <1>2, <2>3
      <3> QED
        BY <2>2, <2>3, <2>4, <3>1, Zenon DEF CutSafe
    <2> QED
      BY <2>3, <2>5 DEF a
  <1> QED
    BY <1>3, <1>4

\* A tick of the cut: the limit is met exactly, for the timer counts in steps.
LEMMA CuttingSafe ==
    ASSUME NEW k \in Nat, NEW r, CutSafe(r, k), r.active, NEW j \in Nat
    PROVE  LET a == Rot!cutting(r, j)
           IN  /\ CutSafe(a, k + 1)
               /\ a.seen_loss = r.seen_loss
               /\ a.delay \in {0, r.delay}
               /\ a.active => a.delay = r.delay
  <1> DEFINE a == Rot!cutting(r, j)
  <1>1. /\ r \in Rot!RotationalType
        /\ r.activations \in Nat /\ r.delay \in Nat /\ r.timer \in Nat
        /\ r.timeouts \in 0..COUNT_MAX /\ r.total_active \in Nat
        /\ r.activations <= k /\ r.timeouts * MAX_ACTIVE \in Nat
        /\ r.activations * MAX_ACTIVE \in Nat
        /\ r.timer < MAX_ACTIVE /\ r.delay >= ACTIVATION_DELAY
        /\ r.total_active + (MAX_ACTIVE - r.timer) <= r.activations * MAX_ACTIVE
        /\ r.total_active >= r.timeouts * MAX_ACTIVE + r.timer
    BY CutSizes DEF CutSafe, Reserved, Rot!RotationalType
  <1>2. PICK ticks \in Nat : r.timer = ticks * STEP
    BY DEF CutSafe
  <1>3. PICK limit \in Nat : MAX_ACTIVE = limit * STEP
    BY CutSizes
  <1>4. (ticks + 1) * STEP = r.timer + STEP
    BY <1>2, CutSizes
  <1>5. r.timer + STEP <= MAX_ACTIVE
    <2>1. ticks < limit
      <3>1. ASSUME limit <= ticks PROVE FALSE
        <4>1. limit * STEP <= ticks * STEP
          BY <3>1, CutSizes
        <4> QED
          BY <1>1, <1>2, <1>3, <4>1, CutSizes
      <3> QED
        BY <3>1
    <2>2. (ticks + 1) * STEP <= limit * STEP
      BY <2>1, CutSizes
    <2> QED
      BY <1>3, <1>4, <2>2
  <1>6. r.timer + STEP \in Nat /\ r.total_active + STEP \in Nat
    BY <1>1, CutSizes
  <1>7. \E cylinders \in {2, 3} :
            Rot!advance_scheduler([r EXCEPT !.timer = r.timer + STEP,
                                            !.total_active = r.total_active + STEP], j)
              = [r EXCEPT !.timer = r.timer + STEP, !.total_active = r.total_active + STEP,
                          !.cylinders = cylinders]
    BY <1>1 DEF Rot!advance_scheduler, Rot!RotationalType
  <1>8. PICK cylinders \in {2, 3} :
            Rot!advance_scheduler([r EXCEPT !.timer = r.timer + STEP,
                                            !.total_active = r.total_active + STEP], j)
              = [r EXCEPT !.timer = r.timer + STEP, !.total_active = r.total_active + STEP,
                          !.cylinders = cylinders]
    BY <1>7
  <1> DEFINE cut == [r EXCEPT !.timer = r.timer + STEP, !.total_active = r.total_active + STEP,
                              !.cylinders = cylinders]
             late == [cut EXCEPT !.timeouts = Rot!Counted(cut.timeouts, 1)]
  <1>9. a = IF cut.timer >= MAX_ACTIVE THEN Rot!apply_gate(late, Rot!TimedOut) ELSE cut
    BY <1>8, Zenon DEF Rot!cutting
  <1>10. cut \in Rot!RotationalType
    BY <1>1, <1>6 DEF Rot!RotationalType
  <1>11. /\ cut.active /\ cut.delay = r.delay /\ cut.timer = r.timer + STEP
         /\ cut.activations = r.activations /\ cut.timeouts = r.timeouts
         /\ cut.total_active = r.total_active + STEP /\ cut.seen_loss = r.seen_loss
    BY <1>1 DEF Rot!RotationalType
  <1> HIDE DEF cut, a
  <1>12. CASE cut.timer >= MAX_ACTIVE
    <2>1. r.timer + STEP = MAX_ACTIVE
      <3>1. MAX_ACTIVE \in Nat /\ r.timer + STEP >= MAX_ACTIVE
        BY <1>11, <1>12, CutSizes
      <3> QED
        BY <1>5, <1>6, <3>1
    <2>2. /\ Rot!Counted(r.timeouts, 1) \in 0..COUNT_MAX
          /\ Rot!Counted(r.timeouts, 1) <= r.timeouts + 1
      BY <1>1, CountedOnce
    <2>3. late \in Rot!RotationalType
      BY <1>10, <1>11, <2>2 DEF Rot!RotationalType
    <2>4. /\ late.delay = r.delay /\ late.activations = r.activations
          /\ late.timeouts = Rot!Counted(r.timeouts, 1)
          /\ late.total_active = r.total_active + STEP /\ late.seen_loss = r.seen_loss
      BY <1>10, <1>11 DEF Rot!RotationalType
    <2>5. a = Rot!apply_gate(late, Rot!TimedOut) /\ Rot!TimedOut \in Rot!Gates
      BY <1>9, <1>12 DEF Rot!TimedOut, Rot!Gates
    <2> HIDE DEF late
    <2>6. /\ a \in Rot!RotationalType
          /\ ~a.active /\ a.timer = 0 /\ a.delay = 0
          /\ a.seen_loss = late.seen_loss /\ a.activations = late.activations
          /\ a.timeouts = late.timeouts /\ a.total_active = late.total_active
      BY <2>3, <2>5, GateEnds
    <2>7. a.timeouts * MAX_ACTIVE <= r.timeouts * MAX_ACTIVE + MAX_ACTIVE
      <3>1. a.timeouts \in Nat /\ a.timeouts <= r.timeouts + 1
        BY <2>2, <2>4, <2>6, CutSizes
      <3>2. a.timeouts * MAX_ACTIVE <= (r.timeouts + 1) * MAX_ACTIVE
        BY <1>1, <3>1, CutSizes
      <3>3. (r.timeouts + 1) * MAX_ACTIVE = r.timeouts * MAX_ACTIVE + MAX_ACTIVE
        BY <1>1, CutSizes
      <3> QED
        BY <3>2, <3>3
    <2>8. a.timeouts * MAX_ACTIVE \in Nat
      BY <2>6, CutSizes DEF Rot!RotationalType
    <2>9. /\ a.total_active + Reserved(a) <= a.activations * MAX_ACTIVE
          /\ a.total_active >= a.timeouts * MAX_ACTIVE + a.timer
          /\ a.activations <= k + 1
      BY <1>1, <2>1, <2>4, <2>6, <2>7, <2>8, CutSizes DEF Reserved
    <2>10. \E t \in Nat : a.timer = t * STEP
      <3>1. 0 \in Nat /\ 0 * STEP = 0
        BY CutSizes
      <3> QED
        BY <2>6, <3>1
    <2>11. CutSafe(a, k + 1)
      BY <2>6, <2>9, <2>10, Zenon DEF CutSafe
    <2> QED
      BY <2>4, <2>6, <2>11 DEF a
  <1>13. CASE ~(cut.timer >= MAX_ACTIVE)
    <2>1. a = cut
      BY <1>9, <1>13
    <2>2. a.timer < MAX_ACTIVE
      BY <1>6, <1>11, <1>13, <2>1, CutSizes
    <2>3. /\ a.total_active + Reserved(a) <= a.activations * MAX_ACTIVE
          /\ a.total_active >= a.timeouts * MAX_ACTIVE + a.timer
          /\ a.activations <= k + 1 /\ a.delay >= ACTIVATION_DELAY
      BY <1>1, <1>11, <2>1, CutSizes DEF Reserved
    <2>4. \E t \in Nat : a.timer = t * STEP
      BY <1>2, <1>4, <1>11, <2>1
    <2>5. CutSafe(a, k + 1)
      BY <1>10, <1>11, <2>1, <2>2, <2>3, <2>4, Zenon DEF CutSafe
    <2> QED
      BY <1>11, <2>1, <2>5 DEF a
  <1> QED
    BY <1>12, <1>13

\* Two readings of the loss counter differ exactly when their distance does.
LEMMA LossDistance ==
    ASSUME NEW old \in 0..(LOSS_MOD - 1), NEW new \in 0..(LOSS_MOD - 1)
    PROVE  /\ (new - old) % LOSS_MOD \in Nat
           /\ (new - old) % LOSS_MOD > 0 <=> new # old
  <1> DEFINE gap == new - old
             rest == gap % LOSS_MOD
             turns == gap \div LOSS_MOD
  <1>1. gap \in Int /\ LOSS_MOD \in Nat \ {0} /\ gap < LOSS_MOD /\ -LOSS_MOD < gap
    BY CutSizes
  <1>2. /\ rest \in 0..(LOSS_MOD - 1) /\ turns \in Int
        /\ gap = LOSS_MOD * turns + rest
    BY <1>1
  <1>3. gap = 0 => rest = 0
    BY <1>1
  <1> HIDE DEF rest, turns
  <1>4. rest = 0 => gap = 0
    <2>1. SUFFICES ASSUME rest = 0, gap # 0 PROVE FALSE
      OBVIOUS
    <2>2. gap = LOSS_MOD * turns
      BY <1>1, <1>2, <2>1
    <2>3. turns # 0
      BY <1>1, <2>1, <2>2
    <2>4. turns >= 1 \/ turns <= -1
      BY <1>2, <2>3
    <2>5. turns >= 1 => LOSS_MOD * turns >= LOSS_MOD
      BY <1>1, <1>2
    <2>6. turns <= -1 => LOSS_MOD * turns <= -LOSS_MOD
      BY <1>1, <1>2
    <2> QED
      BY <1>1, <2>2, <2>4, <2>5, <2>6
  <1> QED
    BY <1>1, <1>2, <1>3, <1>4 DEF rest

\* One tick keeps the account; it arms no faster than a step at a time, and a
\* loss, a protection or a demand ends the cut at once.
LEMMA TickSafe ==
    ASSUME NEW k \in Nat, k + 1 <= MAX_SAMPLES, NEW r0, CutSafe(r0, k), NEW j \in Nat,
           NEW hot \in BOOLEAN, NEW calm_now \in BOOLEAN, NEW protected \in BOOLEAN,
           NEW l \in 0..(LOSS_MOD - 1)
    PROVE  LET a == Rot!tick(r0, j, hot, calm_now, l, protected)
           IN  /\ CutSafe(a, k + 1)
               /\ a.seen_loss = l
               /\ a.delay \in Nat /\ a.delay <= r0.delay + STEP
               /\ protected \/ ~calm_now \/ l # r0.seen_loss => a.delay = 0
  <1> DEFINE a == Rot!tick(r0, j, hot, calm_now, l, protected)
             delta == (l - r0.seen_loss) % LOSS_MOD
             r == Rot!see_loss(r0, l)
             armed == [r EXCEPT !.armed = TRUE, !.gate = 0]
             guarded == [r EXCEPT !.guards = Rot!Counted(r.guards, delta)]
  <1>1. r0 \in Rot!RotationalType
    BY DEF CutSafe
  <1>2. delta \in Nat /\ (delta > 0 <=> l # r0.seen_loss)
    BY <1>1, LossDistance DEF Rot!RotationalType
  <1>3. r = [r0 EXCEPT !.seen_loss = l]
    BY DEF Rot!see_loss
  <1>4. r \in Rot!RotationalType
    BY <1>1, <1>3 DEF Rot!RotationalType
  <1>5. a = IF ~r.enabled THEN Rot!apply_gate(r, Rot!Disabled)
            ELSE IF protected THEN Rot!apply_gate(r, Rot!Protected)
            ELSE IF delta > 0 THEN Rot!apply_gate(guarded, Rot!SyncGuard)
            ELSE IF ~hot THEN Rot!apply_gate(r, Rot!TooCold)
            ELSE IF ~calm_now THEN Rot!apply_gate(r, Rot!EngineDemand)
            ELSE IF r.active THEN Rot!cutting(armed, j) ELSE Rot!arming(armed, j)
    BY Zenon DEF Rot!tick
  <1>6. guarded \in Rot!RotationalType
    <2>1. r.guards \in 0..COUNT_MAX
      BY <1>4 DEF Rot!RotationalType
    <2>2. Rot!Counted(r.guards, delta) \in 0..COUNT_MAX
      BY <1>2, <2>1, CountedOnce, Zenon
    <2> HIDE DEF r, delta
    <2> QED
      BY <1>4, <2>2 DEF Rot!RotationalType
  <1>7. armed \in Rot!RotationalType
    BY <1>4 DEF Rot!RotationalType, Rot!Gates
  <1> HIDE DEF a, delta, r
  <1>8. \A x \in {r, armed, guarded} :
            /\ x.active = r0.active /\ x.timer = r0.timer /\ x.delay = r0.delay
            /\ x.activations = r0.activations /\ x.timeouts = r0.timeouts
            /\ x.total_active = r0.total_active /\ x.seen_loss = l
    BY <1>1, <1>3 DEF Rot!RotationalType
  <1> HIDE DEF armed, guarded
  <1>9. \A x \in {r, armed, guarded} : CutSafe(x, k) /\ CutSafe(x, k + 1)
    BY <1>4, <1>6, <1>7, <1>8, SameAccount
  <1>10. ASSUME NEW x \in {r, guarded}, NEW gate \in Rot!Gates, a = Rot!apply_gate(x, gate)
         PROVE  CutSafe(a, k + 1) /\ a.seen_loss = l /\ a.delay = 0
    <2>1. CutSafe(x, k + 1) /\ x \in Rot!RotationalType /\ x.seen_loss = l /\ k + 1 \in Nat
      BY <1>4, <1>6, <1>8, <1>9
    <2>2. CutSafe(Rot!apply_gate(x, gate), k + 1)
      BY <2>1, GateSafe
    <2>3. Rot!apply_gate(x, gate).seen_loss = x.seen_loss /\ Rot!apply_gate(x, gate).delay = 0
      BY <2>1, GateEnds, Zenon
    <2> QED
      BY <1>10, <2>1, <2>2, <2>3
  <1>11. r0.delay \in Nat /\ r0.active \in BOOLEAN /\ STEP \in Nat
    BY <1>1, CutSizes DEF Rot!RotationalType
  <1>12. CASE \E x \in {r, guarded}, gate \in Rot!Gates : a = Rot!apply_gate(x, gate)
    <2>1. CutSafe(a, k + 1) /\ a.seen_loss = l /\ a.delay = 0
      BY <1>10, <1>12
    <2> QED
      BY <1>11, <2>1 DEF a
  <1>13. CASE a = Rot!cutting(armed, j) /\ r.active /\ ~protected /\ calm_now /\ ~(delta > 0)
    <2>1. CutSafe(armed, k) /\ armed.active /\ armed.delay = r0.delay /\ armed.seen_loss = l
      BY <1>8, <1>9, <1>13
    <2>2. CutSafe(a, k + 1) /\ a.seen_loss = l /\ a.delay \in {0, r0.delay}
      BY <1>13, <2>1, CuttingSafe
    <2>3. ~(protected \/ ~calm_now \/ l # r0.seen_loss)
      BY <1>2, <1>13
    <2>4. a.delay \in Nat /\ a.delay <= r0.delay + STEP
      BY <1>11, <2>2
    <2> QED
      BY <2>2, <2>3, <2>4, Zenon DEF a
  <1>14. CASE a = Rot!arming(armed, j) /\ ~r.active /\ ~protected /\ calm_now /\ ~(delta > 0)
    <2>1. CutSafe(armed, k) /\ ~armed.active /\ armed.delay = r0.delay /\ armed.seen_loss = l
      BY <1>8, <1>9, <1>14
    <2>2. CutSafe(a, k + 1) /\ a.seen_loss = l /\ a.delay = r0.delay + STEP
      BY <1>14, <2>1, ArmingSafe
    <2>3. ~(protected \/ ~calm_now \/ l # r0.seen_loss)
      BY <1>2, <1>14
    <2>4. a.delay \in Nat /\ a.delay <= r0.delay + STEP
      BY <1>11, <2>2
    <2> QED
      BY <2>2, <2>3, <2>4, Zenon DEF a
  <1>15. {Rot!Disabled, Rot!Protected, Rot!SyncGuard, Rot!TooCold, Rot!EngineDemand}
             \subseteq Rot!Gates
    BY DEF Rot!Disabled, Rot!Protected, Rot!SyncGuard, Rot!TooCold, Rot!EngineDemand, Rot!Gates
  <1> QED
    BY <1>5, <1>12, <1>13, <1>14, <1>15

\* Of the limits only EGT acts without a flag.
LEMMA UnflaggedAction ==
    ASSUME NEW v, Guard!evaluate(v).tripped \ {"egt"} = {}
    PROVE  Guard!evaluate(v).action \in {"None", Limits["egt"].action}
  <1>1. \A limit \in Guard!Limit \ {"egt"} : ~Guard!trips(v, limit)
    BY DEF Guard!evaluate
  <1>2. {"rpm", "map", "oil", "coolant", "afr"} \subseteq Guard!Limit \ {"egt"}
    BY DEF Guard!Limit
  <1>3. \A action : \A limit \in {"rpm", "map", "oil", "coolant", "afr"} :
            Guard!escalate_for(v, action, limit) = action
    BY <1>1, <1>2 DEF Guard!escalate_for
  <1>4. Guard!evaluate(v).action = Guard!escalate_for(v, "None", "egt")
    <2>1. Guard!evaluate(v).action =
              Guard!escalate_for(v, Guard!escalate_for(v, Guard!escalate_for(v,
                  Guard!escalate_for(v, Guard!escalate_for(v,
                      Guard!escalate_for(v, "None", "rpm"), "map"), "oil"), "coolant"), "afr"), "egt")
      BY SMT DEF Guard!evaluate
    <2>2. \A action : /\ Guard!escalate_for(v, action, "rpm") = action
                      /\ Guard!escalate_for(v, action, "map") = action
                      /\ Guard!escalate_for(v, action, "oil") = action
                      /\ Guard!escalate_for(v, action, "coolant") = action
                      /\ Guard!escalate_for(v, action, "afr") = action
      BY <1>3
    <2> QED
      BY <2>1, <2>2, SMT
  <1> QED
    BY <1>4, Zenon DEF Guard!escalate_for, Guard!escalate

\* An action keeps the protection flags, and only a shutdown closes a throttle
\* that is less than a third open.
LEMMA ActionOnFrame ==
    ASSUME NEW f, NEW rpm, NEW faults, NEW protect, NEW src, NEW action \in Guard!Actions,
           f = [ rpm |-> rpm, tps |-> 240, effects |-> {}, faults |-> faults,
                 protect |-> protect, source |-> src, running |-> TRUE ]
    PROVE  /\ apply_action(f, action).protect = protect
           /\ action # "Shutdown" => apply_action(f, action).tps = 240
  <1>1. f.protect = protect /\ f.tps = 240 /\ f.rpm = rpm
    OBVIOUS
  <1>2. ASSUME NEW effects
        PROVE  /\ [f EXCEPT !.effects = effects].protect = protect
               /\ [f EXCEPT !.effects = effects].tps = 240
    OBVIOUS
  <1>3. CASE action = "LimpMode"
    <2> DEFINE slow == IF f.rpm > 2500 THEN 2500 ELSE f.rpm
               gentle == IF f.tps > 300 THEN 300 ELSE f.tps
    <2>1. apply_action(f, action) =
              [f EXCEPT !.effects = {"spark_cut", "fuel_cut"}, !.rpm = slow, !.tps = gentle]
      BY <1>3 DEF apply_action
    <2>2. gentle = 240
      BY <1>1
    <2> HIDE DEF slow, gentle
    <2>3. /\ [f EXCEPT !.effects = {"spark_cut", "fuel_cut"}, !.rpm = slow, !.tps = gentle].protect
                 = protect
          /\ [f EXCEPT !.effects = {"spark_cut", "fuel_cut"}, !.rpm = slow, !.tps = gentle].tps
                 = gentle
      OBVIOUS
    <2> QED
      BY <2>1, <2>2, <2>3
  <1>4. CASE action = "Shutdown"
    <2>1. apply_action(f, action) =
              [f EXCEPT !.effects = {"spark_cut", "fuel_cut", "critical"}, !.rpm = 0, !.tps = 0]
      BY <1>4 DEF apply_action
    <2>2. [f EXCEPT !.effects = {"spark_cut", "fuel_cut", "critical"}, !.rpm = 0, !.tps = 0].protect
              = protect
      OBVIOUS
    <2> QED
      BY <1>4, <2>1, <2>2
  <1>5. CASE action = "None"
    <2>1. apply_action(f, action) = f
      BY <1>5 DEF apply_action
    <2> QED
      BY <1>1, <2>1
  <1>6. CASE action \in {"IgnitionRetard", "FuelEnrich", "SparkCut", "FuelCut", "SparkAndFuelCut"}
    <2>1. CASE action = "IgnitionRetard"
      <3>1. apply_action(f, action) = [f EXCEPT !.effects = {"retarded"}]
        BY <2>1 DEF apply_action
      <3> QED
        BY <1>2, <3>1
    <2>2. CASE action = "FuelEnrich"
      <3>1. apply_action(f, action) = [f EXCEPT !.effects = {"enriched"}]
        BY <2>2 DEF apply_action
      <3> QED
        BY <1>2, <3>1
    <2>3. CASE action = "SparkCut"
      <3>1. apply_action(f, action) = [f EXCEPT !.effects = {"spark_cut", "overrev"}]
        BY <2>3 DEF apply_action
      <3> QED
        BY <1>2, <3>1
    <2>4. CASE action = "FuelCut"
      <3>1. apply_action(f, action) = [f EXCEPT !.effects = {"fuel_cut"}]
        BY <2>4 DEF apply_action
      <3> QED
        BY <1>2, <3>1
    <2>5. CASE action = "SparkAndFuelCut"
      <3>1. apply_action(f, action) = [f EXCEPT !.effects = {"spark_cut", "fuel_cut", "overrev"}]
        BY <2>5 DEF apply_action
      <3> QED
        BY <1>2, <3>1
    <2> QED
      BY <1>6, <2>1, <2>2, <2>3, <2>4, <2>5
  <1> QED
    BY <1>3, <1>4, <1>5, <1>6 DEF Guard!Actions

\* A frame that shows a shift is no calm: the throttle is open, unless a
\* protection closed it, and then the protection is flagged.
LEMMA ShiftIsSeen ==
    ASSUME NEW k, NEW t, NEW w, Tcu!shift_in_progress(t)
    PROVE  \/ protection_gate(build_frame(k, t, w), t)
           \/ ~(build_frame(k, t, w).tps <= 80)
  <1> DEFINE engine == simulated(Tcu!shift_in_progress(t))
             src == Wide!source(w, k, engine.rpm > 450)
             guard == Guard!evaluate(measured(engine, src, k))
             base == [ rpm |-> engine.rpm, tps |-> engine.tps, effects |-> {},
                       faults |-> wideband_faults(w), protect |-> guard.tripped,
                       source |-> src, running |-> TRUE ]
  <1>1. build_frame(k, t, w) = apply_action(base, guard.action)
    BY DEF build_frame
  <1>2. base = [ rpm |-> engine.rpm, tps |-> 240, effects |-> {},
                 faults |-> wideband_faults(w), protect |-> guard.tripped,
                 source |-> src, running |-> TRUE ]
    BY DEF simulated
  <1>5. ASSUME guard.action \in Guard!Actions
        PROVE  /\ build_frame(k, t, w).protect = guard.tripped
               /\ guard.action # "Shutdown" => build_frame(k, t, w).tps = 240
    <2> HIDE DEF engine, src, guard, base
    <2> QED
      BY <1>1, <1>2, <1>5, ActionOnFrame
  <1>3. CASE guard.tripped \ {"egt"} # {}
    <2>2. guard.action \in Guard!Actions
      <3>1. \A limit \in Guard!Limit : Limits[limit].action \in Guard!Actions
        BY PartsAssumption DEF Guard!ProtectionAssumption
      <3>2. \A action \in Guard!Actions, limit \in Guard!Limit :
                Guard!escalate_for(measured(engine, src, k), action, limit) \in Guard!Actions
        BY <3>1, Zenon DEF Guard!escalate_for, Guard!escalate
      <3>3. "None" \in Guard!Actions
            /\ {"rpm", "map", "oil", "coolant", "afr", "egt"} \subseteq Guard!Limit
        BY DEF Guard!Actions, Guard!Limit
      <3> HIDE DEF engine, src
      <3> QED
        BY <3>2, <3>3 DEF Guard!evaluate
    <2> QED
      BY <1>3, <1>5, <2>2 DEF protection_gate
  <1>4. CASE guard.tripped \ {"egt"} = {}
    <2>1. guard.action \in {"None", Limits["egt"].action}
      BY <1>4, UnflaggedAction, Zenon
    <2>2. Limits["egt"].action \in Guard!Actions \ {"Shutdown"}
      BY PartsAssumption, CutAssumption DEF Guard!ProtectionAssumption, Guard!Limit
    <2>3. guard.action \in Guard!Actions \ {"Shutdown"}
      BY <2>1, <2>2 DEF Guard!Actions
    <2>4. build_frame(k, t, w).tps = 240
      BY <1>5, <2>3
    <2>5. ~(240 <= 80)
      OBVIOUS
    <2> QED
      BY <2>4, <2>5
  <1> QED
    BY <1>3, <1>4

\* The account, and what ties rotational idle to the frames: it has seen the
\* loss counter of the last one, and the delay it armed for was calm.
RotationalSafe ==
    /\ n \in 0..MAX_SAMPLES /\ calm_run \in Nat
    /\ loss \in 0..(LOSS_MOD - 1)
    /\ CutSafe(rot, n)
    /\ rot.seen_loss = loss
    /\ rot.delay <= calm_run * STEP

LEMMA RotationalSafeIsEnough == RotationalSafe => RotationalNeedsCalm /\ CutTimeAccounts
  <1> SUFFICES ASSUME RotationalSafe PROVE RotationalNeedsCalm /\ CutTimeAccounts
    OBVIOUS
  <1>1. /\ rot \in Rot!RotationalType
        /\ rot.timer \in Nat /\ rot.delay \in Nat /\ rot.active \in BOOLEAN
        /\ rot.activations * MAX_ACTIVE \in Nat /\ rot.total_active \in Nat
        /\ calm_run * STEP \in Nat
    BY CutSizes DEF RotationalSafe, CutSafe, Rot!RotationalType
  <1>2. RotationalNeedsCalm
    BY <1>1, CutSizes DEF RotationalSafe, CutSafe, RotationalNeedsCalm
  <1>3. Reserved(rot) \in Nat
    BY <1>1, CutSizes DEF RotationalSafe, CutSafe, Reserved
  <1>4. rot.total_active <= rot.activations * MAX_ACTIVE
    BY <1>1, <1>3 DEF RotationalSafe, CutSafe
  <1> QED
    BY <1>2, <1>4 DEF RotationalSafe, CutSafe, CutTimeAccounts

LEMMA NewRotationalSafe ==
    /\ CutSafe(Rot!NewRotational, 0)
    /\ Rot!NewRotational.seen_loss = 0 /\ Rot!NewRotational.delay = 0
  <1> DEFINE r == Rot!NewRotational
  <1>1. 0 \in 0..(LOSS_MOD - 1) /\ 0 \in 0..COUNT_MAX /\ 0 * STEP = 0 /\ 0 * MAX_ACTIVE = 0
    BY CutSizes
  <1>2. [g \in Rot!Gates |-> 0] \in [Rot!Gates -> 0..COUNT_MAX]
    BY <1>1
  <1>3. r \in Rot!RotationalType
    BY <1>1, <1>2 DEF Rot!NewRotational, Rot!RotationalType, Rot!Gates, Rot!Disabled
  <1>4. /\ r.active = FALSE /\ r.timer = 0 /\ r.activations = 0 /\ r.timeouts = 0
        /\ r.total_active = 0 /\ r.seen_loss = 0 /\ r.delay = 0
    BY DEF Rot!NewRotational
  <1> HIDE DEF r
  <1>5. \E ticks \in Nat : r.timer = ticks * STEP
    BY <1>1, <1>4
  <1>6. r.total_active + Reserved(r) <= r.activations * MAX_ACTIVE
        /\ r.total_active >= r.timeouts * MAX_ACTIVE + r.timer
    BY <1>1, <1>4 DEF Reserved
  <1> QED
    BY <1>3, <1>4, <1>5, <1>6 DEF CutSafe, r

LEMMA RotationalInit == Init => RotationalSafe
  <1> SUFFICES ASSUME Init PROVE RotationalSafe
    OBVIOUS
  <1>1. n = 0 /\ loss = 0 /\ calm_run = 0 /\ rot = Rot!NewRotational
    BY DEF Init
  <1>2. 0 * STEP = 0
    BY CutSizes
  <1> QED
    BY <1>1, <1>2, CutSizes, NewRotationalSafe DEF RotationalSafe

LEMMA RotationalFrame == RotationalSafe /\ GetLiveData => RotationalSafe'
  <1> SUFFICES ASSUME RotationalSafe, GetLiveData PROVE RotationalSafe'
    OBVIOUS
  <1> DEFINE shifting == Tcu!shift_in_progress(tcu')
             hot == measured(simulated(FALSE), frame'.source, n').egt >= 780
             calm_now == frame'.tps <= 80
             protected == protection_gate(frame', tcu')
             still == calm(tcu', n')
  <1>1. n' = n + 1 /\ n < MAX_SAMPLES /\ n \in Nat /\ n + 1 \in Nat /\ n + 1 <= MAX_SAMPLES
    BY CutSizes DEF GetLiveData, RotationalSafe
  <1>2. loss' = live_loss(n')
    BY DEF GetLiveData
  <1>3. loss' \in 0..(LOSS_MOD - 1)
    <2>1. loss \in Nat /\ loss + 1 \in Nat
      BY CutSizes DEF RotationalSafe
    <2>2. (loss + 1) % LOSS_MOD \in 0..(LOSS_MOD - 1)
      BY <2>1, CutSizes, DivMod
    <2> QED
      BY <1>2, <2>2 DEF live_loss, RotationalSafe
  <1>4. rot' = Rot!tick(rot, n', hot, calm_now, loss', protected)
    <2>1. rot' = rotational_after(n', frame', tcu')
      BY DEF GetLiveData
    <2>2. rotational_after(n', frame', tcu')
            = Rot!tick(rot, n', hot, calm_now, live_loss(n'), protected)
      BY DEF rotational_after
    <2> QED
      BY <1>2, <2>1, <2>2
  <1>5. hot \in BOOLEAN /\ calm_now \in BOOLEAN /\ protected \in BOOLEAN /\ still \in BOOLEAN
    BY DEF protection_gate, calm
  <1>6. shifting => protected \/ ~calm_now
    <2>1. frame' = build_frame(n', tcu', wb')
      BY DEF GetLiveData
    <2> QED
      BY <2>1, ShiftIsSeen, Zenon
  <1>7. still <=> ~shifting /\ loss' = loss
    BY <1>2 DEF calm
  <1>8. calm_run' = IF still THEN calm_run + 1 ELSE 0
    BY DEF GetLiveData
  <1> HIDE DEF hot, calm_now, protected, still, shifting
  <1>9. /\ CutSafe(rot', n')
        /\ rot'.seen_loss = loss'
        /\ rot'.delay \in Nat /\ rot'.delay <= rot.delay + STEP
        /\ protected \/ ~calm_now \/ loss' # rot.seen_loss => rot'.delay = 0
    <2>1. CutSafe(rot, n)
      BY DEF RotationalSafe
    <2>2. LET a == Rot!tick(rot, n + 1, hot, calm_now, loss', protected)
          IN  /\ CutSafe(a, n + 1)
              /\ a.seen_loss = loss'
              /\ a.delay \in Nat /\ a.delay <= rot.delay + STEP
              /\ protected \/ ~calm_now \/ loss' # rot.seen_loss => a.delay = 0
      BY <1>1, <1>3, <1>5, <2>1, TickSafe, SMT
    <2> QED
      BY <1>1, <1>4, <2>2, Zenon
  <1>10. calm_run' \in Nat /\ rot'.delay <= calm_run' * STEP
    <2>1. calm_run \in Nat /\ rot.delay <= calm_run * STEP /\ rot.seen_loss = loss
      BY DEF RotationalSafe
    <2>2. rot.delay \in Nat
      BY DEF RotationalSafe, CutSafe, Rot!RotationalType
    <2>3. CASE still
      <3>1. (calm_run + 1) * STEP = calm_run * STEP + STEP /\ calm_run * STEP \in Nat
        BY <2>1, CutSizes
      <3>2. calm_run' = calm_run + 1
        BY <1>8, <2>3
      <3> QED
        BY <1>9, <2>1, <2>2, <3>1, <3>2, CutSizes
    <2>4. CASE ~still
      <3>1. rot'.delay = 0
        BY <1>6, <1>7, <1>9, <2>1, <2>4
      <3>2. calm_run' = 0 /\ 0 * STEP = 0
        BY <1>8, <2>4, CutSizes
      <3> QED
        BY <3>1, <3>2
    <2> QED
      BY <1>5, <2>3, <2>4
  <1>11. n' \in 0..MAX_SAMPLES
    BY <1>1, CutSizes
  <1> QED
    BY <1>3, <1>9, <1>10, <1>11 DEF RotationalSafe

LEMMA RotationalStep == RotationalSafe /\ [Next]_vars => RotationalSafe'
  <1> SUFFICES ASSUME RotationalSafe, [Next]_vars PROVE RotationalSafe'
    OBVIOUS
  <1>1. CASE GetLiveData
    BY <1>1, RotationalFrame
  <1>2. CASE Restart
    <2>1. n' = 0 /\ loss' = 0 /\ calm_run' = 0 /\ rot' = Rot!NewRotational
      BY <1>2 DEF Restart
    <2>2. 0 * STEP = 0
      BY CutSizes
    <2> QED
      BY <2>1, <2>2, CutSizes, NewRotationalSafe DEF RotationalSafe
  <1>3. CASE UNCHANGED <<n, loss, calm_run, rot>>
    BY <1>3 DEF RotationalSafe
  <1>4. GetLiveData \/ Restart \/ UNCHANGED <<n, loss, calm_run, rot>>
    BY DEF Next, vars, live, history, LogStart, LogStop, ResetLogbook, SyncRtc,
           GetTriggerCapture, RunOutputTest, FlashSession
  <1> QED
    BY <1>1, <1>2, <1>3, <1>4

\* Cylinders are cut only after a whole activation delay without a shift and
\* without a sync loss, the current frame included (build_live_data_frame).
THEOREM CutsNeedCalm == Spec => []RotationalNeedsCalm
  BY RotationalInit, RotationalStep, RotationalSafeIsEnough, PTL DEF Spec

\* The time spent cutting is what the activations and the timeouts account for
\* (RotationalIdleRuntime::tick).
THEOREM CutTimeIsAccounted == Spec => []CutTimeAccounts
  BY RotationalInit, RotationalStep, RotationalSafeIsEnough, PTL DEF Spec

----------------------------------------------------------------------------
(* The external TCU bridge: what ExternalTcuProofs shows of it, of the     *)
(* instance a frame ticks.                                                 *)

Shifts == INSTANCE ExternalTcuProofs WITH samples <- n

\* Both instances are the same bridge.
LEMMA SameBridge ==
    /\ \A t, k : Shifts!tick(t, k) = Tcu!tick(t, k)
    /\ Shifts!TcuType = Tcu!TcuType /\ Shifts!NewTcu = Tcu!NewTcu
    /\ Shifts!TcuAssumption
  <1>1. \A t : Shifts!aged(t) = Tcu!aged(t)
    BY DEF Shifts!aged, Tcu!aged, Shifts!Minus, Tcu!Minus
  <1>2. \A t, a, b, c, d : Shifts!raise_fault(t, a, b, c, d) = Tcu!raise_fault(t, a, b, c, d)
    BY Zenon DEF Shifts!raise_fault, Tcu!raise_fault
  <1>3. \A t : Shifts!complete(t) = Tcu!complete(t) /\ Shifts!timed_out(t) = Tcu!timed_out(t)
    BY <1>2, Zenon DEF Shifts!complete, Tcu!complete, Shifts!timed_out, Tcu!timed_out
  <1>4. \A t : Shifts!clear_to_idle(t) = Tcu!clear_to_idle(t)
    BY Zenon DEF Shifts!clear_to_idle, Tcu!clear_to_idle
  <1>5. \A t : Shifts!start_shift_request(t) = Tcu!start_shift_request(t)
    BY Zenon DEF Shifts!start_shift_request, Tcu!start_shift_request
  <1>6. \A t, rx, tx : Shifts!step_active_shift(t, rx, tx) = Tcu!step_active_shift(t, rx, tx)
    <2> SUFFICES ASSUME NEW t, NEW rx, NEW tx
                 PROVE  Shifts!step_active_shift(t, rx, tx) = Tcu!step_active_shift(t, rx, tx)
      OBVIOUS
    <2> DEFINE Met(a, f7, f8, f4, f3, late, f6, done) ==
                   LET watched == a.requests % 5 # 0
                   IN  IF watched /\ ~rx /\ a.age >= 10 THEN f7
                       ELSE IF watched /\ ~tx /\ a.age >= 14 THEN f8
                       ELSE IF a.requests % 11 = 0 /\ a.age >= 14 THEN f4
                       ELSE IF a.requests % 7 = 0 /\ a.age >= 10 THEN f3
                       ELSE IF a.age >= TIMEOUT_REQUEST THEN late
                       ELSE IF a.requests % 13 = 0 /\ a.age >= STALE_REQUEST THEN f6
                       ELSE IF a.timer = 0 THEN done ELSE a
               s == Shifts!aged(t)
               a == Tcu!aged(t)
    <2>1. Shifts!step_active_shift(t, rx, tx) =
            Met(s, Shifts!raise_fault(s, 7, 5, 5, FALSE), Shifts!raise_fault(s, 8, 5, 5, FALSE),
                Shifts!raise_fault(s, 4, 5, 4, FALSE), Shifts!raise_fault(s, 3, 5, 3, FALSE),
                Shifts!timed_out(s), Shifts!raise_fault(s, 6, 5, 5, FALSE), Shifts!complete(s))
      BY Zenon DEF Shifts!step_active_shift
    <2>2. Tcu!step_active_shift(t, rx, tx) =
            Met(a, Tcu!raise_fault(a, 7, 5, 5, FALSE), Tcu!raise_fault(a, 8, 5, 5, FALSE),
                Tcu!raise_fault(a, 4, 5, 4, FALSE), Tcu!raise_fault(a, 3, 5, 3, FALSE),
                Tcu!timed_out(a), Tcu!raise_fault(a, 6, 5, 5, FALSE), Tcu!complete(a))
      BY Zenon DEF Tcu!step_active_shift
    <2>3. s = a
      BY <1>1
    <2> HIDE DEF Met, s, a
    <2> QED
      BY <1>2, <1>3, <2>1, <2>2, <2>3, Zenon
  <1>7. \A t : Shifts!release(t) = Tcu!release(t)
    BY <1>4, Zenon DEF Shifts!release, Tcu!release
  <1>8. \A t : Shifts!offline(t) = Tcu!offline(t)
    BY <1>2, Zenon DEF Shifts!offline, Tcu!offline, Shifts!Larger, Tcu!Larger
  <1>9. \A k : /\ Shifts!LinkOnline(k) = Tcu!LinkOnline(k) /\ Shifts!RxFresh(k) = Tcu!RxFresh(k)
               /\ Shifts!TxFresh(k) = Tcu!TxFresh(k)
    BY Zenon DEF Shifts!LinkOnline, Tcu!LinkOnline, Shifts!RxFresh, Tcu!RxFresh,
                 Shifts!TxFresh, Tcu!TxFresh
  <1>10. \A t, k : Shifts!online(t, k) = Tcu!online(t, k)
    BY <1>4, <1>5, <1>6, <1>7, <1>9, SMTT(30) DEF Shifts!online, Tcu!online
  <1>11. \A t, k : Shifts!tick(t, k) = Tcu!tick(t, k)
    BY <1>8, <1>9, <1>10, Zenon DEF Shifts!tick, Tcu!tick
  <1>12. Shifts!TcuType = Tcu!TcuType /\ Shifts!NewTcu = Tcu!NewTcu
    BY DEF Shifts!TcuType, Tcu!TcuType, Shifts!NewTcu, Tcu!NewTcu, Shifts!ShiftFaults,
           Tcu!ShiftFaults, Shifts!ShiftStates, Tcu!ShiftStates, Shifts!ShiftResults,
           Tcu!ShiftResults
  <1>13. Shifts!TcuAssumption
    BY PartsAssumption DEF Shifts!TcuAssumption, Tcu!TcuAssumption
  <1> QED
    BY <1>11, <1>12, <1>13

TcuSafe(t) == Shifts!TcuSafe(t)

LEMMA NewTcuSafe == TcuSafe(Tcu!NewTcu)
  BY SameBridge, Shifts!NewTcuSafe DEF TcuSafe

LEMMA TcuTick == ASSUME NEW t, TcuSafe(t), NEW k PROVE TcuSafe(Tcu!tick(t, k))
  BY SameBridge, Shifts!TcuTick DEF TcuSafe

----------------------------------------------------------------------------
(* Type correctness: what the parts above do not already carry.            *)

OthersSafe == TcuSafe(tcu) /\ wb \in Wide!WidebandType /\ flashing \in BOOLEAN

LEMMA WidebandTicks ==
    ASSUME NEW w \in Wide!WidebandType, NEW k, NEW running
    PROVE  Wide!tick(w, k, running) \in Wide!WidebandType
  <1>1. /\ HEATER_WARMUP \in Nat /\ PRIMARY_FAULT_HOLD \in Nat
        /\ SECONDARY_FAULT_HOLD \in Nat /\ STEP \in Nat
    BY PartsAssumption DEF Wide!WidebandAssumption
  <1>2. \A count \in Nat : Wide!Down(count) \in Nat
    BY <1>1 DEF Wide!Down
  <1>3. \A opens : \A count \in Nat, hold \in Nat : Wide!held(count, hold, opens) \in Nat
    BY <1>2, Zenon DEF Wide!held
  <1>4. w.warmup \in Nat /\ w.primary \in Nat /\ w.secondary \in Nat
    BY DEF Wide!WidebandType
  <1>5. Wide!NewWideband \in Wide!WidebandType
    BY <1>1 DEF Wide!NewWideband, Wide!WidebandType
  <1>6. CASE ~running
    BY <1>5, <1>6, Zenon DEF Wide!tick
  <1>7. CASE running
    <2> DEFINE warmup == Wide!Down(w.warmup)
               primary == Wide!held(w.primary, PRIMARY_FAULT_HOLD,
                                    warmup = 0 /\ k % PRIMARY_PERIOD = 0)
               secondary == Wide!held(w.secondary, SECONDARY_FAULT_HOLD,
                                      warmup = 0 /\ k % SECONDARY_PERIOD = 0)
    <2>1. warmup \in Nat /\ primary \in Nat /\ secondary \in Nat
      BY <1>1, <1>2, <1>3, <1>4, Zenon
    <2>2. Wide!tick(w, k, running)
            = [warmup |-> warmup, primary |-> primary, secondary |-> secondary]
      BY <1>7, Zenon DEF Wide!tick
    <2> HIDE DEF warmup, primary, secondary
    <2> QED
      BY <2>1, <2>2 DEF Wide!WidebandType
  <1> QED
    BY <1>6, <1>7

LEMMA NewWidebandSafe == Wide!NewWideband \in Wide!WidebandType
  BY PartsAssumption DEF Wide!WidebandAssumption, Wide!NewWideband, Wide!WidebandType

LEMMA OthersInit == Init => OthersSafe
  BY NewTcuSafe, NewWidebandSafe DEF Init, OthersSafe

LEMMA OthersStep == OthersSafe /\ [Next]_vars => OthersSafe'
  <1> SUFFICES ASSUME OthersSafe, [Next]_vars PROVE OthersSafe'
    OBVIOUS
  <1>1. CASE GetLiveData
    <2>1. tcu' = Tcu!tick(tcu, n') /\ flashing' = flashing
      BY <1>1 DEF GetLiveData
    <2>2. wb' \in Wide!WidebandType
      BY <1>1, WidebandTicks DEF GetLiveData, OthersSafe
    <2>3. TcuSafe(tcu')
      BY <2>1, TcuTick DEF OthersSafe
    <2> QED
      BY <2>1, <2>2, <2>3 DEF OthersSafe
  <1>2. CASE Restart
    BY <1>2, NewTcuSafe, NewWidebandSafe DEF Restart, OthersSafe
  <1>3. CASE FlashSession
    BY <1>3 DEF FlashSession, live, OthersSafe
  <1>4. CASE UNCHANGED <<tcu, wb, flashing>>
    BY <1>4 DEF OthersSafe
  <1>5. GetLiveData \/ Restart \/ FlashSession \/ UNCHANGED <<tcu, wb, flashing>>
    BY DEF Next, vars, live, history, LogStart, LogStop, ResetLogbook, SyncRtc,
           GetTriggerCapture, RunOutputTest
  <1> QED
    BY <1>1, <1>2, <1>3, <1>4, <1>5

\* Every part of the live data keeps its type, and the sample counter its bound,
\* after any interleaving of frames, host packets and restarts
\* (build_live_data_frame and the log functions of transport.rs).
THEOREM LiveTypeCorrect == Spec => []LiveTypeOK
  <1>0. OthersSafe => tcu \in Tcu!TcuType
    BY SameBridge DEF OthersSafe, TcuSafe, Shifts!TcuSafe
  <1>1. LossesSafe /\ LogSafe /\ RotationalSafe /\ OthersSafe => LiveTypeOK
    BY <1>0 DEF LossesSafe, LogSafe, RotationalSafe, CutSafe, OthersSafe, LiveTypeOK, TriggerType
  <1> QED
    BY <1>1, LossesInit, LossesStep, LogInit, LogStep, RotationalInit, RotationalStep,
       OthersInit, OthersStep, PTL DEF Spec
=============================================================================
