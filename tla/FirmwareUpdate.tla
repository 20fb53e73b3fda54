--------------------------- MODULE FirmwareUpdate ---------------------------
(***************************************************************************)
(* The flash session and the update life cycle of FirmwareRuntime          *)
(* (transport.rs): EnterBootloader, FlashResume, FlashBlock, FlashVerify,  *)
(* FlashComplete, ConfirmBootHealthy, the health-window clock that every   *)
(* packet advances, and a restart that keeps only the resume scratch.      *)
(*                                                                         *)
(* This module is the runtime of an identity without bootloader            *)
(* authentication; BootloaderSession adds the authentication.              *)
(*                                                                         *)
(* Time runs in ticks, TICKS_PER_MS to the millisecond, because the code   *)
(* reads Instants and truncates their difference to milliseconds.  A       *)
(* stored Instant is represented by its age, saturated at the length of    *)
(* the health window: no comparison in the code tells larger ages apart.   *)
(***************************************************************************)
EXTENDS Integers, Sequences

CONSTANTS Byte,              \* the values of an image byte, 0 among them
          BLOCK_MAX,         \* FLASH_BLOCK_MAX_BYTES
          BUFFER_MAX,        \* FLASH_BUFFER_MAX_BYTES
          PERSIST_STRIDE,    \* FLASH_RESUME_PERSIST_STRIDE_BLOCKS
          BLOCK_INDEX_MAX,   \* u32::MAX, where flash_next_block saturates
          SESSION_ID_LIMIT,  \* 2^32, the modulus of flash_session_counter
          MaxSessions,       \* bound: sessions opened between two restarts and before
          WINDOW_MS,         \* UPDATE_HEALTH_WINDOW_MS
          TICKS_PER_MS,      \* clock resolution
          ROLLBACK_MAX,      \* u16::MAX, where the rollback counter saturates
          SIGNATURE_REQUIRED,\* flash_signature_required
          Signed,            \* the images the vendor has signed
          Crc(_),            \* FLASH_CRC32, any function (collisions included)
          None               \* Option::None

Image == Seq(Byte)

ASSUME ByteAssumption == Byte \subseteq Nat /\ 0 \in Byte
ASSUME SizeAssumption ==
    /\ BLOCK_MAX \in Nat \ {0}
    /\ BUFFER_MAX \in Nat \ {0}
    /\ PERSIST_STRIDE \in Nat \ {0}
    /\ BLOCK_INDEX_MAX \in Nat
    /\ BUFFER_MAX < BLOCK_INDEX_MAX
ASSUME SessionAssumption ==
    /\ MaxSessions \in Nat
    /\ SESSION_ID_LIMIT \in Nat
    /\ MaxSessions < SESSION_ID_LIMIT
ASSUME ClockAssumption == WINDOW_MS \in Nat \ {0} /\ TICKS_PER_MS \in Nat \ {0}
ASSUME RollbackAssumption == ROLLBACK_MAX \in Nat \ {0}
ASSUME SignedAssumption == SIGNATURE_REQUIRED \in BOOLEAN

\* FlashResumeScratch, without the identity of its format.
ScratchRecord == [session_id : Nat, next_block : Nat, image : Image]

ASSUME NoneAssumption == None \notin Nat /\ None \notin ScratchRecord

\* The images the buffer can hold.
StorableImage == UNION { [1..n -> Byte] : n \in 1..BUFFER_MAX }

ASSUME CrcAssumption == \A image \in StorableImage : Crc(image) \in Nat

\* Definitions marked `Slip` are plausible mistakes in the definition after them.
\* Nothing uses them: each shows that some property below would notice.

VARIABLES flash,      \* the flash_* fields of FirmwareRuntime
          upd,        \* the update_* fields
          scratch,    \* the store's FlashResumeScratch: survives a restart
          window_age  \* history: ticks since the health window opened

vars == <<flash, upd, scratch, window_age>>

----------------------------------------------------------------------------
(* Small helpers *)

BankA == 1
BankB == 2

WindowTicks == WINDOW_MS * TICKS_PER_MS

SatInc(n, max) == IF n < max THEN n + 1 ELSE max

AgeOneTick(age) == SatInc(age, WindowTicks)

\* FlashVerify refuses an image of zero bytes only.
Blank(image) == \A i \in 1..Len(image) : image[i] = 0

\* What an image must be to leave FlashVerify approved.
Approvable(image) ==
    /\ ~Blank(image)
    /\ SIGNATURE_REQUIRED => image \in Signed

\* A payload a FlashBlock can carry past the length checks.
Block == UNION { [1..n -> Byte] : n \in 1..BLOCK_MAX }

----------------------------------------------------------------------------
(* The update life cycle *)

\* The enum also names PendingCommit, which no handler ever assigns.
FirmwareUpdateState ==
    {"Idle", "Receiving", "Verified", "HealthWindow", "Committed", "RolledBack"}

InitUpdate ==
    [ state          |-> "Idle",
      active_bank    |-> BankA,
      last_good_bank |-> BankA,
      pending_bank   |-> None,
      candidate_crc  |-> None,
      candidate_size |-> 0,
      boot_attempts  |-> 0,
      remaining_ms   |-> 0,
      since_tick     |-> None,   \* age of update_last_tick
      rollbacks      |-> 0 ]

next_update_bank(u) == IF u.active_bank = BankA THEN BankB ELSE BankA

begin_update_health_window(u, crc, size) ==
    [ u EXCEPT !.state          = "HealthWindow",
               !.pending_bank   = next_update_bank(u),
               !.candidate_crc  = crc,
               !.candidate_size = size,
               !.boot_attempts  = 1,
               !.remaining_ms   = WINDOW_MS,
               !.since_tick     = 0 ]

\* Slip: the rollback counter is not saturated.
UnsaturatedRollback(u) ==
    [ u EXCEPT !.state        = "RolledBack",
               !.active_bank  = u.last_good_bank,
               !.pending_bank = None,
               !.remaining_ms = 0,
               !.since_tick   = None,
               !.rollbacks    = u.rollbacks + 1 ]

rollback_pending_update(u) ==
    [ u EXCEPT !.state        = "RolledBack",
               !.active_bank  = u.last_good_bank,
               !.pending_bank = None,
               !.remaining_ms = 0,
               !.since_tick   = None,
               !.rollbacks    = SatInc(u.rollbacks, ROLLBACK_MAX) ]

\* Slip: the confirmed bank becomes the good one but not the running one.
ConfirmWithoutSwitch(u) ==
    [ u EXCEPT !.last_good_bank = u.pending_bank,
               !.pending_bank   = None,
               !.state          = "Committed",
               !.remaining_ms   = 0,
               !.since_tick     = None ]

confirm_pending_update(u) ==
    [ u EXCEPT !.active_bank    = u.pending_bank,
               !.last_good_bank = u.pending_bank,
               !.pending_bank   = None,
               !.state          = "Committed",
               !.remaining_ms   = 0,
               !.since_tick     = None ]

\* Whole milliseconds since the last tick; the remainder is dropped, and
\* update_last_tick moves to now all the same.
elapsed_ms(u) == IF u.since_tick = None THEN 0 ELSE u.since_tick \div TICKS_PER_MS

\* Slip: update_last_tick stays put, so the same time is charged repeatedly.
TickWithoutAnchor(u) ==
    IF u.state # "HealthWindow" \/ elapsed_ms(u) = 0 THEN u
    ELSE IF elapsed_ms(u) >= u.remaining_ms THEN rollback_pending_update(u)
    ELSE [u EXCEPT !.remaining_ms = @ - elapsed_ms(u)]

tick_update_health_window(u) ==
    IF u.state # "HealthWindow" THEN u
    ELSE IF elapsed_ms(u) = 0 THEN [u EXCEPT !.since_tick = 0]
    ELSE IF elapsed_ms(u) >= u.remaining_ms THEN rollback_pending_update(u)
    ELSE [u EXCEPT !.since_tick = 0, !.remaining_ms = @ - elapsed_ms(u)]

\* Slip: the packet dispatch does not tick the window.
NotTicked == upd

\* handle_packet ticks the window before it looks at the command.
Ticked == tick_update_health_window(upd)

\* Slip: a new session leaves the bank of an abandoned trial pending.
RestartKeepsPendingBank(u) ==
    [ u EXCEPT !.state          = "Receiving",
               !.candidate_crc  = None,
               !.candidate_size = 0,
               !.boot_attempts  = 0,
               !.remaining_ms   = 0,
               !.since_tick     = None ]

\* The update_* half of begin_flash_session.
restart_update(u) ==
    [ u EXCEPT !.state          = "Receiving",
               !.pending_bank   = None,
               !.candidate_crc  = None,
               !.candidate_size = 0,
               !.boot_attempts  = 0,
               !.remaining_ms   = 0,
               !.since_tick     = None ]

----------------------------------------------------------------------------
(* The flash session *)

NewFlash(counter) ==
    [ session_active  |-> FALSE,
      session_id      |-> 0,
      session_counter |-> counter,
      next_block      |-> 0,
      buffer          |-> <<>>,
      verified        |-> FALSE,
      verified_crc    |-> None,
      verified_len    |-> 0 ]

\* Slip: the buffer is not cleared between transfers.
ResetKeepsBuffer(f) == [NewFlash(f.session_counter) EXCEPT !.buffer = f.buffer]

reset_flash_transfer_state(f) == NewFlash(f.session_counter)

allocate_flash_session_id(counter) ==
    LET wrapped == (counter + 1) % SESSION_ID_LIMIT
    IN  IF wrapped = 0 THEN 1 ELSE wrapped

\* The flash_* half of begin_flash_session.
begin_flash_session(f) ==
    LET id == allocate_flash_session_id(f.session_counter)
    IN  [ reset_flash_transfer_state(f) EXCEPT
            !.session_active  = TRUE,
            !.session_id      = id,
            !.session_counter = id ]

\* Slip: the verify flag survives a change of the buffer.
KeepVerified(f) == f

unverify(f) == [f EXCEPT !.verified = FALSE, !.verified_crc = None, !.verified_len = 0]

append_flash_block(f, payload) ==
    [ unverify(f) EXCEPT !.buffer     = f.buffer \o payload,
                         !.next_block = SatInc(f.next_block, BLOCK_INDEX_MAX) ]

\* rolling_crc is a function of image and is never read back: left out.
resume_scratch_of(f) ==
    [ session_id |-> f.session_id, next_block |-> f.next_block, image |-> f.buffer ]

\* Slip: the scratch is written at the strides only.
PersistAtStrideOnly(f) ==
    IF f.next_block % PERSIST_STRIDE = 0 THEN resume_scratch_of(f) ELSE scratch

\* The scratch is written after the first block and then at every stride.
maybe_persist_flash_resume_scratch(f) ==
    IF f.next_block = 1 \/ f.next_block % PERSIST_STRIDE = 0
    THEN resume_scratch_of(f)
    ELSE scratch

\* Slip: the block index is restored and the image is not.
RestoreWithoutImage(f) ==
    [ unverify(f) EXCEPT !.session_active = TRUE,
                         !.session_id     = scratch.session_id,
                         !.next_block     = scratch.next_block ]

restore_flash_resume_scratch(f) ==
    [ unverify(f) EXCEPT !.session_active = TRUE,
                         !.session_id     = scratch.session_id,
                         !.next_block     = scratch.next_block,
                         !.buffer         = scratch.image ]

mark_verified(f) ==
    [ f EXCEPT !.verified     = TRUE,
               !.verified_crc = Crc(f.buffer),
               !.verified_len = Len(f.buffer) ]

----------------------------------------------------------------------------
(* Actions: one packet, one tick of the clock, or a restart *)

Init ==
    /\ flash = NewFlash(0)
    /\ upd = InitUpdate
    /\ scratch = None
    /\ window_age = 0

\* window_age restarts with each health window.
TrackWindow ==
    window_age' = IF upd'.state = "HealthWindow" /\ upd.state = "HealthWindow"
                  THEN window_age ELSE 0

\* Ping, GetUpdateStatus and every packet its handler refuses (wrong
\* session, length, index, checksum, signature or state): only the
\* health-window tick that precedes the dispatch has an effect.
PacketWithoutEffect ==
    /\ upd' = Ticked
    /\ TrackWindow
    /\ UNCHANGED <<flash, scratch>>

\* EnterBootloader when no authentication is required.  Accepted in every
\* state; the resume scratch is left alone.
EnterBootloader ==
    /\ flash.session_counter < MaxSessions
    /\ flash' = begin_flash_session(flash)
    /\ upd' = restart_update(Ticked)
    /\ TrackWindow
    /\ UNCHANGED scratch

\* FlashResume: `requested` is None or 0 (any), or the id the host remembers.
\* Without a scratch the reply reports the session as it is: no effect.
FlashResume(requested) ==
    /\ flash.session_active
    /\ scratch # None
    /\ Len(scratch.image) <= BUFFER_MAX
    /\ requested \in {None, 0, scratch.session_id}
    /\ flash' = restore_flash_resume_scratch(flash)
    /\ upd' = [Ticked EXCEPT !.state = "Receiving"]
    /\ TrackWindow
    /\ UNCHANGED scratch

FlashBlock(index, payload) ==
    /\ flash.session_active
    /\ index = flash.next_block
    /\ Len(flash.buffer) + Len(payload) <= BUFFER_MAX
    /\ flash' = append_flash_block(flash, payload)
    /\ upd' = [Ticked EXCEPT !.state = "Receiving"]
    /\ scratch' = maybe_persist_flash_resume_scratch(flash')
    /\ TrackWindow

\* The checks of FlashVerify.  Each optional field of the payload is absent
\* or does or does not match the buffer; a signature that matches exists only
\* for a signed image, and travels only with a crc.
VerifyRequest ==
    LET Field == {"absent", "match", "mismatch"}
    IN  { r \in [crc : Field, tag : Field, signature : Field] :
            r.signature # "absent" => r.crc # "absent" }

\* Slip: a missing signature is let through where one is required.
SignatureOptional(f, r) ==
    /\ f.session_active
    /\ f.buffer # <<>>
    /\ ~Blank(f.buffer)
    /\ r.crc # "mismatch"
    /\ r.tag # "mismatch"
    /\ r.signature # "mismatch"
    /\ r.signature = "match" => f.buffer \in Signed

VerifyAccepts(f, r) ==
    /\ f.session_active
    /\ f.buffer # <<>>
    /\ ~Blank(f.buffer)
    /\ r.crc # "mismatch"
    /\ r.tag # "mismatch"
    /\ SIGNATURE_REQUIRED => r.signature # "absent"
    /\ r.signature # "mismatch"
    /\ r.signature = "match" => f.buffer \in Signed

FlashVerify(r) ==
    /\ VerifyAccepts(flash, r)
    /\ flash' = mark_verified(flash)
    /\ upd' = [Ticked EXCEPT !.state = "Verified"]
    /\ TrackWindow
    /\ UNCHANGED scratch

FlashComplete ==
    /\ flash.session_active
    /\ flash.verified
    /\ flash.verified_len = Len(flash.buffer)
    /\ flash.verified_crc = Crc(flash.buffer)
    /\ upd' = begin_update_health_window(Ticked, Crc(flash.buffer), Len(flash.buffer))
    /\ scratch' = None
    /\ flash' = reset_flash_transfer_state(flash)
    /\ TrackWindow

ConfirmBootHealthy ==
    /\ Ticked.state = "HealthWindow"
    /\ Ticked.pending_bank # None
    /\ upd' = confirm_pending_update(Ticked)
    /\ TrackWindow
    /\ UNCHANGED <<flash, scratch>>

\* Time passes between packets.
Advance ==
    /\ upd.state = "HealthWindow"
    /\ upd' = [upd EXCEPT !.since_tick = AgeOneTick(@)]
    /\ window_age' = AgeOneTick(window_age)
    /\ UNCHANGED <<flash, scratch>>

\* Slip: session ids start over although a scratch survives.
RebootForgetsSessionId ==
    /\ flash' = NewFlash(0)
    /\ upd' = InitUpdate
    /\ window_age' = 0
    /\ UNCHANGED scratch

\* A restart: FirmwareRuntime::new_with_store over the surviving store.
Reboot ==
    /\ flash' = NewFlash(IF scratch = None THEN 0 ELSE scratch.session_id)
    /\ upd' = InitUpdate
    /\ window_age' = 0
    /\ UNCHANGED scratch

Resume == \E requested \in {None} \cup 0..MaxSessions : FlashResume(requested)

Receive == \E index \in 0..BUFFER_MAX, payload \in Block : FlashBlock(index, payload)

Verify == \E r \in VerifyRequest : FlashVerify(r)

Next ==
    \/ PacketWithoutEffect
    \/ EnterBootloader
    \/ Resume
    \/ Receive
    \/ Verify
    \/ FlashComplete
    \/ ConfirmBootHealthy
    \/ Advance
    \/ Reboot

Spec == Init /\ [][Next]_vars

\* The host keeps polling and time keeps passing.  Whether a health window is
\* confirmed, or a new session opened in it, is the host's choice: no fairness.
Fairness == WF_vars(PacketWithoutEffect) /\ WF_vars(Advance)

FairSpec == Spec /\ Fairness

----------------------------------------------------------------------------
(* Properties *)

FlashRecord ==
    [ session_active  : BOOLEAN,
      session_id      : Nat,
      session_counter : Nat,
      next_block      : Nat,
      buffer          : Image,
      verified        : BOOLEAN,
      verified_crc    : Nat \cup {None},
      verified_len    : Nat ]

UpdateRecord ==
    [ state          : FirmwareUpdateState,
      active_bank    : {BankA, BankB},
      last_good_bank : {BankA, BankB},
      pending_bank   : {BankA, BankB, None},
      candidate_crc  : Nat \cup {None},
      candidate_size : Nat,
      boot_attempts  : 0..1,
      remaining_ms   : 0..WINDOW_MS,
      since_tick     : 0..WindowTicks \cup {None},
      rollbacks      : 0..ROLLBACK_MAX ]

\* Every field keeps its type; None only where the code has an Option.
TypeOK ==
    /\ flash \in FlashRecord
    /\ upd \in UpdateRecord
    /\ scratch \in ScratchRecord \cup {None}
    /\ window_age \in 0..WindowTicks

\* The reported update state and the private session flags, which separate
\* handlers assign, always tell the same story: a session is open exactly in
\* Receiving and Verified, the verify flag is up exactly in Verified, and
\* nothing of a closed session is left behind for the next one.
StateMatchesSession ==
    /\ flash.session_active <=> upd.state \in {"Receiving", "Verified"}
    /\ flash.verified <=> upd.state = "Verified"
    /\ ~flash.session_active => flash = NewFlash(flash.session_counter)

\* A bank is pending exactly during the health window; it is the bank that
\* does not run, its countdown is running and not yet zero, and the running
\* bank is always the last-known-good one.
PendingOnlyInWindow ==
    /\ upd.active_bank = upd.last_good_bank
    /\ upd.state = "HealthWindow" =>
         /\ upd.pending_bank = next_update_bank(upd)
         /\ upd.remaining_ms > 0
         /\ upd.since_tick # None
    /\ upd.state # "HealthWindow" =>
         /\ upd.pending_bank = None
         /\ upd.remaining_ms = 0
         /\ upd.since_tick = None

\* A session that counts as verified holds the very image FlashVerify
\* approved (not blank, signed where required), whatever blocks and resumes
\* came since, even if two images share a crc.
VerifiedImageApproved ==
    flash.verified =>
        /\ flash.verified_len = Len(flash.buffer)
        /\ flash.verified_crc = Crc(flash.buffer)
        /\ Approvable(flash.buffer)

\* The descriptors <<crc, size>> an approved image can have.
ApprovedDescriptor ==
    { <<Crc(image), Len(image)>> : image \in {i \in StorableImage : Approvable(i)} }

\* The size and crc reported for the candidate, on trial or after its
\* verdict, are those of an approved image.
CandidateApproved ==
    upd.candidate_crc # None =>
        <<upd.candidate_crc, upd.candidate_size>> \in ApprovedDescriptor

\* The block index and the bytes behind it stay in step, in the session and
\* in the scratch a restart resumes from: every block brought 1..BLOCK_MAX
\* bytes.  So the buffer limit keeps the index from saturating.
BlocksMatchBytes ==
    /\ flash.next_block <= Len(flash.buffer)
    /\ Len(flash.buffer) <= flash.next_block * BLOCK_MAX
    /\ Len(flash.buffer) <= BUFFER_MAX
    /\ flash.next_block < BLOCK_INDEX_MAX
    /\ scratch # None =>
         /\ 1 <= scratch.next_block
         /\ scratch.next_block <= Len(scratch.image)
         /\ Len(scratch.image) <= scratch.next_block * BLOCK_MAX
         /\ Len(scratch.image) <= BUFFER_MAX

PrefixOf(s, t) == Len(s) <= Len(t) /\ \A i \in 1..Len(s) : s[i] = t[i]

\* Session ids keep transfers apart: when the open session has the id in the
\* scratch, the scratch is an earlier state of this very transfer, so a
\* resume by id rewinds it and never splices two images.
ResumeRewindsOwnTransfer ==
    (flash.session_active /\ scratch # None /\ flash.session_id = scratch.session_id) =>
        /\ scratch.next_block <= flash.next_block
        /\ PrefixOf(scratch.image, flash.buffer)

\* Once a session holds a block, its own scratch exists and is fewer than
\* PERSIST_STRIDE blocks behind: what a power loss can cost is bounded.
ResumeLossBounded ==
    (flash.session_active /\ flash.next_block > 0) =>
        /\ scratch # None
        /\ scratch.session_id = flash.session_id
        /\ flash.next_block - scratch.next_block < PERSIST_STRIDE

\* A health window is never rolled back before its full length has passed.
RollbackNotEarly ==
    [][ upd'.rollbacks > upd.rollbacks => window_age >= WindowTicks ]_vars

\* docs/UPDATE-LIFECYCLE.md: a health window ends Committed or RolledBack
\* (or with a restart, whose handling the document lists as still required).
WindowEndsInVerdict ==
    [][ (upd.state = "HealthWindow" /\ upd'.state # "HealthWindow")
            => \/ upd'.state \in {"Committed", "RolledBack"}
               \/ upd'.rollbacks > upd.rollbacks
               \/ upd' = InitUpdate ]_vars

\* A health window does not stay open for ever.
WindowCloses == upd.state = "HealthWindow" ~> upd.state # "HealthWindow"

----------------------------------------------------------------------------
(* Refinement *)

PhaseOf(state) ==
    CASE state \in {"Receiving", "Verified"} -> "Transfer"
      [] state = "HealthWindow"              -> "Trial"
      [] OTHER                               -> state

Lifecycle == INSTANCE UpdateLifecycle WITH
    Candidate <- ApprovedDescriptor,
    phase     <- PhaseOf(upd.state),
    running   <- upd.active_bank,
    trial     <- upd.pending_bank,
    candidate <- IF upd.candidate_crc = None THEN None
                 ELSE <<upd.candidate_crc, upd.candidate_size>>,
    rollbacks <- upd.rollbacks

\* The update handlers implement the life cycle promised to the host.
ImplementsLifecycle == Lifecycle!LifecycleSpec
============================================================================
