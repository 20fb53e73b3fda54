------------------------ MODULE FirmwareUpdateProofs ------------------------
(***************************************************************************)
(* Safety of FirmwareUpdate for every size of block, buffer, stride and    *)
(* window, every checksum and every set of signed images; and of the       *)
(* runtime composed of it and the authentication (BootloaderSession).      *)
(***************************************************************************)
EXTENDS BootloaderSession, TLAPS

\* PendingOnlyInWindow and the type, of any update record: the shape every
\* helper of the life cycle keeps.
UpdateOK(u) ==
    /\ u \in UpdateRecord
    /\ u.active_bank = u.last_good_bank
    /\ u.state = "HealthWindow" =>
         /\ u.pending_bank = next_update_bank(u)
         /\ u.remaining_ms > 0
         /\ u.since_tick # None
    /\ u.state # "HealthWindow" =>
         /\ u.pending_bank = None
         /\ u.remaining_ms = 0
         /\ u.since_tick = None

LEMMA DivFloor ==
    ASSUME NEW n \in Nat, NEW d \in Nat \ {0}
    PROVE  n \div d \in Nat /\ (n \div d) * d <= n
BY SMT

LEMMA WindowTicksPositive == WindowTicks \in Nat \ {0}
BY ClockAssumption DEF WindowTicks

LEMMA ClockBounds ==
    /\ 0 \in 0..WINDOW_MS
    /\ WINDOW_MS \in 0..WINDOW_MS
    /\ WINDOW_MS > 0
    /\ 0 \in 0..WindowTicks
    /\ 0 \in 0..1 /\ 1 \in 0..1
    /\ 0 \in Nat
BY ClockAssumption, WindowTicksPositive

LEMMA RollbackOK ==
    ASSUME NEW u, UpdateOK(u)
    PROVE  LET r == rollback_pending_update(u)
           IN  /\ UpdateOK(r)
               /\ r.state = "RolledBack"
               /\ r.candidate_crc = u.candidate_crc
               /\ r.candidate_size = u.candidate_size
<1>1. SatInc(u.rollbacks, ROLLBACK_MAX) \in 0..ROLLBACK_MAX
  BY RollbackAssumption DEF SatInc, UpdateRecord, UpdateOK
<1> QED
  BY <1>1, ClockBounds DEF UpdateOK, UpdateRecord, rollback_pending_update, FirmwareUpdateState

LEMMA ConfirmOK ==
    ASSUME NEW u, UpdateOK(u), u.state = "HealthWindow"
    PROVE  LET c == confirm_pending_update(u)
           IN  UpdateOK(c) /\ c.state = "Committed"
<1>1. u.pending_bank \in {BankA, BankB}
  BY DEF UpdateOK, next_update_bank
<1> QED
  BY <1>1, ClockBounds DEF UpdateOK, UpdateRecord, confirm_pending_update, FirmwareUpdateState

LEMMA RestartOK ==
    ASSUME NEW u, UpdateOK(u)
    PROVE  LET r == restart_update(u)
           IN  UpdateOK(r) /\ r.state = "Receiving" /\ r.candidate_crc = None
<1> DEFINE r == restart_update(u)
<1>1. /\ r \in UpdateRecord
      /\ r.active_bank = u.active_bank /\ r.last_good_bank = u.last_good_bank
      /\ r.state = "Receiving" /\ r.candidate_crc = None
      /\ r.pending_bank = None /\ r.remaining_ms = 0 /\ r.since_tick = None
  BY ClockBounds DEF UpdateOK, UpdateRecord, restart_update, FirmwareUpdateState
<1> QED
  BY <1>1 DEF UpdateOK

LEMMA BeginOK ==
    ASSUME NEW u, UpdateOK(u), NEW crc \in Nat, NEW size \in Nat
    PROVE  LET b == begin_update_health_window(u, crc, size)
           IN  UpdateOK(b) /\ b.state = "HealthWindow"
<1>1. next_update_bank(u) \in {BankA, BankB}
  BY DEF next_update_bank
<1> DEFINE b == begin_update_health_window(u, crc, size)
<1>2. /\ b.active_bank = u.active_bank
      /\ b.last_good_bank = u.last_good_bank
      /\ b.pending_bank = next_update_bank(u)
      /\ b.state = "HealthWindow"
      /\ b.remaining_ms = WINDOW_MS
      /\ b.since_tick = 0
  BY DEF begin_update_health_window, UpdateOK, UpdateRecord
<1>3. next_update_bank(b) = next_update_bank(u)
  BY <1>2 DEF next_update_bank
<1>4. b \in UpdateRecord
  BY <1>1, ClockBounds DEF begin_update_health_window, UpdateOK, UpdateRecord, FirmwareUpdateState
<1> HIDE DEF b
<1>5. UpdateOK(b)
  BY <1>2, <1>3, <1>4, ClockBounds, NoneAssumption DEF UpdateOK
<1> QED
  BY <1>2, <1>5 DEF b

LEMMA TickOK ==
    ASSUME NEW u, UpdateOK(u)
    PROVE  LET t == tick_update_health_window(u)
           IN  /\ UpdateOK(t)
               /\ u.state # "HealthWindow" => t = u
               /\ t.state \in {u.state, "RolledBack"}
               /\ t.candidate_crc = u.candidate_crc
               /\ t.candidate_size = u.candidate_size
<1>1. CASE u.state # "HealthWindow"
  BY <1>1 DEF tick_update_health_window, UpdateOK, UpdateRecord
<1>2. CASE u.state = "HealthWindow" /\ elapsed_ms(u) = 0
  <2> DEFINE t == [u EXCEPT !.since_tick = 0]
  <2>1. tick_update_health_window(u) = t
    BY <1>2 DEF tick_update_health_window
  <2>2. t \in UpdateRecord
    BY ClockBounds DEF UpdateOK, UpdateRecord
  <2>3. /\ UpdateOK(t) /\ t.state = u.state
        /\ t.candidate_crc = u.candidate_crc /\ t.candidate_size = u.candidate_size
    BY <2>2, <1>2, NoneAssumption DEF UpdateOK, UpdateRecord, next_update_bank
  <2> QED
    BY <2>1, <2>3, <1>2
<1>3. CASE u.state = "HealthWindow" /\ elapsed_ms(u) # 0 /\ elapsed_ms(u) >= u.remaining_ms
  BY <1>3, RollbackOK DEF tick_update_health_window
<1>4. CASE u.state = "HealthWindow" /\ elapsed_ms(u) # 0 /\ ~(elapsed_ms(u) >= u.remaining_ms)
  <2>1. elapsed_ms(u) \in Nat
    <3>1. u.since_tick \in Nat
      BY <1>4, WindowTicksPositive DEF UpdateOK, UpdateRecord
    <3> QED
      BY <3>1, DivFloor, ClockAssumption DEF elapsed_ms
  <2> DEFINE t == [u EXCEPT !.since_tick = 0, !.remaining_ms = @ - elapsed_ms(u)]
  <2>2. tick_update_health_window(u) = t
    BY <1>4 DEF tick_update_health_window
  <2>3. u.remaining_ms - elapsed_ms(u) \in 0..WINDOW_MS /\ u.remaining_ms - elapsed_ms(u) > 0
    BY <2>1, <1>4, ClockAssumption DEF UpdateOK, UpdateRecord
  <2>4. t \in UpdateRecord
    BY <2>3, ClockBounds DEF UpdateOK, UpdateRecord
  <2>5. /\ UpdateOK(t) /\ t.state = u.state
        /\ t.candidate_crc = u.candidate_crc /\ t.candidate_size = u.candidate_size
    BY <2>3, <2>4, <1>4, NoneAssumption DEF UpdateOK, UpdateRecord, next_update_bank
  <2> QED
    BY <2>2, <2>5, <1>4
<1> QED
  BY <1>1, <1>2, <1>3, <1>4

LEMMA SetStateOK ==
    ASSUME NEW u, UpdateOK(u), u.state # "HealthWindow", NEW s \in {"Receiving", "Verified"}
    PROVE  LET v == [u EXCEPT !.state = s]
           IN  /\ UpdateOK(v)
               /\ v.state = s
               /\ v.candidate_crc = u.candidate_crc
               /\ v.candidate_size = u.candidate_size
<1> DEFINE v == [u EXCEPT !.state = s]
<1>1. /\ v \in UpdateRecord
      /\ v.state = s
      /\ v.active_bank = u.active_bank /\ v.last_good_bank = u.last_good_bank
      /\ v.pending_bank = u.pending_bank /\ v.remaining_ms = u.remaining_ms
      /\ v.since_tick = u.since_tick
      /\ v.candidate_crc = u.candidate_crc /\ v.candidate_size = u.candidate_size
  BY DEF UpdateOK, UpdateRecord, FirmwareUpdateState
<1> HIDE DEF v
<1>2. UpdateOK(v)
  BY <1>1 DEF UpdateOK
<1> QED
  BY <1>1, <1>2 DEF v

LEMMA AdvanceOK ==
    ASSUME NEW u, UpdateOK(u), u.state = "HealthWindow"
    PROVE  LET v == [u EXCEPT !.since_tick = AgeOneTick(@)]
           IN  /\ UpdateOK(v)
               /\ v.state = u.state
               /\ v.candidate_crc = u.candidate_crc
               /\ v.candidate_size = u.candidate_size
<1> DEFINE v == [u EXCEPT !.since_tick = AgeOneTick(@)]
<1>1. AgeOneTick(u.since_tick) \in 0..WindowTicks
  BY WindowTicksPositive DEF UpdateOK, UpdateRecord, AgeOneTick, SatInc
<1>2. /\ v \in UpdateRecord
      /\ v.state = u.state
      /\ v.active_bank = u.active_bank /\ v.last_good_bank = u.last_good_bank
      /\ v.pending_bank = u.pending_bank /\ v.remaining_ms = u.remaining_ms
      /\ v.since_tick = AgeOneTick(u.since_tick)
      /\ v.candidate_crc = u.candidate_crc /\ v.candidate_size = u.candidate_size
  BY <1>1 DEF UpdateOK, UpdateRecord
<1>3. AgeOneTick(u.since_tick) # None
  BY <1>1, NoneAssumption, WindowTicksPositive
<1> HIDE DEF v
<1>4. UpdateOK(v)
  BY <1>2, <1>3 DEF UpdateOK, next_update_bank
<1> QED
  BY <1>2, <1>4 DEF v

LEMMA InitUpdateOK == UpdateOK(InitUpdate) /\ InitUpdate.state = "Idle"
<1>1. InitUpdate \in UpdateRecord
  BY ClockBounds, RollbackAssumption DEF UpdateRecord, InitUpdate, FirmwareUpdateState
<1> QED
  BY <1>1 DEF UpdateOK, InitUpdate

-----------------------------------------------------------------------------
(* The flash session *)

LEMMA BlockFacts ==
    ASSUME NEW payload \in Block
    PROVE  payload \in Image /\ Len(payload) \in 1..BLOCK_MAX
BY SizeAssumption DEF Block, Image

LEMMA StorableFacts ==
    ASSUME NEW image \in Image, image # <<>>, Len(image) <= BUFFER_MAX
    PROVE  image \in StorableImage /\ Crc(image) \in Nat
<1>1. Len(image) \in 1..BUFFER_MAX /\ image \in [1..Len(image) -> Byte]
  BY SizeAssumption DEF Image
<1>2. image \in StorableImage
  BY <1>1 DEF StorableImage
<1> QED
  BY <1>2, CrcAssumption

LEMMA NewFlashType ==
    ASSUME NEW counter \in Nat
    PROVE  NewFlash(counter) \in FlashRecord
BY ClockBounds DEF NewFlash, FlashRecord, Image

LEMMA NextSessionId ==
    ASSUME NEW counter \in Nat, counter < MaxSessions
    PROVE  allocate_flash_session_id(counter) = counter + 1
<1>1. (counter + 1) % SESSION_ID_LIMIT = counter + 1
  BY SessionAssumption
<1> QED
  BY <1>1 DEF allocate_flash_session_id

LEMMA BeginFlash ==
    ASSUME NEW f \in FlashRecord, f.session_counter < MaxSessions
    PROVE  LET g == begin_flash_session(f)
           IN  /\ g \in FlashRecord
               /\ g.session_active /\ ~g.verified
               /\ g.session_id = f.session_counter + 1
               /\ g.session_counter = f.session_counter + 1
               /\ g.next_block = 0 /\ g.buffer = <<>>
<1>1. f.session_counter \in Nat
  BY DEF FlashRecord
<1>2. allocate_flash_session_id(f.session_counter) = f.session_counter + 1
  BY <1>1, NextSessionId
<1>3. f.session_counter + 1 \in Nat
  BY <1>1
<1>4. NewFlash(f.session_counter) \in FlashRecord
  BY <1>1, NewFlashType
<1>5. /\ NewFlash(f.session_counter).next_block = 0
      /\ NewFlash(f.session_counter).buffer = <<>>
      /\ ~NewFlash(f.session_counter).verified
  BY DEF NewFlash
<1> DEFINE g == [ NewFlash(f.session_counter) EXCEPT
                    !.session_active  = TRUE,
                    !.session_id      = f.session_counter + 1,
                    !.session_counter = f.session_counter + 1 ]
<1>6. begin_flash_session(f) = g
  BY <1>2 DEF begin_flash_session, reset_flash_transfer_state
<1>7. /\ g \in FlashRecord
      /\ g.session_active
      /\ g.session_id = f.session_counter + 1
      /\ g.session_counter = f.session_counter + 1
      /\ g.next_block = NewFlash(f.session_counter).next_block
      /\ g.buffer = NewFlash(f.session_counter).buffer
      /\ g.verified = NewFlash(f.session_counter).verified
  BY <1>3, <1>4 DEF FlashRecord
<1> QED
  BY <1>5, <1>6, <1>7

LEMMA AppendFlash ==
    ASSUME NEW f \in FlashRecord, NEW payload \in Image, f.next_block < BLOCK_INDEX_MAX
    PROVE  LET g == append_flash_block(f, payload)
           IN  /\ g \in FlashRecord
               /\ g.session_active = f.session_active /\ ~g.verified
               /\ g.session_id = f.session_id
               /\ g.session_counter = f.session_counter
               /\ g.next_block = f.next_block + 1
               /\ g.buffer = f.buffer \o payload
<1>1. f.next_block \in Nat /\ f.buffer \in Image
  BY DEF FlashRecord
<1>2. f.next_block + 1 \in Nat /\ f.buffer \o payload \in Image
  BY <1>1 DEF Image
<1>3. SatInc(f.next_block, BLOCK_INDEX_MAX) = f.next_block + 1
  BY DEF SatInc
<1> QED
  BY <1>2, <1>3, ClockBounds DEF append_flash_block, unverify, FlashRecord

LEMMA RestoreFlash ==
    ASSUME NEW f \in FlashRecord, scratch \in ScratchRecord
    PROVE  LET g == restore_flash_resume_scratch(f)
           IN  /\ g \in FlashRecord
               /\ g.session_active /\ ~g.verified
               /\ g.session_id = scratch.session_id
               /\ g.session_counter = f.session_counter
               /\ g.next_block = scratch.next_block
               /\ g.buffer = scratch.image
<1>1. /\ scratch.session_id \in Nat /\ scratch.next_block \in Nat
      /\ scratch.image \in Image
  BY DEF ScratchRecord
<1> QED
  BY <1>1, ClockBounds DEF restore_flash_resume_scratch, unverify, FlashRecord

LEMMA MarkFlash ==
    ASSUME NEW f \in FlashRecord, f.buffer # <<>>, Len(f.buffer) <= BUFFER_MAX
    PROVE  LET g == mark_verified(f)
           IN  /\ g \in FlashRecord
               /\ g.session_active = f.session_active /\ g.verified
               /\ g.verified_crc = Crc(f.buffer) /\ g.verified_len = Len(f.buffer)
               /\ g.session_id = f.session_id
               /\ g.session_counter = f.session_counter
               /\ g.next_block = f.next_block
               /\ g.buffer = f.buffer
<1>1. f.buffer \in Image
  BY DEF FlashRecord
<1>2. Crc(f.buffer) \in Nat /\ Len(f.buffer) \in Nat
  BY <1>1, StorableFacts DEF Image
<1> QED
  BY <1>2 DEF mark_verified, FlashRecord

-----------------------------------------------------------------------------
(* The inductive invariant: types, agreement of session and update state,    *)
(* the block count, and the approval of what is verified or on trial        *)

Safe ==
    /\ TypeOK
    /\ PendingOnlyInWindow
    /\ StateMatchesSession
    /\ BlocksMatchBytes
    /\ VerifiedImageApproved
    /\ CandidateApproved

LEMMA UpdateOKMeaning ==
    /\ TypeOK /\ PendingOnlyInWindow =>
         /\ UpdateOK(upd) /\ flash \in FlashRecord
         /\ scratch \in ScratchRecord \cup {None}
         /\ window_age \in 0..WindowTicks
    /\ (UpdateOK(upd)' /\ flash' \in FlashRecord /\ scratch' \in ScratchRecord \cup {None}
          /\ window_age' \in 0..WindowTicks) => TypeOK' /\ PendingOnlyInWindow'
BY DEF TypeOK, PendingOnlyInWindow, UpdateOK

\* The health-window tick before the dispatch keeps the shape of upd, touches
\* nothing outside the window, and never leaves it for anything but RolledBack.
LEMMA TickedFacts ==
    ASSUME Safe
    PROVE  /\ UpdateOK(Ticked)
           /\ upd.state # "HealthWindow" => Ticked = upd
           /\ Ticked.state \in {upd.state, "RolledBack"}
           /\ Ticked.candidate_crc = upd.candidate_crc
           /\ Ticked.candidate_size = upd.candidate_size
           /\ flash.session_active => Ticked = upd /\ upd.state # "HealthWindow"
           /\ flash.session_active <=> Ticked.state \in {"Receiving", "Verified"}
           /\ flash.verified <=> Ticked.state = "Verified"
<1>1. UpdateOK(upd)
  BY UpdateOKMeaning DEF Safe
<1>2. flash.session_active => upd.state # "HealthWindow"
  BY DEF Safe, StateMatchesSession
<1> QED
  BY <1>1, <1>2, TickOK DEF Ticked, Safe, StateMatchesSession

LEMMA TrackWindowType ==
    ASSUME TypeOK, TrackWindow
    PROVE  window_age' \in 0..WindowTicks
BY ClockBounds DEF TypeOK, TrackWindow

LEMMA SafeInit == Init => Safe
<1> SUFFICES ASSUME Init PROVE Safe
  OBVIOUS
<1>1. flash \in FlashRecord
  BY NewFlashType, ClockBounds DEF Init
<1>2. UpdateOK(upd)
  BY InitUpdateOK DEF Init
<1>3. TypeOK /\ PendingOnlyInWindow
  BY <1>1, <1>2, ClockBounds DEF Init, TypeOK, PendingOnlyInWindow, UpdateOK
<1>4. StateMatchesSession
  BY InitUpdateOK DEF Init, StateMatchesSession, NewFlash
<1>5. BlocksMatchBytes
  BY SizeAssumption DEF Init, BlocksMatchBytes, NewFlash
<1>6. VerifiedImageApproved /\ CandidateApproved
  BY DEF Init, VerifiedImageApproved, CandidateApproved, NewFlash, InitUpdate
<1> QED
  BY <1>3, <1>4, <1>5, <1>6 DEF Safe

LEMMA PacketSafe == Safe /\ PacketWithoutEffect => Safe'
<1> SUFFICES ASSUME Safe, PacketWithoutEffect PROVE Safe'
  OBVIOUS
<1>1. /\ upd' = Ticked /\ UNCHANGED <<flash, scratch>>
      /\ window_age' \in 0..WindowTicks
  BY TrackWindowType DEF PacketWithoutEffect, Safe
<1>2. TypeOK' /\ PendingOnlyInWindow'
  <2>1. UpdateOK(upd)'
    BY <1>1, TickedFacts DEF UpdateOK, next_update_bank
  <2> QED
    BY <1>1, <2>1, UpdateOKMeaning DEF Safe
<1>3. StateMatchesSession'
  BY <1>1, TickedFacts DEF StateMatchesSession, Safe
<1>4. BlocksMatchBytes'
  BY <1>1 DEF BlocksMatchBytes, Safe
<1>5. VerifiedImageApproved'
  BY <1>1 DEF VerifiedImageApproved, Safe
<1>6. CandidateApproved'
  BY <1>1, TickedFacts DEF CandidateApproved, Safe
<1> QED
  BY <1>2, <1>3, <1>4, <1>5, <1>6 DEF Safe

LEMMA EnterSafe == Safe /\ EnterBootloader => Safe'
<1> SUFFICES ASSUME Safe, EnterBootloader PROVE Safe'
  OBVIOUS
<1>1. /\ flash' \in FlashRecord /\ flash'.session_active /\ ~flash'.verified
      /\ flash'.next_block = 0 /\ flash'.buffer = <<>>
  BY UpdateOKMeaning, BeginFlash DEF EnterBootloader, Safe
<1>2. /\ UpdateOK(restart_update(Ticked)) /\ restart_update(Ticked).state = "Receiving"
      /\ upd' = restart_update(Ticked)
  BY TickedFacts, RestartOK DEF EnterBootloader
<1>7. VerifiedImageApproved' /\ CandidateApproved'
  BY <1>1, <1>2, TickedFacts, RestartOK DEF VerifiedImageApproved, CandidateApproved
<1>3. UNCHANGED scratch /\ window_age' \in 0..WindowTicks
  BY TrackWindowType DEF EnterBootloader, Safe
<1>4. TypeOK' /\ PendingOnlyInWindow'
  BY <1>1, <1>2, <1>3, UpdateOKMeaning DEF Safe, UpdateOK, next_update_bank
<1>5. StateMatchesSession'
  BY <1>1, <1>2 DEF StateMatchesSession
<1>6. BlocksMatchBytes'
  BY <1>1, <1>3, SizeAssumption DEF BlocksMatchBytes, Safe
<1> QED
  BY <1>4, <1>5, <1>6, <1>7 DEF Safe

LEMMA ResumeSafe == Safe /\ Resume => Safe'
<1> SUFFICES ASSUME Safe, NEW requested, FlashResume(requested) PROVE Safe'
  BY DEF Resume
<1>1. scratch \in ScratchRecord
  BY UpdateOKMeaning DEF FlashResume, Safe
<1>2. /\ flash' \in FlashRecord /\ flash'.session_active /\ ~flash'.verified
      /\ flash'.next_block = scratch.next_block /\ flash'.buffer = scratch.image
  BY <1>1, UpdateOKMeaning, RestoreFlash DEF FlashResume, Safe
<1>3. /\ UpdateOK(upd)' /\ upd'.state = "Receiving"
      /\ upd'.candidate_crc = upd.candidate_crc /\ upd'.candidate_size = upd.candidate_size
  <2>1. Ticked.state # "HealthWindow"
    BY TickedFacts DEF FlashResume
  <2>2. /\ UpdateOK([Ticked EXCEPT !.state = "Receiving"])
        /\ [Ticked EXCEPT !.state = "Receiving"].state = "Receiving"
        /\ [Ticked EXCEPT !.state = "Receiving"].candidate_crc = Ticked.candidate_crc
        /\ [Ticked EXCEPT !.state = "Receiving"].candidate_size = Ticked.candidate_size
    BY <2>1, TickedFacts, SetStateOK
  <2> QED
    BY <2>2, TickedFacts DEF FlashResume, UpdateOK, next_update_bank
<1>4. UNCHANGED scratch /\ window_age' \in 0..WindowTicks
  BY TrackWindowType DEF FlashResume, Safe
<1>5. TypeOK' /\ PendingOnlyInWindow'
  BY <1>1, <1>2, <1>3, <1>4, UpdateOKMeaning
<1>6. StateMatchesSession'
  BY <1>2, <1>3 DEF StateMatchesSession
<1>7. BlocksMatchBytes'
  <2>1. scratch # None
    BY DEF FlashResume
  <2>2. scratch.next_block \in Nat /\ Len(scratch.image) \in Nat
    BY <1>1 DEF ScratchRecord, Image
  <2> QED
    BY <1>2, <1>4, <2>1, <2>2, SizeAssumption DEF BlocksMatchBytes, Safe
<1>8. VerifiedImageApproved' /\ CandidateApproved'
  BY <1>2, <1>3 DEF VerifiedImageApproved, CandidateApproved, Safe
<1> QED
  BY <1>5, <1>6, <1>7, <1>8 DEF Safe

LEMMA OneMoreBlock ==
    ASSUME NEW n \in Nat, NEW size \in Nat, NEW max \in Nat, NEW more \in 1..max,
           size <= n * max
    PROVE  size + more <= (n + 1) * max
<1>1. (n + 1) * max = n * max + max
  BY SMT
<1>2. n * max \in Nat
  BY SMT
<1> QED
  BY <1>1, <1>2

\* What FlashBlock does, with the saturation of the block index discharged.
LEMMA BlockEffect ==
    ASSUME Safe, NEW index, NEW payload \in Block, FlashBlock(index, payload)
    PROVE  /\ flash' \in FlashRecord /\ flash'.session_active /\ ~flash'.verified
           /\ flash'.session_id = flash.session_id
           /\ flash'.session_counter = flash.session_counter
           /\ flash.next_block \in Nat
           /\ flash'.next_block = flash.next_block + 1
           /\ flash'.buffer = flash.buffer \o payload
           /\ flash.buffer \in Image /\ payload \in Image
           /\ Len(payload) \in 1..BLOCK_MAX
           /\ flash.session_active
           /\ Len(flash.buffer) + Len(payload) <= BUFFER_MAX
<1>1. flash \in FlashRecord
  BY UpdateOKMeaning DEF Safe
<1>2. payload \in Image /\ Len(payload) \in 1..BLOCK_MAX
  BY BlockFacts
<1>3. flash.next_block < BLOCK_INDEX_MAX
  BY DEF Safe, BlocksMatchBytes
<1>4. flash.buffer \in Image /\ flash.next_block \in Nat
  BY <1>1 DEF FlashRecord
<1> QED
  BY <1>1, <1>2, <1>3, <1>4, AppendFlash DEF FlashBlock

LEMMA ReceiveSafe == Safe /\ Receive => Safe'
<1> SUFFICES ASSUME Safe, NEW index, NEW payload \in Block, FlashBlock(index, payload)
             PROVE  Safe'
  BY DEF Receive
<1> DEFINE size == Len(flash.buffer)
           more == Len(payload)
<1>1. /\ flash' \in FlashRecord /\ flash'.session_active /\ ~flash'.verified
      /\ flash'.next_block = flash.next_block + 1
      /\ flash.next_block \in Nat /\ size \in Nat /\ more \in 1..BLOCK_MAX
      /\ Len(flash'.buffer) = size + more
      /\ size + more <= BUFFER_MAX
  <2>1. flash.buffer \in Image /\ payload \in Image /\ flash'.buffer = flash.buffer \o payload
    BY BlockEffect
  <2>2. size \in Nat /\ Len(flash'.buffer) = size + more
    BY <2>1 DEF Image
  <2> QED
    BY <2>2, BlockEffect
<1>2. /\ UpdateOK(upd)' /\ upd'.state = "Receiving"
      /\ upd'.candidate_crc = upd.candidate_crc /\ upd'.candidate_size = upd.candidate_size
  <2>1. Ticked.state # "HealthWindow"
    BY TickedFacts DEF FlashBlock
  <2>2. /\ UpdateOK([Ticked EXCEPT !.state = "Receiving"])
        /\ [Ticked EXCEPT !.state = "Receiving"].state = "Receiving"
        /\ [Ticked EXCEPT !.state = "Receiving"].candidate_crc = Ticked.candidate_crc
        /\ [Ticked EXCEPT !.state = "Receiving"].candidate_size = Ticked.candidate_size
    BY <2>1, TickedFacts, SetStateOK
  <2> QED
    BY <2>2, TickedFacts DEF FlashBlock, UpdateOK, next_update_bank
<1>3. /\ resume_scratch_of(flash') \in ScratchRecord
      /\ resume_scratch_of(flash').next_block = flash'.next_block
      /\ resume_scratch_of(flash').image = flash'.buffer
  BY <1>1 DEF resume_scratch_of, ScratchRecord, FlashRecord
<1>4. scratch' \in {scratch, resume_scratch_of(flash')}
  BY DEF FlashBlock, maybe_persist_flash_resume_scratch
<1>5. window_age' \in 0..WindowTicks
  BY TrackWindowType DEF FlashBlock, Safe
<1>6. TypeOK' /\ PendingOnlyInWindow'
  BY <1>1, <1>2, <1>3, <1>4, <1>5, UpdateOKMeaning DEF Safe
<1>7. StateMatchesSession'
  BY <1>1, <1>2 DEF StateMatchesSession
<1>8. BlocksMatchBytes'
  <2>1. /\ flash.next_block <= size
        /\ size <= flash.next_block * BLOCK_MAX
    BY DEF Safe, BlocksMatchBytes
  <2>2. size + more <= (flash.next_block + 1) * BLOCK_MAX
    BY <1>1, <2>1, OneMoreBlock, SizeAssumption
  <2>3. /\ 1 <= flash'.next_block
        /\ flash'.next_block <= Len(flash'.buffer)
        /\ Len(flash'.buffer) <= flash'.next_block * BLOCK_MAX
        /\ Len(flash'.buffer) <= BUFFER_MAX
        /\ flash'.next_block < BLOCK_INDEX_MAX
    BY <1>1, <2>1, <2>2, SizeAssumption
  <2>4. CASE scratch' = scratch
    BY <2>3, <2>4 DEF Safe, BlocksMatchBytes
  <2>5. CASE scratch' = resume_scratch_of(flash')
    BY <1>3, <2>3, <2>5 DEF BlocksMatchBytes
  <2> QED
    BY <1>4, <2>4, <2>5
<1>9. VerifiedImageApproved' /\ CandidateApproved'
  BY <1>1, <1>2 DEF VerifiedImageApproved, CandidateApproved, Safe
<1> QED
  BY <1>6, <1>7, <1>8, <1>9 DEF Safe

\* What FlashVerify does.
LEMMA VerifyEffect ==
    ASSUME Safe, NEW r \in VerifyRequest, FlashVerify(r)
    PROVE  /\ flash' \in FlashRecord /\ flash'.session_active /\ flash'.verified
           /\ flash'.verified_crc = Crc(flash.buffer)
           /\ flash'.verified_len = Len(flash.buffer)
           /\ flash'.session_id = flash.session_id
           /\ flash'.session_counter = flash.session_counter
           /\ flash'.next_block = flash.next_block
           /\ flash'.buffer = flash.buffer
           /\ flash.session_active
           /\ Approvable(flash.buffer)
<1>1. flash \in FlashRecord /\ Len(flash.buffer) <= BUFFER_MAX
  BY UpdateOKMeaning DEF Safe, BlocksMatchBytes
<1>2. r.signature \in {"absent", "match", "mismatch"}
  BY DEF VerifyRequest
<1>3. Approvable(flash.buffer)
  BY <1>2 DEF Approvable, FlashVerify, VerifyAccepts
<1> QED
  BY <1>1, <1>3, MarkFlash DEF FlashVerify, VerifyAccepts

LEMMA VerifySafe == Safe /\ Verify => Safe'
<1> SUFFICES ASSUME Safe, NEW r \in VerifyRequest, FlashVerify(r) PROVE Safe'
  BY DEF Verify
<1>1. /\ UpdateOK(upd)' /\ upd'.state = "Verified"
      /\ upd'.candidate_crc = upd.candidate_crc /\ upd'.candidate_size = upd.candidate_size
  <2>1. Ticked.state # "HealthWindow"
    BY TickedFacts, VerifyEffect
  <2>2. /\ UpdateOK([Ticked EXCEPT !.state = "Verified"])
        /\ [Ticked EXCEPT !.state = "Verified"].state = "Verified"
        /\ [Ticked EXCEPT !.state = "Verified"].candidate_crc = Ticked.candidate_crc
        /\ [Ticked EXCEPT !.state = "Verified"].candidate_size = Ticked.candidate_size
    BY <2>1, TickedFacts, SetStateOK
  <2> QED
    BY <2>2, TickedFacts DEF FlashVerify, UpdateOK, next_update_bank
<1>2. UNCHANGED scratch /\ window_age' \in 0..WindowTicks
  BY TrackWindowType DEF FlashVerify, Safe
<1>3. TypeOK' /\ PendingOnlyInWindow'
  BY <1>1, <1>2, VerifyEffect, UpdateOKMeaning DEF Safe
<1>4. StateMatchesSession'
  BY <1>1, VerifyEffect DEF StateMatchesSession
<1>5. BlocksMatchBytes'
  BY <1>2, VerifyEffect DEF BlocksMatchBytes, Safe
<1>6. VerifiedImageApproved' /\ CandidateApproved'
  BY <1>1, VerifyEffect DEF VerifiedImageApproved, CandidateApproved, Safe
<1> QED
  BY <1>3, <1>4, <1>5, <1>6 DEF Safe

LEMMA ResetFlash ==
    ASSUME Safe, flash' = reset_flash_transfer_state(flash)
    PROVE  /\ flash' \in FlashRecord
           /\ flash' = NewFlash(flash'.session_counter)
           /\ ~flash'.session_active /\ ~flash'.verified
           /\ flash'.session_counter = flash.session_counter
           /\ flash'.next_block = 0 /\ flash'.buffer = <<>>
<1>1. flash.session_counter \in Nat
  BY UpdateOKMeaning DEF Safe, FlashRecord
<1> QED
  BY <1>1, NewFlashType DEF reset_flash_transfer_state, NewFlash

LEMMA CompleteSafe == Safe /\ FlashComplete => Safe'
<1> SUFFICES ASSUME Safe, FlashComplete PROVE Safe'
  OBVIOUS
<1>1. /\ flash' \in FlashRecord
      /\ flash' = NewFlash(flash'.session_counter)
      /\ ~flash'.session_active /\ ~flash'.verified
      /\ flash'.next_block = 0 /\ flash'.buffer = <<>>
  BY ResetFlash DEF FlashComplete
<1>2. /\ Crc(flash.buffer) \in Nat /\ Len(flash.buffer) \in Nat
      /\ <<Crc(flash.buffer), Len(flash.buffer)>> \in ApprovedDescriptor
  <2>1. flash.buffer \in Image
    BY UpdateOKMeaning DEF Safe, FlashRecord
  <2>2. Approvable(flash.buffer) /\ Len(flash.buffer) <= BUFFER_MAX
    BY DEF FlashComplete, Safe, VerifiedImageApproved, BlocksMatchBytes
  <2>3. flash.buffer # <<>>
    BY <2>2 DEF Approvable, Blank
  <2>4. flash.buffer \in StorableImage /\ Crc(flash.buffer) \in Nat
    BY <2>1, <2>2, <2>3, StorableFacts
  <2> QED
    BY <2>1, <2>2, <2>4 DEF ApprovedDescriptor, Image
<1> DEFINE opened == begin_update_health_window(Ticked, Crc(flash.buffer), Len(flash.buffer))
<1>3. upd' = opened /\ UpdateOK(opened) /\ opened.state = "HealthWindow"
  BY <1>2, TickedFacts, BeginOK DEF FlashComplete
<1>4. /\ opened.candidate_crc = Crc(flash.buffer)
      /\ opened.candidate_size = Len(flash.buffer)
  BY TickedFacts DEF begin_update_health_window, UpdateOK, UpdateRecord
<1>5. scratch' = None /\ window_age' \in 0..WindowTicks
  BY TrackWindowType DEF FlashComplete, Safe
<1> HIDE DEF opened
<1>6. TypeOK' /\ PendingOnlyInWindow'
  BY <1>1, <1>3, <1>5, UpdateOKMeaning DEF UpdateOK, next_update_bank
<1>7. StateMatchesSession'
  BY <1>1, <1>3 DEF StateMatchesSession
<1>8. BlocksMatchBytes'
  BY <1>1, <1>5, SizeAssumption DEF BlocksMatchBytes
<1>9. VerifiedImageApproved' /\ CandidateApproved'
  BY <1>1, <1>2, <1>3, <1>4 DEF VerifiedImageApproved, CandidateApproved
<1> QED
  BY <1>6, <1>7, <1>8, <1>9 DEF Safe

LEMMA ConfirmSafe == Safe /\ ConfirmBootHealthy => Safe'
<1> SUFFICES ASSUME Safe, ConfirmBootHealthy PROVE Safe'
  OBVIOUS
<1> DEFINE confirmed == confirm_pending_update(Ticked)
<1>1. upd' = confirmed /\ UpdateOK(confirmed) /\ confirmed.state = "Committed"
  BY TickedFacts, ConfirmOK DEF ConfirmBootHealthy
<1>2. /\ confirmed.candidate_crc = upd.candidate_crc
      /\ confirmed.candidate_size = upd.candidate_size
  BY TickedFacts DEF confirm_pending_update, UpdateOK, UpdateRecord
<1>3. UNCHANGED <<flash, scratch>> /\ window_age' \in 0..WindowTicks
  BY TrackWindowType DEF ConfirmBootHealthy, Safe
<1>4. ~flash.session_active /\ ~flash.verified
  BY TickedFacts DEF ConfirmBootHealthy
<1> HIDE DEF confirmed
<1>5. TypeOK' /\ PendingOnlyInWindow'
  BY <1>1, <1>3, UpdateOKMeaning DEF Safe, UpdateOK, next_update_bank
<1>6. StateMatchesSession'
  BY <1>1, <1>3, <1>4 DEF StateMatchesSession, Safe
<1>7. BlocksMatchBytes'
  BY <1>3 DEF BlocksMatchBytes, Safe
<1>8. VerifiedImageApproved' /\ CandidateApproved'
  BY <1>1, <1>2, <1>3 DEF VerifiedImageApproved, CandidateApproved, Safe
<1> QED
  BY <1>5, <1>6, <1>7, <1>8 DEF Safe

LEMMA AdvanceSafe == Safe /\ Advance => Safe'
<1> SUFFICES ASSUME Safe, Advance PROVE Safe'
  OBVIOUS
<1> DEFINE aged == [upd EXCEPT !.since_tick = AgeOneTick(@)]
<1>1. /\ upd' = aged /\ UpdateOK(aged) /\ aged.state = upd.state
      /\ aged.candidate_crc = upd.candidate_crc
      /\ aged.candidate_size = upd.candidate_size
  BY UpdateOKMeaning, AdvanceOK DEF Advance, Safe
<1>2. UNCHANGED <<flash, scratch>> /\ window_age' \in 0..WindowTicks
  BY UpdateOKMeaning, WindowTicksPositive DEF Advance, Safe, AgeOneTick, SatInc
<1> HIDE DEF aged
<1>3. TypeOK' /\ PendingOnlyInWindow'
  BY <1>1, <1>2, UpdateOKMeaning DEF Safe, UpdateOK, next_update_bank
<1>4. StateMatchesSession'
  BY <1>1, <1>2 DEF StateMatchesSession, Safe
<1>5. BlocksMatchBytes'
  BY <1>2 DEF BlocksMatchBytes, Safe
<1>6. VerifiedImageApproved' /\ CandidateApproved'
  BY <1>1, <1>2 DEF VerifiedImageApproved, CandidateApproved, Safe
<1> QED
  BY <1>3, <1>4, <1>5, <1>6 DEF Safe

LEMMA RebootSafe == Safe /\ Reboot => Safe'
<1> SUFFICES ASSUME Safe, Reboot PROVE Safe'
  OBVIOUS
<1> DEFINE counter == IF scratch = None THEN 0 ELSE scratch.session_id
<1>1. counter \in Nat
  BY UpdateOKMeaning, ClockBounds DEF Safe, ScratchRecord
<1>2. /\ flash' = NewFlash(counter) /\ flash' \in FlashRecord
      /\ flash'.session_counter = counter
      /\ ~flash'.session_active /\ ~flash'.verified
      /\ flash'.next_block = 0 /\ flash'.buffer = <<>>
  <2>1. flash' = NewFlash(counter)
    BY DEF Reboot
  <2> HIDE DEF counter
  <2> QED
    BY <1>1, <2>1, NewFlashType DEF NewFlash
<1>3. upd' = InitUpdate /\ UNCHANGED scratch /\ window_age' \in 0..WindowTicks
  BY ClockBounds DEF Reboot
<1>4. TypeOK' /\ PendingOnlyInWindow'
  BY <1>2, <1>3, InitUpdateOK, UpdateOKMeaning DEF Safe, UpdateOK, next_update_bank
<1>5. StateMatchesSession'
  BY <1>2, <1>3, InitUpdateOK DEF StateMatchesSession
<1>6. BlocksMatchBytes'
  BY <1>2, <1>3, SizeAssumption DEF BlocksMatchBytes, Safe
<1>7. VerifiedImageApproved' /\ CandidateApproved'
  BY <1>2, <1>3 DEF VerifiedImageApproved, CandidateApproved, InitUpdate
<1> QED
  BY <1>4, <1>5, <1>6, <1>7 DEF Safe

LEMMA StutterSafe == Safe /\ UNCHANGED vars => Safe'
BY DEF Safe, vars, TypeOK, PendingOnlyInWindow, StateMatchesSession, BlocksMatchBytes,
       VerifiedImageApproved, CandidateApproved, next_update_bank

LEMMA NextSafe == Safe /\ [Next]_vars => Safe'
BY PacketSafe, EnterSafe, ResumeSafe, ReceiveSafe, VerifySafe, CompleteSafe, ConfirmSafe,
   AdvanceSafe, RebootSafe, StutterSafe DEF Next

LEMMA SafeInvariant == Spec => []Safe
BY SafeInit, NextSafe, PTL DEF Spec

\* Every field of the runtime and of the resume scratch keeps its type.
THEOREM TypeCorrect == Spec => []TypeOK
BY SafeInvariant, PTL DEF Safe

\* The update state the host reads and the private session flags agree.
THEOREM StateAgreesWithSession == Spec => []StateMatchesSession
BY SafeInvariant, PTL DEF Safe

\* A bank is pending exactly during a health window that is still counting.
THEOREM PendingBankOnTrial == Spec => []PendingOnlyInWindow
BY SafeInvariant, PTL DEF Safe

\* The block index and the bytes behind it stay in step: the u32 index never
\* saturates, in the session or in the scratch.
THEOREM BlocksAccounted == Spec => []BlocksMatchBytes
BY SafeInvariant, PTL DEF Safe

\* The image a session counts as verified is the one FlashVerify approved,
\* for every checksum function, collisions included.
THEOREM VerifiedIsApproved == Spec => []VerifiedImageApproved
BY SafeInvariant, PTL DEF Safe

\* Only an approved image is ever put on trial.
THEOREM TrialIsApproved == Spec => []CandidateApproved
BY SafeInvariant, PTL DEF Safe

-----------------------------------------------------------------------------
(* Session ids keep transfers apart                                          *)

\* Ids are handed out in increasing order, so the next one is new.
IdsBelowCounter ==
    /\ flash.session_active => flash.session_id <= flash.session_counter
    /\ scratch # None => scratch.session_id <= flash.session_counter

Apart == IdsBelowCounter /\ ResumeRewindsOwnTransfer

LEMMA PrefixAppend ==
    ASSUME NEW s \in Image, NEW t \in Image, NEW more \in Image, PrefixOf(s, t)
    PROVE  PrefixOf(s, t \o more)
<1>1. Len(t \o more) = Len(t) + Len(more)
  BY DEF Image
<1>2. Len(s) <= Len(t \o more)
  BY <1>1 DEF PrefixOf, Image
<1>3. ASSUME NEW i \in 1..Len(s) PROVE s[i] = (t \o more)[i]
  <2>1. i \in 1..Len(t)
    BY DEF PrefixOf, Image
  <2>2. (t \o more)[i] = t[i]
    BY <2>1 DEF Image
  <2> QED
    BY <2>2 DEF PrefixOf
<1> QED
  BY <1>2, <1>3 DEF PrefixOf

LEMMA PrefixSelf == ASSUME NEW s \in Image PROVE PrefixOf(s, s)
BY DEF PrefixOf, Image

LEMMA ApartNext == Safe /\ Apart /\ [Next]_vars => Apart'
<1> SUFFICES ASSUME Safe, Apart, [Next]_vars PROVE Apart'
  OBVIOUS
<1> USE DEF Apart
<1>0. /\ flash \in FlashRecord
      /\ flash.session_counter \in Nat /\ flash.session_id \in Nat
      /\ scratch # None => /\ scratch \in ScratchRecord
                          /\ scratch.session_id \in Nat
                          /\ scratch.next_block \in Nat
                          /\ scratch.image \in Image
  BY UpdateOKMeaning DEF Safe, FlashRecord, ScratchRecord
<1>1. CASE UNCHANGED <<flash, scratch>>
  BY <1>1 DEF IdsBelowCounter, ResumeRewindsOwnTransfer
<1>2. CASE EnterBootloader
  <2>1. /\ flash'.session_id = flash.session_counter + 1
        /\ flash'.session_counter = flash.session_counter + 1
        /\ UNCHANGED scratch
    BY <1>0, <1>2, BeginFlash DEF EnterBootloader
  <2> QED
    BY <1>0, <2>1 DEF IdsBelowCounter, ResumeRewindsOwnTransfer
<1>3. ASSUME NEW requested, FlashResume(requested) PROVE Apart'
  <2>1. /\ scratch # None /\ UNCHANGED scratch
        /\ flash'.session_id = scratch.session_id
        /\ flash'.session_counter = flash.session_counter
        /\ flash'.next_block = scratch.next_block /\ flash'.buffer = scratch.image
    BY <1>0, <1>3, RestoreFlash DEF FlashResume
  <2> QED
    BY <1>0, <2>1, PrefixSelf DEF IdsBelowCounter, ResumeRewindsOwnTransfer
<1>4. ASSUME NEW index, NEW payload \in Block, FlashBlock(index, payload) PROVE Apart'
  <2>1. /\ flash.session_active
        /\ flash'.session_id = flash.session_id
        /\ flash'.session_counter = flash.session_counter
        /\ flash.next_block \in Nat /\ flash'.next_block = flash.next_block + 1
        /\ flash'.buffer = flash.buffer \o payload
        /\ flash.buffer \in Image /\ payload \in Image /\ flash'.buffer \in Image
    BY <1>4, BlockEffect DEF FlashRecord
  <2>2. CASE scratch' = scratch
    BY <1>0, <2>1, <2>2, PrefixAppend DEF IdsBelowCounter, ResumeRewindsOwnTransfer
  <2>3. CASE scratch' = resume_scratch_of(flash')
    <3>1. /\ scratch'.session_id = flash'.session_id
          /\ scratch'.next_block = flash'.next_block
          /\ scratch'.image = flash'.buffer
      BY <2>3 DEF resume_scratch_of
    <3> QED
      BY <1>0, <2>1, <3>1, PrefixSelf DEF IdsBelowCounter, ResumeRewindsOwnTransfer
  <2> QED
    BY <1>4, <2>2, <2>3 DEF FlashBlock, maybe_persist_flash_resume_scratch
<1>5. ASSUME NEW r \in VerifyRequest, FlashVerify(r) PROVE Apart'
  <2>1. /\ flash'.session_id = flash.session_id
        /\ flash'.session_counter = flash.session_counter
        /\ flash'.next_block = flash.next_block /\ flash'.buffer = flash.buffer
        /\ flash.session_active
        /\ UNCHANGED scratch
    BY <1>5, VerifyEffect DEF FlashVerify
  <2> QED
    BY <2>1 DEF IdsBelowCounter, ResumeRewindsOwnTransfer
<1>6. CASE FlashComplete
  <2>1. ~flash'.session_active /\ scratch' = None
    BY <1>6, ResetFlash DEF FlashComplete
  <2> QED
    BY <2>1 DEF IdsBelowCounter, ResumeRewindsOwnTransfer
<1>7. CASE Reboot
  <2>1. /\ ~flash'.session_active /\ UNCHANGED scratch
        /\ scratch # None => flash'.session_counter = scratch.session_id
    BY <1>7 DEF Reboot, NewFlash
  <2> QED
    BY <1>0, <2>1 DEF IdsBelowCounter, ResumeRewindsOwnTransfer
<1> QED
  BY <1>1, <1>2, <1>3, <1>4, <1>5, <1>6, <1>7
     DEF Next, Resume, Receive, Verify, PacketWithoutEffect, ConfirmBootHealthy, Advance, vars

LEMMA ApartInvariant == Spec => []Apart
<1>1. Init => Apart
  BY DEF Init, Apart, IdsBelowCounter, ResumeRewindsOwnTransfer, NewFlash
<1> QED
  BY <1>1, SafeInvariant, ApartNext, PTL DEF Spec

\* A resume rewinds the transfer it belongs to: two transfers are never spliced.
THEOREM ResumeNeverSplices == Spec => []ResumeRewindsOwnTransfer
BY ApartInvariant, PTL DEF Apart

-----------------------------------------------------------------------------
(* What a power loss costs                                                   *)

LEMMA MultipleOf == ASSUME NEW p \in Nat \ {0}, NEW q \in Nat PROVE (q * p) % p = 0
<1>1. q * p = p * q
  BY SMT
<1> QED
  BY <1>1, SMT

LEMMA DivCeiling ==
    ASSUME NEW p \in Nat \ {0}, NEW s \in Nat
    PROVE  s < (s \div p + 1) * p
BY SMT

LEMMA StrideInWindow ==
    ASSUME NEW p \in Nat \ {0}, NEW s \in Nat, NEW n \in Nat, n - s >= p
    PROVE  \E k \in (s + 1)..n : k % p = 0
<1>1. PICK q \in Nat : q = s \div p
  BY SMT
<1>2. PICK m \in Nat : m = q * p
  BY <1>1, SMT
<1>3. m <= s /\ s < (q + 1) * p
  BY <1>1, <1>2, DivFloor, DivCeiling
<1>4. m + p = (q + 1) * p
  BY <1>1, <1>2, SMT
<1>5. (m + p) % p = 0
  <2>1. q + 1 \in Nat
    BY <1>1
  <2>2. ((q + 1) * p) % p = 0
    BY <2>1, MultipleOf
  <2> QED
    BY <1>4, <2>2
<1>6. m + p \in (s + 1)..n
  BY <1>2, <1>3, <1>4
<1> QED
  BY <1>5, <1>6

\* Since its scratch was written the open session has reached no stride.
PersistedSinceStride ==
    (flash.session_active /\ flash.next_block > 0) =>
        /\ scratch # None
        /\ scratch.session_id = flash.session_id
        /\ \A k \in (scratch.next_block + 1)..flash.next_block : k % PERSIST_STRIDE # 0

LEMMA PersistedNext ==
    Safe /\ PersistedSinceStride /\ [Next]_vars => PersistedSinceStride'
<1> SUFFICES ASSUME Safe, PersistedSinceStride, [Next]_vars PROVE PersistedSinceStride'
  OBVIOUS
<1>1. CASE UNCHANGED <<flash, scratch>>
  BY <1>1 DEF PersistedSinceStride
<1>2. CASE EnterBootloader
  <2>1. flash'.next_block = 0
    BY <1>2, UpdateOKMeaning, BeginFlash DEF EnterBootloader, Safe
  <2> QED
    BY <2>1 DEF PersistedSinceStride
<1>3. ASSUME NEW requested, FlashResume(requested) PROVE PersistedSinceStride'
  <2>1. scratch \in ScratchRecord /\ flash \in FlashRecord
    BY <1>3, UpdateOKMeaning DEF FlashResume, Safe
  <2>2. /\ scratch # None /\ UNCHANGED scratch
        /\ flash'.session_id = scratch.session_id
        /\ flash'.next_block = scratch.next_block
        /\ scratch.next_block \in Nat
    BY <1>3, <2>1, RestoreFlash DEF FlashResume, ScratchRecord
  <2> QED
    BY <2>2 DEF PersistedSinceStride
<1>4. ASSUME NEW index, NEW payload \in Block, FlashBlock(index, payload)
      PROVE  PersistedSinceStride'
  <2>1. /\ flash.session_active /\ flash'.session_id = flash.session_id
        /\ flash.next_block \in Nat /\ flash'.next_block = flash.next_block + 1
    BY <1>4, BlockEffect
  <2>2. CASE flash'.next_block = 1 \/ flash'.next_block % PERSIST_STRIDE = 0
    <3>1. scratch' = resume_scratch_of(flash')
      BY <1>4, <2>2 DEF FlashBlock, maybe_persist_flash_resume_scratch
    <3>2. /\ scratch'.session_id = flash'.session_id
          /\ scratch'.next_block = flash'.next_block
          /\ scratch' \in ScratchRecord
      BY <1>4, <3>1, BlockEffect DEF resume_scratch_of, FlashRecord, ScratchRecord
    <3>3. scratch' # None
      BY <3>2, NoneAssumption
    <3>4. (scratch'.next_block + 1)..flash'.next_block = {}
      BY <2>1, <3>2
    <3> QED
      BY <2>1, <3>2, <3>3, <3>4 DEF PersistedSinceStride
  <2>3. CASE flash.next_block > 0 /\ flash'.next_block % PERSIST_STRIDE # 0
    <3>1. scratch' = scratch
      BY <1>4, <2>1, <2>3 DEF FlashBlock, maybe_persist_flash_resume_scratch
    <3>2. scratch # None /\ scratch.next_block \in Nat
      BY <2>1, <2>3, UpdateOKMeaning DEF PersistedSinceStride, ScratchRecord, Safe
    <3> QED
      BY <2>1, <2>3, <3>1, <3>2 DEF PersistedSinceStride
  <2> QED
    BY <2>1, <2>2, <2>3
<1>5. ASSUME NEW r \in VerifyRequest, FlashVerify(r) PROVE PersistedSinceStride'
  <2>1. /\ flash'.session_id = flash.session_id /\ flash'.next_block = flash.next_block
        /\ flash.session_active
        /\ UNCHANGED scratch
    BY <1>5, VerifyEffect DEF FlashVerify
  <2> QED
    BY <2>1 DEF PersistedSinceStride
<1>6. CASE FlashComplete
  BY <1>6, ResetFlash DEF FlashComplete, PersistedSinceStride
<1>7. CASE Reboot
  BY <1>7 DEF Reboot, NewFlash, PersistedSinceStride
<1> QED
  BY <1>1, <1>2, <1>3, <1>4, <1>5, <1>6, <1>7
     DEF Next, Resume, Receive, Verify, PacketWithoutEffect, ConfirmBootHealthy, Advance, vars

LEMMA PersistedBoundsLoss == Safe /\ PersistedSinceStride => ResumeLossBounded
<1> SUFFICES ASSUME Safe, PersistedSinceStride, flash.session_active, flash.next_block > 0
             PROVE  flash.next_block - scratch.next_block < PERSIST_STRIDE
  BY DEF ResumeLossBounded, PersistedSinceStride
<1>1. scratch.next_block \in Nat /\ flash.next_block \in Nat
  BY UpdateOKMeaning DEF PersistedSinceStride, Safe, ScratchRecord, FlashRecord
<1>2. ~ \E k \in (scratch.next_block + 1)..flash.next_block : k % PERSIST_STRIDE = 0
  BY DEF PersistedSinceStride
<1>3. PERSIST_STRIDE \in Nat \ {0}
  BY SizeAssumption
<1>4. ~ (flash.next_block - scratch.next_block >= PERSIST_STRIDE)
  BY <1>1, <1>2, <1>3, StrideInWindow, Zenon
<1> QED
  BY <1>1, <1>3, <1>4

\* A power loss costs fewer than PERSIST_STRIDE blocks, for every stride.
THEOREM PowerLossBounded == Spec => []ResumeLossBounded
<1>1. Init => PersistedSinceStride
  BY DEF Init, PersistedSinceStride, NewFlash
<1> QED
  BY <1>1, SafeInvariant, PersistedNext, PersistedBoundsLoss, PTL DEF Spec

-----------------------------------------------------------------------------
(* The health-window clock                                                   *)

LEMMA TimesMonotone ==
    ASSUME NEW a \in Nat, NEW b \in Nat, NEW d \in Nat, a <= b
    PROVE  a * d <= b * d
BY SMT

LEMMA TimesDistributes ==
    ASSUME NEW a \in Nat, NEW b \in Nat, NEW d \in Nat
    PROVE  (a + b) * d = a * d + b * d /\ a * d \in Nat /\ b * d \in Nat
BY SMT

\* The milliseconds charged to the window and the ticks not charged yet never
\* exceed the window's age, as long as the age is not capped.
Charged(u, age) ==
    u.state = "HealthWindow" =>
        \/ age = WindowTicks
        \/ (WINDOW_MS - u.remaining_ms) * TICKS_PER_MS + u.since_tick <= age

LEMMA TickCharges ==
    ASSUME Safe, Charged(upd, window_age)
    PROVE  /\ Charged(Ticked, window_age)
           /\ Ticked.rollbacks # upd.rollbacks => window_age = WindowTicks
<1>1. UpdateOK(upd) /\ window_age \in 0..WindowTicks
  BY UpdateOKMeaning DEF Safe
<1>2. CASE upd.state # "HealthWindow"
  BY <1>2, TickedFacts
<1>3. CASE upd.state = "HealthWindow"
  <2> DEFINE rem == upd.remaining_ms
             since == upd.since_tick
             e == elapsed_ms(upd)
             T == TICKS_PER_MS
             charged == WINDOW_MS - rem
  <2>1. /\ rem \in Nat /\ rem <= WINDOW_MS /\ since \in Nat /\ T \in Nat \ {0}
        /\ WINDOW_MS \in Nat /\ charged \in Nat /\ WINDOW_MS = charged + rem
        /\ since # None
    BY <1>1, <1>3, WindowTicksPositive, ClockAssumption DEF UpdateOK, UpdateRecord
  <2>2. e \in Nat /\ e * T <= since /\ e * T \in Nat
    <3>1. e = since \div T
      BY <2>1 DEF elapsed_ms
    <3>2. e \in Nat /\ e * T <= since
      BY <2>1, <3>1, DivFloor
    <3> QED
      BY <2>1, <3>2, TimesDistributes
  <2>3. charged * T \in Nat
    BY <2>1, TimesDistributes
  <2>4. window_age = WindowTicks \/ charged * T + since <= window_age
    BY <1>3 DEF Charged
  <2>5. CASE e = 0
    <3>1. Ticked = [upd EXCEPT !.since_tick = 0]
      BY <1>3, <2>5 DEF Ticked, tick_update_health_window
    <3>2. /\ Ticked.remaining_ms = rem /\ Ticked.since_tick = 0
          /\ Ticked.rollbacks = upd.rollbacks
      BY <1>1, <3>1 DEF UpdateOK, UpdateRecord
    <3> HIDE DEF rem, since, charged, T
    <3>3. window_age = WindowTicks \/ charged * T + 0 <= window_age
      BY <1>1, <2>1, <2>3, <2>4, WindowTicksPositive
    <3> QED
      BY <3>2, <3>3 DEF Charged, charged, T, rem
  <2>6. CASE e # 0 /\ e >= rem
    <3>1. Ticked = rollback_pending_update(upd)
      BY <1>3, <2>6 DEF Ticked, tick_update_health_window
    <3>2. Ticked.state = "RolledBack"
      BY <1>1, <3>1, RollbackOK
    <3>3. WindowTicks = charged * T + rem * T /\ rem * T \in Nat
      BY <2>1, TimesDistributes DEF WindowTicks
    <3>4. rem * T <= e * T
      BY <2>1, <2>2, <2>6, TimesMonotone
    <3> HIDE DEF rem, since, charged, T, e
    <3>5. window_age = WindowTicks
      BY <1>1, <2>1, <2>2, <2>3, <2>4, <3>3, <3>4, WindowTicksPositive
    <3> QED
      BY <3>2, <3>5 DEF Charged
  <2>7. CASE e # 0 /\ ~(e >= rem)
    <3>1. Ticked = [upd EXCEPT !.since_tick = 0, !.remaining_ms = @ - e]
      BY <1>3, <2>7 DEF Ticked, tick_update_health_window
    <3>2. /\ Ticked.remaining_ms = rem - e /\ Ticked.since_tick = 0
          /\ Ticked.rollbacks = upd.rollbacks
      BY <1>1, <3>1 DEF UpdateOK, UpdateRecord
    <3>3. WINDOW_MS - (rem - e) = charged + e
      BY <2>1, <2>2
    <3>4. (charged + e) * T = charged * T + e * T
      BY <2>1, <2>2, TimesDistributes
    <3> HIDE DEF rem, since, charged, T, e
    <3>5. window_age = WindowTicks \/ (charged + e) * T + 0 <= window_age
      BY <1>1, <2>1, <2>2, <2>3, <2>4, <3>4, WindowTicksPositive
    <3> QED
      BY <3>2, <3>3, <3>5 DEF Charged, T
  <2> QED
    BY <2>5, <2>6, <2>7
<1> QED
  BY <1>2, <1>3

\* A handler either leaves the window as the tick left it or is outside it.
LEMMA WindowEffect ==
    ASSUME Safe, [Next]_vars
    PROVE  \/ UNCHANGED <<upd, window_age>>
           \/ upd' = Ticked /\ TrackWindow
           \/ /\ upd'.state # "HealthWindow"
              /\ upd'.rollbacks = Ticked.rollbacks
              /\ upd'.state = "Committed" => Ticked.state = "HealthWindow"
           \/ /\ upd'.state = "HealthWindow" /\ upd.state # "HealthWindow"
              /\ upd'.remaining_ms = WINDOW_MS /\ upd'.since_tick = 0
              /\ upd'.rollbacks = upd.rollbacks
              /\ window_age' = 0
           \/ Advance
           \/ upd' = InitUpdate
<1>1. UpdateOK(upd) /\ UpdateOK(Ticked)
  BY UpdateOKMeaning, TickedFacts DEF Safe
<1>2. CASE UNCHANGED vars
  BY <1>2 DEF vars
<1>3. CASE PacketWithoutEffect
  BY <1>3 DEF PacketWithoutEffect
<1>4. CASE EnterBootloader
  <2>1. /\ upd' = restart_update(Ticked)
        /\ restart_update(Ticked).state = "Receiving"
        /\ restart_update(Ticked).rollbacks = Ticked.rollbacks
    BY <1>1, <1>4 DEF EnterBootloader, restart_update, UpdateOK, UpdateRecord
  <2> QED
    BY <2>1
<1>5. ASSUME NEW s \in {"Receiving", "Verified"}, upd' = [Ticked EXCEPT !.state = s]
      PROVE  /\ upd'.state # "HealthWindow" /\ upd'.state # "Committed"
             /\ upd'.rollbacks = Ticked.rollbacks
  BY <1>1, <1>5 DEF UpdateOK, UpdateRecord
<1>6. CASE Resume \/ Receive \/ Verify
  BY <1>5, <1>6 DEF Resume, Receive, Verify, FlashResume, FlashBlock, FlashVerify
<1>7. CASE FlashComplete
  <2>1. /\ Ticked = upd /\ upd.state # "HealthWindow"
        /\ upd' = begin_update_health_window(upd, Crc(flash.buffer), Len(flash.buffer))
        /\ TrackWindow
    BY <1>7, TickedFacts DEF FlashComplete
  <2>2. /\ upd'.state = "HealthWindow" /\ upd'.remaining_ms = WINDOW_MS
        /\ upd'.since_tick = 0 /\ upd'.rollbacks = upd.rollbacks
    BY <1>1, <2>1 DEF begin_update_health_window, UpdateOK, UpdateRecord
  <2> QED
    BY <2>1, <2>2 DEF TrackWindow
<1>8. CASE ConfirmBootHealthy
  <2>1. /\ Ticked.state = "HealthWindow" /\ upd' = confirm_pending_update(Ticked)
        /\ confirm_pending_update(Ticked).state = "Committed"
        /\ confirm_pending_update(Ticked).rollbacks = Ticked.rollbacks
    BY <1>1, <1>8 DEF ConfirmBootHealthy, confirm_pending_update, UpdateOK, UpdateRecord
  <2> QED
    BY <2>1
<1>9. CASE Reboot
  BY <1>9 DEF Reboot
<1> QED
  BY <1>2, <1>3, <1>4, <1>6, <1>7, <1>8, <1>9 DEF Next

LEMMA AdvanceEffect ==
    ASSUME Safe, Advance
    PROVE  /\ upd.state = "HealthWindow" /\ upd'.state = "HealthWindow"
           /\ upd'.remaining_ms = upd.remaining_ms
           /\ upd'.rollbacks = upd.rollbacks
           /\ upd.since_tick \in 0..WindowTicks
           /\ upd'.since_tick = AgeOneTick(upd.since_tick)
           /\ window_age' = AgeOneTick(window_age)
<1>1. UpdateOK(upd)
  BY UpdateOKMeaning DEF Safe
<1> QED
  BY <1>1 DEF Advance, UpdateOK, UpdateRecord

LEMMA ChargedNext ==
    Safe /\ Charged(upd, window_age) /\ [Next]_vars => Charged(upd, window_age)'
<1> SUFFICES ASSUME Safe, Charged(upd, window_age), [Next]_vars
             PROVE  Charged(upd', window_age')
  BY DEF Charged
<1>1. UpdateOK(upd) /\ UpdateOK(Ticked) /\ window_age \in 0..WindowTicks
  BY UpdateOKMeaning, TickedFacts DEF Safe
<1>2. CASE upd' = Ticked /\ TrackWindow
  <2>1. Charged(Ticked, window_age)
    BY TickCharges
  <2>2. Ticked.state = "HealthWindow" => window_age' = window_age
    BY <1>2, TickedFacts DEF TrackWindow
  <2> QED
    BY <1>2, <2>1, <2>2 DEF Charged
<1>3. CASE /\ upd'.remaining_ms = WINDOW_MS /\ upd'.since_tick = 0
           /\ window_age' = 0
  <2>1. (WINDOW_MS - WINDOW_MS) * TICKS_PER_MS + 0 <= 0
    BY ClockAssumption
  <2> QED
    BY <1>3, <2>1 DEF Charged
<1>4. CASE Advance
  <2> DEFINE paid == (WINDOW_MS - upd.remaining_ms) * TICKS_PER_MS
  <2>1. paid \in Nat
    <3>1. WINDOW_MS - upd.remaining_ms \in Nat
      BY <1>1, ClockAssumption DEF UpdateOK, UpdateRecord
    <3> QED
      BY <3>1, TimesDistributes, ClockAssumption
  <2>2. window_age = WindowTicks \/ paid + upd.since_tick <= window_age
    BY <1>4, AdvanceEffect DEF Charged
  <2> HIDE DEF paid
  <2>3. window_age' = WindowTicks \/ paid + upd'.since_tick <= window_age'
    BY <1>1, <1>4, <2>1, <2>2, AdvanceEffect, WindowTicksPositive DEF AgeOneTick, SatInc
  <2> QED
    BY <1>4, <2>3, AdvanceEffect DEF Charged, paid
<1>5. CASE upd'.state # "HealthWindow"
  BY <1>5 DEF Charged
<1>6. CASE UNCHANGED <<upd, window_age>>
  BY <1>6 DEF Charged
<1> QED
  BY <1>2, <1>3, <1>4, <1>5, <1>6, WindowEffect, InitUpdateOK

\* No health window is rolled back before its full length has passed, for
\* every window length and clock resolution: truncation never charges early.
THEOREM RollbackIsNotEarly == Spec => RollbackNotEarly
<1>1. Init => Charged(upd, window_age)
  BY InitUpdateOK DEF Init, Charged
<1>2. ASSUME Safe, Charged(upd, window_age), [Next]_vars
      PROVE  [upd'.rollbacks > upd.rollbacks => window_age >= WindowTicks]_vars
  <2>1. SUFFICES ASSUME upd'.rollbacks > upd.rollbacks PROVE window_age >= WindowTicks
    OBVIOUS
  <2>2. upd.rollbacks \in Nat
    <3>1. upd.rollbacks \in 0..ROLLBACK_MAX
      BY <1>2, UpdateOKMeaning DEF Safe, UpdateOK, UpdateRecord
    <3> QED
      BY <3>1, RollbackAssumption
  <2>3. upd'.rollbacks # upd.rollbacks
    BY <2>1, <2>2
  <2>4. upd' # InitUpdate
    BY <2>1, <2>2 DEF InitUpdate
  <2>5. Ticked.rollbacks # upd.rollbacks
    BY <1>2, <2>3, <2>4, WindowEffect, AdvanceEffect
  <2> QED
    BY <1>2, <2>5, TickCharges, WindowTicksPositive
<1> QED
  BY <1>1, <1>2, SafeInvariant, ChargedNext, PTL DEF Spec, RollbackNotEarly

-----------------------------------------------------------------------------
(* The update handlers implement the life cycle                              *)

\* What the life cycle sees of an update record.
Seen(u) ==
    << PhaseOf(u.state), u.active_bank, u.pending_bank,
       IF u.candidate_crc = None THEN None ELSE <<u.candidate_crc, u.candidate_size>>,
       u.rollbacks >>

LEMMA TickSeen ==
    ASSUME Safe
    PROVE  \/ Seen(Ticked) = Seen(upd) /\ Ticked.state = upd.state
           \/ /\ upd.state = "HealthWindow" /\ Ticked.state = "RolledBack"
              /\ Ticked.active_bank = upd.active_bank
              /\ Ticked.pending_bank = None
              /\ Ticked.candidate_crc = upd.candidate_crc
              /\ Ticked.candidate_size = upd.candidate_size
              /\ Ticked.rollbacks = SatInc(upd.rollbacks, ROLLBACK_MAX)
<1>1. UpdateOK(upd)
  BY UpdateOKMeaning DEF Safe
<1>2. CASE Ticked = upd
  BY <1>2
<1>3. CASE Ticked = [upd EXCEPT !.since_tick = 0]
  <2>1. /\ Ticked.state = upd.state /\ Ticked.active_bank = upd.active_bank
        /\ Ticked.pending_bank = upd.pending_bank
        /\ Ticked.candidate_crc = upd.candidate_crc
        /\ Ticked.candidate_size = upd.candidate_size
        /\ Ticked.rollbacks = upd.rollbacks
    BY <1>1, <1>3 DEF UpdateOK, UpdateRecord
  <2> QED
    BY <2>1 DEF Seen
<1>4. CASE Ticked = [upd EXCEPT !.since_tick = 0, !.remaining_ms = @ - elapsed_ms(upd)]
  <2>1. /\ Ticked.state = upd.state /\ Ticked.active_bank = upd.active_bank
        /\ Ticked.pending_bank = upd.pending_bank
        /\ Ticked.candidate_crc = upd.candidate_crc
        /\ Ticked.candidate_size = upd.candidate_size
        /\ Ticked.rollbacks = upd.rollbacks
    BY <1>1, <1>4 DEF UpdateOK, UpdateRecord
  <2> QED
    BY <2>1 DEF Seen
<1>5. CASE upd.state = "HealthWindow" /\ Ticked = rollback_pending_update(upd)
  <2>1. upd.active_bank = upd.last_good_bank
    BY <1>1 DEF UpdateOK
  <2> QED
    BY <1>1, <1>5, <2>1 DEF rollback_pending_update, UpdateOK, UpdateRecord
<1> QED
  BY <1>2, <1>3, <1>4, <1>5 DEF Ticked, tick_update_health_window

LEMMA RollbacksCounted ==
    ASSUME Safe
    PROVE  SatInc(upd.rollbacks, ROLLBACK_MAX) =
             (IF upd.rollbacks < ROLLBACK_MAX THEN upd.rollbacks + 1 ELSE upd.rollbacks)
<1>1. upd.rollbacks \in 0..ROLLBACK_MAX
  BY UpdateOKMeaning DEF Safe, UpdateOK, UpdateRecord
<1> QED
  BY <1>1, RollbackAssumption DEF SatInc

LEMMA PacketImplements ==
    Safe /\ upd' = Ticked => [Lifecycle!LifecycleNext]_(Lifecycle!lifecycle)
<1> SUFFICES ASSUME Safe, upd' = Ticked
             PROVE  [Lifecycle!LifecycleNext]_(Lifecycle!lifecycle)
  OBVIOUS
<1>1. CASE Seen(Ticked) = Seen(upd)
  BY <1>1 DEF Lifecycle!lifecycle, Seen
<1>2. CASE /\ upd.state = "HealthWindow" /\ Ticked.state = "RolledBack"
           /\ Ticked.active_bank = upd.active_bank
           /\ Ticked.pending_bank = None
           /\ Ticked.candidate_crc = upd.candidate_crc
           /\ Ticked.candidate_size = upd.candidate_size
           /\ Ticked.rollbacks = SatInc(upd.rollbacks, ROLLBACK_MAX)
  <2>1. PhaseOf(upd.state) = "Trial" /\ PhaseOf(upd'.state) = "RolledBack"
    BY <1>2 DEF PhaseOf
  <2>2. Lifecycle!CountedRollback
    BY <1>2, RollbacksCounted DEF Lifecycle!CountedRollback
  <2>3. Lifecycle!RollBack
    BY <1>2, <2>1, <2>2 DEF Lifecycle!RollBack
  <2> QED
    BY <2>3 DEF Lifecycle!LifecycleNext
<1> QED
  BY <1>1, <1>2, TickSeen

LEMMA EnterImplements ==
    Safe /\ EnterBootloader => [Lifecycle!LifecycleNext]_(Lifecycle!lifecycle)
<1> SUFFICES ASSUME Safe, EnterBootloader
             PROVE  [Lifecycle!LifecycleNext]_(Lifecycle!lifecycle)
  OBVIOUS
<1>1. /\ upd'.state = "Receiving" /\ upd'.pending_bank = None
      /\ upd'.candidate_crc = None
      /\ upd'.active_bank = Ticked.active_bank
      /\ upd'.rollbacks = Ticked.rollbacks
  BY TickedFacts DEF EnterBootloader, restart_update, UpdateOK, UpdateRecord
<1>2. CASE Seen(Ticked) = Seen(upd)
  <2>1. Ticked.active_bank = upd.active_bank /\ Ticked.rollbacks = upd.rollbacks
    BY <1>2 DEF Seen
  <2>2. Lifecycle!OpenTransfer
    BY <1>1, <2>1 DEF Lifecycle!OpenTransfer, PhaseOf
  <2> QED
    BY <2>2 DEF Lifecycle!LifecycleNext
<1>3. CASE /\ upd.state = "HealthWindow"
           /\ Ticked.active_bank = upd.active_bank
           /\ Ticked.rollbacks = SatInc(upd.rollbacks, ROLLBACK_MAX)
  <2>1. PhaseOf(upd.state) = "Trial" /\ PhaseOf(upd'.state) = "Transfer"
    BY <1>1, <1>3 DEF PhaseOf
  <2>2. Lifecycle!CountedRollback
    BY <1>1, <1>3, RollbacksCounted DEF Lifecycle!CountedRollback
  <2>3. Lifecycle!RollBackAndOpenTransfer
    BY <1>1, <2>1, <2>2 DEF Lifecycle!RollBackAndOpenTransfer
  <2> QED
    BY <2>3 DEF Lifecycle!LifecycleNext
<1> QED
  BY <1>2, <1>3, TickSeen

LEMMA TransferImplements ==
    Safe /\ (Resume \/ Receive \/ Verify) => [Lifecycle!LifecycleNext]_(Lifecycle!lifecycle)
<1> SUFFICES ASSUME Safe, Resume \/ Receive \/ Verify
             PROVE  UNCHANGED Lifecycle!lifecycle
  OBVIOUS
<1>1. UpdateOK(upd) /\ upd.state \in {"Receiving", "Verified"} /\ Ticked = upd
  BY UpdateOKMeaning, TickedFacts
     DEF Safe, Resume, Receive, Verify, FlashResume, FlashBlock, FlashVerify, VerifyAccepts
<1>2. \E s \in {"Receiving", "Verified"} : upd' = [upd EXCEPT !.state = s]
  BY <1>1 DEF Resume, Receive, Verify, FlashResume, FlashBlock, FlashVerify
<1>3. /\ upd'.state \in {"Receiving", "Verified"}
      /\ upd'.active_bank = upd.active_bank /\ upd'.pending_bank = upd.pending_bank
      /\ upd'.candidate_crc = upd.candidate_crc
      /\ upd'.candidate_size = upd.candidate_size
      /\ upd'.rollbacks = upd.rollbacks
  BY <1>1, <1>2 DEF UpdateOK, UpdateRecord
<1> QED
  BY <1>1, <1>3 DEF Lifecycle!lifecycle, PhaseOf

LEMMA CompleteImplements ==
    Safe /\ FlashComplete => [Lifecycle!LifecycleNext]_(Lifecycle!lifecycle)
<1> SUFFICES ASSUME Safe, FlashComplete PROVE Lifecycle!StartTrial
  BY DEF Lifecycle!LifecycleNext
<1>1. UpdateOK(upd) /\ upd.state \in {"Receiving", "Verified"} /\ Ticked = upd
  BY UpdateOKMeaning, TickedFacts DEF Safe, FlashComplete
<1>2. flash.buffer \in Image /\ Approvable(flash.buffer) /\ Len(flash.buffer) <= BUFFER_MAX
  BY UpdateOKMeaning
     DEF FlashComplete, Safe, VerifiedImageApproved, BlocksMatchBytes, FlashRecord
<1>3. flash.buffer # <<>>
  BY <1>2 DEF Approvable, Blank
<1>4. /\ flash.buffer \in StorableImage
      /\ Crc(flash.buffer) \in Nat /\ Crc(flash.buffer) # None
      /\ <<Crc(flash.buffer), Len(flash.buffer)>> \in ApprovedDescriptor
  BY <1>2, <1>3, StorableFacts, NoneAssumption DEF ApprovedDescriptor
<1>5. /\ upd'.state = "HealthWindow"
      /\ upd'.active_bank = upd.active_bank
      /\ upd'.pending_bank = next_update_bank(upd)
      /\ upd'.candidate_crc = Crc(flash.buffer)
      /\ upd'.candidate_size = Len(flash.buffer)
      /\ upd'.rollbacks = upd.rollbacks
  BY <1>1 DEF FlashComplete, begin_update_health_window, UpdateOK, UpdateRecord
<1> QED
  BY <1>1, <1>4, <1>5
     DEF Lifecycle!StartTrial, Lifecycle!OtherBank, PhaseOf, next_update_bank, BankA, BankB

LEMMA ConfirmImplements ==
    Safe /\ ConfirmBootHealthy => [Lifecycle!LifecycleNext]_(Lifecycle!lifecycle)
<1> SUFFICES ASSUME Safe, ConfirmBootHealthy PROVE Lifecycle!Commit
  BY DEF Lifecycle!LifecycleNext
<1>1. UpdateOK(Ticked) /\ Ticked.state = "HealthWindow"
  BY TickedFacts DEF ConfirmBootHealthy
<1>2. upd.state = "HealthWindow" /\ Seen(Ticked) = Seen(upd)
  BY <1>1, TickSeen
<1>3. /\ upd'.state = "Committed"
      /\ upd'.active_bank = Ticked.pending_bank /\ upd'.pending_bank = None
      /\ upd'.candidate_crc = Ticked.candidate_crc
      /\ upd'.candidate_size = Ticked.candidate_size
      /\ upd'.rollbacks = Ticked.rollbacks
  BY <1>1 DEF ConfirmBootHealthy, confirm_pending_update, UpdateOK, UpdateRecord
<1>4. /\ Ticked.pending_bank = upd.pending_bank /\ Ticked.rollbacks = upd.rollbacks
      /\ Ticked.candidate_crc = upd.candidate_crc
      /\ Ticked.candidate_size = upd.candidate_size
  BY <1>2, TickedFacts DEF Seen
<1> QED
  BY <1>2, <1>3, <1>4 DEF Lifecycle!Commit, PhaseOf

LEMMA OtherImplements ==
    Safe /\ (Advance \/ Reboot \/ UNCHANGED vars)
        => [Lifecycle!LifecycleNext]_(Lifecycle!lifecycle)
<1> SUFFICES ASSUME Safe, Advance \/ Reboot \/ UNCHANGED vars
             PROVE  [Lifecycle!LifecycleNext]_(Lifecycle!lifecycle)
  OBVIOUS
<1>1. CASE Advance
  <2>1. UpdateOK(upd)
    BY UpdateOKMeaning DEF Safe
  <2>2. /\ upd'.state = upd.state /\ upd'.active_bank = upd.active_bank
        /\ upd'.pending_bank = upd.pending_bank
        /\ upd'.candidate_crc = upd.candidate_crc
        /\ upd'.candidate_size = upd.candidate_size
        /\ upd'.rollbacks = upd.rollbacks
    BY <1>1, <2>1 DEF Advance, UpdateOK, UpdateRecord
  <2> QED
    BY <2>2 DEF Lifecycle!lifecycle
<1>2. CASE Reboot
  <2>1. Lifecycle!Restart
    BY <1>2 DEF Reboot, InitUpdate, Lifecycle!Restart, PhaseOf, BankA
  <2> QED
    BY <2>1 DEF Lifecycle!LifecycleNext
<1>3. CASE UNCHANGED vars
  BY <1>3 DEF vars, Lifecycle!lifecycle
<1> QED
  BY <1>1, <1>2, <1>3

\* The update handlers implement the life cycle: the running bank changes only
\* by a confirmed trial of an approved image, and every rollback is counted.
THEOREM UpdateImplementsLifecycle == Spec => ImplementsLifecycle
<1>1. Init => Lifecycle!LifecycleInit
  BY DEF Init, InitUpdate, Lifecycle!LifecycleInit, PhaseOf, BankA
<1>2. Safe /\ [Next]_vars => [Lifecycle!LifecycleNext]_(Lifecycle!lifecycle)
  BY PacketImplements, EnterImplements, TransferImplements, CompleteImplements,
     ConfirmImplements, OtherImplements DEF Next, PacketWithoutEffect
<1> QED
  BY <1>1, <1>2, SafeInvariant, PTL DEF Spec, ImplementsLifecycle, Lifecycle!LifecycleSpec

----------------------------------------------------------------------------
(* The composed runtime: it opens a session only for a fresh answer, and a *)
(* challenge ends with the session it was asked for in.                    *)

LEMMA SessionStep ==
    [SessionNext]_allVars => [Next]_vars /\ [Auth!AuthNext]_(Auth!authVars)
<1> SUFFICES ASSUME [SessionNext]_allVars
             PROVE  [Next]_vars /\ [Auth!AuthNext]_(Auth!authVars)
  OBVIOUS
<1>1. CASE AuthenticatedEnter
  BY <1>1 DEF AuthenticatedEnter, Next, Auth!AuthNext
<1>2. CASE RefusedEnter
  BY <1>2 DEF RefusedEnter, Next, Auth!AuthNext
<1>3. CASE CompleteAndDropChallenge
  BY <1>3 DEF CompleteAndDropChallenge, Next, Auth!AuthNext
<1>4. CASE OtherPacket
  BY <1>4 DEF OtherPacket, Next, authVars, Auth!authVars
<1>5. CASE Clock
  BY <1>5 DEF Clock, Next, Auth!AuthNext
<1>6. CASE Restart
  BY <1>6 DEF Restart, Next, Auth!AuthNext
<1>7. CASE UNCHANGED allVars
  BY <1>7 DEF allVars, authVars, Auth!authVars
<1> QED
  BY <1>1, <1>2, <1>3, <1>4, <1>5, <1>6, <1>7 DEF SessionNext

\* So the invariants of each part carry over.
LEMMA SessionProjects == SessionSpec => Spec /\ Auth!AuthSpec
BY SessionStep, PTL DEF SessionSpec, SessionInit, Spec, Auth!AuthSpec

-----------------------------------------------------------------------------
(* The authentication invariant carries over                                 *)

AuthProofs == INSTANCE BootloaderAuthProofs

LEMMA SameAuth ==
    /\ AuthProofs!AuthInit <=> Auth!AuthInit
    /\ AuthProofs!AuthNext <=> Auth!AuthNext
    /\ AuthProofs!ChallengeAnsweredOnce <=> Auth!ChallengeAnsweredOnce
    /\ AuthProofs!AuthTypeOK <=> Auth!AuthTypeOK
    /\ AuthProofs!authVars = Auth!authVars
<1>1. AuthProofs!AuthInit <=> Auth!AuthInit
  BY DEF Auth!AuthInit, AuthProofs!AuthInit, Auth!InitAuth, AuthProofs!InitAuth
<1>2. AuthProofs!AuthNext <=> Auth!AuthNext
  BY DEF Auth!AuthNext, AuthProofs!AuthNext, Auth!RequestChallenge,
         AuthProofs!RequestChallenge, Auth!RefuseUnread, AuthProofs!RefuseUnread,
         Auth!AnswerMalformed, AuthProofs!AnswerMalformed, Auth!AnswerUnasked,
         AuthProofs!AnswerUnasked, Auth!Wrong, AuthProofs!Wrong, Auth!AnswerWrong,
         AuthProofs!AnswerWrong, Auth!Right, AuthProofs!Right, Auth!AnswerRight,
         AuthProofs!AnswerRight, Auth!DropChallenge, AuthProofs!DropChallenge,
         Auth!AuthReboot, AuthProofs!AuthReboot, Auth!TimePasses, AuthProofs!TimePasses,
         Auth!MayAnswer, AuthProofs!MayAnswer, Auth!NewFailure, AuthProofs!NewFailure,
         Auth!Refreshed, AuthProofs!Refreshed, Auth!NextChallenge,
         AuthProofs!NextChallenge, Auth!Challenge, AuthProofs!Challenge, Auth!Span,
         AuthProofs!Span, Auth!InitAuth, AuthProofs!InitAuth, Auth!CappedInc,
         AuthProofs!CappedInc, Auth!refresh_bootloader_auth_window,
         AuthProofs!refresh_bootloader_auth_window, Auth!is_locked,
         AuthProofs!is_locked, Auth!is_rate_limited, AuthProofs!is_rate_limited,
         Auth!record_failure, AuthProofs!record_failure, Auth!record_success,
         AuthProofs!record_success
<1>3. AuthProofs!ChallengeAnsweredOnce <=> Auth!ChallengeAnsweredOnce
  BY DEF Auth!ChallengeAnsweredOnce, AuthProofs!ChallengeAnsweredOnce
<1>4. AuthProofs!authVars = Auth!authVars
  BY DEF Auth!authVars, AuthProofs!authVars
<1>5. AuthProofs!AuthTypeOK <=> Auth!AuthTypeOK
  BY DEF Auth!AuthTypeOK, AuthProofs!AuthTypeOK, Auth!Challenge, AuthProofs!Challenge,
         Auth!Span, AuthProofs!Span
<1> QED
  BY <1>1, <1>2, <1>3, <1>4, <1>5

\* The type of the auth record, what the refresh needs to know of it, and the
\* freshness of the pending challenge.
SessionAuth ==
    /\ Auth!AuthTypeOK
    /\ auth.pending_challenge = Auth!Refreshed.pending_challenge
    /\ Auth!ChallengeAnsweredOnce

LEMMA SessionAuthInvariant == SessionSpec => []SessionAuth
<1>1. AuthProofs!AuthAssumption /\ AuthProofs!AuthNoneAssumption
  BY SessionAuthAssumption
     DEF Auth!AuthAssumption, AuthProofs!AuthAssumption, Auth!AuthNoneAssumption,
         AuthProofs!AuthNoneAssumption
<1>2. AuthProofs!AuthSpec => []AuthProofs!AuthSafe
  BY <1>1, AuthProofs!AuthSafeInvariant
<1>3. [Auth!AuthNext]_(Auth!authVars) => [AuthProofs!AuthNext]_(AuthProofs!authVars)
  BY SameAuth DEF Auth!authVars, AuthProofs!authVars
<1>4. AuthProofs!AuthSafe => SessionAuth
  <2> SUFFICES ASSUME AuthProofs!AuthSafe PROVE SessionAuth
    OBVIOUS
  <2>1. AuthProofs!Refreshed.pending_challenge = auth.pending_challenge
    BY <1>1, AuthProofs!RefreshedFacts
  <2>2. AuthProofs!Refreshed = Auth!Refreshed
    BY DEF AuthProofs!Refreshed, Auth!Refreshed, Auth!refresh_bootloader_auth_window,
           AuthProofs!refresh_bootloader_auth_window
  <2> QED
    BY <2>1, <2>2, SameAuth DEF SessionAuth, AuthProofs!AuthSafe
<1> QED
  BY <1>2, <1>3, <1>4, SameAuth, SessionProjects, PTL
     DEF Auth!AuthSpec, AuthProofs!AuthSpec

-----------------------------------------------------------------------------
(* Who may open a session                                                    *)

\* Nothing but EnterBootloader hands out a session id; a restart never
\* resumes above the ids handed out.
LEMMA OnlyEnterCounts ==
    ASSUME Safe, IdsBelowCounter,
           \/ PacketWithoutEffect \/ Resume \/ Receive \/ Verify \/ FlashComplete
           \/ ConfirmBootHealthy \/ Advance \/ Reboot \/ UNCHANGED vars
    PROVE  ~(flash'.session_counter > flash.session_counter)
<1>1. /\ flash \in FlashRecord /\ flash.session_counter \in Nat
      /\ scratch # None => scratch \in ScratchRecord /\ scratch.session_id \in Nat
  BY UpdateOKMeaning DEF Safe, FlashRecord, ScratchRecord
<1>2. CASE UNCHANGED flash
  BY <1>1, <1>2
<1>3. CASE Resume
  <2>1. PICK requested : FlashResume(requested)
    BY <1>3 DEF Resume
  <2>2. flash'.session_counter = flash.session_counter
    BY <1>1, <2>1, RestoreFlash DEF FlashResume
  <2> QED
    BY <1>1, <2>2
<1>4. CASE Receive
  <2>1. PICK index \in 0..BUFFER_MAX, payload \in Block : FlashBlock(index, payload)
    BY <1>4 DEF Receive
  <2>2. flash'.session_counter = flash.session_counter
    BY <2>1, BlockEffect
  <2> QED
    BY <1>1, <2>2
<1>5. CASE Verify
  <2>1. PICK r \in VerifyRequest : FlashVerify(r)
    BY <1>5 DEF Verify
  <2>2. flash'.session_counter = flash.session_counter
    BY <2>1, VerifyEffect
  <2> QED
    BY <1>1, <2>2
<1>6. CASE FlashComplete
  <2>1. flash'.session_counter = flash.session_counter
    BY <1>6, ResetFlash DEF FlashComplete
  <2> QED
    BY <1>1, <2>1
<1>7. CASE Reboot
  <2>1. flash'.session_counter = IF scratch = None THEN 0 ELSE scratch.session_id
    BY <1>7 DEF Reboot, NewFlash
  <2> QED
    BY <1>1, <2>1 DEF IdsBelowCounter
<1> QED
  BY <1>2, <1>3, <1>4, <1>5, <1>6, <1>7
     DEF PacketWithoutEffect, ConfirmBootHealthy, Advance, vars

LEMMA RightIsFresh ==
    ASSUME SessionAuth, Auth!Right
    PROVE  /\ auth.pending_challenge = latest
           /\ latest \notin spent
           /\ ~Auth!is_locked(auth)
           /\ auth' = Auth!InitAuth
<1>1. /\ Auth!Refreshed.pending_challenge # None
      /\ ~Auth!is_locked(Auth!Refreshed)
      /\ auth' = Auth!InitAuth
  BY DEF Auth!Right, Auth!AnswerRight, Auth!MayAnswer, Auth!record_success
<1>2. ~Auth!is_locked(auth)
  BY <1>1 DEF Auth!is_locked, Auth!Refreshed, Auth!refresh_bootloader_auth_window
<1> QED
  BY <1>1, <1>2 DEF SessionAuth, Auth!ChallengeAnsweredOnce

\* A new session id is handed out only to the right answer to a pending, fresh
\* challenge outside a lockout, and leaves the authentication clean.
THEOREM SessionIsAuthenticated == SessionSpec => SessionNeedsFreshAnswer
<1>1. ASSUME Safe, IdsBelowCounter, SessionAuth, [SessionNext]_allVars
      PROVE  [ flash'.session_counter > flash.session_counter =>
                 /\ auth.pending_challenge = latest
                 /\ latest \notin spent
                 /\ ~Auth!is_locked(auth)
                 /\ auth' = Auth!InitAuth ]_allVars
  <2>1. CASE AuthenticatedEnter
    BY <1>1, <2>1, RightIsFresh DEF AuthenticatedEnter
  <2>2. CASE RefusedEnter \/ CompleteAndDropChallenge \/ OtherPacket \/ Clock \/ Restart
    <3>1. ~(flash'.session_counter > flash.session_counter)
      BY <1>1, <2>2, OnlyEnterCounts
         DEF RefusedEnter, CompleteAndDropChallenge, OtherPacket, Clock, Restart
    <3> QED
      BY <3>1
  <2>3. CASE UNCHANGED allVars
    BY <2>3
  <2> QED
    BY <1>1, <2>1, <2>2, <2>3 DEF SessionNext
<1> QED
  BY <1>1, SessionProjects, SafeInvariant, ApartInvariant, SessionAuthInvariant, PTL
     DEF SessionSpec, SessionNeedsFreshAnswer, Apart

-----------------------------------------------------------------------------
(* A challenge ends with the session it was asked for in                     *)

\* What a refused EnterBootloader does to the pending challenge.
LEMMA RefusedChallenge ==
    ASSUME SessionAuth,
           \/ Auth!RequestChallenge \/ Auth!RefuseUnread \/ Auth!AnswerMalformed
           \/ Auth!AnswerUnasked \/ Auth!Wrong
    PROVE  \/ latest' # latest
           \/ auth'.pending_challenge = None
           \/ auth'.pending_challenge = auth.pending_challenge
<1> DEFINE AuthRecord == [ pending_challenge : Auth!Challenge \cup {None},
                           since_attempt     : 0..RETRY \cup {None},
                           failed_attempts   : 0..LOCKOUT_AFTER,
                           lockout_left      : 0..LOCKOUT \cup {None} ]
<1>1. auth \in AuthRecord /\ latest \in Auth!Challenge
  BY DEF SessionAuth, Auth!AuthTypeOK
<1>2. Auth!Refreshed.pending_challenge = auth.pending_challenge
  BY DEF SessionAuth
<1>3. /\ DOMAIN Auth!Refreshed = DOMAIN auth
      /\ Auth!Refreshed = [x \in DOMAIN auth |-> Auth!Refreshed[x]]
      /\ "pending_challenge" \in DOMAIN auth
  BY <1>1 DEF Auth!Refreshed, Auth!refresh_bootloader_auth_window
<1>4. CASE Auth!RequestChallenge
  <2>1. latest' = (latest + 1) % Challenges
    BY <1>4 DEF Auth!RequestChallenge, Auth!NextChallenge
  <2>2. latest \in 0..(Challenges - 1) /\ Challenges \in Nat /\ Challenges >= 2
    BY <1>1, SessionAuthAssumption DEF Auth!Challenge, Auth!AuthAssumption
  <2>3. (latest + 1) % Challenges # latest
    <3>1. CASE latest + 1 < Challenges
      BY <2>2, <3>1
    <3>2. CASE latest + 1 = Challenges
      BY <2>2, <3>2
    <3> QED
      BY <2>2, <3>1, <3>2
  <2> QED
    BY <2>1, <2>3
<1>5. CASE Auth!RefuseUnread
  BY <1>2, <1>5 DEF Auth!RefuseUnread
<1>6. CASE Auth!AnswerMalformed \/ Auth!AnswerUnasked
  <2>1. auth' = Auth!record_failure(Auth!Refreshed)
    BY <1>6 DEF Auth!AnswerMalformed, Auth!AnswerUnasked
  <2> QED
    BY <1>2, <1>3, <2>1 DEF Auth!record_failure
<1>7. CASE Auth!Wrong
  <2>1. auth' = Auth!record_failure([Auth!Refreshed EXCEPT !.pending_challenge = None])
    BY <1>7 DEF Auth!Wrong, Auth!AnswerWrong
  <2> QED
    BY <1>3, <2>1 DEF Auth!record_failure
<1> QED
  BY <1>4, <1>5, <1>6, <1>7

\* Only EnterBootloader, FlashComplete and a restart open or close a transfer,
\* and only FlashComplete opens a health window.
LEMMA PhaseKept ==
    ASSUME Safe,
           \/ PacketWithoutEffect \/ Resume \/ Receive \/ Verify \/ ConfirmBootHealthy
           \/ Advance \/ UNCHANGED vars
    PROVE  /\ flash'.session_active = flash.session_active
           /\ upd'.state = "HealthWindow" => upd.state = "HealthWindow"
<1>1. upd'.state = "HealthWindow" => upd.state = "HealthWindow"
  <2>1. UpdateOK(Ticked)
    BY TickedFacts
  <2>2. CASE PacketWithoutEffect
    BY <2>2, TickedFacts DEF PacketWithoutEffect
  <2>3. ASSUME NEW phase \in {"Receiving", "Verified"}, upd' = [Ticked EXCEPT !.state = phase]
        PROVE  upd'.state # "HealthWindow"
    BY <2>1, <2>3 DEF UpdateOK, UpdateRecord
  <2>4. CASE Resume \/ Receive \/ Verify
    BY <2>3, <2>4 DEF Resume, Receive, Verify, FlashResume, FlashBlock, FlashVerify
  <2>5. CASE ConfirmBootHealthy
    BY <2>1, <2>5 DEF ConfirmBootHealthy, confirm_pending_update, UpdateOK, UpdateRecord
  <2>6. CASE Advance
    BY <2>6, AdvanceEffect
  <2> QED
    BY <2>2, <2>4, <2>5, <2>6 DEF vars
<1>2. flash'.session_active = flash.session_active
  <2>1. CASE Resume
    <3>1. PICK requested : FlashResume(requested)
      BY <2>1 DEF Resume
    <3>2. flash \in FlashRecord /\ scratch \in ScratchRecord
      BY <3>1, UpdateOKMeaning DEF Safe, FlashResume
    <3>3. flash'.session_active
      BY <3>1, <3>2, RestoreFlash DEF FlashResume
    <3>4. flash.session_active
      BY <3>1 DEF FlashResume
    <3>5. flash' \in FlashRecord
      BY <3>1, <3>2, RestoreFlash DEF FlashResume
    <3> QED
      BY <3>2, <3>3, <3>4, <3>5, Zenon DEF FlashRecord
  <2>2. CASE Receive
    <3>1. PICK index \in 0..BUFFER_MAX, payload \in Block : FlashBlock(index, payload)
      BY <2>2 DEF Receive
    <3>2. flash' \in FlashRecord /\ flash'.session_active /\ flash.session_active
      BY <3>1, BlockEffect
    <3>3. flash \in FlashRecord
      BY UpdateOKMeaning DEF Safe
    <3> QED
      BY <3>2, <3>3 DEF FlashRecord
  <2>3. CASE Verify
    <3>1. PICK r \in VerifyRequest : FlashVerify(r)
      BY <2>3 DEF Verify
    <3>2. flash' \in FlashRecord /\ flash'.session_active /\ flash.session_active
      BY <3>1, VerifyEffect
    <3>3. flash \in FlashRecord
      BY UpdateOKMeaning DEF Safe
    <3> QED
      BY <3>2, <3>3 DEF FlashRecord
  <2> QED
    BY <2>1, <2>2, <2>3 DEF PacketWithoutEffect, ConfirmBootHealthy, Advance, vars
<1> QED
  BY <1>1, <1>2

\* The phase of the update that the history names is the one the transfer and
\* the health window show.
LEMMA PhaseMeaning ==
    ASSUME NEW open, NEW state \in FirmwareUpdateState,
           open <=> state \in {"Receiving", "Verified"}
    PROVE  /\ open <=> PhaseOf(state) = "Transfer"
           /\ state = "HealthWindow" => PhaseOf(state) = "Trial"
  BY DEF PhaseOf, FirmwareUpdateState

\* Without an answer, the end of a session or a restart, the pending challenge
\* is as old as it was, or is asked for now.
LEMMA ChallengeKept ==
    ASSUME Safe, Safe', SessionAuth, ChallengeEndsWithSession,
           RefusedEnter \/ OtherPacket \/ Clock \/ UNCHANGED allVars
    PROVE  ChallengeEndsWithSession'
<1>1. /\ flash'.session_active = flash.session_active
      /\ upd'.state = "HealthWindow" => upd.state = "HealthWindow"
  BY PhaseKept DEF RefusedEnter, OtherPacket, Clock, allVars
<1>2. CASE asked' = asked /\ auth'.pending_challenge = auth.pending_challenge
  BY <1>1, <1>2 DEF ChallengeEndsWithSession
<1>3. CASE RefusedEnter
  <2>1. \/ latest' # latest
        \/ auth'.pending_challenge = None
        \/ auth'.pending_challenge = auth.pending_challenge
    BY <1>3, RefusedChallenge DEF RefusedEnter
  <2>2. CASE latest' # latest
    <3>1. asked' = PhaseOf(upd'.state)
      BY <1>3, <2>2 DEF RefusedEnter
    <3>2. /\ upd'.state \in FirmwareUpdateState
          /\ flash'.session_active <=> upd'.state \in {"Receiving", "Verified"}
      BY DEF Safe, TypeOK, UpdateRecord, StateMatchesSession
    <3>3. /\ flash'.session_active <=> PhaseOf(upd'.state) = "Transfer"
          /\ upd'.state = "HealthWindow" => PhaseOf(upd'.state) = "Trial"
      BY <3>2, PhaseMeaning
    <3> QED
      BY <3>1, <3>3 DEF ChallengeEndsWithSession
  <2>3. CASE auth'.pending_challenge = None
    BY <2>3 DEF ChallengeEndsWithSession
  <2>4. CASE /\ latest' = latest /\ auth'.pending_challenge # None
             /\ auth'.pending_challenge = auth.pending_challenge
    <3>1. asked' = asked
      BY <1>3, <2>4 DEF RefusedEnter
    <3> QED
      BY <1>2, <2>4, <3>1
  <2> QED
    BY <2>1, <2>2, <2>3, <2>4
<1>4. CASE OtherPacket \/ UNCHANGED allVars
  BY <1>2, <1>4 DEF OtherPacket, authVars, allVars
<1>5. CASE Clock
  <2>1. auth'.pending_challenge = auth.pending_challenge
    BY <1>5 DEF Clock, Auth!TimePasses, SessionAuth, Auth!AuthTypeOK
  <2> QED
    BY <1>2, <1>5, <2>1 DEF Clock
<1> QED
  BY <1>3, <1>4, <1>5

\* A challenge that is pending in a health window was asked for in that window,
\* and one that is pending during a transfer, in that transfer
\* (EnterBootloader, reset_flash_transfer_state).
THEOREM ChallengesEndWithSessions == SessionSpec => []ChallengeEndsWithSession
<1>1. SessionInit => ChallengeEndsWithSession
  BY DEF SessionInit, Auth!AuthInit, Auth!InitAuth, ChallengeEndsWithSession
<1>2. ASSUME Safe, Safe', SessionAuth, ChallengeEndsWithSession, [SessionNext]_allVars
      PROVE  ChallengeEndsWithSession'
  <2>1. ASSUME auth'.pending_challenge = None PROVE ChallengeEndsWithSession'
    BY <2>1 DEF ChallengeEndsWithSession
  <2>2. CASE AuthenticatedEnter \/ Restart
    <3>1. auth' = Auth!InitAuth
      BY <2>2 DEF AuthenticatedEnter, Restart, Auth!Right, Auth!AnswerRight,
                  Auth!record_success, Auth!AuthReboot
    <3> QED
      BY <2>1, <3>1 DEF Auth!InitAuth
  <2>3. CASE CompleteAndDropChallenge
    <3>1. auth' = [auth EXCEPT !.pending_challenge = None]
      BY <2>3 DEF CompleteAndDropChallenge, Auth!DropChallenge
    <3>2. auth'.pending_challenge = None
      BY <1>2, <3>1 DEF SessionAuth, Auth!AuthTypeOK
    <3> QED
      BY <2>1, <3>2
  <2>4. CASE RefusedEnter \/ OtherPacket \/ Clock \/ UNCHANGED allVars
    BY <1>2, <2>4, ChallengeKept
  <2> QED
    BY <1>2, <2>2, <2>3, <2>4 DEF SessionNext
<1> QED
  BY <1>1, <1>2, SessionProjects, SafeInvariant, SessionAuthInvariant, PTL DEF SessionSpec
===============================================================================
