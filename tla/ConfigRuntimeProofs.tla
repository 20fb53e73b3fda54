------------------------- MODULE ConfigRuntimeProofs -------------------------
(***************************************************************************)
(* Safety of ConfigRuntime for every set of assignments, page contents,    *)
(* persistence stride and first nonce.                                     *)
(***************************************************************************)
EXTENDS ConfigRuntime, TLAPS

LEMMA PagesDiffer ==
    /\ BasePage \in Pages /\ PinPage \in Pages /\ NoncePage \in Pages
    /\ BasePage # PinPage /\ BasePage # NoncePage /\ PinPage # NoncePage
    /\ Pages = {BasePage, PinPage, NoncePage}
BY DEF Pages, BasePage, PinPage, NoncePage

LEMMA SerializedParses ==
    ASSUME NEW assigned \in Assignments
    PROVE  serialize_assignments(assigned) \in PinPayload
           /\ serialize_assignments(assigned).pins = assigned
BY DEF serialize_assignments, PinPayload

\* What a restart makes of the pages, whatever it finds in them.
LEMMA BootPages ==
    ASSUME NEW f, NEW r, DOMAIN f = Pages, DOMAIN r = Pages
    PROVE  LET b == new_with_store(f, r)
               start == boot_counter(f, r)
           IN  /\ DOMAIN b.ram = Pages /\ DOMAIN b.flash = Pages
               /\ b.ram[BasePage] = r[BasePage] /\ b.flash[BasePage] = f[BasePage]
               /\ b.ram[PinPage] = serialize_assignments(default_pin_assignments)
               /\ b.flash[PinPage] = serialize_assignments(default_pin_assignments)
               /\ b.ram[NoncePage] = [r[NoncePage] EXCEPT !.record = start]
               /\ b.flash[NoncePage] = b.ram[NoncePage]
               /\ b.pins = default_pin_assignments /\ b.trigger = r[BasePage]
               /\ b.counter = start /\ b.next_persist = start + STRIDE
<1> DEFINE start == boot_counter(f, r)
           counted == record_in_ram(r, start)
           seeded == [counted EXCEPT ![PinPage] = serialize_assignments(default_pin_assignments)]
           burned == burn_page(burn_page(f, seeded, NoncePage), seeded, PinPage)
<1>1. /\ DOMAIN counted = Pages /\ counted[BasePage] = r[BasePage]
      /\ counted[NoncePage] = [r[NoncePage] EXCEPT !.record = start]
  BY PagesDiffer DEF record_in_ram
<1> HIDE DEF counted, start
<1>2. /\ DOMAIN seeded = Pages /\ seeded[BasePage] = r[BasePage]
      /\ seeded[NoncePage] = counted[NoncePage]
      /\ seeded[PinPage] = serialize_assignments(default_pin_assignments)
  BY <1>1, PagesDiffer
<1> HIDE DEF seeded
<1>3. /\ DOMAIN burned = Pages /\ burned[BasePage] = f[BasePage]
      /\ burned[NoncePage] = seeded[NoncePage] /\ burned[PinPage] = seeded[PinPage]
  BY PagesDiffer DEF burn_page
<1> HIDE DEF burned
<1>4. new_with_store(f, r) =
        [ ram |-> seeded, flash |-> burned, pins |-> default_pin_assignments,
          trigger |-> seeded[BasePage], counter |-> start, next_persist |-> start + STRIDE ]
  BY DEF new_with_store, seeded, burned, counted, start
<1> QED
  BY <1>1, <1>2, <1>3, <1>4 DEF start

LEMMA FactoryBoot ==
    /\ DOMAIN FactoryPage = Pages
    /\ FactoryPage[BasePage] = FactoryTrigger
    /\ FactoryPage[NoncePage] = [ui |-> FactoryUi, record |-> None]
    /\ boot_counter(FactoryPage, FactoryPage) = Seed
<1>1. /\ DOMAIN FactoryPage = Pages
      /\ FactoryPage[BasePage] = FactoryTrigger
      /\ FactoryPage[NoncePage] = [ui |-> FactoryUi, record |-> None]
  BY DEF FactoryPage, Pages, BasePage, PinPage, NoncePage
<1>2. read_persisted_page_crypto_counter(FactoryPage, FactoryPage) = None
  BY <1>1 DEF read_persisted_page_crypto_counter, Readable
<1> QED
  BY <1>1, <1>2 DEF boot_counter

LEMMA NonceBounds ==
    /\ MaxCounter \in Nat /\ STRIDE \in Nat \ {0} /\ Seed \in Nat /\ Seed <= MaxCounter
    /\ \A n \in 0..MaxCounter : n \in NonceRecord /\ n # None /\ n \in Nat
BY RuntimeAssumption, RuntimeNoneAssumption DEF NonceRecord

-----------------------------------------------------------------------------
(* Types, and the runtime against the staged pages                           *)

Staged == TypeOK /\ RuntimeMatchesStagedPages

LEMMA StagedInit == Init => Staged
<1> SUFFICES ASSUME Init PROVE Staged
  OBVIOUS
<1> DEFINE b == new_with_store(FactoryPage, FactoryPage)
<1>1. /\ DOMAIN b.ram = Pages /\ DOMAIN b.flash = Pages
      /\ b.ram[BasePage] = FactoryTrigger /\ b.flash[BasePage] = FactoryTrigger
      /\ b.ram[PinPage] = serialize_assignments(default_pin_assignments)
      /\ b.flash[PinPage] = serialize_assignments(default_pin_assignments)
      /\ b.ram[NoncePage] = [[ui |-> FactoryUi, record |-> None] EXCEPT !.record = Seed]
      /\ b.flash[NoncePage] = b.ram[NoncePage]
      /\ b.pins = default_pin_assignments /\ b.trigger = FactoryTrigger
      /\ b.counter = Seed /\ b.next_persist = Seed + STRIDE
  BY FactoryBoot, BootPages
<1>2. /\ ram = b.ram /\ flash = b.flash /\ pins = b.pins /\ trigger = b.trigger
      /\ counter = b.counter /\ next_persist = b.next_persist /\ used = Seed - 1
  BY DEF Init
<1> HIDE DEF b
<1>3. Seed \in 0..MaxCounter /\ Seed \in NonceRecord
  BY NonceBounds
<1>4. [[ui |-> FactoryUi, record |-> None] EXCEPT !.record = Seed] \in NoncePayload
  BY <1>3, RuntimeAssumption DEF NoncePayload
<1>5. default_pin_assignments \in Assignments /\ FactoryTrigger \in TriggerSetup
  BY RuntimeAssumption
<1>6. used \in -1..MaxCounter /\ next_persist \in Nat
  BY <1>1, <1>2, <1>3, NonceBounds
<1> QED
  BY <1>1, <1>2, <1>3, <1>4, <1>5, <1>6, SerializedParses
     DEF Staged, TypeOK, RuntimeMatchesStagedPages

\* Page 9 after the record is replaced.
LEMMA RecordTyped ==
    ASSUME NEW payload \in NoncePayload, NEW n \in NonceRecord
    PROVE  LET p == [payload EXCEPT !.record = n]
           IN  p \in NoncePayload /\ p.record = n
BY DEF NoncePayload

LEMMA ReadStaged == Staged /\ ReadPage => Staged'
<1> SUFFICES ASSUME Staged, ReadPage PROVE Staged'
  OBVIOUS
<1>1. /\ counter \in 0..MaxCounter /\ counter < MaxCounter
      /\ counter' = counter + 1 /\ used' = counter
      /\ UNCHANGED <<pins, trigger>>
  BY DEF ReadPage, Staged, TypeOK
<1>2. /\ counter' \in 0..MaxCounter /\ counter' \in NonceRecord
      /\ used' \in -1..MaxCounter
  BY <1>1, NonceBounds
<1>3. CASE counter' >= next_persist
  <2>1. /\ ram' = record_in_ram(ram, counter')
        /\ flash' = burn_page(flash, ram', NoncePage)
        /\ next_persist' = counter' + STRIDE
    BY <1>3 DEF ReadPage
  <2>2. /\ DOMAIN ram' = Pages /\ ram'[BasePage] = ram[BasePage]
        /\ ram'[PinPage] = ram[PinPage] /\ ram'[NoncePage] \in NoncePayload
    BY <1>2, <2>1, PagesDiffer, RecordTyped DEF record_in_ram, Staged, TypeOK
  <2>3. /\ DOMAIN flash' = Pages /\ flash'[BasePage] = flash[BasePage]
        /\ flash'[PinPage] = flash[PinPage] /\ flash'[NoncePage] = ram'[NoncePage]
    BY <2>1, PagesDiffer DEF burn_page, Staged, TypeOK
  <2>4. next_persist' \in Nat
    <3>1. counter' \in Nat /\ STRIDE \in Nat
      BY <1>2, RuntimeAssumption
    <3>2. \A i, j \in Nat : i + j \in Nat
      OBVIOUS
    <3> QED
      BY <2>1, <3>1, <3>2
  <2> QED
    BY <1>1, <1>2, <2>2, <2>3, <2>4 DEF Staged, TypeOK, RuntimeMatchesStagedPages
<1>4. CASE ~(counter' >= next_persist)
  BY <1>1, <1>2, <1>4 DEF ReadPage, Staged, TypeOK, RuntimeMatchesStagedPages
<1> QED
  BY <1>3, <1>4

LEMMA BaseWriteStaged ==
    ASSUME Staged, NEW setup \in TriggerSetup, WriteBasePage(setup)
    PROVE  Staged'
<1>1. /\ DOMAIN ram' = Pages /\ ram'[BasePage] = setup
      /\ ram'[PinPage] = ram[PinPage] /\ ram'[NoncePage] = ram[NoncePage]
  BY PagesDiffer DEF WriteBasePage, Staged, TypeOK
<1> QED
  BY <1>1 DEF WriteBasePage, Staged, TypeOK, RuntimeMatchesStagedPages

\* A change of page 3 in RAM that comes with the pins it stands for.
LEMMA PinsStaged ==
    ASSUME Staged, NEW payload \in PinPayload,
           ram' = [ram EXCEPT ![PinPage] = payload], pins' = payload.pins,
           UNCHANGED <<flash, trigger, counter, next_persist, used>>
    PROVE  Staged'
<1>1. /\ DOMAIN ram' = Pages /\ ram'[PinPage] = payload
      /\ ram'[BasePage] = ram[BasePage] /\ ram'[NoncePage] = ram[NoncePage]
  BY PagesDiffer DEF Staged, TypeOK
<1>2. payload.pins \in Assignments
  BY DEF PinPayload
<1> QED
  BY <1>1, <1>2 DEF Staged, TypeOK, RuntimeMatchesStagedPages

LEMMA ParsedPinPage ==
    ASSUME NEW payload \in HostPinPage, PinPageParses(payload)
    PROVE  payload \in PinPayload
BY DEF HostPinPage, PinPageParses, deserialize_assignments, PinPayload

LEMMA PinWriteStaged ==
    ASSUME Staged, NEW payload \in HostPinPage, WritePinPage(payload)
    PROVE  Staged'
<1>1. CASE ~PinPageParses(payload)
  <2>1. /\ serialize_assignments(pins) \in PinPayload
        /\ serialize_assignments(pins).pins = pins
    BY SerializedParses DEF Staged, TypeOK
  <2> QED
    BY <1>1, <2>1, PinsStaged DEF WritePinPage
<1>2. CASE PinPageParses(payload)
  BY <1>2, ParsedPinPage, PinsStaged DEF WritePinPage
<1> QED
  BY <1>1, <1>2

LEMMA AssignStaged ==
    ASSUME Staged, NEW overrides \in PinOverrides, PinAssign(overrides)
    PROVE  Staged'
<1>1. /\ pins' \in Assignments
      /\ ram' = [ram EXCEPT ![PinPage] = serialize_assignments(pins')]
      /\ UNCHANGED <<flash, trigger, counter, next_persist, used>>
  BY DEF PinAssign
<1>2. /\ serialize_assignments(pins') \in PinPayload
      /\ serialize_assignments(pins').pins = pins'
  BY <1>1, SerializedParses
<1> QED
  BY <1>1, <1>2, PinsStaged

LEMMA NonceWriteStaged ==
    ASSUME Staged, NEW payload \in NoncePayload, WriteNoncePage(payload)
    PROVE  Staged'
<1>1. /\ DOMAIN ram' = Pages /\ ram'[NoncePage] = payload
      /\ ram'[BasePage] = ram[BasePage] /\ ram'[PinPage] = ram[PinPage]
  BY PagesDiffer DEF WriteNoncePage, Staged, TypeOK
<1> QED
  BY <1>1 DEF WriteNoncePage, Staged, TypeOK, RuntimeMatchesStagedPages

LEMMA BurnStaged ==
    ASSUME Staged, NEW page \in Pages, BurnPage(page)
    PROVE  Staged'
<1>1. /\ DOMAIN flash' = Pages
      /\ \A p \in Pages : flash'[p] \in {flash[p], ram[p]}
  BY DEF BurnPage, burn_page, Staged, TypeOK
<1>2. trigger' = trigger
  BY DEF BurnPage, Staged, RuntimeMatchesStagedPages
<1> QED
  BY <1>1, <1>2, PagesDiffer DEF BurnPage, Staged, TypeOK, RuntimeMatchesStagedPages

LEMMA DamageStaged ==
    ASSUME Staged, NEW page \in Pages, DamageFlash(page)
    PROVE  Staged'
<1>1. /\ DOMAIN flash' = Pages
      /\ \A p \in Pages : flash'[p] \in {flash[p], Damaged}
  BY DEF DamageFlash, Staged, TypeOK
<1> QED
  BY <1>1, PagesDiffer DEF DamageFlash, Staged, TypeOK, RuntimeMatchesStagedPages

LEMMA RestartStaged == Staged /\ Restart => Staged'
<1> SUFFICES ASSUME Staged, Restart PROVE Staged'
  OBVIOUS
<1> DEFINE b == new_with_store(flash, ram)
           start == boot_counter(flash, ram)
<1>1. /\ DOMAIN b.ram = Pages /\ DOMAIN b.flash = Pages
      /\ b.ram[BasePage] = ram[BasePage] /\ b.flash[BasePage] = flash[BasePage]
      /\ b.ram[PinPage] = serialize_assignments(default_pin_assignments)
      /\ b.flash[PinPage] = serialize_assignments(default_pin_assignments)
      /\ b.ram[NoncePage] = [ram[NoncePage] EXCEPT !.record = start]
      /\ b.flash[NoncePage] = b.ram[NoncePage]
      /\ b.pins = default_pin_assignments /\ b.trigger = ram[BasePage]
      /\ b.counter = start /\ b.next_persist = start + STRIDE
  BY BootPages DEF Staged, TypeOK
<1>2. /\ ram' = b.ram /\ flash' = b.flash /\ pins' = b.pins /\ trigger' = b.trigger
      /\ counter' = b.counter /\ next_persist' = b.next_persist /\ used' = used
      /\ start <= MaxCounter
  BY DEF Restart
<1>3. start \in Nat
  <2>1. read_persisted_page_crypto_counter(flash, ram) \in NonceRecord \cup {None}
    BY DEF read_persisted_page_crypto_counter, Readable, Staged, TypeOK, NoncePayload
  <2> QED
    BY <2>1, NonceBounds DEF boot_counter, NonceRecord
<1> HIDE DEF b, start
<1>4. start \in 0..MaxCounter /\ start \in NonceRecord /\ start + STRIDE \in Nat
  BY <1>2, <1>3, NonceBounds
<1>5. b.ram[NoncePage] \in NoncePayload
  BY <1>1, <1>4, RecordTyped DEF Staged, TypeOK
<1> QED
  BY <1>1, <1>2, <1>4, <1>5, SerializedParses, RuntimeAssumption
     DEF Staged, TypeOK, RuntimeMatchesStagedPages

LEMMA StagedNext == Staged /\ [Next]_runtime => Staged'
<1>1. Staged /\ UNCHANGED runtime => Staged'
  BY DEF runtime, Staged, TypeOK, RuntimeMatchesStagedPages
<1> QED
  BY <1>1, ReadStaged, BaseWriteStaged, PinWriteStaged, NonceWriteStaged, BurnStaged,
     AssignStaged, RestartStaged, DamageStaged
     DEF Next, Write, Burn, Assign, Damage

LEMMA StagedInvariant == Spec => []Staged
BY StagedInit, StagedNext, PTL DEF Spec

\* Every page holds payloads of its own kind.
THEOREM RuntimeTypeCorrect == Spec => []TypeOK
BY StagedInvariant, PTL DEF Staged

\* The pins and the trigger decoder in force are those the host reads back.
THEOREM RuntimeFollowsPages == Spec => []RuntimeMatchesStagedPages
BY StagedInvariant, PTL DEF Staged

-----------------------------------------------------------------------------
(* The nonce counter, when the host leaves the record of page 9 alone        *)

\* The record is what the counter last persisted, in RAM and in flash, and a
\* restart resumes where the running stride ends.
CounterInStride ==
    /\ used < counter
    /\ counter < next_persist
    /\ ram[NoncePage].record \in NonceRecord
    /\ next_persist = ram[NoncePage].record + STRIDE
    /\ flash[NoncePage] # Damaged => flash[NoncePage].record = ram[NoncePage].record

LEMMA BootsAtStrideEnd ==
    ASSUME CounterInStride
    PROVE  boot_counter(flash, ram) = next_persist
<1>1. read_persisted_page_crypto_counter(flash, ram) = ram[NoncePage].record
  BY DEF CounterInStride, read_persisted_page_crypto_counter, Readable
<1>2. ram[NoncePage].record # None
  BY RuntimeAssumption, RuntimeNoneAssumption DEF CounterInStride, NonceRecord
<1> QED
  BY <1>1, <1>2 DEF boot_counter, CounterInStride

LEMMA StrideInit == Init => CounterInStride
<1> SUFFICES ASSUME Init PROVE CounterInStride
  OBVIOUS
<1>1. /\ ram[NoncePage] = [[ui |-> FactoryUi, record |-> None] EXCEPT !.record = Seed]
      /\ flash[NoncePage] = ram[NoncePage]
      /\ counter = Seed /\ next_persist = Seed + STRIDE /\ used = Seed - 1
  BY FactoryBoot, BootPages DEF Init
<1>2. ram[NoncePage].record = Seed
  BY <1>1
<1>3. Seed \in 0..MaxCounter
  BY RuntimeAssumption
<1> QED
  BY <1>1, <1>2, <1>3, NonceBounds DEF CounterInStride

LEMMA ReadInStride == Staged /\ CounterInStride /\ ReadPage => CounterInStride'
<1> SUFFICES ASSUME Staged, CounterInStride, ReadPage PROVE CounterInStride'
  OBVIOUS
<1>1. /\ counter \in 0..MaxCounter /\ counter' = counter + 1 /\ used' = counter
      /\ counter' \in 0..MaxCounter /\ next_persist \in Nat
  BY NonceBounds DEF ReadPage, Staged, TypeOK
<1>2. CASE counter' >= next_persist
  <2>1. /\ ram' = record_in_ram(ram, counter')
        /\ flash' = burn_page(flash, ram', NoncePage)
        /\ next_persist' = counter' + STRIDE
    BY <1>2 DEF ReadPage
  <2>2. ram'[NoncePage].record = counter'
    <3>1. ram'[NoncePage] = [ram[NoncePage] EXCEPT !.record = counter']
      BY <2>1, PagesDiffer DEF record_in_ram, Staged, TypeOK
    <3>2. ram[NoncePage] \in NoncePayload /\ counter' \in NonceRecord
      BY <1>1, NonceBounds DEF Staged, TypeOK
    <3> QED
      BY <3>1, <3>2, RecordTyped
  <2>3. flash'[NoncePage] = ram'[NoncePage]
    BY <2>1, PagesDiffer DEF burn_page, Staged, TypeOK
  <2>4. counter' \in NonceRecord
    BY <1>1, NonceBounds
  <2>5. used' < counter' /\ counter' < next_persist'
    BY <1>1, <2>1, RuntimeAssumption
  <2> QED
    BY <2>1, <2>2, <2>3, <2>4, <2>5 DEF CounterInStride
<1>3. CASE ~(counter' >= next_persist)
  <2>1. UNCHANGED <<ram, flash, next_persist>>
    BY <1>3 DEF ReadPage
  <2>2. used' < counter' /\ counter' < next_persist
    BY <1>1, <1>3
  <2> QED
    BY <2>1, <2>2 DEF CounterInStride
<1> QED
  BY <1>2, <1>3

\* Whatever leaves the counter and the record alone.
LEMMA RecordKept ==
    ASSUME CounterInStride, UNCHANGED <<counter, next_persist, used>>,
           ram'[NoncePage].record = ram[NoncePage].record,
           flash'[NoncePage] \in {flash[NoncePage], ram[NoncePage], Damaged}
    PROVE  CounterInStride'
BY DEF CounterInStride

LEMMA RestartInStride == Staged /\ CounterInStride /\ Restart => CounterInStride'
<1> SUFFICES ASSUME Staged, CounterInStride, Restart PROVE CounterInStride'
  OBVIOUS
<1> DEFINE start == boot_counter(flash, ram)
<1>1. /\ ram'[NoncePage] = [ram[NoncePage] EXCEPT !.record = start]
      /\ flash'[NoncePage] = ram'[NoncePage]
      /\ counter' = start /\ next_persist' = start + STRIDE /\ used' = used
      /\ start <= MaxCounter
  BY BootPages DEF Restart, Staged, TypeOK
<1>2. start = next_persist
  BY BootsAtStrideEnd
<1> HIDE DEF start
<1>3. /\ start \in 0..MaxCounter /\ used < start /\ start < start + STRIDE
  BY <1>1, <1>2, RuntimeAssumption DEF Staged, TypeOK, CounterInStride
<1>4. ram'[NoncePage].record = start
  BY <1>1, <1>3, NonceBounds, RecordTyped DEF Staged, TypeOK
<1>5. start \in NonceRecord
  BY <1>3, NonceBounds
<1> QED
  BY <1>1, <1>3, <1>4, <1>5 DEF CounterInStride

LEMMA StrideNext ==
    ASSUME HostRewindsNonce = FALSE
    PROVE  Staged /\ CounterInStride /\ [Next]_runtime => CounterInStride'
<1> SUFFICES ASSUME Staged, CounterInStride, [Next]_runtime PROVE CounterInStride'
  OBVIOUS
<1> USE DEF Staged, TypeOK
<1>1. ASSUME NEW setup \in TriggerSetup, WriteBasePage(setup) PROVE CounterInStride'
  BY <1>1, RecordKept, PagesDiffer DEF WriteBasePage
<1>2. ASSUME NEW payload \in HostPinPage, WritePinPage(payload)
      PROVE  CounterInStride'
  BY <1>2, RecordKept, PagesDiffer DEF WritePinPage
<1>3. ASSUME NEW payload \in NoncePayload, WriteNoncePage(payload) PROVE CounterInStride'
  BY <1>3, RecordKept, PagesDiffer DEF WriteNoncePage
<1>4. ASSUME NEW page \in Pages, BurnPage(page) PROVE CounterInStride'
  BY <1>4, RecordKept, PagesDiffer DEF BurnPage, burn_page
<1>5. ASSUME NEW overrides \in PinOverrides, PinAssign(overrides) PROVE CounterInStride'
  BY <1>5, RecordKept, PagesDiffer DEF PinAssign
<1>6. ASSUME NEW page \in Pages, DamageFlash(page) PROVE CounterInStride'
  BY <1>6, RecordKept, PagesDiffer DEF DamageFlash
<1>7. CASE UNCHANGED runtime
  BY <1>7, RecordKept DEF runtime
<1> QED
  BY <1>1, <1>2, <1>3, <1>4, <1>5, <1>6, <1>7, ReadInStride, RestartInStride
     DEF Next, Write, Burn, Assign, Damage

LEMMA StrideInvariant ==
    ASSUME HostRewindsNonce = FALSE
    PROVE  Spec => []CounterInStride
<1>1. Staged /\ CounterInStride /\ [Next]_runtime => CounterInStride'
  BY StrideNext
<1> QED
  BY <1>1, StrideInit, StagedInvariant, PTL DEF Spec

\* Wherever power is lost, a restart resumes past every nonce sent, for every
\* stride, unless the host writes an older record back.
THEOREM RestartSkips ==
    ASSUME HostRewindsNonce = FALSE
    PROVE  Spec => []RestartSkipsUsedNonces
<1>1. Staged /\ CounterInStride => RestartSkipsUsedNonces
  BY BootsAtStrideEnd DEF CounterInStride, RestartSkipsUsedNonces, Staged, TypeOK
<1> QED
  BY <1>1, StrideInvariant, StagedInvariant, PTL

\* Each nonce is higher than every one before it, across restarts, unless the
\* host writes an older record back.
THEOREM NoncesIncrease ==
    ASSUME HostRewindsNonce = FALSE
    PROVE  Spec => NonceMonotonic
<1>1. CounterInStride => [ReadPage => used' > used]_runtime
  BY DEF ReadPage, CounterInStride
<1> QED
  BY <1>1, StrideInvariant, PTL DEF Spec, NonceMonotonic

----------------------------------------------------------------------------
(* Pins *)

\* What validate_assignment_set accepts is free of conflicts in both orders.
LEMMA AcceptedDrivesOneThing ==
    ASSUME NEW s \in Assignments
    PROVE  DrivesOneThingEach(s)
<1>1. \A i \in DOMAIN s :
         /\ \A j \in 1..(i - 1) : s[j].function # s[i].function
         /\ OnItsPath(s[i]) /\ OnTheBoard(s[i])
         /\ \A j \in 1..(i - 1) : ~conflicts(s[i], s[j])
  BY DEF Assignments, validate_assignment_set
<1>2. DOMAIN s = 1..Len(s) /\ Len(s) \in Nat
  BY DEF Assignments
<1>3. ASSUME NEW i \in DOMAIN s, NEW j \in DOMAIN s, i < j
      PROVE  /\ s[i].function # s[j].function /\ s[i].pin_id # s[j].pin_id
             /\ Resource(s[j]) = NoResource \/ Resource(s[j]) # Resource(s[i])
  <2>1. i \in 1..(j - 1)
    BY <1>2, <1>3
  <2>2. s[i].function # s[j].function /\ ~conflicts(s[j], s[i])
    BY <1>1, <2>1
  <2> QED
    BY <2>2 DEF conflicts
<1>4. ASSUME NEW i \in DOMAIN s, NEW j \in DOMAIN s, i # j
      PROVE  /\ s[i].function # s[j].function /\ s[i].pin_id # s[j].pin_id
             /\ Resource(s[i]) = NoResource \/ Resource(s[i]) # Resource(s[j])
  <2>1. i < j \/ j < i
    BY <1>2, <1>4
  <2> QED
    BY <1>3, <2>1
<1>5. \A i \in DOMAIN s :
         /\ s[i].pin_id \in assignable_pins
         /\ s[i].function \in DOMAIN fixed_pin_id
               => s[i].pin_id = fixed_pin_id[s[i].function]
  BY <1>1 DEF OnItsPath, OnTheBoard, validate_pin_assignment
<1> QED
  BY <1>4, <1>5 DEF DrivesOneThingEach

\* Whatever the host overrides, writes or burns, no two functions drive one pin
\* or resource, no reserved pin is driven and no fixed path is left.
THEOREM PinsDriveOneThing == Spec => []PinsDriveOneThingEach
<1>1. Staged => PinsDriveOneThingEach
  BY AcceptedDrivesOneThing
     DEF Staged, TypeOK, PinPayload, PinsDriveOneThingEach
<1> QED
  BY <1>1, StagedInvariant, PTL
============================================================================
