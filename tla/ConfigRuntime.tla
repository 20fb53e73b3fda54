--------------------------- MODULE ConfigRuntime ---------------------------
(***************************************************************************)
(* How FirmwareRuntime (transport.rs) keeps three things in step with the  *)
(* staged configuration: the pin assignments with page 3, the trigger      *)
(* decoder with page 0, and the page-crypto nonce counter with the record  *)
(* it persists at the end of page 9.  Its operations are the page packets, *)
(* PinAssign and a restart over the surviving store (new_with_store), for  *)
(* an identity with page crypto.                                           *)
(*                                                                         *)
(* The nonce of an encrypted page is the counter's value; `used` remembers *)
(* the highest one sent since the ECU was new.                             *)
(***************************************************************************)
EXTENDS Integers, FiniteSets, PinAssignment

CONSTANTS PinRequests,       \* request lists the host writes to page 3
          PinOverrides,      \* request lists the host sends with PinAssign
          TriggerSetup,      \* contents of page 0 the trigger decoder tells apart
          UiDefaults,        \* contents of page 9 before the nonce record
          FactoryTrigger,    \* page 0 of a zeroed store
          FactoryUi,         \* page 9 of a zeroed store
          STRIDE,            \* PAGE_CRYPTO_NONCE_PERSIST_STRIDE
          Seed,              \* the counter generate_key derives from the key
          HostRewindsNonce,  \* whether page 9 may be written back with an older record
          MaxCounter,        \* bound: nonces considered
          None,              \* a record or an assignment set that does not parse
          Damaged            \* a flash image that does not decode

ASSUME RuntimeAssumption ==
    /\ default_pin_assignments \in Assignments
    /\ PinOverrides \subseteq Seq([function : EcuFunction, pin_id : STRING])
    /\ FactoryTrigger \in TriggerSetup
    /\ FactoryUi \in UiDefaults
    /\ STRIDE \in Nat \ {0}
    /\ Seed \in Nat
    /\ MaxCounter \in Nat
    /\ Seed <= MaxCounter
    /\ HostRewindsNonce \in BOOLEAN
ASSUME RuntimeNoneAssumption == None \notin Nat

VARIABLES ram,           \* page -> payload of the RAM copy
          flash,         \* page -> payload of the committed image
          pins,          \* pin_assignments
          trigger,       \* page 0 as trigger_runtime was last configured from it
          counter,       \* tune_encryption.state.nonce_counter
          next_persist,  \* page_crypto_next_persist_counter
          used           \* history: the highest nonce sent

runtime == <<ram, flash, pins, trigger, counter, next_persist, used>>

BasePage == 0
PinPage == 3
NoncePage == 9
Pages == {BasePage, PinPage, NoncePage}

\* Page 3 as bytes: what serialize_assignments_to_page writes, the same under
\* the legacy magic, or None for bytes that are no list of requests.
PinPayload == [magic : {"STIO", "STP3"}, pins : Assignments]

HostPinPage == [magic : {"STIO", "STP3"}, pins : PinRequests] \cup {None}

NonceRecord == 0..(MaxCounter + STRIDE)

NoncePayload == [ui : UiDefaults, record : NonceRecord \cup {None}]

serialize_assignments(assigned) == [magic |-> "STIO", pins |-> assigned]

----------------------------------------------------------------------------
(* Boot *)

Readable(f, r, page) == IF f[page] = Damaged THEN r[page] ELSE f[page]

read_persisted_page_crypto_counter(f, r) == Readable(f, r, NoncePage).record

\* Definitions marked `Slip` are plausible mistakes in the definition after them.

\* Slip: the counter resumes where it was persisted.
ResumeAtRecord(f, r) ==
    LET persisted == read_persisted_page_crypto_counter(f, r)
    IN  IF persisted = None THEN Seed ELSE persisted

\* The counter resumes a stride past the persisted record, so that what was
\* sent after the record was written is not sent again.
boot_counter(f, r) ==
    LET persisted == read_persisted_page_crypto_counter(f, r)
    IN  IF persisted = None THEN Seed ELSE persisted + STRIDE

\* persist_page_crypto_counter puts the record into the RAM page and burns
\* the RAM page: host edits staged there are committed along with it.
record_in_ram(r, n) == [r EXCEPT ![NoncePage].record = n]

burn_page(f, r, page) == [f EXCEPT ![page] = r[page]]

\* new_with_store persists the counter it resumes from, seeds page 3 with the
\* defaults and burns it, and configures the trigger decoder from page 0.
new_with_store(f, r) ==
    LET start   == boot_counter(f, r)
        counted == record_in_ram(r, start)
        seeded  == [counted EXCEPT ![PinPage] = serialize_assignments(default_pin_assignments)]
    IN  [ ram          |-> seeded,
          flash        |-> burn_page(burn_page(f, seeded, NoncePage), seeded, PinPage),
          pins         |-> default_pin_assignments,
          trigger      |-> seeded[BasePage],
          counter      |-> start,
          next_persist |-> start + STRIDE ]

FactoryPage ==
    [ p \in Pages |->
        CASE p = BasePage  -> FactoryTrigger
          [] p = PinPage   -> None
          [] p = NoncePage -> [ui |-> FactoryUi, record |-> None] ]

----------------------------------------------------------------------------
(* Actions *)

Init ==
    LET booted == new_with_store(FactoryPage, FactoryPage)
    IN  /\ ram = booted.ram
        /\ flash = booted.flash
        /\ pins = booted.pins
        /\ trigger = booted.trigger
        /\ counter = booted.counter
        /\ next_persist = booted.next_persist
        /\ used = Seed - 1

\* ReadPage: the reply is encrypted under the next nonce; when the counter
\* reaches the end of its stride it is persisted.
ReadPage ==
    /\ counter < MaxCounter
    /\ used' = counter
    /\ counter' = counter + 1
    /\ IF counter' >= next_persist
       THEN /\ ram' = record_in_ram(ram, counter')
            /\ flash' = burn_page(flash, ram', NoncePage)
            /\ next_persist' = counter' + STRIDE
       ELSE UNCHANGED <<ram, flash, next_persist>>
    /\ UNCHANGED <<pins, trigger>>

WriteBasePage(setup) ==
    /\ ram' = [ram EXCEPT ![BasePage] = setup]
    /\ trigger' = setup
    /\ UNCHANGED <<flash, pins, counter, next_persist, used>>

\* A list of requests that validate_assignment_set accepts.
PinPageParses(payload) == payload # None /\ deserialize_assignments(payload.pins)

\* Slip: a page that does not parse stays in RAM.
RejectedPageStays(payload) ==
    /\ ram' = [ram EXCEPT ![PinPage] = payload]
    /\ pins' = IF PinPageParses(payload) THEN payload.pins ELSE pins
    /\ UNCHANGED <<flash, trigger, counter, next_persist, used>>

\* Page 3 takes effect at once.  A payload that does not parse is written,
\* found invalid and replaced by the serialized previous assignments.
WritePinPage(payload) ==
    /\ IF PinPageParses(payload)
       THEN /\ ram' = [ram EXCEPT ![PinPage] = payload]
            /\ pins' = payload.pins
       ELSE /\ ram' = [ram EXCEPT ![PinPage] = serialize_assignments(pins)]
            /\ UNCHANGED pins
    /\ UNCHANGED <<flash, trigger, counter, next_persist, used>>

\* Page 9 is plain data to WritePage, the nonce record included.  A host that
\* rewinds writes an older record back, or none.
WriteNoncePage(payload) ==
    /\ payload.record = ram[NoncePage].record
       \/ (HostRewindsNonce /\ payload.record \in {None} \cup 0..counter)
    /\ ram' = [ram EXCEPT ![NoncePage] = payload]
    /\ UNCHANGED <<flash, pins, trigger, counter, next_persist, used>>

BurnPage(page) ==
    /\ flash' = burn_page(flash, ram, page)
    /\ trigger' = IF page = BasePage THEN ram[BasePage] ELSE trigger
    /\ UNCHANGED <<ram, pins, counter, next_persist, used>>

\* Slip: the new assignments are not staged in page 3.
AssignWithoutStaging(overrides) ==
    /\ merged_assignments(pins, overrides) \in Assignments
    /\ pins' = merged_assignments(pins, overrides)
    /\ UNCHANGED <<ram, flash, trigger, counter, next_persist, used>>

\* PinAssign: the overridden set, once validated, takes effect and is staged.
\* A set that is refused changes nothing.
PinAssign(overrides) ==
    /\ merged_assignments(pins, overrides) \in Assignments
    /\ pins' = merged_assignments(pins, overrides)
    /\ ram' = [ram EXCEPT ![PinPage] = serialize_assignments(pins')]
    /\ UNCHANGED <<flash, trigger, counter, next_persist, used>>

Restart ==
    LET booted == new_with_store(flash, ram)
    IN  /\ boot_counter(flash, ram) <= MaxCounter
        /\ ram' = booted.ram
        /\ flash' = booted.flash
        /\ pins' = booted.pins
        /\ trigger' = booted.trigger
        /\ counter' = booted.counter
        /\ next_persist' = booted.next_persist
        /\ UNCHANGED used

\* External: the image in a flash slot stops decoding.
DamageFlash(page) ==
    /\ flash' = [flash EXCEPT ![page] = Damaged]
    /\ UNCHANGED <<ram, pins, trigger, counter, next_persist, used>>

Write ==
    \/ \E setup \in TriggerSetup : WriteBasePage(setup)
    \/ \E payload \in HostPinPage : WritePinPage(payload)
    \/ \E payload \in NoncePayload : WriteNoncePage(payload)

Burn == \E page \in Pages : BurnPage(page)

Assign == \E overrides \in PinOverrides : PinAssign(overrides)

Damage == \E page \in Pages : DamageFlash(page)

Next ==
    \/ ReadPage
    \/ Write
    \/ Burn
    \/ Assign
    \/ Restart
    \/ Damage

Spec == Init /\ [][Next]_runtime

----------------------------------------------------------------------------
(* Properties *)

\* Every page holds payloads of its own kind.
TypeOK ==
    /\ DOMAIN ram = Pages /\ DOMAIN flash = Pages
    /\ ram[BasePage] \in TriggerSetup
    /\ ram[PinPage] \in PinPayload
    /\ ram[NoncePage] \in NoncePayload
    /\ flash[BasePage] \in TriggerSetup \cup {Damaged}
    /\ flash[PinPage] \in PinPayload \cup {Damaged}
    /\ flash[NoncePage] \in NoncePayload \cup {Damaged}
    /\ pins \in Assignments
    /\ trigger \in TriggerSetup
    /\ counter \in 0..MaxCounter
    /\ next_persist \in Nat
    /\ used \in -1..MaxCounter

\* What drives the engine is what the host reads back: page 3 in RAM always
\* parses to the assignments in force (rejected writes included), and the
\* trigger decoder runs on the staged page 0.
RuntimeMatchesStagedPages ==
    /\ ram[PinPage].pins = pins
    /\ ram[BasePage] = trigger

\* Whatever the host overrides, writes or burns, no two functions drive one
\* pin or one timer channel, no reserved pin is driven and no fixed path is
\* left, neither in what is in force nor in what was burned.
PinsDriveOneThingEach ==
    /\ DrivesOneThingEach(pins)
    /\ flash[PinPage] # Damaged => DrivesOneThingEach(flash[PinPage].pins)

\* Wherever power is lost, the counter a restart would resume from is past
\* every nonce sent, and so is the running counter.
RestartSkipsUsedNonces ==
    /\ used < counter
    /\ used < boot_counter(flash, ram)

\* crypto.rs: the nonce is a "monotonic counter".  Each nonce sent is higher
\* than every one before it, across restarts.
NonceMonotonic == [][ ReadPage => used' > used ]_runtime

\* docs/UPDATE-LIFECYCLE.md: the config partition is retained across an
\* update.  A restart leaves the burned pin assignments as they were.
BurnedPinsSurviveRestart ==
    [][ (Restart /\ flash[PinPage] # Damaged)
            => flash'[PinPage] = flash[PinPage] ]_runtime
============================================================================
