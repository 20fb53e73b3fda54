---------------------------- MODULE ConfigStore ----------------------------
(***************************************************************************)
(* The staged configuration of config.rs: a RAM copy and a flash slot per  *)
(* page.  Edits go to RAM, a burn writes a new image generation to flash,  *)
(* and an image persisted by older firmware is migrated on import.         *)
(*                                                                         *)
(* A payload is its magic and version bytes, which the migrators rewrite,  *)
(* and the body they must preserve.  A raw image is the header fields that *)
(* decode_stored_page_image and the migrators look at, with its length,    *)
(* magic and CRC checks as one field, `intact`.                            *)
(***************************************************************************)
EXTENDS Integers, FiniteSets

CONSTANTS Page,            \* page ids of PAGE_DIRECTORY
          PagePayload,     \* the payloads used on each page, see PayloadAssumption
          ZeroBody,        \* the body of a zeroed page
          GENERATION_MAX,  \* u32::MAX, where generations saturate
          CYCLES_MAX,      \* u32::MAX, where erase counts saturate
          None

BaseEngineFuelComm == 0
PinAssignment == 3

SCHEMA_VERSION == 1
CONFIG_FORMAT_VERSION == 1

ASSUME StoreAssumption ==
    /\ {BaseEngineFuelComm, PinAssignment} \subseteq Page
    /\ GENERATION_MAX \in Nat \ {0}
    /\ CYCLES_MAX \in Nat \ {0}

VARIABLE store   \* [ram, slot, cycles], each a function of the page

Magic == {"zero", "STC1", "STC2", "STP3", "STIO"}

ZeroPayload == [magic |-> "zero", version |-> 0, body |-> ZeroBody]

Saturate(n, max) == IF n < max THEN n ELSE max

\* A committed image: what decode_stored_page_image accepted.
CommittedImage(page) == [generation : 0..GENERATION_MAX, payload : PagePayload[page]]

ASSUME NoneAssumption == \A p \in Page : None \notin CommittedImage(p)

\* An image offered for import; the current firmware encodes schema 1, format 1.
RawImage(page) ==
    [ page_id : Page, schema : 0..2, format : 0..2, generation : 0..GENERATION_MAX,
      payload : PagePayload[page], intact : BOOLEAN ]

encode_stored_page_image(page, generation, payload) ==
    [ page_id |-> page, schema |-> SCHEMA_VERSION, format |-> CONFIG_FORMAT_VERSION,
      generation |-> generation, payload |-> payload, intact |-> TRUE ]

----------------------------------------------------------------------------
(* Queries *)

needs_burn(s, page) ==
    s.slot[page] = None \/ s.slot[page].payload # s.ram[page]

flash_generation(s, page) == IF s.slot[page] = None THEN 0 ELSE s.slot[page].generation

\* The generation page_header announces for the RAM copy.
page_header_generation(s, page) ==
    IF s.slot[page] # None /\ ~needs_burn(s, page) THEN flash_generation(s, page)
    ELSE Saturate(flash_generation(s, page) + (IF s.slot[page] # None THEN 1 ELSE 0),
                  GENERATION_MAX)

----------------------------------------------------------------------------
(* Migration *)

AtLeastOne(version) == IF version < 1 THEN 1 ELSE version

schema_migrate_v0_to_v1(page, d) ==
    IF page = BaseEngineFuelComm
    THEN [d EXCEPT !.magic = "STC2", !.version = AtLeastOne(@)]
    ELSE d

format_migrate_v0_to_v1(page, d) ==
    IF page = PinAssignment
    THEN [d EXCEPT !.magic = IF @ = "STP3" THEN "STIO" ELSE @, !.version = AtLeastOne(@)]
    ELSE d

\* Definitions marked `Slip` are plausible mistakes in the definition after them.

\* Slip: the schema loop takes one step too many.
MigrateCurrentToo(page, image) ==
    LET schema_done == IF image.schema <= SCHEMA_VERSION
                       THEN schema_migrate_v0_to_v1(page, image.payload)
                       ELSE image.payload
    IN  IF image.format < CONFIG_FORMAT_VERSION
        THEN format_migrate_v0_to_v1(page, schema_done)
        ELSE schema_done

\* The version loops, each of at most one step: the only migrators are v0 to v1.
migrate_payload_to_current_versions(page, image) ==
    LET schema_done == IF image.schema < SCHEMA_VERSION
                       THEN schema_migrate_v0_to_v1(page, image.payload)
                       ELSE image.payload
    IN  IF image.format < CONFIG_FORMAT_VERSION
        THEN format_migrate_v0_to_v1(page, schema_done)
        ELSE schema_done

\* The payloads of a page are records of the three fields, and include the
\* zeroed one and what migration makes of any of them.
ASSUME PayloadAssumption ==
    \A p \in Page :
        /\ ZeroPayload \in PagePayload[p]
        /\ \A d \in PagePayload[p] :
             /\ d = [magic |-> d.magic, version |-> d.version, body |-> d.body]
             /\ d.magic \in Magic /\ d.version \in Nat
             /\ schema_migrate_v0_to_v1(p, d) \in PagePayload[p]
             /\ format_migrate_v0_to_v1(p, d) \in PagePayload[p]

\* decode_stored_page_image, the page-id check and the migrator's refusals.
ImportAccepts(page, image) ==
    /\ image.intact
    /\ image.format <= CONFIG_FORMAT_VERSION
    /\ image.page_id = page
    /\ image.schema <= SCHEMA_VERSION

----------------------------------------------------------------------------
(* Operations, as functions of the store *)

new_zeroed ==
    [ ram    |-> [p \in Page |-> ZeroPayload],
      slot   |-> [p \in Page |-> [generation |-> 0, payload |-> ZeroPayload]],
      cycles |-> [p \in Page |-> 0] ]

write_page(s, page, data) == [s EXCEPT !.ram[page] = data]

\* Slip: the generation is not saturated.
UnsaturatedGeneration(s, page) ==
    IF s.slot[page] = None THEN 0 ELSE s.slot[page].generation + 1

\* Slip: a damaged slot starts again at generation 1.
DamagedRestartsAtOne(s, page) ==
    IF s.slot[page] = None THEN 1
    ELSE Saturate(s.slot[page].generation + 1, GENERATION_MAX)

next_generation(s, page) ==
    IF s.slot[page] = None THEN 0
    ELSE Saturate(s.slot[page].generation + 1, GENERATION_MAX)

burn_page(s, page) ==
    [ s EXCEPT !.slot[page]   = [ generation |-> next_generation(s, page),
                                  payload    |-> s.ram[page] ],
               !.cycles[page] = Saturate(@ + 1, CYCLES_MAX) ]

\* Pages burn one after the other; a burn touches its own page only.
burn_all_dirty(s) ==
    LET dirty(p) == needs_burn(s, p)
    IN  [ s EXCEPT !.slot   = [p \in Page |-> IF dirty(p) THEN burn_page(s, p).slot[p] ELSE @[p]],
                   !.cycles = [p \in Page |-> IF dirty(p) THEN burn_page(s, p).cycles[p] ELSE @[p]] ]

restore_page_from_flash(s, page) == [s EXCEPT !.ram[page] = s.slot[page].payload]

\* Slip: the migrated payload is not copied to RAM.
ImportLeavesRam(s, page, image) ==
    LET payload == migrate_payload_to_current_versions(page, image)
    IN  [s EXCEPT !.slot[page] = [generation |-> image.generation, payload |-> payload]]

import_persisted_page_image(s, page, image) ==
    LET payload == migrate_payload_to_current_versions(page, image)
    IN  [ s EXCEPT !.slot[page] = [generation |-> image.generation, payload |-> payload],
                   !.ram[page]  = payload ]

----------------------------------------------------------------------------
(* The store on its own *)

StoreInit == store = new_zeroed

WritePage == \E p \in Page : \E d \in PagePayload[p] : store' = write_page(store, p, d)

BurnPage == \E p \in Page : store' = burn_page(store, p)

BurnAllDirty == store' = burn_all_dirty(store)

RestorePage ==
    \E p \in Page : store.slot[p] # None /\ store' = restore_page_from_flash(store, p)

\* A rejected import returns before it touches the store.
ImportPage ==
    \E p \in Page : \E image \in RawImage(p) :
        /\ ImportAccepts(p, image)
        /\ store' = import_persisted_page_image(store, p, image)

\* Flash damage: the stored image no longer decodes.  External to the code,
\* which keeps an Option for it.
DamageSlot ==
    \E p \in Page : store' = [store EXCEPT !.slot[p] = None]

StoreNext ==
    \/ WritePage
    \/ BurnPage
    \/ BurnAllDirty
    \/ RestorePage
    \/ ImportPage
    \/ DamageSlot

StoreSpec == StoreInit /\ [][StoreNext]_store

----------------------------------------------------------------------------
(* Properties *)

\* RAM pages always hold a payload, slots an image or nothing.
StoreTypeOK ==
    /\ DOMAIN store = {"ram", "slot", "cycles"}
    /\ \A p \in Page :
         /\ store.ram[p] \in PagePayload[p]
         /\ store.slot[p] \in CommittedImage(p) \cup {None}
         /\ store.cycles[p] \in 0..CYCLES_MAX

\* The header the host reads for a staged page is the header a burn will
\* write, for a damaged slot and a saturated generation too: page_header and
\* burn_page compute the generation separately.  A burn of everything dirty
\* writes exactly the staged pages and leaves the others' generation alone.
HeaderPredictsBurn ==
    \A p \in Page :
        burn_all_dirty(store).slot[p] = [ generation |-> page_header_generation(store, p),
                                          payload    |-> store.ram[p] ]

\* Importing back the image of any readable page is the same as restoring the
\* page from flash: no migrator touches an image of the current versions,
\* whatever magic and version bytes the host wrote into the payload.
ImportOfOwnImage ==
    \A p \in Page : store.slot[p] # None =>
        LET image == encode_stored_page_image(p, store.slot[p].generation,
                                              store.slot[p].payload)
        IN  /\ ImportAccepts(p, image)
            /\ import_persisted_page_image(store, p, image) =
                 restore_page_from_flash(store, p)

\* An import never alters the tune: whatever it migrates, the body in RAM and
\* in flash is the body of the image, the page is clean afterwards, and a
\* version 0 page comes out with a magic the current firmware reads.
ImportKeepsBody ==
    \A p \in Page, schema \in 0..1, format \in 0..1 :
        LET image == [ encode_stored_page_image(p, 0, store.ram[p]) EXCEPT
                         !.schema = schema, !.format = format ]
            after == import_persisted_page_image(store, p, image)
        IN  /\ after.ram[p].body = store.ram[p].body
            /\ ~needs_burn(after, p)
            /\ (p = BaseEngineFuelComm /\ schema = 0) => after.ram[p].magic = "STC2"
            /\ (p = PinAssignment /\ format = 0) => after.ram[p].magic # "STP3"
============================================================================
