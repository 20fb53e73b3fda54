-------------------------- MODULE ConfigStoreProofs --------------------------
(***************************************************************************)
(* Safety of ConfigStore for any set of pages and payloads that contains   *)
(* what migration makes of them, and any bound of the counters.            *)
(***************************************************************************)
EXTENDS ConfigStore, TLAPS

AnyPayload == UNION {PagePayload[p] : p \in Page}
AnyImage == UNION {CommittedImage(p) \cup {None} : p \in Page}

LEMMA OfSomePage ==
    ASSUME NEW page \in Page
    PROVE  /\ \A d \in PagePayload[page] : d \in AnyPayload
           /\ \A i \in CommittedImage(page) \cup {None} : i \in AnyImage
  BY Zenon DEF AnyPayload, AnyImage

StoreRecord ==
    [ram : [Page -> AnyPayload], slot : [Page -> AnyImage], cycles : [Page -> 0..CYCLES_MAX]]

PageOK(s, p) ==
    /\ s.ram[p] \in PagePayload[p]
    /\ s.slot[p] \in CommittedImage(p) \cup {None}
    /\ s.cycles[p] \in 0..CYCLES_MAX

\* StoreTypeOK of any store, with the domains of its functions.
StoreOK(s) == s \in StoreRecord /\ \A p \in Page : PageOK(s, p)

LEMMA StoreOKIsEnough == StoreOK(store) => StoreTypeOK
  BY DEF StoreOK, PageOK, StoreRecord, StoreTypeOK

\* The store with a new RAM copy, slot and erase count for one page.
Replaced(s, page, d, image, count) ==
    [s EXCEPT !.ram[page] = d, !.slot[page] = image, !.cycles[page] = count]

LEMMA PageReplaced ==
    ASSUME NEW s, StoreOK(s), NEW page \in Page, NEW d \in PagePayload[page],
           NEW image \in CommittedImage(page) \cup {None}, NEW count \in 0..CYCLES_MAX
    PROVE  LET t == Replaced(s, page, d, image, count)
           IN  /\ StoreOK(t)
               /\ t.ram[page] = d /\ t.slot[page] = image /\ t.cycles[page] = count
  <1> DEFINE t == Replaced(s, page, d, image, count)
  <1>1. d \in AnyPayload /\ image \in AnyImage
    BY OfSomePage, Zenon
  <1>2. /\ s.ram \in [Page -> AnyPayload] /\ s.slot \in [Page -> AnyImage]
        /\ s.cycles \in [Page -> 0..CYCLES_MAX]
    BY DEF StoreOK, StoreRecord
  <1>3. /\ t.ram = [s.ram EXCEPT ![page] = d]
        /\ t.slot = [s.slot EXCEPT ![page] = image]
        /\ t.cycles = [s.cycles EXCEPT ![page] = count]
        /\ t = [ram |-> t.ram, slot |-> t.slot, cycles |-> t.cycles]
    <2>1. s \in StoreRecord /\ t = Replaced(s, page, d, image, count)
      BY DEF StoreOK
    <2> HIDE DEF t
    <2> QED
      BY <2>1 DEF Replaced, StoreRecord
  <1> HIDE DEF t
  <1>4. t \in StoreRecord
    BY <1>1, <1>2, <1>3 DEF StoreRecord
  <1>5. t.ram[page] = d /\ t.slot[page] = image /\ t.cycles[page] = count
    BY <1>2, <1>3
  <1>6. ASSUME NEW p \in Page PROVE PageOK(t, p)
    <2>1. CASE p = page
      BY <1>5, <2>1, Zenon DEF PageOK
    <2>2. CASE p # page
      <3>1. t.ram[p] = s.ram[p] /\ t.slot[p] = s.slot[p] /\ t.cycles[p] = s.cycles[p]
        BY <1>2, <1>3, <2>2
      <3>2. PageOK(s, p)
        BY DEF StoreOK
      <3> QED
        BY <3>1, <3>2, Zenon DEF PageOK
    <2> QED
      BY <2>1, <2>2
  <1>7. StoreOK(t)
    BY <1>4, <1>6, Zenon DEF StoreOK
  <1> QED
    BY <1>5, <1>7 DEF t

LEMMA SaturatedInRange ==
    ASSUME NEW max \in Nat \ {0}, NEW n \in 0..max
    PROVE  Saturate(n + 1, max) \in 0..max
  BY DEF Saturate

\* A burn writes a generation the next boot can decode.
LEMMA NextGeneration ==
    ASSUME NEW s, StoreOK(s), NEW page \in Page
    PROVE  next_generation(s, page) \in 0..GENERATION_MAX
  <1>1. s.slot[page] = None \/ s.slot[page].generation \in 0..GENERATION_MAX
    BY DEF StoreOK, PageOK, CommittedImage
  <1>2. CASE s.slot[page] = None
    BY <1>2, StoreAssumption DEF next_generation
  <1>3. CASE s.slot[page] # None
    <2>1. Saturate(s.slot[page].generation + 1, GENERATION_MAX) \in 0..GENERATION_MAX
      BY <1>1, <1>3, StoreAssumption, SaturatedInRange
    <2> QED
      BY <1>3, <2>1 DEF next_generation
  <1> QED
    BY <1>2, <1>3

Burned(s, page) == [generation |-> next_generation(s, page), payload |-> s.ram[page]]

LEMMA BurnOK ==
    ASSUME NEW s, StoreOK(s), NEW page \in Page
    PROVE  LET t == burn_page(s, page)
           IN  /\ StoreOK(t)
               /\ t.slot[page] = Burned(s, page) /\ t.cycles[page] \in 0..CYCLES_MAX
               /\ Burned(s, page) \in CommittedImage(page)
  <1> DEFINE count == Saturate(s.cycles[page] + 1, CYCLES_MAX)
             t == burn_page(s, page)
  <1>1. s.ram[page] \in PagePayload[page] /\ s.cycles[page] \in 0..CYCLES_MAX
    BY DEF StoreOK, PageOK
  <1>2. Burned(s, page) \in CommittedImage(page)
    BY <1>1, NextGeneration DEF CommittedImage, Burned
  <1>3. count \in 0..CYCLES_MAX
    BY <1>1, StoreAssumption, SaturatedInRange
  <1>4. t = Replaced(s, page, s.ram[page], Burned(s, page), count)
    BY DEF StoreOK, StoreRecord, burn_page, Replaced, Burned
  <1> HIDE DEF count, t
  <1>5. LET u == Replaced(s, page, s.ram[page], Burned(s, page), count)
        IN  StoreOK(u) /\ u.slot[page] = Burned(s, page) /\ u.cycles[page] = count
    BY <1>1, <1>2, <1>3, PageReplaced
  <1>6. /\ StoreOK(t)
        /\ t.slot[page] = Burned(s, page) /\ t.cycles[page] \in 0..CYCLES_MAX
    BY <1>3, <1>4, <1>5, Zenon
  <1> QED
    BY <1>2, <1>6 DEF t

\* Migration stays within the payloads of a page.
LEMMA MigratedPayload ==
    ASSUME NEW page \in Page, NEW image, image.payload \in PagePayload[page]
    PROVE  migrate_payload_to_current_versions(page, image) \in PagePayload[page]
  BY PayloadAssumption DEF migrate_payload_to_current_versions

LEMMA ImportOK ==
    ASSUME NEW s, StoreOK(s), NEW page \in Page, NEW raw, raw.payload \in PagePayload[page],
           raw.generation \in 0..GENERATION_MAX
    PROVE  LET t == import_persisted_page_image(s, page, raw)
               migrated == migrate_payload_to_current_versions(page, raw)
           IN  /\ StoreOK(t)
               /\ t.ram[page] = migrated
               /\ t.slot[page] = [generation |-> raw.generation, payload |-> migrated]
  <1> DEFINE t == import_persisted_page_image(s, page, raw)
             migrated == migrate_payload_to_current_versions(page, raw)
             committed == [generation |-> raw.generation, payload |-> migrated]
  <1>1. migrated \in PagePayload[page]
    BY MigratedPayload
  <1>2. committed \in CommittedImage(page) \cup {None}
    BY <1>1 DEF CommittedImage
  <1>3. s.cycles[page] \in 0..CYCLES_MAX
    BY DEF StoreOK, PageOK
  <1>4. t = Replaced(s, page, migrated, committed, s.cycles[page])
    BY DEF StoreOK, StoreRecord, import_persisted_page_image, Replaced
  <1> HIDE DEF migrated, committed, t
  <1>5. LET u == Replaced(s, page, migrated, committed, s.cycles[page])
        IN  StoreOK(u) /\ u.ram[page] = migrated /\ u.slot[page] = committed
    <2>1. ASSUME NEW x \in PagePayload[page], NEW y \in CommittedImage(page) \cup {None},
                 NEW z \in 0..CYCLES_MAX
          PROVE  LET u == Replaced(s, page, x, y, z)
                 IN  StoreOK(u) /\ u.ram[page] = x /\ u.slot[page] = y
      BY PageReplaced
    <2> QED
      BY <1>1, <1>2, <1>3, <2>1
  <1>6. StoreOK(t) /\ t.ram[page] = migrated /\ t.slot[page] = committed
    BY <1>4, <1>5, Zenon
  <1> QED
    BY <1>6 DEF t, migrated, committed

\* A burn of every dirty page does to each page what its own burn does.
LEMMA BurnAllOK ==
    ASSUME NEW s, StoreOK(s)
    PROVE  LET t == burn_all_dirty(s)
           IN  /\ StoreOK(t)
               /\ \A p \in Page : t.slot[p] = IF needs_burn(s, p) THEN Burned(s, p)
                                                                  ELSE s.slot[p]
  <1> DEFINE t == burn_all_dirty(s)
             slot == [p \in Page |-> IF needs_burn(s, p) THEN burn_page(s, p).slot[p] ELSE s.slot[p]]
             cycles == [p \in Page |-> IF needs_burn(s, p) THEN burn_page(s, p).cycles[p]
                                                          ELSE s.cycles[p]]
  <1>1. s \in StoreRecord
    BY DEF StoreOK
  <1>2. t = [s EXCEPT !.slot = slot, !.cycles = cycles]
    BY <1>1 DEF burn_all_dirty, StoreRecord
  <1>3. ASSUME NEW p \in Page
        PROVE  /\ slot[p] = IF needs_burn(s, p) THEN Burned(s, p) ELSE s.slot[p]
               /\ slot[p] \in CommittedImage(p) \cup {None} /\ cycles[p] \in 0..CYCLES_MAX
    <2>1. /\ burn_page(s, p).slot[p] = Burned(s, p)
          /\ burn_page(s, p).cycles[p] \in 0..CYCLES_MAX
          /\ Burned(s, p) \in CommittedImage(p)
      BY BurnOK
    <2>2. PageOK(s, p)
      BY DEF StoreOK
    <2> QED
      BY <2>1, <2>2 DEF PageOK
  <1>4. slot \in [Page -> AnyImage] /\ cycles \in [Page -> 0..CYCLES_MAX]
    <2>1. \A p \in Page : slot[p] \in AnyImage /\ cycles[p] \in 0..CYCLES_MAX
      BY <1>3, OfSomePage
    <2>2. /\ slot = [p \in Page |-> slot[p]] /\ cycles = [p \in Page |-> cycles[p]]
      OBVIOUS
    <2> HIDE DEF slot, cycles
    <2> QED
      BY <2>1, <2>2
  <1> HIDE DEF slot, cycles, t
  <1>5. t \in StoreRecord /\ t.ram = s.ram /\ t.slot = slot /\ t.cycles = cycles
    BY <1>1, <1>2, <1>4 DEF StoreRecord
  <1>6. StoreOK(t)
    BY <1>3, <1>5 DEF StoreOK, PageOK
  <1> QED
    BY <1>3, <1>5, <1>6 DEF t
----------------------------------------------------------------------------
(* The inductive invariant                                                  *)

StoreSafe == StoreOK(store)

LEMMA StoreInitOK == StoreInit => StoreSafe
  <1> SUFFICES StoreOK(new_zeroed)
    BY DEF StoreInit, StoreSafe
  <1>1. ASSUME NEW p \in Page
        PROVE  /\ ZeroPayload \in PagePayload[p]
               /\ [generation |-> 0, payload |-> ZeroPayload] \in CommittedImage(p) \cup {None}
               /\ 0 \in 0..CYCLES_MAX
    BY PayloadAssumption, StoreAssumption DEF CommittedImage
  <1>2. \A p \in Page : /\ ZeroPayload \in AnyPayload
                        /\ [generation |-> 0, payload |-> ZeroPayload] \in AnyImage
    BY <1>1, OfSomePage
  <1>3. new_zeroed \in StoreRecord
    BY <1>1, <1>2 DEF new_zeroed, StoreRecord
  <1>4. \A p \in Page : PageOK(new_zeroed, p)
    BY <1>1 DEF new_zeroed, PageOK
  <1> QED
    BY <1>3, <1>4 DEF StoreOK

LEMMA StoreStep == StoreSafe /\ [StoreNext]_store => StoreSafe'
  <1> SUFFICES ASSUME StoreOK(store), [StoreNext]_store PROVE StoreOK(store')
    BY DEF StoreSafe
  <1>1. ASSUME NEW p \in Page
        PROVE  /\ store.ram[p] \in PagePayload[p]
               /\ store.slot[p] \in CommittedImage(p) \cup {None}
               /\ store.cycles[p] \in 0..CYCLES_MAX
    BY DEF StoreOK, PageOK
  <1>2. store \in StoreRecord
    BY DEF StoreOK
  <1>3. CASE WritePage
    <2>1. PICK p \in Page : \E d \in PagePayload[p] : store' = write_page(store, p, d)
      BY <1>3 DEF WritePage
    <2>2. PICK d \in PagePayload[p] : store' = write_page(store, p, d)
      BY <2>1
    <2>3. store' = Replaced(store, p, d, store.slot[p], store.cycles[p])
      BY <1>2, <2>2 DEF write_page, Replaced, StoreRecord
    <2> QED
      BY <1>1, <2>3, PageReplaced
  <1>4. CASE BurnPage
    <2>1. PICK p \in Page : store' = burn_page(store, p)
      BY <1>4 DEF BurnPage
    <2> QED
      BY <2>1, BurnOK
  <1>5. CASE BurnAllDirty
    BY <1>5, BurnAllOK DEF BurnAllDirty
  <1>6. CASE RestorePage
    <2>1. PICK p \in Page : store.slot[p] # None /\ store' = restore_page_from_flash(store, p)
      BY <1>6 DEF RestorePage
    <2>2. store.slot[p].payload \in PagePayload[p]
      BY <1>1, <2>1 DEF CommittedImage
    <2>3. store' = Replaced(store, p, store.slot[p].payload, store.slot[p], store.cycles[p])
      BY <1>2, <2>1 DEF restore_page_from_flash, Replaced, StoreRecord
    <2> QED
      BY <1>1, <2>2, <2>3, PageReplaced
  <1>7. CASE ImportPage
    <2>1. PICK p \in Page : \E image \in RawImage(p) :
             store' = import_persisted_page_image(store, p, image)
      BY <1>7 DEF ImportPage
    <2>2. PICK image \in RawImage(p) : store' = import_persisted_page_image(store, p, image)
      BY <2>1
    <2>3. image.payload \in PagePayload[p] /\ image.generation \in 0..GENERATION_MAX
      BY DEF RawImage
    <2> QED
      BY <2>2, <2>3, ImportOK
  <1>8. CASE DamageSlot
    <2>1. PICK p \in Page : store' = [store EXCEPT !.slot[p] = None]
      BY <1>8 DEF DamageSlot
    <2>2. store' = Replaced(store, p, store.ram[p], None, store.cycles[p])
      BY <1>2, <2>1 DEF Replaced, StoreRecord
    <2> QED
      BY <1>1, <2>2, PageReplaced
  <1>9. CASE store' = store
    BY <1>9
  <1> QED
    BY <1>3, <1>4, <1>5, <1>6, <1>7, <1>8, <1>9 DEF StoreNext

----------------------------------------------------------------------------
(* What it gives                                                            *)

LEMMA HeaderAgrees == StoreOK(store) => HeaderPredictsBurn
  <1> SUFFICES ASSUME StoreOK(store), NEW p \in Page
               PROVE  burn_all_dirty(store).slot[p]
                        = [ generation |-> page_header_generation(store, p),
                            payload |-> store.ram[p] ]
    BY DEF HeaderPredictsBurn
  <1>1. burn_all_dirty(store).slot[p]
          = IF needs_burn(store, p) THEN Burned(store, p) ELSE store.slot[p]
    BY BurnAllOK
  <1>2. store.slot[p] \in CommittedImage(p) \cup {None}
    BY DEF StoreOK, PageOK
  <1>3. CASE needs_burn(store, p) /\ store.slot[p] = None
    <2>1. page_header_generation(store, p) = 0
      BY <1>3, StoreAssumption DEF page_header_generation, flash_generation, Saturate
    <2> QED
      BY <1>1, <1>3, <2>1 DEF Burned, next_generation
  <1>4. CASE needs_burn(store, p) /\ store.slot[p] # None
    BY <1>1, <1>4 DEF Burned, next_generation, page_header_generation, flash_generation
  <1>5. CASE ~needs_burn(store, p)
    <2>1. store.slot[p] # None /\ store.slot[p].payload = store.ram[p]
      BY <1>5 DEF needs_burn
    <2>2. store.slot[p] = [ generation |-> store.slot[p].generation,
                            payload    |-> store.slot[p].payload ]
      BY <1>2, <2>1 DEF CommittedImage
    <2>3. page_header_generation(store, p) = store.slot[p].generation
      BY <1>5, <2>1 DEF page_header_generation, flash_generation
    <2> QED
      BY <1>1, <1>5, <2>1, <2>2, <2>3
  <1> QED
    BY <1>3, <1>4, <1>5

LEMMA CurrentImageKept ==
    ASSUME NEW page \in Page, NEW generation, NEW d
    PROVE  LET image == encode_stored_page_image(page, generation, d)
           IN  /\ ImportAccepts(page, image)
               /\ migrate_payload_to_current_versions(page, image) = d
               /\ image.generation = generation /\ image.payload = d
  BY DEF encode_stored_page_image, ImportAccepts, migrate_payload_to_current_versions,
         SCHEMA_VERSION, CONFIG_FORMAT_VERSION

LEMMA OwnImageRestores == StoreOK(store) => ImportOfOwnImage
  <1> SUFFICES ASSUME StoreOK(store), NEW p \in Page, store.slot[p] # None
               PROVE  LET image == encode_stored_page_image(p, store.slot[p].generation,
                                                            store.slot[p].payload)
                      IN  /\ ImportAccepts(p, image)
                          /\ import_persisted_page_image(store, p, image) =
                               restore_page_from_flash(store, p)
    BY DEF ImportOfOwnImage
  <1> DEFINE slot == store.slot[p]
             own == encode_stored_page_image(p, slot.generation, slot.payload)
  <1>1. /\ ImportAccepts(p, own)
        /\ migrate_payload_to_current_versions(p, own) = slot.payload
        /\ own.generation = slot.generation
    BY CurrentImageKept
  <1>2. slot = [generation |-> slot.generation, payload |-> slot.payload]
    BY DEF StoreOK, PageOK, CommittedImage
  <1>3. import_persisted_page_image(store, p, own)
          = [store EXCEPT !.slot[p] = slot, !.ram[p] = slot.payload]
    BY <1>1, <1>2, Zenon DEF import_persisted_page_image
  <1>4. [store EXCEPT !.slot[p] = slot, !.ram[p] = slot.payload]
          = [store EXCEPT !.ram[p] = slot.payload]
    <2>1. store \in StoreRecord
      BY DEF StoreOK
    <2> QED
      BY <2>1 DEF StoreRecord
  <1> QED
    BY <1>1, <1>3, <1>4 DEF restore_page_from_flash
LEMMA PayloadFields ==
    ASSUME NEW page \in Page, NEW d \in PagePayload[page]
    PROVE  d = [magic |-> d.magic, version |-> d.version, body |-> d.body]
  BY PayloadAssumption

LEMMA SchemaStep ==
    ASSUME NEW page \in Page, NEW d \in PagePayload[page]
    PROVE  LET m == schema_migrate_v0_to_v1(page, d)
           IN  /\ m \in PagePayload[page] /\ m.body = d.body
               /\ page = BaseEngineFuelComm => m.magic = "STC2"
  <1>1. schema_migrate_v0_to_v1(page, d) \in PagePayload[page]
    BY PayloadAssumption
  <1> QED
    BY <1>1, PayloadFields DEF schema_migrate_v0_to_v1

LEMMA FormatStep ==
    ASSUME NEW page \in Page, NEW d \in PagePayload[page]
    PROVE  LET m == format_migrate_v0_to_v1(page, d)
           IN  /\ m \in PagePayload[page] /\ m.body = d.body
               /\ page = PinAssignment => m.magic # "STP3"
               /\ page # PinAssignment => m = d
  <1>1. format_migrate_v0_to_v1(page, d) \in PagePayload[page]
    BY PayloadAssumption
  <1> QED
    BY <1>1, PayloadFields DEF format_migrate_v0_to_v1

LEMMA BodyKept == StoreOK(store) => ImportKeepsBody
  <1> SUFFICES ASSUME StoreOK(store), NEW p \in Page, NEW schema \in 0..1, NEW format \in 0..1
               PROVE  LET image == [ encode_stored_page_image(p, 0, store.ram[p]) EXCEPT
                                       !.schema = schema, !.format = format ]
                          after == import_persisted_page_image(store, p, image)
                      IN  /\ after.ram[p].body = store.ram[p].body
                          /\ ~needs_burn(after, p)
                          /\ (p = BaseEngineFuelComm /\ schema = 0) => after.ram[p].magic = "STC2"
                          /\ (p = PinAssignment /\ format = 0) => after.ram[p].magic # "STP3"
    BY DEF ImportKeepsBody
  <1> DEFINE image == [ encode_stored_page_image(p, 0, store.ram[p]) EXCEPT
                          !.schema = schema, !.format = format ]
             after == import_persisted_page_image(store, p, image)
             d == store.ram[p]
             s == IF schema = 0 THEN schema_migrate_v0_to_v1(p, d) ELSE d
             m == IF format = 0 THEN format_migrate_v0_to_v1(p, s) ELSE s
  <1>1. d \in PagePayload[p]
    BY DEF StoreOK, PageOK
  <1>2. /\ image.payload = d /\ image.generation = 0
        /\ image.schema = schema /\ image.format = format
    BY DEF encode_stored_page_image
  <1>3. migrate_payload_to_current_versions(p, image) = m
    <2>1. (schema < 1 <=> schema = 0) /\ (format < 1 <=> format = 0)
      OBVIOUS
    <2> HIDE DEF image
    <2> QED
      BY <1>2, <2>1
         DEF migrate_payload_to_current_versions, SCHEMA_VERSION, CONFIG_FORMAT_VERSION
  <1> HIDE DEF image, d
  <1>4. /\ s \in PagePayload[p] /\ s.body = d.body
        /\ p = BaseEngineFuelComm /\ schema = 0 => s.magic = "STC2"
    BY <1>1, SchemaStep
  <1> HIDE DEF s
  <1>5. /\ m.body = d.body
        /\ p = PinAssignment /\ format = 0 => m.magic # "STP3"
        /\ p # PinAssignment => m = s
    BY <1>4, FormatStep
  <1> HIDE DEF m
  <1>6. image.payload \in PagePayload[p] /\ image.generation \in 0..GENERATION_MAX
    BY <1>1, <1>2, StoreAssumption
  <1>7. after.ram[p] = m /\ after.slot[p] = [generation |-> 0, payload |-> m] /\ StoreOK(after)
    BY <1>2, <1>3, <1>6, ImportOK
  <1> HIDE DEF after
  <1>8. ~needs_burn(after, p)
    <2>1. m \in PagePayload[p]
      BY <1>7 DEF StoreOK, PageOK
    <2>2. [generation |-> 0, payload |-> m] \in CommittedImage(p)
      BY <2>1, StoreAssumption DEF CommittedImage
    <2>3. after.slot[p] # None /\ after.slot[p].payload = after.ram[p]
      BY <1>7, <2>2, NoneAssumption
    <2> QED
      BY <2>3 DEF needs_burn
  <1>9. BaseEngineFuelComm # PinAssignment
    BY DEF BaseEngineFuelComm, PinAssignment
  <1> QED
    BY <1>4, <1>5, <1>7, <1>8, <1>9 DEF after, image, d

\* Every page of the store holds data, every image is of data, and no counter
\* passes its limit (StagedConfigStore).
THEOREM StoreTypeCorrect == StoreSpec => []StoreTypeOK
  BY StoreInitOK, StoreStep, StoreOKIsEnough, PTL DEF StoreSpec, StoreSafe

\* The generation and data a header announces are what the next burn writes
\* (page_header, burn_page, burn_all_dirty).
THEOREM HeadersPredictBurns == StoreSpec => []HeaderPredictsBurn
  BY StoreInitOK, StoreStep, HeaderAgrees, PTL DEF StoreSpec, StoreSafe

\* No migrator touches an image of the current versions
\* (import_persisted_page_image, migrate_payload_to_current_versions).
THEOREM OwnImagesRestore == StoreSpec => []ImportOfOwnImage
  BY StoreInitOK, StoreStep, OwnImageRestores, PTL DEF StoreSpec, StoreSafe

\* An import never alters the tune and leaves the page clean.
THEOREM ImportsKeepBodies == StoreSpec => []ImportKeepsBody
  BY StoreInitOK, StoreStep, BodyKept, PTL DEF StoreSpec, StoreSafe
=============================================================================
