--------------------------- MODULE PayloadReader ---------------------------
(***************************************************************************)
(* How protocol.rs writes and reads the fields of a payload.  A payload is *)
(* a sequence of bytes, a string the sequence of its bytes; signed and     *)
(* floating-point fields stand for their bit patterns.                     *)
(*                                                                         *)
(* Writers return bytes.  A decoder is a list of reading steps in the      *)
(* order of the code.  Fields of a fixed width are indexed without a check *)
(* of their own, behind length checks written before them: a step that     *)
(* indexes past the end is an "overrun", the panic of a slice index.       *)
(***************************************************************************)
EXTENDS Integers, Sequences, SequencesExt

CONSTANT None   \* an absent optional field

----------------------------------------------------------------------------
(* Writers *)

\* to_be_bytes of an unsigned number of w bytes.
Bytes(w, v) == [i \in 1..w |-> (v \div 256^(w - i)) % 256]

U8(v) == Bytes(1, v)     \* `as u8`: the low byte
U16(v) == Bytes(2, v)
U32(v) == Bytes(4, v)
PutFlag(b) == <<IF b THEN 1 ELSE 0>>

\* A length byte and the bytes.
push_string(s) == U8(Len(s)) \o s

\* An absent string is written empty.
push_optional(s) == push_string(IF s = None THEN << >> ELSE s)

\* An absent number is written as its greatest value.
OrMax(w, v) == IF v = None THEN [i \in 1..w |-> 255] ELSE Bytes(w, v)

ForEach(entries, Write(_)) == FlattenSeq([i \in DOMAIN entries |-> Write(entries[i])])

\* A count byte and the entries.
Counted(entries, Write(_)) == U8(Len(entries)) \o ForEach(entries, Write)

\* External: the crc crate.  The stand-in changes with any single byte, as the
\* CRCs do.
Checksum(bytes) ==
    LET sum[i \in 0..Len(bytes)] ==
            IF i = 0 THEN 9 ELSE (sum[i - 1] + ((2 * i + 1) * bytes[i])) % 65536
    IN  sum[Len(bytes)]

----------------------------------------------------------------------------
(* Readers *)

Start(bytes) == [bytes |-> bytes, at |-> 1, out |-> << >>, counts |-> << >>, error |-> "none"]

Left(c) == Len(c.bytes) - (c.at - 1)
Fail(c, why) == [c EXCEPT !.error = why]
Advance(c, n) == [c EXCEPT !.at = @ + n]
Field(c, name, value) == [c EXCEPT !.out = (name :> value) @@ @]

\* A number of four bytes is read as signed: the same bits.
Number(bytes) ==
    LET top(i) == IF i = 1 /\ Len(bytes) = 4 /\ bytes[1] > 127 THEN bytes[1] - 256 ELSE bytes[i]
        value[i \in 0..Len(bytes)] == IF i = 0 THEN 0 ELSE (value[i - 1] * 256) + top(i)
    IN  value[Len(bytes)]

Ahead(c, n) == SubSeq(c.bytes, c.at, c.at + n - 1)

\* `payload.len() < offset + n` and `payload.len() != n`.
Need(n) == [step |-> "need", n |-> n]
Exactly(n) == [step |-> "exactly", n |-> n]
\* `offset != payload.len()`.
End == [step |-> "end"]
\* Room for `per` bytes for each of a count, and some more.
Room(count, per, extra) == [step |-> "room", count |-> count, per |-> per, extra |-> extra]

Num(name, w) == [step |-> "fixed", name |-> name, w |-> w, as |-> "number"]
Flag(name) == [step |-> "fixed", name |-> name, w |-> 1, as |-> "flag"]
Opt(name, w) == [step |-> "fixed", name |-> name, w |-> w, as |-> "option"]
Count(name, w) == [step |-> "fixed", name |-> name, w |-> w, as |-> "count"]
Code(name, table) == [step |-> "code", name |-> name, w |-> 1, table |-> table]
Str(name) == [step |-> "string", name |-> name, optional |-> FALSE]
OptStr(name) == [step |-> "string", name |-> name, optional |-> TRUE]
Raw(name, count) == [step |-> "raw", name |-> name, count |-> count]
Each(name, count, steps) == [step |-> "each", name |-> name, count |-> count, steps |-> steps]

read_fixed(step, c) ==
    LET n == Number(Ahead(c, step.w))
        next == Advance(c, step.w)
    IN  CASE Left(c) < step.w -> Fail(c, "overrun")
          [] step.as = "scaled" ->
               Field(next, step.name,
                     step.per * (IF step.signed /\ n >= (256^step.w) \div 2
                                 THEN n - 256^step.w ELSE n))
          [] step.as = "number" -> Field(next, step.name, n)
          [] step.as = "flag"   -> Field(next, step.name, n # 0)
          [] step.as = "option" ->
               Field(next, step.name, IF n = 256^step.w - 1 THEN None ELSE n)
          [] step.as = "count"  -> [next EXCEPT !.counts = (step.name :> n) @@ @]

read_code(step, c) ==
    IF Left(c) < 1 THEN Fail(c, "overrun")
    ELSE IF c.bytes[c.at] \notin DOMAIN step.table THEN Fail(c, "malformed")
    ELSE Field(Advance(c, 1), step.name, step.table[c.bytes[c.at]])

\* One character of UTF-8: neither longer than it need be, nor a surrogate, nor
\* past the last code point.
IsCharacter(char) ==
    LET lead == char[1]
    IN  /\ \A k \in 2..Len(char) : char[k] \in 128..191
        /\ \/ Len(char) = 1 /\ lead < 128
           \/ Len(char) = 2 /\ lead \in 194..223
           \/ /\ Len(char) = 3 /\ lead \in 224..239
              /\ lead = 224 => char[2] >= 160
              /\ lead = 237 => char[2] < 160
           \/ /\ Len(char) = 4 /\ lead \in 240..244
              /\ lead = 240 => char[2] >= 144
              /\ lead = 244 => char[2] < 144

\* String::from_utf8 takes a sequence of whole characters.
IsUtf8(s) ==
    LET whole[i \in 1..(Len(s) + 1)] ==
            \/ i = Len(s) + 1
            \/ \E last \in i..(IF i + 3 < Len(s) THEN i + 3 ELSE Len(s)) :
                   IsCharacter(SubSeq(s, i, last)) /\ whole[last + 1]
    IN  whole[1]

\* read_string checks the length byte, the bytes it counts and what they spell.
read_string(step, c) ==
    IF Left(c) < 1 \/ Left(c) < 1 + c.bytes[c.at] THEN Fail(c, "malformed")
    ELSE LET s == Ahead(Advance(c, 1), c.bytes[c.at])
         IN  IF ~IsUtf8(s) THEN Fail(c, "malformed")
             ELSE Field(Advance(c, 1 + Len(s)), step.name,
                        IF step.optional /\ s = << >> THEN None ELSE s)

read_raw(step, c) ==
    LET n == c.counts[step.count]
    IN  IF Left(c) < n THEN Fail(c, "overrun")
        ELSE Field(Advance(c, n), step.name, Ahead(c, n))

\* The steps in order, up to the first that fails.
InOrder(ReadStep(_, _), steps, c) ==
    LET after[i \in 0..Len(steps)] ==
            IF i = 0 THEN c
            ELSE LET before == after[i - 1]
                 IN  IF before.error # "none" THEN before ELSE ReadStep(steps[i], before)
    IN  after[Len(steps)]

\* The entries of a list, one at a time; the fields of an entry are its own.
read_each(ReadStep(_, _), step, c) ==
    LET read[k \in 0..c.counts[step.count]] ==
            IF k = 0 THEN [cursor |-> c, entries |-> << >>]
            ELSE LET before == read[k - 1]
                     entry == InOrder(ReadStep, step.steps, [before.cursor EXCEPT !.out = << >>])
                 IN  IF before.cursor.error # "none" THEN before
                     ELSE [cursor |-> entry, entries |-> Append(before.entries, entry.out)]
        all == read[c.counts[step.count]]
    IN  Field([all.cursor EXCEPT !.out = c.out, !.counts = c.counts], step.name, all.entries)

ReadField(step, c) ==
    CASE step.step = "need"    -> IF Left(c) < step.n THEN Fail(c, "malformed") ELSE c
      [] step.step = "exactly" -> IF Len(c.bytes) # step.n THEN Fail(c, "malformed") ELSE c
      [] step.step = "end"     -> IF Left(c) # 0 THEN Fail(c, "malformed") ELSE c
      [] step.step = "room"    ->
           IF Left(c) < c.counts[step.count] * step.per + step.extra
           THEN Fail(c, "malformed") ELSE c
      [] step.step = "fixed"   -> read_fixed(step, c)
      [] step.step = "code"    -> read_code(step, c)
      [] step.step = "string"  -> read_string(step, c)
      [] step.step = "raw"     -> read_raw(step, c)

\* Lists nest two deep: the routes of a pin, the classes of a link.
ReadEntry(step, c) ==
    IF step.step = "each" THEN read_each(ReadField, step, c) ELSE ReadField(step, c)

Read(step, c) ==
    IF step.step = "each" THEN read_each(ReadEntry, step, c) ELSE ReadField(step, c)

Run(steps, c) == InOrder(Read, steps, c)

\* The usual directory: a count byte, the entries, nothing after them.
Directory(steps) ==
    <<Need(1), Count("entries", 1), Each("entries", "entries", steps), End>>
============================================================================
