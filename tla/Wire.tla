-------------------------------- MODULE Wire --------------------------------
(***************************************************************************)
(* Packets over a byte stream (Packet::to_bytes and Packet::from_bytes of  *)
(* protocol.rs).  A sender frames the packets of a script one after        *)
(* another; the bytes arrive in chunks that know nothing of the frames; a  *)
(* receiver takes a packet whenever from_bytes finds one at the front of   *)
(* what it holds.  Once, a byte on the line may change.                    *)
(*                                                                         *)
(* The receiver's loop is not in the repository: from_bytes leaves the     *)
(* bytes of a frame it refuses to its caller, and the receiver here drops  *)
(* one byte and tries again.                                               *)
(***************************************************************************)
EXTENDS Payloads

CONSTANTS Scripts,      \* sequences of messages: a command, a form and a value
          Chunks,       \* how many bytes may arrive at once
          DamagePlaces, \* bound: places on the line where a byte may change
          MaxDamage     \* bound: bytes changed

MAGIC == <<83, 84>>
MAX_PAYLOAD == 8192
Byte == 0..255

Messages == UNION {{s[i] : i \in DOMAIN s} : s \in Scripts}

payload_of(m) == encode(m.form, m.value)

\* to_bytes does not check the limit that from_bytes does: payloads stay below
\* it (the pin directory, among the longest of this firmware, has 4520 bytes).
ASSUME WireAssumption ==
    /\ Chunks \subseteq Nat \ {0}
    /\ DamagePlaces \subseteq Nat \ {0}
    /\ MaxDamage \in Nat
    /\ \A s \in Scripts : s \in Seq(Messages)
    /\ \A m \in Messages :
         /\ m.cmd \in DOMAIN Cmd_code
         /\ payload_of(m) \in Seq(Byte)
         /\ Len(payload_of(m)) <= MAX_PAYLOAD

VARIABLES script,    \* messages still to send
          sent,      \* messages sent
          line,      \* bytes on the way
          held,      \* bytes the receiver holds
          received,  \* packets taken, each a command and a payload
          damage     \* bytes changed so far

wire == <<script, sent, line, held, received, damage>>

to_bytes(cmd, payload) ==
    LET covered == U16(Len(payload)) \o U8(Cmd_code[cmd]) \o payload
    IN  MAGIC \o covered \o U16(Checksum(covered))

Failed(why) == [result |-> why]

\* Slip: the checksum covers the payload only.
PayloadChecked(data) ==
    LET len == Number(SubSeq(data, 3, 4))
        total == 5 + len + 2
        sum == Checksum(U16(len) \o SubSeq(data, 5, total - 2))
    IN  IF Len(data) < 7 THEN Failed("more")
        ELSE IF SubSeq(data, 1, 2) # MAGIC THEN Failed("bad_magic")
        ELSE IF len > MAX_PAYLOAD THEN Failed("too_large")
        ELSE IF Len(data) < total THEN Failed("more")
        ELSE IF data[5] \notin DOMAIN Cmd_from THEN Failed("unknown_cmd")
        ELSE [result |-> "packet", cmd |-> Cmd_from[data[5]],
              payload |-> SubSeq(data, 6, total - 2), total |-> total]

\* At least seven bytes, the magic, a length within the limit, the whole
\* frame, its checksum (over length, command and payload), a known command.
from_bytes(data) ==
    LET len == Number(SubSeq(data, 3, 4))
        total == 5 + len + 2
    IN  IF Len(data) < 7 THEN Failed("more")
        ELSE IF SubSeq(data, 1, 2) # MAGIC THEN Failed("bad_magic")
        ELSE IF len > MAX_PAYLOAD THEN Failed("too_large")
        ELSE IF Len(data) < total THEN Failed("more")
        ELSE IF Number(SubSeq(data, total - 1, total))
                  # Checksum(SubSeq(data, 3, total - 2)) THEN Failed("crc")
        ELSE IF data[5] \notin DOMAIN Cmd_from THEN Failed("unknown_cmd")
        ELSE [result |-> "packet", cmd |-> Cmd_from[data[5]],
              payload |-> SubSeq(data, 6, total - 2), total |-> total]

----------------------------------------------------------------------------
(* Actions *)

Init ==
    /\ script \in Scripts
    /\ sent = << >> /\ line = << >> /\ held = << >> /\ received = << >>
    /\ damage = 0

Send ==
    /\ script # << >>
    /\ line' = line \o to_bytes(Head(script).cmd, payload_of(Head(script)))
    /\ sent' = Append(sent, Head(script))
    /\ script' = Tail(script)
    /\ UNCHANGED <<held, received, damage>>

Arrive(n) ==
    /\ n <= Len(line)
    /\ held' = held \o SubSeq(line, 1, n)
    /\ line' = SubSeq(line, n + 1, Len(line))
    /\ UNCHANGED <<script, sent, received, damage>>

\* External: the rest of what is on the line, less than a chunk.
ArriveRest ==
    /\ line # << >>
    /\ held' = held \o line
    /\ line' = << >>
    /\ UNCHANGED <<script, sent, received, damage>>

Take ==
    LET found == from_bytes(held)
    IN  /\ found.result = "packet"
        /\ received' = Append(received, [cmd |-> found.cmd, payload |-> found.payload])
        /\ held' = SubSeq(held, found.total + 1, Len(held))
        /\ UNCHANGED <<script, sent, line, damage>>

\* External: the receiver drops a byte of what from_bytes refused.
Drop ==
    /\ from_bytes(held).result \notin {"packet", "more"}
    /\ held' = Tail(held)
    /\ UNCHANGED <<script, sent, line, received, damage>>

Damage(i) ==
    /\ damage < MaxDamage
    /\ i <= Len(line)
    /\ line' = [line EXCEPT ![i] = (@ + 1) % 256]
    /\ damage' = damage + 1
    /\ UNCHANGED <<script, sent, held, received>>

Next ==
    \/ Send
    \/ \E n \in Chunks : Arrive(n)
    \/ ArriveRest
    \/ Take
    \/ Drop
    \/ \E i \in DamagePlaces : Damage(i)

Spec == Init /\ [][Next]_wire

----------------------------------------------------------------------------
(* Properties *)

IsOf(packet, m) == packet.cmd = m.cmd /\ packet.payload = payload_of(m)

Increasing(f) == \A i, j \in DOMAIN f : i < j => f[i] < f[j]

\* However the bytes are cut into chunks, the packets taken are packets that
\* were sent, in their order; a changed byte can lose packets but never alter
\* one.  With nothing changed the receiver never takes a byte within a frame for
\* the start of one, so that from_bytes refuses nothing, and once nothing is
\* under way, all packets have been taken.
PacketsAsSent ==
    /\ \E f \in [DOMAIN received -> DOMAIN sent] :
         Increasing(f) /\ \A i \in DOMAIN received : IsOf(received[i], sent[f[i]])
    /\ damage = 0 => from_bytes(held).result \in {"packet", "more"}
    /\ (damage = 0 /\ line = << >> /\ from_bytes(held).result = "more")
         => held = << >> /\ Len(received) = Len(sent)

\* The cuts a decoder does not refuse: an identity that loses as many bytes
\* as its reset reason takes reads as the form without one, a FlashResume with
\* nothing left asks for whatever session there is, page statuses may end
\* where the form of ten bytes a page ends, and a trigger capture cut within
\* its sample count is indexed past its end.
CutUnseen(form, value, n, outcome) ==
    \/ /\ form = "VersionResponse" /\ outcome = "none"
       /\ n = Len(encode(form, value)) - Len(push_optional(value.reset_reason))
    \/ form = "FlashResume" /\ n = 0 /\ outcome = "none"
    \/ form = "PageStatuses" /\ n = 1 + Len(value.entries) * 10 /\ outcome = "none"
    \/ /\ form = "TriggerCapture" /\ outcome = "overrun"
       /\ n + (2 * Len(value.primary_samples)) - Len(encode(form, value)) \in {-2, -1}

CutRefused(m, payload, n) ==
    LET outcome == decode(m.form, SubSeq(payload, 1, n)).error
    IN  outcome = "malformed" \/ CutUnseen(m.form, m.value, n, outcome)

\* The live frame cuts a value off where its field ends; the others keep all.
Kept(m, field) ==
    IF m.form = "LiveData"
    THEN LET slot == SelectSeq(LiveDataFrame, LAMBDA s : s.name = field)[1]
         IN  seen_as(slot, m.value[field])
    ELSE m.value[field]

DecodesTo(m, payload) ==
    LET read == decode(m.form, payload)
    IN  /\ read.error = "none"
        /\ \A field \in DOMAIN m.value : read.out[field] = Kept(m, field)

\* Every payload decodes to the value it was made from, and cut short at any
\* byte it is refused, without indexing past its end.
PayloadsDecode ==
    [][ Take => \E i \in DOMAIN sent :
          LET m == sent[i]
              payload == received'[Len(received')].payload
          IN  /\ IsOf(received'[Len(received')], m)
              /\ DecodesTo(m, payload)
              /\ \A n \in 0..(Len(payload) - 1) : CutRefused(m, payload, n) ]_wire
============================================================================
