--------------------------- MODULE MCConfigStore ---------------------------
(* ConfigStore on the two pages that have migrators. *)
EXTENDS ConfigStore, TLC

Bytes(magic, version, body) == [magic |-> magic, version |-> version, body |-> body]

MCPagePayload ==
    0 :> { Bytes("zero", 0, "z"), Bytes("STC2", 1, "z"),
           Bytes("STC1", 0, "t"), Bytes("STC2", 1, "t") }
  @@ 3 :> { Bytes("zero", 0, "z"), Bytes("zero", 1, "z"),
           Bytes("STP3", 0, "t"), Bytes("STP3", 1, "t"), Bytes("STIO", 1, "t") }
============================================================================
