-------------------------- MODULE MCFirmwareUpdate --------------------------
(* FirmwareUpdate with small images and a checksum full of collisions. *)
EXTENDS FirmwareUpdate

MCCrc(image) == Len(image) % 2

MCSigned == { <<1, 0>>, <<0, 1>>, <<1>>, <<1, 1, 0>> }
============================================================================
