------------------------- MODULE MCBootloaderSession -------------------------
(* BootloaderSession with one-byte blocks. *)
EXTENDS BootloaderSession

MCCrc(image) == Len(image) % 2

MCSigned == { <<1>>, <<1, 0>> }
============================================================================
