--------------------------- MODULE MCUefiHandover ---------------------------
(* Twelve pages of memory, one of which the firmware holds: room for the   *)
(* three allocations, wherever they are made.                              *)
EXTENDS UefiHandover

MCRam == 1..12
MCReserved == {6}
=============================================================================
