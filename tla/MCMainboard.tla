----------------------------- MODULE MCMainboard ----------------------------
(***************************************************************************)
(* Mainboard with a few heater outputs and short times.  A frame whose crc *)
(* is wrong may read as any frame; one is enough to show what it does.     *)
(***************************************************************************)
EXTENDS Mainboard

MCNoise == {[cmd |-> RelaisId(1), value |-> Timeout]}
=============================================================================
