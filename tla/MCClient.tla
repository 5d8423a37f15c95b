------------------------------ MODULE MCClient ------------------------------
(***************************************************************************)
(* MobileClient with its times shortened by a common factor: a keepalive   *)
(* every third pass, a reconnect every second, and a silence timeout of    *)
(* two and a half keepalives, as 35 s are to 90 s.                         *)
(***************************************************************************)
EXTENDS MobileClient
=============================================================================
