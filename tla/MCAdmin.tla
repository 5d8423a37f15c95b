------------------------------ MODULE MCAdmin ------------------------------
(***************************************************************************)
(* AdminController with one phone, one administrator and enough sockets    *)
(* for one of them to have two.  A socket is only an address, and a fix is *)
(* only told apart from another.                                           *)
(***************************************************************************)
EXTENDS AdminController, TLC

Symmetry == Permutations(Sockets) \cup Permutations(Fixes)
=============================================================================
