---------------------------- MODULE MCCommServer ----------------------------
(***************************************************************************)
(* CommServer on a few connections.  A connection is only an address, so   *)
(* the safety runs may permute them.                                       *)
(***************************************************************************)
EXTENDS CommServer, TLC

Symmetry == Permutations(Conns)
=============================================================================
