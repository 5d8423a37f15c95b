--------------------------- MODULE MCRoomControl ---------------------------
(* RoomControl with its own set point range, made one step narrower around   *)
(* the real 16.0: both clamps are reached within MaxCalls calls.             *)
EXTENDS RoomControl

MCMin == 316           \* 15.8
MCMax == 324           \* 16.2
\* Below MCMin - 5, inside the hysteresis, above MCMax + 5.
MCTemperatures == {309, 320, 331}
=============================================================================
