------------------------------- MODULE MCRadio -------------------------------
(* A small instance of Radio: one worker, whose room has one sensor, and one *)
(* caller beside the serial thread, and three frame ids so that they wrap.   *)
EXTENDS Radio
CONSTANTS w1, c1, s1
MCWorkers  == {w1}
MCCallers  == {c1}
MCRoom     == <<s1>>
MCQueries  == <<"AP", "NI", "SH", "SL">>
MCSettings == <<"CH", "ID">>
=============================================================================
