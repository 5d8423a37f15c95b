------------------------------ MODULE MCFrames ------------------------------
(***************************************************************************)
(* FrameLinks with four values for a byte.  Between them the payloads hold *)
(* the marks of both kinds of frame, bytes that look like a length, and    *)
(* lengths that need both length bytes.                                    *)
(***************************************************************************)
EXTENDS FrameLinks

MCHeader == <<1, 2, 3>>
MCFrames == {<<0>>, <<2, 3>>, <<3, 0, 1, 0>>, <<0, 1, 2, 3, 0, 0>>}
Silence == {<<>>}
Bogus == {<<0>>, <<0, 1>>, <<0, 1, 2>>}
=============================================================================
