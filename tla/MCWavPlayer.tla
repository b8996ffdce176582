---------------------------- MODULE MCWavPlayer ----------------------------
(***************************************************************************)
(* Model checking of WavPlayer: files of up to five pieces, enough for two *)
(* turns of the buffer and a last piece; up to three sticks.               *)
(***************************************************************************)
EXTENDS WavPlayer
=============================================================================
