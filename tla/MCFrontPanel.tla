---------------------------- MODULE MCFrontPanel ----------------------------
(***************************************************************************)
(* Model checking of FrontPanel with the time-outs of keys.h.  Three keys, *)
(* five places and three samples stand for the four keys and seven places  *)
(* of the firmware: both fit, as QueueFits of FrontPanel_proofs says it.   *)
(***************************************************************************)
EXTENDS FrontPanel
=============================================================================
