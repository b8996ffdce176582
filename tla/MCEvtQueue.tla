----------------------------- MODULE MCEvtQueue -----------------------------
(***************************************************************************)
(* Model checking of EvtQueue.  Two bytes of two values tell a torn event  *)
(* from a whole one; the ring is smaller than the code's 8 slots but wraps *)
(* as often as TLC likes.                                                  *)
(***************************************************************************)
EXTENDS EvtQueue
=============================================================================
