--------------------------- MODULE MCEepromPages ---------------------------
(***************************************************************************)
(* Model checking of EepromPages: two pages of three bytes, and cells that *)
(* start anywhere and may span both.                                       *)
(***************************************************************************)
EXTENDS EepromPages
=============================================================================
