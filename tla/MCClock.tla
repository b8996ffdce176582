------------------------------ MODULE MCClock ------------------------------
(***************************************************************************)
(* Model checking of Clock: two days about the end of a month of 31 days   *)
(* and two moments.  Zones of twelve hours give the hour of each to the    *)
(* other one, and take one over midnight to the west, one to the east: the *)
(* register is given 255 and 35, and shows 15 and 35.                      *)
(***************************************************************************)
EXTENDS Clock

MCCalendar == <<<<24, 1, 31>>, <<24, 2, 1>>>>
MCMoments == {[d |-> 1, h |-> 23], [d |-> 2, h |-> 11]}
MCZones == {-12, 12}
MCAfter == {0, 39}
=============================================================================
