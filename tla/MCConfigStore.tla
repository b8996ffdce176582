--------------------------- MODULE MCConfigStore ---------------------------
(***************************************************************************)
(* Model checking of ConfigStore: the sets of handlers a run's client      *)
(* calls.                                                                  *)
(***************************************************************************)
EXTENDS ConfigStore

\* A save, a restore on the same bus, and the reads of reset_password.
BusRequests == {"setSNMP", "SetRestoreFactory", "resetpassword"}

=============================================================================
