--------------------------- MODULE MCSingleFlight ---------------------------
(***************************************************************************)
(* Instance of SingleFlight for TLC: three callers (a leader, a joiner and *)
(* a latecomer) and two keys, the function of one of which may panic.      *)
(* Three callers and two keys refer to at most four call objects at once.  *)
(***************************************************************************)
EXTENDS SingleFlight
=============================================================================
