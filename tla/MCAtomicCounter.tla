--------------------------- MODULE MCAtomicCounter --------------------------
(***************************************************************************)
(* Instance of AtomicCounter for TLC: two callers and two requests, so     *)
(* that a request can start and end between two loads of Snapshot.         *)
(***************************************************************************)
EXTENDS AtomicCounter
=============================================================================
