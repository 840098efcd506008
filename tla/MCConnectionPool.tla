-------------------------- MODULE MCConnectionPool --------------------------
(***************************************************************************)
(* Instance of ConnectionPool for TLC: five callers, two connections and a *)
(* wait list of two, so that a call can be rejected and a canceled waiter  *)
(* can be at the head or behind another one.                               *)
(***************************************************************************)
EXTENDS ConnectionPool
=============================================================================
