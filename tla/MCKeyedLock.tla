---------------------------- MODULE MCKeyedLock -----------------------------
(***************************************************************************)
(* Instance of KeyedLock for TLC: three goroutines (a holder, a waiter and *)
(* one that comes while the entry is being released) and two keys.         *)
(***************************************************************************)
EXTENDS KeyedLock
=============================================================================
