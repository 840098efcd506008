------------------------------ MODULE MCBatcher -----------------------------
(***************************************************************************)
(* Instance of Batcher for TLC: batches of one, two or three items, and up *)
(* to six items, so that a timer can be reset twice after a late tick.     *)
(***************************************************************************)
EXTENDS Batcher

MCMaxSizes == 1 .. 3
=============================================================================
