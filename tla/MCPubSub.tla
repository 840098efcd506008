------------------------------ MODULE MCPubSub ------------------------------
(***************************************************************************)
(* Instance of PubSub for TLC: two subscribers, so that a snapshot can     *)
(* hold one subscriber that goes away and one that stays; two publishers   *)
(* and two Close calls; unbuffered and one-slot channels.                  *)
(***************************************************************************)
EXTENDS PubSub

MCBufferSizes == {0, 1}
=============================================================================
