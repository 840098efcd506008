----------------------------- MODULE MCObjects ------------------------------
(***************************************************************************)
(* Instances for TLC of the packages whose objects many goroutines share:  *)
(*                                                                         *)
(*   queue      three producers and consumers on a queue of two, so that   *)
(*              some are parked on either side while others overtake them  *)
(*   barrier    groups of two out of three callers, three phases           *)
(*   limiter    burst 2, two ticks, two callers: a permit can be missing   *)
(*   actor      two callers; the counter wraps at 4                        *)
(*   bank       two tellers and opposite transfers between two accounts;   *)
(*              balances of at most 3, so that both limits are reached     *)
(*   metrics    two callers, two requests: one CompareAndSwap can fail     *)
(*   semaphore  two slots for three callers                                *)
(*   loader     three callers of Get                                       *)
(*   inventory  two callers and one item, quantities of at most 3          *)
(***************************************************************************)
EXTENDS SharedObjects

CONSTANTS g1, g2, g3

MCFew == {g1, g2}
MCMany == {g1, g2, g3}
=============================================================================
