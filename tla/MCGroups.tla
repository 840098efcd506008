------------------------------ MODULE MCGroups ------------------------------
(***************************************************************************)
(* Instance of GoroutineGroups for TLC.                                    *)
(*                                                                         *)
(*   crawler   the site of MCWebCrawler                                    *)
(*   pipeline  every input of up to three of the values -1, 1 and 2, so    *)
(*             that values are dropped or kept in each position and each   *)
(*             stage can hold one while the others move                    *)
(*   batcher   batches of one, two or three items, and up to six items, so *)
(*             that a timer can be reset twice after a late tick           *)
(*   pool      two workers for three tasks                                 *)
(*   group     three tasks: two can lose against the first failure         *)
(*   timeout   one call                                                    *)
(*   table     three philosophers, two rounds                              *)
(***************************************************************************)
EXTENDS GoroutineGroups, MCWebCrawler, Integers, SequencesExt

MCInputs == BoundedSeq({-1, 1, 2}, 3)
MCMaxSizes == 1 .. 3
=============================================================================
