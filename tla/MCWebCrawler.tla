---------------------------- MODULE MCWebCrawler ----------------------------
(***************************************************************************)
(* Instance of WebCrawler for TLC: two workers and four pages,             *)
(*     s -> a, t     a -> t, s     t -> u                                  *)
(* with two paths of different length to t, a cycle through s, and a fetch *)
(* that may fail on each path.  maxDepth 3 cuts nothing off, 1 and 2 do.   *)
(***************************************************************************)
EXTENDS WebCrawler

CONSTANTS s, a, t, u

MCPages == {s, a, t, u}

MCLinks == [p \in MCPages |->
    CASE p = s -> {a, t}
      [] p = a -> {t, s}
      [] p = t -> {u}
      [] p = u -> {}]

MCFailing == {a, t}

MCMaxDepths == {1, 2, 3}
=============================================================================
