---------------------------- MODULE MCCrawlerFds ----------------------------
EXTENDS CrawlerFds, TLC

(* No property tells one thread from another. *)
ThreadSymmetry == Permutations(Threads)
=============================================================================
