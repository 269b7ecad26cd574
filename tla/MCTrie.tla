------------------------------- MODULE MCTrie -------------------------------
(* Up to three insertions of words of one or two of three letters, in any  *)
(* order, and then any searches.                                           *)
EXTENDS Trie

MCLetters == 1..3
=============================================================================
