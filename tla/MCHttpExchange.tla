--------------------------- MODULE MCHttpExchange ---------------------------
(* A page of two lines with a link each, one of a single line longer than  *)
(* a chunk with a link across the end of it, one that may not be read, one *)
(* that is missing, one whose name the crawler cannot open a file for.     *)
EXTENDS HttpExchange, TLC

CONSTANTS p, r, f, m, d, p1, p2, r1, r2, f1, f2, m1, m2, d1, d2, words

MCSpelling == p :> <<p1, p2>> @@ r :> <<r1, r2>> @@ f :> <<f1, f2>>
           @@ m :> <<m1, m2>> @@ d :> <<d1, d2>>
MCLink(n) == LinkStart \o Up \o MCSpelling[n] \o <<Quote>>
MCText == p :> <<MCLink(m), MCLink(r)>>
       @@ r :> <<<<words, words, words>> \o MCLink(p)>>
       @@ d :> <<MCLink(m)>>
=============================================================================
