---------------------------- MODULE MCCrawlQueue ----------------------------
(* A small site: a page that links to itself first, and two pages that     *)
(* link to a third, which does not exist.  Any link may be cut to the name *)
(* of that one, or to no name.                                             *)
EXTENDS CrawlQueue, TLC

CONSTANTS p1, p2, p3

MCPages == {p1, p2, p3, NoName}
MCLinks == (p1 :> <<p1, p2, p3>>) @@ (p2 :> <<p3>>) @@ (p3 :> <<>>)
           @@ (NoName :> <<>>)
=============================================================================
