---------------------------- MODULE MCServerPool ----------------------------
(* Instances of ServerPool with three clients. *)
EXTENDS ServerPool, TLC

CONSTANTS c1, c2, c3

MCConns == {c1, c2, c3}
(* Two pages of different sizes and a page that does not exist. *)
MCReply == (c1 :> 2) @@ (c2 :> 1) @@ (c3 :> -1)
=============================================================================
