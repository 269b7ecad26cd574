---------------------------- MODULE MCSearchIndex ----------------------------
(* Every pair of short files, and long first files beside a fixed second   *)
(* one: markup before, between and after text, a word twice in a line, in  *)
(* rows that another word's rows lie between, and in both files.           *)
EXTENDS SearchIndex

CONSTANTS a, b

MCPaths == {1, 2}
Text(ws) == [markup |-> FALSE, words |-> ws]
Tag == [markup |-> TRUE, words |-> <<>>]
MCLines == {Tag, Text(<<a>>), Text(<<b>>), Text(<<a, b, a>>)}
Short == UNION {[1..n -> MCLines] : n \in 0..2}
Long == [1..3 -> MCLines]
MCFiles == {<<s, t>> : s \in Short, t \in Short}
           \cup {<<s, <<Text(<<b>>), Text(<<a>>)>> >> : s \in Long}
=============================================================================
