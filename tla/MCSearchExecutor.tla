-------------------------- MODULE MCSearchExecutor --------------------------
(* Three queries, two workers: every worker finds something for one query  *)
(* and nothing for another, one answer has two files and one two rows.     *)
EXTENDS SearchExecutor, TLC

MCResults == << (0 :> <<1>> @@ 1 :> <<>>),
                (0 :> <<>> @@ 1 :> <<2>>),
                (0 :> <<1, 1>> @@ 1 :> <<1>>) >>
=============================================================================
