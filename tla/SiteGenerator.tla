--------------------------- MODULE SiteGenerator ----------------------------
(***************************************************************************)
(* How webcreator.sh draws the links of its sites: the names of the pages  *)
(* first, then page after page its links, each drawn again until it        *)
(* differs from those before.                                              *)
(*                                                                         *)
(* A draw that is rejected changes nothing, so only the accepted ones are  *)
(* actions; a loop without an acceptable number has no next step.          *)
(***************************************************************************)
EXTENDS Sites

nameVars == <<pagenames, files>>
vars == <<nameVars, i, j, k, links, page_num, incoming, said>>

NoLinks == [n \in 0..(f + q - 1) |-> -1]

Init ==
  /\ pagenames = <<>>
  /\ files = [x \in (0..(W - 1)) \X Numbers |-> <<>>]
  /\ i = 0 /\ j = 0 /\ k = 0
  /\ links = NoLinks
  /\ page_num = 0
  /\ incoming = {}
  /\ said = "nothing"

-----------------------------------------------------------------------------
(* An operator X_Y just before X is a defect of X, used to check that the  *)
(* properties would notice it; no action uses it.                          *)

(* The names of all pages come first.  The loop at 85-93 ends, and the     *)
(* number stays, also when it has been drawn before.                       *)
DrawName ==
  /\ Len(pagenames) < W * P
  /\ \E x \in Numbers : pagenames' = Append(pagenames, x)
  /\ UNCHANGED <<files, i, j, k, links, page_num, incoming, said>>

Linking == Len(pagenames) = W * P /\ i < W

Place(x) ==
  /\ links' = [links EXCEPT ![k] = x]
  /\ incoming' = incoming \cup {x}
  /\ k' = k + 1
  /\ UNCHANGED <<nameVars, i, j, said>>

(* The first link avoids the number of the site, where the number of the   *)
(* page is meant.                                                          *)
DrawFirst ==
  /\ Linking /\ k = 0
  /\ \E x \in Site(i) \ {i} : Place(x)
  /\ UNCHANGED page_num

PageNum_Stale == page_num
PageNum == P * i + j

Candidates_OwnPage == Site(i) \ Range(links)
Candidates == Site(i) \ ({PageNum} \cup Range(links))

(* The others avoid the page itself and the links before. *)
DrawInternal ==
  /\ Linking /\ k \in 1..(f - 1)
  /\ \E x \in Candidates : Place(x)
  /\ page_num' = PageNum

Others_Range == (AllPages \cup {W * P}) \ (Site(i) \cup Range(links))
Others == AllPages \ (Site(i) \cup Range(links))

DrawExternal ==
  /\ Linking /\ k \in f..(f + q - 1)
  /\ \E x \in Others : Place(x)
  /\ UNCHANGED page_num

Emptied_Kept == links
Emptied == NoLinks

(* The page is appended to a file, and its links are forgotten. *)
WritePage ==
  /\ Linking /\ k = f + q
  /\ files' = [files EXCEPT ![FileOf(page_num)] = Append(@, P * i + j)]
  /\ links' = Emptied
  /\ k' = 0
  /\ j' = (j + 1) % P
  /\ i' = IF j = P - 1 THEN i + 1 ELSE i
  /\ UNCHANGED <<pagenames, page_num, incoming, said>>

(* The last loop finds a page that no link names, and its "inc = 1" is no  *)
(* assignment: the same line is printed in any case.                       *)
Report ==
  /\ i = W /\ said = "nothing"
  /\ said' = "every"
  /\ UNCHANGED <<nameVars, i, j, k, links, page_num, incoming>>

Next == DrawName \/ DrawFirst \/ DrawInternal \/ DrawExternal \/ WritePage \/ Report

Spec == Init /\ [][Next]_vars

(* RANDOM hits an acceptable number in the end, if there is one. *)
FairSpec == Spec /\ WF_vars(Next)

-----------------------------------------------------------------------------
(* No loop is left without a number to accept.  It takes three pages to a  *)
(* site and two sites: with two pages the second internal link of page 0,  *)
(* and with one site every external one, is drawn for ever                 *)
(* (webcreator.sh:138-178).                                                *)
GeneratorEnds == <>(said # "nothing")
=============================================================================
