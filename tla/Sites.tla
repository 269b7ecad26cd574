------------------------------- MODULE Sites -------------------------------
(***************************************************************************)
(* The sites that webcreator.sh makes: what the script keeps while it      *)
(* draws their links, and what must be true of them.  SiteGenerator has    *)
(* the script's steps.                                                     *)
(*                                                                         *)
(* Pages are numbers, those of site i are P*i .. P*i+P-1.  A page gets f   *)
(* links to its own site and q to others.  The text of a page is the page  *)
(* itself.                                                                 *)
(***************************************************************************)
EXTENDS Integers, Sequences, Functions

CONSTANTS
  W,       \* number of sites
  P,       \* pages of a site
  Numbers  \* random numbers in the names of pages

ASSUME SizesAssumption == W \in Nat \ {0} /\ P \in Nat \ {0} /\ Numbers # {}

VARIABLES
  pagenames, \* the names drawn so far, by their number
  files,     \* files[s, x]: the pages written to the file x of site s
  i,         \* the site
  j,         \* its page
  k,         \* the link that is drawn
  links,     \* the links of the page, -1 where there is none yet
  page_num,  \* the page that the text will be written to
  incoming,  \* pages some link names: incoming_link
  said       \* what is printed in the end, "nothing" before; "every" stands for
             \* the line "# Every page has at least one incoming link"

f == P \div 2 + 1
q == W \div 2 + 1
AllPages == 0..(W * P - 1)
Site(s) == (P * s)..(P * s + P - 1)

(* page$i_$random.html in the directory of its site. *)
FileOf(n) == <<n \div P, pagenames[n + 1]>>

-----------------------------------------------------------------------------
SitesTypeOK ==
  /\ pagenames \in Seq(Numbers)
  /\ files \in [(0..(W - 1)) \X Numbers -> Seq(AllPages)]
  /\ i \in 0..W /\ j \in 0..(P - 1) /\ k \in 0..(f + q)
  /\ links \in [0..(f + q - 1) -> AllPages \cup {-1}]
  /\ page_num \in AllPages
  /\ incoming \subseteq AllPages
  /\ said \in {"nothing", "every"}

(* A page is written with f links to its site and q to others, no two of   *)
(* them equal; and if it links to itself, it is by the first of them       *)
(* (webcreator.sh:133-196).                                                *)
LinksRight ==
  k = f + q =>
    /\ \A n \in 0..(f - 1) : links[n] \in Site(i)
    /\ \A n \in f..(f + q - 1) : links[n] \in AllPages \ Site(i)
    /\ \A n, m \in 0..(f + q - 1) : links[n] = links[m] => n = m
    /\ \A n \in 1..(f - 1) : links[n] # P * i + j

(* Every page ends up in the file of its name, once, and no file has two   *)
(* pages unless both drew the same number in the same site: then they      *)
(* stand there in their order (webcreator.sh:79-110, 142-143, 183-199).    *)
FilesRight ==
  i = W => \A n \in AllPages :
    LET file == files[FileOf(n)]
    IN /\ Range(file) = {m \in AllPages : FileOf(m) = FileOf(n)}
       /\ \A a, b \in DOMAIN file : a < b => file[a] < file[b]
=============================================================================
