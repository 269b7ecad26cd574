------------------------------ MODULE WordIndex ------------------------------
(***************************************************************************)
(* What the trie of a worker process promises: a map from words to sets of *)
(* entries in which an insertion adds one entry to the word it is for, and *)
(* nothing else ever changes.  Trie implements it with its nodes and       *)
(* letters; SearchIndex starts from the map.                               *)
(***************************************************************************)
CONSTANTS
  Words,
  IsFor(_, _)      \* IsFor(e, w): entry e is one for word w
VARIABLE entries   \* entries[w]: what was inserted for word w

Init == \A w \in Words : entries[w] = {}

Insert(w, e) ==
  /\ IsFor(e, w)
  /\ entries'[w] = entries[w] \cup {e}
  /\ \A v \in Words \ {w} : entries'[v] = entries[v]

Next == \E w \in Words : \E e \in entries'[w] : Insert(w, e)

Spec == Init /\ [][Next]_entries
=============================================================================
