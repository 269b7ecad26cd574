-------------------------------- MODULE Trie --------------------------------
(***************************************************************************)
(* The trie of a worker process (trie.c), node by node: the letters that   *)
(* may follow a prefix are a list linked by otherLetter in ascending       *)
(* order, and rest points from a letter to the list of the next ones.      *)
(* What the words are inserted for, the posting lists, is in SearchIndex;  *)
(* here a node only knows the words whose rows were put into its list.     *)
(*                                                                         *)
(* The process is sequential: an action is one pass of a loop.             *)
(***************************************************************************)
EXTENDS Integers, Sequences, FiniteSets

CONSTANTS
  Letters,     \* characters of the words, numbers in the order of char
  MaxLength,   \* bound: letters of a word
  MaxInserts   \* bound: insertions

ASSUME LettersAssumption == Letters \subseteq Nat
ASSUME BoundsAssumption == MaxLength \in Nat \ {0} /\ MaxInserts \in Nat

(* strtok returns no empty word. *)
Words == UNION {[1..n -> Letters] : n \in 1..MaxLength}

VARIABLES
  heap,      \* the trieNodes; a pointer is a position in it, 0 is NULL
  root,      \* the worker's root
  word,      \* the word being inserted or searched
  i,         \* position in it
  head,      \* the node whose rest is the list at hand, 0 for root
  prev,      \* List_insert's prev
  current,   \* List_insert's current, inList's temp
  result,    \* the words in the list that Trie_Search returned
  inserted,  \* the words inserted so far
  inserts,   \* insertions begun
  pc         \* "idle", "insert", "search", "found"

vars == <<heap, root, word, i, head, prev, current, result, inserted, inserts,
          pc>>

Init ==
  /\ heap = <<>> /\ root = 0
  /\ word = <<>> /\ i = 0 /\ head = 0 /\ prev = 0 /\ current = 0
  /\ result = {} /\ inserted = {} /\ inserts = 0
  /\ pc = "idle"

Pointers == 0..Len(heap)
First(n) == IF n = 0 THEN root ELSE heap[n].rest
Letter == word[i]

(* Trie_Insert and Trie_Search begin with the list at the root. *)
Begin(label) ==
  /\ pc = "idle" \/ pc = "found"
  /\ word' \in Words
  /\ i' = 1
  /\ head' = 0
  /\ prev' = 0
  /\ current' = root
  /\ pc' = label
  /\ UNCHANGED <<heap, root, inserted>>

(* The texts are inserted before the first query is received. *)
Trie_Insert ==
  /\ pc = "idle" /\ inserts < MaxInserts
  /\ inserts' = inserts + 1
  /\ Begin("insert")
  /\ UNCHANGED result

Trie_Search ==
  /\ Begin("search")
  /\ UNCHANGED <<result, inserts>>

-----------------------------------------------------------------------------
(* List_insert.                                                            *)
(*                                                                         *)
(* An operator X_Y just before X is a defect of X, used to check that the  *)
(* properties would notice it; no action uses it.                          *)

MoreLetters_OneTooMany == i <= Len(word)
MoreLetters == i < Len(word)

NotBehind_Before == current # 0 /\ heap[current].c < Letter
NotBehind == current # 0 /\ heap[current].c <= Letter

Walk ==
  /\ pc = "insert" /\ NotBehind /\ heap[current].c # Letter
  /\ prev' = current
  /\ current' = heap[current].otherLetter
  /\ UNCHANGED <<heap, root, word, i, head, result, inserted, inserts, pc>>

(* The letter is node n: on to its rest, or to the list of the word.       *)
At(n) ==
  /\ prev' = 0
  /\ IF MoreLetters
     THEN /\ i' = i + 1
          /\ head' = n
          /\ current' = heap'[n].rest
          /\ UNCHANGED <<inserted, pc>>
     ELSE /\ inserted' = inserted \cup {word}
          /\ pc' = "idle"
          /\ UNCHANGED <<i, head, current>>
  /\ UNCHANGED <<word, result, inserts>>

Indexed_Prefixes(nodes, n) == [nodes EXCEPT ![n].invIndex = @ \cup {word}]
(* invIndex_Update at the last letter. *)
Indexed(nodes, n) ==
  IF MoreLetters THEN nodes
  ELSE [nodes EXCEPT ![n].invIndex = @ \cup {word}]

Present ==
  /\ pc = "insert" /\ NotBehind /\ heap[current].c = Letter
  /\ heap' = Indexed(heap, current)
  /\ At(current)
  /\ UNCHANGED root

NewNode_Circle == [c |-> Letter, otherLetter |-> prev, rest |-> 0,
                   invIndex |-> {}]
NewNode_Last == [c |-> Letter, otherLetter |-> 0, rest |-> 0,
                 invIndex |-> {}]
NewNode == [c |-> Letter, otherLetter |-> current, rest |-> 0,
            invIndex |-> {}]

(* A new node between prev and current, or at the start of the list. *)
Place ==
  /\ pc = "insert" /\ ~ NotBehind
  /\ LET n == Len(heap) + 1
         nodes == Append(heap, NewNode)
         linked == IF prev # 0 THEN [nodes EXCEPT ![prev].otherLetter = n]
                   ELSE IF head # 0 THEN [nodes EXCEPT ![head].rest = n]
                   ELSE nodes
     IN /\ heap' = Indexed(linked, n)
        /\ root' = IF prev = 0 /\ head = 0 THEN n ELSE root
        /\ At(n)

-----------------------------------------------------------------------------
(* Trie_Search with inList: any list that has the letter, in any order. *)

Found(words) ==
  /\ result' = words
  /\ pc' = "found"
  /\ UNCHANGED <<heap, root, word, i, head, prev, current, inserted, inserts>>

Skip ==
  /\ pc = "search" /\ current # 0 /\ heap[current].c # Letter
  /\ current' = heap[current].otherLetter
  /\ UNCHANGED <<heap, root, word, i, head, prev, result, inserted, inserts,
                 pc>>

NotFound ==
  /\ pc = "search" /\ current = 0
  /\ Found({})

Descend ==
  /\ pc = "search" /\ current # 0 /\ heap[current].c = Letter
  /\ IF MoreLetters
     THEN /\ i' = i + 1
          /\ head' = current
          /\ current' = heap[current].rest
          /\ UNCHANGED <<heap, root, word, prev, result, inserted, inserts, pc>>
     ELSE Found(heap[current].invIndex)

Next ==
  \/ Trie_Insert \/ Walk \/ Present \/ Place
  \/ Trie_Search \/ Skip \/ NotFound \/ Descend

Spec == Init /\ [][Next]_vars

(* The worker runs on while it has a word to insert or to search. *)
FairSpec ==
  Spec /\ WF_vars(Walk \/ Present \/ Place \/ Skip \/ NotFound \/ Descend)

-----------------------------------------------------------------------------
TypeOK ==
  /\ heap \in Seq([c : Letters, otherLetter : Nat, rest : Nat,
                   invIndex : SUBSET Words])
  /\ \A n \in 1..Len(heap) :
       heap[n].otherLetter \in Pointers /\ heap[n].rest \in Pointers
  /\ root \in Pointers /\ head \in Pointers
  /\ prev \in Pointers /\ current \in Pointers
  /\ word \in Words \cup {<<>>} /\ i \in 0..Len(word)
  /\ result \subseteq Words /\ inserted \subseteq Words
  /\ inserts \in 0..MaxInserts
  /\ pc \in {"idle", "insert", "search", "found"}

(* Nodes whose otherLetter, and nodes or the root whose list, is node n.   *)
Before(n) == {m \in 1..Len(heap) : heap[m].otherLetter = n}
Above(n) == {m \in Pointers : First(m) = n}

(* Every list is ascending, so the walk of List_insert may stop at the     *)
(* first greater letter, and no node is lost or in two lists: each is      *)
(* pointed to exactly once (trie.c:64-109).                                *)
ListsAscending ==
  \A n \in 1..Len(heap) :
    /\ heap[n].otherLetter # 0 => heap[n].c < heap[heap[n].otherLetter].c
    /\ Cardinality(Before(n)) + Cardinality(Above(n)) = 1

(* A search returns the list of the word, and of no other word, if it was  *)
(* inserted, and none otherwise: a prefix of a word is not found, and no   *)
(* insertion hides a word inserted before (trie.c:47-145).                 *)
SearchExact ==
  pc = "found" => result = inserted \cap {word}

(* The node of letter x in the list that begins with node n, 0 if none:    *)
(* where a walk that stops at the letter is after a pass for each node.    *)
Lookup(n, x) ==
  LET pass == [m \in Pointers |->
                 IF m = 0 \/ heap[m].c = x THEN m ELSE heap[m].otherLetter]
      temp[k \in 0..Len(heap)] == IF k = 0 THEN n ELSE pass[temp[k - 1]]
  IN temp[Len(heap)]

(* What the letters of w lead to. *)
Entries(w) ==
  LET after[k \in 1..Len(w)] ==
        IF k = 1 THEN Lookup(root, w[1])
        ELSE LET n == after[k - 1]
             IN IF n = 0 THEN 0 ELSE Lookup(heap[n].rest, w[k])
      last == after[Len(w)]
  IN IF last = 0 THEN {} ELSE heap[last].invIndex

(* The trie is a map from words: no step of an insertion, whichever nodes  *)
(* it links and relinks, changes what any word leads to, except the last,  *)
(* which adds to the inserted word alone (trie.c:47-109).                  *)
IsWord(e, w) == e = w
Index == INSTANCE WordIndex WITH
  IsFor <- IsWord,
  entries <- [w \in Words |-> Entries(w)]
ImplementsIndex == Index!Spec

(* Every insertion and every search comes to its end: no list is circular  *)
(* (trie.c:88-93, 137-145).                                                *)
OperationsEnd == pc \in {"insert", "search"} ~> pc \in {"idle", "found"}
=============================================================================
