----------------------------- MODULE TrieProofs -----------------------------
(***************************************************************************)
(* Proofs about Trie for any letters, any length of words and any number   *)
(* of insertions.                                                          *)
(***************************************************************************)
EXTENDS Trie, DataLemmas

ListNodes == 1..Len(heap)

(* The letters that lead to a node are its name; name[0] is the empty      *)
(* string, the list of node h the nodes whose name is one letter longer.   *)
Under(name, h) == {n \in ListNodes : name[n] = Append(name[h], heap[n].c)}

IsLeast(S, p) ==
  IF p = 0 THEN S = {} ELSE p \in S /\ \A m \in S : heap[p].c <= heap[m].c

Cut(w, k) == SubSeq(w, 1, k)

(* The heap is a trie: every name is that of one node, and each list is    *)
(* linked from its first node on in the order of the letters.              *)
Named(name) ==
  /\ name \in [Pointers -> Seq(Letters)]
  /\ name[0] = <<>>
  /\ \A n \in ListNodes : \E h \in Pointers : n \in Under(name, h)
  /\ \A m, n \in Pointers : name[m] = name[n] => m = n

Linked(name) ==
  \A h \in Pointers :
    /\ IsLeast(Under(name, h), First(h))
    /\ \A n \in Under(name, h) :
         IsLeast({m \in Under(name, h) : heap[m].c > heap[n].c},
                 heap[n].otherLetter)

(* A node has the words that end there, and every beginning of a word has  *)
(* a node.                                                                 *)
Filled(name) ==
  /\ \A n \in ListNodes : heap[n].invIndex = inserted \cap {name[n]}
  /\ \A w \in inserted : \A k \in 1..Len(w) :
       \E n \in ListNodes : name[n] = Cut(w, k)

(* Where an insertion or a search is. *)
Placed(name) ==
  pc \in {"insert", "search"} =>
    /\ word \in Words /\ i \in 1..Len(word)
    /\ name[head] = Cut(word, i - 1)
    /\ current # 0 => current \in Under(name, head)

Inserting(name) ==
  pc = "insert" =>
    /\ IF prev = 0 THEN current = First(head)
       ELSE /\ prev \in Under(name, head) /\ heap[prev].c < Letter
            /\ current = heap[prev].otherLetter
    /\ \A k \in 1..(i - 1) : \E n \in ListNodes : name[n] = Cut(word, k)

Searching(name) ==
  /\ pc = "search" =>
       \A m \in Under(name, head) :
         heap[m].c = Letter => current # 0 /\ heap[current].c <= heap[m].c
  /\ pc = "found" => result = inserted \cap {word}

Good(name) ==
  /\ Named(name) /\ Linked(name) /\ Filled(name)
  /\ Placed(name) /\ Inserting(name) /\ Searching(name)

Inv == TypeOK /\ \E name : Good(name)

-----------------------------------------------------------------------------
(* Words, their beginnings and their letters.                              *)

LEMMA WordsAreStrings ==
  \A w \in Words : w \in Seq(Letters) /\ Len(w) \in 1..MaxLength
<1> SUFFICES ASSUME NEW w \in Words
             PROVE  w \in Seq(Letters) /\ Len(w) \in 1..MaxLength
  OBVIOUS
<1>1. PICK n \in 1..MaxLength : w \in [1..n -> Letters]
  BY DEF Words
<1>2. n \in Nat
  BY BoundsAssumption
<1> QED
  BY <1>1, <1>2

LEMMA Cuts ==
  ASSUME NEW S, NEW w \in Seq(S), NEW k \in 0..Len(w)
  PROVE  /\ Cut(w, k) \in Seq(S) /\ Len(Cut(w, k)) = k
         /\ Cut(w, 0) = <<>> /\ Cut(w, Len(w)) = w
         /\ k < Len(w) => Cut(w, k + 1) = Append(Cut(w, k), w[k + 1])
<1>1. /\ Cut(w, k) \in Seq(S) /\ Len(Cut(w, k)) = k
      /\ Cut(w, 0) = <<>> /\ Cut(w, Len(w)) = w
  BY LenProperties, SubSeqProperties, SubSeqEmpty, SubSeqFull DEF Cut
<1>2. ASSUME k < Len(w)
      PROVE  Cut(w, k + 1) = Append(Cut(w, k), w[k + 1])
  <2> DEFINE a == Cut(w, k + 1)
             b == Append(Cut(w, k), w[k + 1])
  <2>1. Len(w) \in Nat /\ k + 1 \in 1..Len(w) /\ w[k + 1] \in S
    BY <1>2, LenProperties, ElementOfSeq
  <2>2. a \in Seq(S) /\ Len(a) = k + 1 /\ \A j \in 1..(k + 1) : a[j] = w[j]
    BY <2>1, SubSeqProperties DEF Cut
  <2>3. \A j \in 1..k : Cut(w, k)[j] = w[j]
    BY <2>1, SubSeqProperties DEF Cut
  <2>4. b \in Seq(S) /\ Len(b) = k + 1 /\ \A j \in 1..(k + 1) : b[j] = w[j]
    BY <1>1, <2>1, <2>3, AppendProperties
  <2> HIDE DEF a, b
  <2>5. a = b
    BY <2>2, <2>4, SeqEqual
  <2> QED
    BY <2>5 DEF a, b
<1> QED
  BY <1>1, <1>2

LEMMA SameAppends ==
  ASSUME NEW S, NEW s \in Seq(S), NEW t \in Seq(S), NEW x \in S, NEW y \in S
  PROVE  /\ Append(s, x) = Append(t, y) => s = t /\ x = y
         /\ Append(s, x) # <<>> /\ Append(s, x) \in Seq(S)
<1>1. /\ Append(s, x) \in Seq(S) /\ Append(s, x) # <<>>
      /\ Len(Append(s, x)) = Len(s) + 1 /\ Append(s, x)[Len(s) + 1] = x
      /\ \A j \in 1..Len(s) : Append(s, x)[j] = s[j]
  BY AppendProperties
<1>2. /\ Len(Append(t, y)) = Len(t) + 1 /\ Append(t, y)[Len(t) + 1] = y
      /\ \A j \in 1..Len(t) : Append(t, y)[j] = t[j]
  BY AppendProperties
<1>3. ASSUME Append(s, x) = Append(t, y) PROVE s = t /\ x = y
  <2>1. Len(s) = Len(t) /\ Len(s) \in Nat
    BY <1>1, <1>2, <1>3, LenProperties
  <2>2. \A j \in 1..Len(s) : s[j] = t[j]
    BY <1>1, <1>2, <1>3, <2>1
  <2>3. s = t
    BY <2>1, <2>2, SeqEqual
  <2> QED
    BY <1>1, <1>2, <1>3, <2>1, <2>3
<1> QED
  BY <1>1, <1>3

-----------------------------------------------------------------------------
(* The lists.                                                              *)

Node == [c : Letters, otherLetter : Nat, rest : Nat, invIndex : SUBSET Words]

LEMMA TypesOf ==
  TypeOK =>
    /\ heap \in Seq(Node) /\ Len(heap) \in Nat
    /\ \A n \in ListNodes :
         /\ heap[n] \in Node /\ heap[n].c \in Letters /\ heap[n].c \in Nat
         /\ heap[n].otherLetter \in Pointers /\ heap[n].rest \in Pointers
    /\ \A h \in Pointers : First(h) \in Pointers
    /\ 0 \in Pointers /\ 0 \notin ListNodes
    /\ \A p \in Pointers : p # 0 => p \in ListNodes
    /\ \A n \in ListNodes : n \in Pointers
<1> SUFFICES ASSUME TypeOK
             PROVE  /\ heap \in Seq(Node) /\ Len(heap) \in Nat
                    /\ \A n \in ListNodes :
                         /\ heap[n] \in Node /\ heap[n].c \in Letters
                         /\ heap[n].c \in Nat
                         /\ heap[n].otherLetter \in Pointers
                         /\ heap[n].rest \in Pointers
                    /\ \A h \in Pointers : First(h) \in Pointers
                    /\ 0 \in Pointers /\ 0 \notin ListNodes
                    /\ \A p \in Pointers : p # 0 => p \in ListNodes
                    /\ \A n \in ListNodes : n \in Pointers
  OBVIOUS
<1>1. heap \in Seq(Node) /\ Len(heap) \in Nat
  BY LenProperties DEF TypeOK, Node
<1>2. \A n \in ListNodes : heap[n] \in Node
  BY <1>1, ElementOfSeq DEF ListNodes
<1>3. \A n \in ListNodes : /\ heap[n].c \in Letters /\ heap[n].c \in Nat
                           /\ heap[n].otherLetter \in Pointers
                           /\ heap[n].rest \in Pointers
  BY <1>2, LettersAssumption DEF TypeOK, Node, ListNodes
<1>4. /\ 0 \in Pointers /\ 0 \notin ListNodes
      /\ \A p \in Pointers : p # 0 => p \in ListNodes
      /\ \A n \in ListNodes : n \in Pointers
  BY <1>1 DEF Pointers, ListNodes
<1>5. \A h \in Pointers : First(h) \in Pointers
  BY <1>3, <1>4 DEF First, TypeOK
<1> QED
  BY <1>1, <1>2, <1>3, <1>4, <1>5

LEMMA OneList ==
  ASSUME TypeOK, NEW name, Named(name)
  PROVE  /\ \A g, h \in Pointers, n \in ListNodes :
              n \in Under(name, g) /\ n \in Under(name, h) => g = h
         /\ \A h \in Pointers : \A m, n \in Under(name, h) :
              heap[m].c = heap[n].c => m = n
         /\ \A h \in Pointers, n \in ListNodes, x \in Letters :
              name[n] = Append(name[h], x) =>
                n \in Under(name, h) /\ heap[n].c = x
<1>1. /\ \A n \in Pointers : name[n] \in Seq(Letters)
      /\ \A n \in ListNodes : n \in Pointers /\ heap[n].c \in Letters
  BY TypesOf DEF Named
<1>2. \A g, h \in Pointers, n \in ListNodes :
        n \in Under(name, g) /\ n \in Under(name, h) => g = h
  BY <1>1, SameAppends, SMTT(60) DEF Under, Named
<1>3. \A h \in Pointers : \A m, n \in Under(name, h) :
        heap[m].c = heap[n].c => m = n
  BY <1>1 DEF Under, Named
<1>4. ASSUME NEW h \in Pointers, NEW n \in ListNodes, NEW x \in Letters,
             name[n] = Append(name[h], x)
      PROVE  n \in Under(name, h) /\ heap[n].c = x
  <2>1. PICK g \in Pointers : name[n] = Append(name[g], heap[n].c)
    BY DEF Named, Under
  <2>2. /\ name[h] \in Seq(Letters) /\ name[g] \in Seq(Letters)
        /\ heap[n].c \in Letters
        /\ Append(name[h], x) = Append(name[g], heap[n].c)
    BY <1>1, <1>4, <2>1
  <2>3. x = heap[n].c
    BY ONLY <2>2, x \in Letters, SameAppends
  <2> QED
    BY <1>4, <2>3 DEF Under
<1> QED
  BY <1>2, <1>3, <1>4

(* When the letters and the links stay, so do the lists. *)
SameShape ==
  /\ Len(heap') = Len(heap) /\ root' = root
  /\ \A n \in ListNodes : /\ heap'[n].c = heap[n].c
                          /\ heap'[n].otherLetter = heap[n].otherLetter
                          /\ heap'[n].rest = heap[n].rest

LEMMA ShapeKept ==
  ASSUME TypeOK, NEW name, Named(name), Linked(name), SameShape
  PROVE  /\ Named(name)' /\ Linked(name)'
         /\ \A h : Under(name, h)' = Under(name, h)
         /\ \A h \in Pointers : First(h)' = First(h)
         /\ Pointers' = Pointers /\ ListNodes' = ListNodes
<1>1. Pointers' = Pointers /\ ListNodes' = ListNodes
  BY DEF SameShape, Pointers, ListNodes
<1>2. \A h : Under(name, h)' = Under(name, h)
  BY <1>1 DEF SameShape, Under
<1>3. \A h \in Pointers : First(h)' = First(h)
  BY TypesOf DEF SameShape, First
<1>4. Named(name)'
  BY <1>1, <1>2 DEF Named
<1>5. ASSUME NEW h \in Pointers
      PROVE  /\ IsLeast(Under(name, h), First(h))'
             /\ \A n \in Under(name, h)' :
                  IsLeast({m \in Under(name, h) : heap[m].c > heap[n].c},
                          heap[n].otherLetter)'
  <2>1. Under(name, h) \subseteq ListNodes
    BY DEF Under
  <2>2. IsLeast(Under(name, h), First(h))'
    BY <1>2, <1>3, <1>5, <2>1, TypesOf DEF Linked, IsLeast, SameShape
  <2>3. ASSUME NEW n \in Under(name, h)
        PROVE  IsLeast({m \in Under(name, h) : heap[m].c > heap[n].c},
                       heap[n].otherLetter)'
    <3> DEFINE S == {m \in Under(name, h) : heap[m].c > heap[n].c}
               p == heap[n].otherLetter
    <3>1. IsLeast(S, p)
      BY <1>5, <2>3 DEF Linked
    <3>2. {m \in Under(name, h)' : heap'[m].c > heap'[n].c} = S
      BY <1>2, <2>1 DEF SameShape
    <3>3. heap'[n].otherLetter = p /\ \A m \in S : heap'[m].c = heap[m].c
      BY <2>1 DEF SameShape
    <3> QED
      BY <3>1, <3>2, <3>3 DEF IsLeast
  <2> QED
    BY <1>2, <2>2, <2>3
<1>6. Linked(name)'
  BY <1>1, <1>5 DEF Linked
<1> QED
  BY <1>1, <1>2, <1>3, <1>4, <1>6

-----------------------------------------------------------------------------
(* The steps that leave the nodes alone.                                   *)

LEMMA InitInv == Init => Inv
<1> SUFFICES ASSUME Init PROVE Inv
  OBVIOUS
<1> DEFINE name == [p \in {0} |-> <<>>]
<1>1. /\ Len(heap) = 0 /\ heap = <<>> /\ Pointers = {0} /\ ListNodes = {}
  BY DEF Init, Pointers, ListNodes
<1>2. /\ name \in [Pointers -> Seq(Letters)] /\ name[0] = <<>>
      /\ \A n \in Pointers : n = 0
  BY <1>1
<1> HIDE DEF name
<1>3. \A h : Under(name, h) = {}
  BY <1>1 DEF Under
<1>4. Named(name)
  BY <1>1, <1>2 DEF Named
<1>5. Linked(name)
  BY <1>2, <1>3 DEF Linked, IsLeast, First, Init
<1>6. Filled(name)
  BY <1>1 DEF Filled, Init
<1>7. Placed(name) /\ Inserting(name) /\ Searching(name)
  BY DEF Placed, Inserting, Searching, Init
<1>8. TypeOK
  BY <1>1, BoundsAssumption DEF TypeOK, Init
<1> QED
  BY <1>4, <1>5, <1>6, <1>7, <1>8 DEF Inv, Good

Still == UNCHANGED <<heap, root, inserted>>

LEMMA StillKept ==
  ASSUME TypeOK, NEW name, Named(name), Linked(name), Filled(name), Still
  PROVE  /\ Named(name)' /\ Linked(name)' /\ Filled(name)'
         /\ \A h : Under(name, h)' = Under(name, h)
         /\ Pointers' = Pointers
<1>1. SameShape
  BY DEF Still, SameShape
<1>2. ListNodes' = ListNodes
  BY DEF Still, ListNodes
<1>3. Filled(name)'
  BY <1>2 DEF Still, Filled
<1> QED
  BY <1>1, <1>3, ShapeKept

LEMMA BeginGood ==
  ASSUME TypeOK, NEW name, Good(name), NEW label, Begin(label),
         label \in {"insert", "search"}
  PROVE  Good(name)'
<1>1. Still
  BY DEF Begin, Still
<1>2. /\ Named(name)' /\ Linked(name)' /\ Filled(name)'
      /\ \A h : Under(name, h)' = Under(name, h)
  BY <1>1, StillKept DEF Good
<1>3. word' \in Words /\ word' \in Seq(Letters) /\ 1 \in 1..Len(word')
  BY WordsAreStrings DEF Begin
<1>4. Cut(word', 0) = <<>>
  BY <1>3, SubSeqEmpty DEF Cut
<1>5. /\ heap' = heap /\ i' = 1 /\ head' = 0 /\ prev' = 0 /\ current' = root
      /\ pc' = label /\ root' = root
  BY DEF Begin
<1>6. /\ name[0] = <<>> /\ 0 \in Pointers /\ First(0) = root
      /\ IsLeast(Under(name, 0), root)
  BY TypesOf DEF Good, Named, Linked, First
<1>7. current' # 0 => current' \in Under(name, head)'
  BY <1>2, <1>5, <1>6 DEF IsLeast
<1>8. Placed(name)'
  BY <1>3, <1>4, <1>5, <1>6, <1>7 DEF Placed
<1>9. Inserting(name)'
  BY <1>5, <1>6 DEF Inserting, First
<1>10. Searching(name)'
  <2>1. Under(name, 0)' = Under(name, 0)
    BY <1>2
  <2> QED
    BY <1>5, <1>6, <2>1 DEF Searching, IsLeast
<1> QED
  BY <1>2, <1>8, <1>9, <1>10 DEF Good

LEMMA AtHand ==
  ASSUME TypeOK, NEW name, Good(name), pc \in {"insert", "search"}
  PROVE  /\ word \in Words /\ word \in Seq(Letters)
         /\ Len(word) \in Nat /\ i \in 1..Len(word)
         /\ Letter \in Letters /\ Letter \in Nat
         /\ Cut(word, i) = Append(name[head], Letter)
         /\ Cut(word, i) \in Seq(Letters) /\ Len(Cut(word, i)) = i
         /\ Cut(word, Len(word)) = word
         /\ head \in Pointers /\ Under(name, head) \subseteq ListNodes
         /\ current # 0 => current \in Under(name, head)
         /\ \A n \in Under(name, head) :
              heap[n].c = Letter => name[n] = Cut(word, i)
<1>1. /\ word \in Words /\ i \in 1..Len(word)
      /\ name[head] = Cut(word, i - 1)
      /\ current # 0 => current \in Under(name, head)
  BY DEF Good, Placed
<1>2. word \in Seq(Letters) /\ Len(word) \in Nat
  BY <1>1, WordsAreStrings
<1>3. Letter \in Letters /\ Letter \in Nat
  BY <1>1, <1>2, ElementOfSeq, LettersAssumption DEF Letter
<1>4. i - 1 \in 0..Len(word) /\ i - 1 < Len(word) /\ (i - 1) + 1 = i
      /\ i \in 0..Len(word)
  BY <1>1, <1>2
<1>5. Cut(word, i) = Append(name[head], Letter)
  BY <1>1, <1>2, <1>4, Cuts DEF Letter
<1>6. /\ Cut(word, i) \in Seq(Letters) /\ Len(Cut(word, i)) = i
      /\ Cut(word, Len(word)) = word
  BY <1>2, <1>4, Cuts
<1>7. head \in Pointers /\ Under(name, head) \subseteq ListNodes
  BY DEF TypeOK, Under
<1>8. \A n \in Under(name, head) : heap[n].c = Letter => name[n] = Cut(word, i)
  BY <1>5 DEF Under
<1> QED
  BY <1>1, <1>2, <1>3, <1>5, <1>6, <1>7, <1>8

LEMMA WalkGood ==
  ASSUME TypeOK, NEW name, Good(name), Walk
  PROVE  Good(name)'
<1>1. Still /\ pc = "insert" /\ pc' = "insert" /\ i' = i /\ word' = word
      /\ head' = head /\ heap' = heap /\ Letter' = Letter
  BY DEF Walk, Still, Letter
<1>2. /\ Named(name)' /\ Linked(name)' /\ Filled(name)'
      /\ \A h : Under(name, h)' = Under(name, h)
  BY <1>1, StillKept DEF Good
<1>3. /\ current \in Under(name, head) /\ current \in ListNodes
      /\ current # 0 /\ heap[current].c < Letter
      /\ prev' = current /\ current' = heap[current].otherLetter
  BY <1>1, AtHand, TypesOf DEF Walk, NotBehind
<1>4. current' # 0 => current' \in Under(name, head)
  BY <1>1, <1>3, AtHand DEF Good, Linked, IsLeast
<1>5. Placed(name)'
  BY <1>1, <1>2, <1>4 DEF Good, Placed
<1>6. Inserting(name)'
  BY <1>1, <1>2, <1>3, AtHand DEF Good, Inserting, ListNodes
<1>7. Searching(name)'
  BY <1>1 DEF Searching
<1> QED
  BY <1>2, <1>5, <1>6, <1>7 DEF Good

LEMMA SkipGood ==
  ASSUME TypeOK, NEW name, Good(name), Skip
  PROVE  Good(name)'
<1>1. Still /\ pc = "search" /\ pc' = "search" /\ i' = i /\ word' = word
      /\ head' = head /\ heap' = heap /\ Letter' = Letter
  BY DEF Skip, Still, Letter
<1>2. /\ Named(name)' /\ Linked(name)' /\ Filled(name)'
      /\ \A h : Under(name, h)' = Under(name, h)
  BY <1>1, StillKept DEF Good
<1>3. /\ current \in Under(name, head) /\ current \in ListNodes
      /\ current # 0 /\ heap[current].c # Letter
      /\ current' = heap[current].otherLetter
  BY <1>1, AtHand, TypesOf DEF Skip
<1>4. IsLeast({m \in Under(name, head) : heap[m].c > heap[current].c}, current')
  BY <1>1, <1>3, AtHand DEF Good, Linked
<1>5. Placed(name)'
  BY <1>1, <1>2, <1>4 DEF Good, Placed, IsLeast
<1>6. Inserting(name)'
  BY <1>1 DEF Inserting
<1>7. ASSUME NEW m \in Under(name, head), heap[m].c = Letter
      PROVE  current' # 0 /\ heap[current'].c <= heap[m].c
  <2>1. m \in ListNodes /\ heap[m].c \in Nat /\ heap[current].c \in Nat
    BY <1>1, <1>3, <1>7, AtHand, TypesOf
  <2>2. heap[current].c <= heap[m].c /\ heap[current].c # heap[m].c
    BY <1>1, <1>3, <1>7 DEF Good, Searching
  <2>3. heap[m].c > heap[current].c
    BY <2>1, <2>2
  <2> QED
    BY <1>4, <1>7, <2>3 DEF IsLeast
<1>8. Searching(name)'
  BY <1>1, <1>2, <1>7 DEF Searching
<1> QED
  BY <1>2, <1>5, <1>6, <1>8 DEF Good

LEMMA NotFoundGood ==
  ASSUME TypeOK, NEW name, Good(name), NotFound
  PROVE  Good(name)'
<1>1. Still /\ pc = "search" /\ pc' = "found" /\ i' = i /\ word' = word
      /\ current = 0 /\ result' = {} /\ inserted' = inserted
  BY DEF NotFound, Found, Still
<1>2. /\ Named(name)' /\ Linked(name)' /\ Filled(name)'
  BY <1>1, StillKept DEF Good
<1>3. Placed(name)' /\ Inserting(name)'
  BY <1>1 DEF Placed, Inserting
<1>4. ASSUME word \in inserted PROVE FALSE
  <2>1. PICK n \in ListNodes : name[n] = Cut(word, i)
    BY <1>1, <1>4, AtHand DEF Good, Filled
  <2>2. name[n] = Append(name[head], Letter) /\ Letter \in Letters
        /\ head \in Pointers
    BY <1>1, <2>1, AtHand
  <2>3. n \in Under(name, head) /\ heap[n].c = Letter
    BY <2>2, OneList DEF Good
  <2> QED
    BY <1>1, <2>3 DEF Good, Searching
<1>5. Searching(name)'
  BY <1>1, <1>4 DEF Searching
<1> QED
  BY <1>2, <1>3, <1>5 DEF Good

LEMMA DescendGood ==
  ASSUME TypeOK, NEW name, Good(name), Descend
  PROVE  Good(name)'
<1>1. Still /\ pc = "search" /\ word' = word /\ current # 0
      /\ heap[current].c = Letter /\ heap' = heap /\ root' = root
      /\ inserted' = inserted
  BY DEF Descend, Found, Still
<1>2. /\ Named(name)' /\ Linked(name)' /\ Filled(name)'
      /\ \A h : Under(name, h)' = Under(name, h)
  BY <1>1, StillKept DEF Good
<1>3. /\ name[current] = Cut(word, i) /\ current \in ListNodes
      /\ current \in Pointers
  BY <1>1, AtHand, TypesOf
<1>4. CASE MoreLetters
  <2>1. i' = i + 1 /\ head' = current /\ current' = heap[current].rest
        /\ pc' = "search"
    BY <1>1, <1>4 DEF Descend
  <2>2. IsLeast(Under(name, current), current')
    BY <1>3, <2>1, TypesOf DEF Good, Linked, First
  <2>3. i + 1 \in 1..Len(word) /\ (i + 1) - 1 = i /\ word \in Words
    BY <1>1, <1>4, AtHand DEF MoreLetters
  <2>0. PICK g \in ListNodes : g = current
    BY <1>3
  <2>4. /\ Under(name, g)' = Under(name, g) /\ head' = g
        /\ name[g] = Cut(word, i) /\ IsLeast(Under(name, g), current')
    BY <1>2, <1>3, <2>0, <2>1, <2>2
  <2>5. Placed(name)'
    BY <1>1, <2>1, <2>3, <2>4 DEF Placed, IsLeast
  <2>6. Inserting(name)'
    BY <2>1 DEF Inserting
  <2>7. Searching(name)'
    BY <1>1, <2>1, <2>4 DEF Searching, IsLeast
  <2> QED
    BY <1>2, <2>5, <2>6, <2>7 DEF Good
<1>5. CASE ~ MoreLetters
  <2>1. pc' = "found" /\ result' = heap[current].invIndex
    BY <1>5 DEF Descend, Found
  <2>2. i = Len(word) /\ Cut(word, i) = word
    BY <1>1, <1>5, AtHand DEF MoreLetters
  <2>3. result' = inserted \cap {word}
    BY <1>3, <2>1, <2>2 DEF Good, Filled
  <2>4. Placed(name)' /\ Inserting(name)' /\ Searching(name)'
    BY <1>1, <2>1, <2>3 DEF Placed, Inserting, Searching
  <2> QED
    BY <1>2, <2>4 DEF Good
<1> QED
  BY <1>4, <1>5

-----------------------------------------------------------------------------
(* An insertion comes to a letter that is in its list, or puts it there.   *)

(* Once name[n] is the part of the word up to here, the insertion goes on  *)
(* below n or is over.                                                     *)
LEMMA AtGood ==
  ASSUME TypeOK, NEW name, Good(name), pc = "insert", NEW n, At(n),
         NEW also, also \in [Pointers' -> Seq(Letters)],
         Named(also)', Linked(also)',
         \A k \in ListNodes : also[k] = name[k],
         ListNodes \subseteq ListNodes',
         n \in ListNodes', also[n] = Cut(word, i),
         \A k \in ListNodes' \ {n} : /\ k \in ListNodes
                                     /\ heap'[k].invIndex = heap[k].invIndex,
         heap'[n].invIndex =
           IF MoreLetters THEN inserted \cap {also[n]}
           ELSE (inserted \cap {also[n]}) \cup {word},
         n \in Pointers', First(n)' = heap'[n].rest
  PROVE  Good(also)'
<1>0. /\ word' = word /\ prev' = 0 /\ word \in Words
      /\ Len(word) \in Nat /\ i \in 1..Len(word) /\ i \in Nat
  BY AtHand DEF At
<1>1. ASSUME NEW w \in inserted \cup {word}, NEW k \in 1..Len(w),
             w = word => k <= i
      PROVE  \E m \in ListNodes' : also[m] = Cut(w, k)
  <2>1. CASE w \in inserted
    <3>1. PICK m \in ListNodes : name[m] = Cut(w, k)
      BY <2>1 DEF Good, Filled
    <3> QED
      BY <3>1
  <2>2. CASE w = word /\ k < i
    <3>1. k \in 1..(i - 1)
      BY <1>0, <2>2
    <3>2. PICK m \in ListNodes : name[m] = Cut(word, k)
      BY <3>1 DEF Good, Inserting
    <3> QED
      BY <2>2, <3>2
  <2>3. CASE w = word /\ k = i
    BY <2>3
  <2> QED
    BY <1>0, <1>1, <2>1, <2>2, <2>3
<1>2. ASSUME NEW k \in ListNodes'
      PROVE  heap'[k].invIndex = inserted' \cap {also[k]}
  <2>1. CASE MoreLetters
    <3>1. inserted' = inserted
      BY <2>1 DEF At
    <3>2. CASE k = n
      BY <2>1, <3>1, <3>2
    <3>3. CASE k # n
      BY <3>1, <3>3 DEF Good, Filled
    <3> QED
      BY <3>2, <3>3
  <2>2. CASE ~ MoreLetters
    <3>1. inserted' = inserted \cup {word}
      BY <2>2 DEF At
    <3>2. also[n] = word
      BY <1>0, <2>2, AtHand DEF MoreLetters
    <3>3. CASE k = n
      BY <2>2, <3>1, <3>2, <3>3
    <3>4. CASE k # n
      <4>1. also[k] # word
        BY <3>2, <3>4 DEF Named, Pointers, ListNodes
      <4>2. heap'[k].invIndex = inserted \cap {also[k]}
        BY <3>4 DEF Good, Filled
      <4> QED
        BY <3>1, <4>1, <4>2
    <3> QED
      BY <3>3, <3>4
  <2> QED
    BY <2>1, <2>2
<1>3. CASE MoreLetters
  <2>1. /\ inserted' = inserted /\ pc' = pc /\ i' = i + 1 /\ head' = n
        /\ current' = First(n)'
    BY <1>3 DEF At
  <2>2. Filled(also)'
    <3>1. \A w \in inserted : \A k \in 1..Len(w) :
            \E m \in ListNodes' : also[m] = Cut(w, k)
      <4> SUFFICES ASSUME NEW w \in inserted, NEW k \in 1..Len(w)
                   PROVE  \E m \in ListNodes' : also[m] = Cut(w, k)
        OBVIOUS
      <4>1. PICK m \in ListNodes : name[m] = Cut(w, k)
        BY DEF Good, Filled
      <4> QED
        BY <4>1
    <3> QED
      BY <1>2, <2>1, <3>1 DEF Filled
  <2>3. i + 1 \in 1..Len(word) /\ (i + 1) - 1 = i
    BY <1>0, <1>3 DEF MoreLetters
  <2>4. PICK p : p = current' /\ IsLeast(Under(also, n), p)'
    BY <2>1 DEF Linked
  <2>5. Placed(also)'
    BY <1>0, <2>1, <2>3, <2>4 DEF Placed, IsLeast
  <2>6. Inserting(also)'
    <3>1. \A k \in 1..i : \E m \in ListNodes' : also[m] = Cut(word, k)
      BY <1>0, <1>1
    <3> QED
      BY <1>0, <2>1, <2>3, <3>1 DEF Inserting
  <2>7. Searching(also)'
    BY <2>1 DEF Searching
  <2> QED
    BY <2>2, <2>5, <2>6, <2>7 DEF Good
<1>4. CASE ~ MoreLetters
  <2>1. inserted' = inserted \cup {word} /\ pc' = "idle" /\ i = Len(word)
    BY <1>0, <1>4 DEF At, MoreLetters
  <2>2. Filled(also)'
    <3>1. \A w \in inserted' : \A k \in 1..Len(w) :
            \E m \in ListNodes' : also[m] = Cut(w, k)
      BY <1>0, <1>1, <2>1
    <3> QED
      BY <1>2, <3>1 DEF Filled
  <2>3. Placed(also)' /\ Inserting(also)' /\ Searching(also)'
    BY <2>1 DEF Placed, Inserting, Searching
  <2> QED
    BY <2>2, <2>3 DEF Good
<1> QED
  BY <1>3, <1>4

LEMMA PresentGood ==
  ASSUME TypeOK, NEW name, Good(name), Present
  PROVE  Good(name)'
<1>1. PICK n \in ListNodes : n = current
  BY AtHand, TypesOf DEF Present, NotBehind
<1>2. /\ pc = "insert" /\ At(n) /\ heap[n].c = Letter /\ root' = root
      /\ heap' = Indexed(heap, n) /\ n \in Under(name, head)
  BY <1>1, AtHand DEF Present, NotBehind
<1>3. name[n] = Cut(word, i)
  BY <1>2, AtHand
<1>4. heap \in Seq(Node) /\ DOMAIN heap = ListNodes
  BY TypesOf, LenProperties DEF ListNodes
<1>5. /\ heap' = IF MoreLetters THEN heap
                 ELSE [heap EXCEPT ![n].invIndex = @ \cup {word}]
  BY <1>2 DEF Indexed
<1>6. SameShape
  <2>1. Len(heap') = Len(heap)
    BY <1>4, <1>5, TypesOf
  <2>2. \A k \in ListNodes : /\ heap'[k].c = heap[k].c
                             /\ heap'[k].otherLetter = heap[k].otherLetter
                             /\ heap'[k].rest = heap[k].rest
    BY <1>4, <1>5, TypesOf DEF Node
  <2> QED
    BY <1>2, <2>1, <2>2 DEF SameShape
<1>7. /\ Named(name)' /\ Linked(name)' /\ First(n)' = First(n)
      /\ Pointers' = Pointers /\ ListNodes' = ListNodes
      /\ n \in Pointers /\ n # 0
  BY <1>6, ShapeKept, TypesOf DEF Good
<1>8. /\ name \in [Pointers' -> Seq(Letters)]
      /\ First(n)' = heap'[n].rest
  BY <1>6, <1>7 DEF Good, Named, First, SameShape
<1>9. \A k \in ListNodes' \ {n} : /\ k \in ListNodes
                                  /\ heap'[k].invIndex = heap[k].invIndex
  BY <1>4, <1>5, <1>7
<1>10. heap'[n].invIndex =
         IF MoreLetters THEN inserted \cap {name[n]}
         ELSE (inserted \cap {name[n]}) \cup {word}
  <2>1. heap[n].invIndex = inserted \cap {name[n]} /\ heap[n] \in Node
    BY TypesOf DEF Good, Filled
  <2> QED
    BY <1>4, <1>5, <2>1 DEF Node
<1>11. n \in ListNodes' /\ n \in Pointers' /\ ListNodes \subseteq ListNodes'
  BY <1>7
<1> QED
  BY <1>2, <1>3, <1>7, <1>8, <1>9, <1>10, <1>11, AtGood

-----------------------------------------------------------------------------
(* A new node. *)

(* What Place does, field by field: new is the node, at prev or else head. *)
Placing(new) ==
  /\ new = Len(heap) + 1 /\ Len(heap') = new
  /\ heap' \in Seq(Node)
  /\ \A k \in ListNodes :
       /\ heap'[k].c = heap[k].c /\ heap'[k].invIndex = heap[k].invIndex
       /\ heap'[k].otherLetter = IF k = prev THEN new ELSE heap[k].otherLetter
       /\ heap'[k].rest = IF prev = 0 /\ k = head THEN new ELSE heap[k].rest
  /\ heap'[new].c = Letter /\ heap'[new].otherLetter = current
  /\ heap'[new].rest = 0
  /\ heap'[new].invIndex = IF MoreLetters THEN {} ELSE {word}
  /\ root' = IF prev = 0 /\ head = 0 THEN new ELSE root
  /\ At(new)

LEMMA PlaceIsPlacing ==
  ASSUME TypeOK, NEW name, Good(name), Place
  PROVE  pc = "insert" /\ ~ NotBehind /\ \E new : Placing(new)
<1> DEFINE new == Len(heap) + 1
           nodes == Append(heap, NewNode)
           linked == IF prev # 0 THEN [nodes EXCEPT ![prev].otherLetter = new]
                     ELSE IF head # 0 THEN [nodes EXCEPT ![head].rest = new]
                     ELSE nodes
<1>1. /\ pc = "insert" /\ ~ NotBehind /\ heap' = Indexed(linked, new)
      /\ root' = IF prev = 0 /\ head = 0 THEN new ELSE root
      /\ At(new)
  BY DEF Place
<1>2. /\ heap \in Seq(Node) /\ Len(heap) \in Nat /\ Letter \in Letters
      /\ word \in Words
  BY <1>1, AtHand, TypesOf
<1>3. NewNode \in Node /\ NewNode.c = Letter /\ NewNode.otherLetter = current
      /\ NewNode.rest = 0 /\ NewNode.invIndex = {}
  BY <1>2 DEF NewNode, Node, TypeOK, Pointers
<1>4. /\ nodes \in Seq(Node) /\ Len(nodes) = new /\ nodes[new] = NewNode
      /\ \A k \in ListNodes : nodes[k] = heap[k] /\ heap[k] \in Node
  BY <1>2, <1>3, AppendProperties, TypesOf DEF ListNodes
<1>5. DOMAIN nodes = 1..new
  BY <1>4, LenProperties
<1>6. /\ new \in 1..new /\ new \notin ListNodes /\ ListNodes \subseteq 1..new
      /\ \A k \in 1..new : k # new => k \in ListNodes
      /\ new # prev /\ new # head /\ new \in Nat
      /\ prev # 0 => prev \in ListNodes
      /\ head # 0 => head \in ListNodes
      /\ 0 \notin ListNodes
  <2>1. Len(heap) \in Nat /\ prev \in 0..Len(heap) /\ head \in 0..Len(heap)
    BY <1>2 DEF TypeOK, Pointers
  <2> QED
    BY ONLY <2>1 DEF ListNodes
<1> HIDE DEF new, nodes
<1>7. /\ linked \in Seq(Node) /\ DOMAIN linked = 1..new /\ Len(linked) = new
      /\ linked[new] = NewNode
      /\ \A k \in ListNodes :
           /\ linked[k] \in Node
           /\ linked[k].c = heap[k].c /\ linked[k].invIndex = heap[k].invIndex
           /\ linked[k].otherLetter = IF k = prev THEN new
                                      ELSE heap[k].otherLetter
           /\ linked[k].rest = IF prev = 0 /\ k = head THEN new
                               ELSE heap[k].rest
  <2>1. CASE prev # 0
    <3>1. linked = [nodes EXCEPT ![prev].otherLetter = new]
      BY <2>1
    <3> HIDE DEF linked
    <3>2. [nodes[prev] EXCEPT !.otherLetter = new] \in Node
      BY <1>4, <1>6, <2>1 DEF Node
    <3>3. linked \in Seq(Node) /\ DOMAIN linked = 1..new /\ Len(linked) = new
      BY <1>4, <1>5, <1>6, <2>1, <3>1, <3>2, ExceptSeq, LenProperties
    <3>4. linked[new] = NewNode
      BY <1>4, <1>5, <1>6, <3>1
    <3>5. \A k \in ListNodes :
            /\ linked[k] \in Node
            /\ linked[k].c = heap[k].c /\ linked[k].invIndex = heap[k].invIndex
            /\ linked[k].otherLetter = IF k = prev THEN new
                                       ELSE heap[k].otherLetter
            /\ linked[k].rest = heap[k].rest
      BY <1>4, <1>5, <1>6, <3>1, <3>2 DEF Node
    <3> QED
      BY <2>1, <3>3, <3>4, <3>5
  <2>2. CASE prev = 0 /\ head # 0
    <3>1. linked = [nodes EXCEPT ![head].rest = new]
      BY <2>2
    <3> HIDE DEF linked
    <3>2. [nodes[head] EXCEPT !.rest = new] \in Node
      BY <1>4, <1>6, <2>2 DEF Node
    <3>3. linked \in Seq(Node) /\ DOMAIN linked = 1..new /\ Len(linked) = new
      BY <1>4, <1>5, <1>6, <2>2, <3>1, <3>2, ExceptSeq, LenProperties
    <3>4. linked[new] = NewNode
      BY <1>4, <1>5, <1>6, <3>1
    <3>5. \A k \in ListNodes :
            /\ linked[k] \in Node
            /\ linked[k].c = heap[k].c /\ linked[k].invIndex = heap[k].invIndex
            /\ linked[k].otherLetter = heap[k].otherLetter
            /\ linked[k].rest = IF k = head THEN new ELSE heap[k].rest
      BY <1>4, <1>5, <1>6, <2>2, <3>1, <3>2 DEF Node
    <3> QED
      BY <1>6, <2>2, <3>3, <3>4, <3>5
  <2>3. CASE prev = 0 /\ head = 0
    <3>1. linked = nodes
      BY <2>3
    <3> QED
      BY <1>4, <1>5, <1>6, <2>3, <3>1
  <2> QED
    BY <2>1, <2>2, <2>3
<1> HIDE DEF linked
<1>8. CASE MoreLetters
  <2>1. heap' = linked
    BY <1>1, <1>8 DEF Indexed
  <2>2. Placing(new)
    BY <1>1, <1>3, <1>7, <1>8, <2>1 DEF Placing, new
  <2> QED
    BY <1>1, <2>2
<1>9. CASE ~ MoreLetters
  <2>1. heap' = [linked EXCEPT ![new].invIndex = @ \cup {word}]
    BY <1>1, <1>9 DEF Indexed
  <2>2. [linked[new] EXCEPT !.invIndex = @ \cup {word}] \in Node
    BY <1>2, <1>3, <1>7 DEF Node
  <2>3. heap' \in Seq(Node) /\ Len(heap') = new
    BY <1>6, <1>7, <2>1, <2>2, ExceptSeq
  <2>4. \A k \in ListNodes : heap'[k] = linked[k]
    BY <1>6, <1>7, <2>1
  <2>5. /\ heap'[new].c = Letter /\ heap'[new].otherLetter = current
        /\ heap'[new].rest = 0 /\ heap'[new].invIndex = {word}
    BY <1>3, <1>6, <1>7, <2>1 DEF Node
  <2>6. Placing(new)
    BY <1>1, <1>7, <1>9, <2>3, <2>4, <2>5 DEF Placing, new
  <2> QED
    BY <1>1, <2>6
<1> QED
  BY <1>8, <1>9

(* The letter belongs before current and after prev, and is in no node of  *)
(* the list.                                                               *)
LEMMA PlaceHere ==
  ASSUME TypeOK, NEW name, Good(name), pc = "insert", ~ NotBehind
  PROVE  /\ \A m \in Under(name, head) : heap[m].c # Letter
         /\ IsLeast({m \in Under(name, head) : heap[m].c > Letter}, current)
         /\ prev = 0 => \A m \in Under(name, head) : heap[m].c > Letter
         /\ prev # 0 => /\ prev \in Under(name, head) /\ heap[prev].c < Letter
                        /\ \A m \in Under(name, head) :
                             heap[m].c < Letter => heap[m].c <= heap[prev].c
         /\ \A p \in Pointers : name[p] # Cut(word, i)
<1> DEFINE L == Under(name, head)
           Later == {m \in L : prev # 0 => heap[m].c > heap[prev].c}
<1>1. /\ L \subseteq ListNodes /\ Letter \in Nat /\ Letter \in Letters
      /\ current # 0 => current \in L
      /\ \A m \in L : heap[m].c \in Nat
      /\ head \in Pointers
  BY AtHand, TypesOf
<1>2. prev # 0 => /\ prev \in L /\ heap[prev].c < Letter
                  /\ current = heap[prev].otherLetter
  BY DEF Good, Inserting
<1>3. IsLeast(Later, current)
  <2>1. CASE prev = 0
    BY <1>1, <2>1 DEF Good, Inserting, Linked
  <2>2. CASE prev # 0
    BY <1>1, <1>2, <2>2 DEF Good, Linked
  <2> QED
    BY <2>1, <2>2
<1>4. current # 0 => heap[current].c > Letter
  BY <1>1 DEF NotBehind
<1>5. \A m \in Later : heap[m].c > Letter
  <2> SUFFICES ASSUME NEW m \in Later PROVE heap[m].c > Letter
    OBVIOUS
  <2>1. current # 0 /\ heap[current].c <= heap[m].c
    BY <1>3 DEF IsLeast
  <2> QED
    BY <1>1, <1>4, <2>1
<1>6. \A m \in L : m \notin Later =>
        prev # 0 /\ heap[m].c <= heap[prev].c /\ heap[m].c < Letter
  BY <1>1, <1>2
<1>7. Later = {m \in L : heap[m].c > Letter}
  BY <1>1, <1>5, <1>6
<1>8. \A m \in L : heap[m].c # Letter
  BY <1>1, <1>5, <1>6
<1>9. prev = 0 => \A m \in L : heap[m].c > Letter
  BY <1>5, <1>6
<1>10. \A m \in L : heap[m].c < Letter => prev # 0 /\ heap[m].c <= heap[prev].c
  BY <1>1, <1>5, <1>6
<1>11. ASSUME NEW p \in Pointers, name[p] = Cut(word, i) PROVE FALSE
  <2>1. /\ name[p] = Append(name[head], Letter)
        /\ Len(Cut(word, i)) = i /\ i \in 1..Len(word)
    BY <1>11, AtHand
  <2>2. p # 0
    BY <1>11, <2>1 DEF Good, Named
  <2>3. p \in ListNodes
    BY <2>2, TypesOf
  <2>4. p \in L /\ heap[p].c = Letter
    BY <1>1, <2>1, <2>3, OneList DEF Good
  <2> QED
    BY <1>8, <2>4
<1> QED
  BY <1>2, <1>3, <1>7, <1>8, <1>9, <1>10, <1>11

Renamed(name, new) ==
  [p \in Pointers' |-> IF p = new THEN Cut(word, i) ELSE name[p]]

LEMMA PlaceLists ==
  ASSUME TypeOK, NEW name, Good(name), pc = "insert", ~ NotBehind,
         NEW new, Placing(new), NEW also, also = Renamed(name, new)
  PROVE  /\ ListNodes' = ListNodes \cup {new} /\ new \notin ListNodes
         /\ Pointers' = Pointers \cup {new} /\ new \notin Pointers
         /\ \A p \in Pointers : also[p] = name[p]
         /\ also[new] = Cut(word, i)
         /\ Named(also)'
         /\ \A h \in Pointers :
              Under(also, h)' = IF h = head THEN Under(name, h) \cup {new}
                                ELSE Under(name, h)
         /\ Under(also, new)' = {}
<1>1. new = Len(heap) + 1 /\ Len(heap') = new /\ Len(heap) \in Nat
  BY TypesOf DEF Placing
<1>2. /\ ListNodes' = ListNodes \cup {new} /\ new \notin ListNodes
      /\ Pointers' = Pointers \cup {new} /\ new \notin Pointers
      /\ 0 \in Pointers /\ new # 0 /\ ListNodes \subseteq Pointers
  BY <1>1 DEF ListNodes, Pointers
<1>3. /\ \A p \in Pointers : also[p] = name[p]
      /\ also[new] = Cut(word, i)
      /\ also = [p \in Pointers' |-> also[p]]
  BY <1>2 DEF Renamed
<1>4. /\ Cut(word, i) = Append(name[head], Letter)
      /\ Cut(word, i) \in Seq(Letters) /\ Letter \in Letters
      /\ head \in Pointers
      /\ \A p \in Pointers : name[p] # Cut(word, i)
  BY AtHand, PlaceHere
<1>5. /\ name \in [Pointers -> Seq(Letters)] /\ name[0] = <<>>
      /\ \A m, n \in Pointers : name[m] = name[n] => m = n
      /\ \A n \in ListNodes : \E h \in Pointers : n \in Under(name, h)
  BY DEF Good, Named
<1>6. /\ \A n \in ListNodes : heap'[n].c = heap[n].c
      /\ heap'[new].c = Letter
  BY DEF Placing
<1>7. \A h \in Pointers : name[h] \in Seq(Letters)
  BY <1>5
<1>8. ASSUME NEW h \in Pointers
      PROVE  Under(also, h)' = IF h = head THEN Under(name, h) \cup {new}
                               ELSE Under(name, h)
  <2>1. \A n \in ListNodes : n \in Under(also, h)' <=> n \in Under(name, h)
    BY <1>2, <1>3, <1>6 DEF Under
  <2>2. Append(name[head], Letter) = Append(name[h], Letter) <=> h = head
    BY <1>4, <1>5, <1>7, SameAppends
  <2>3. new \in Under(also, h)' <=> h = head
    BY <1>2, <1>3, <1>4, <1>6, <2>2 DEF Under
  <2>4. Under(also, h)' \subseteq ListNodes \cup {new}
        /\ Under(name, h) \subseteq ListNodes
    BY <1>2 DEF Under
  <2> QED
    BY <2>1, <2>3, <2>4
<1>9. Under(also, new)' = {}
  <2> SUFFICES ASSUME NEW n \in ListNodes',
                      also[n] = Append(Cut(word, i), heap'[n].c)
               PROVE  FALSE
    BY <1>3 DEF Under
  <2>1. CASE n = new
    <3>1. Cut(word, i) = Append(Cut(word, i), Letter)
      BY <1>3, <1>6, <2>1
    <3>2. Len(Append(Cut(word, i), Letter)) = Len(Cut(word, i)) + 1
          /\ Len(Cut(word, i)) \in Nat
      BY ONLY <1>4, AppendProperties, LenProperties
    <3> QED
      BY <3>1, <3>2
  <2>2. CASE n \in ListNodes
    <3>1. PICK h \in Pointers : name[n] = Append(name[h], heap[n].c)
      BY <1>5, <2>2 DEF Under
    <3>2. /\ Append(name[h], heap[n].c) = Append(Cut(word, i), heap[n].c)
          /\ heap[n].c \in Letters /\ name[h] \in Seq(Letters)
      BY <1>2, <1>3, <1>6, <1>7, <2>2, <3>1, TypesOf
    <3>3. name[h] = Cut(word, i)
      BY ONLY <1>4, <3>2, SameAppends
    <3> QED
      BY <1>4, <3>3
  <2> QED
    BY <1>2, <2>1, <2>2
<1>10. Named(also)'
  <2>1. also \in [Pointers' -> Seq(Letters)]
    <3>1. \A p \in Pointers' : also[p] \in Seq(Letters)
      BY <1>2, <1>3, <1>4, <1>7
    <3> QED
      BY <1>3, <3>1
  <2>2. also[0] = <<>>
    BY <1>2, <1>3, <1>5
  <2>3. \A n \in ListNodes' : \E h \in Pointers' : n \in Under(also, h)'
    BY <1>2, <1>4, <1>5, <1>8
  <2>4. ASSUME NEW m \in Pointers', NEW n \in Pointers', also[m] = also[n]
        PROVE  m = n
    <3>1. m \in Pointers \/ m = new
      BY <1>2
    <3>2. n \in Pointers \/ n = new
      BY <1>2
    <3>3. CASE m \in Pointers /\ n \in Pointers
      BY <1>3, <1>5, <2>4, <3>3
    <3>4. CASE m = new /\ n \in Pointers
      BY <1>3, <1>4, <2>4, <3>4
    <3>5. CASE n = new /\ m \in Pointers
      BY <1>3, <1>4, <2>4, <3>5
    <3> QED
      BY <3>1, <3>2, <3>3, <3>4, <3>5
  <2> QED
    BY <2>1, <2>2, <2>3, <2>4 DEF Named
<1> QED
  BY <1>2, <1>3, <1>8, <1>9, <1>10

(* The list of the new node is in order, and no other list changes. *)
LEMMA PlaceLinks ==
  ASSUME TypeOK, NEW name, Good(name), pc = "insert", ~ NotBehind,
         NEW new, Placing(new), NEW also, also = Renamed(name, new)
  PROVE  Linked(also)'
<1> DEFINE L == Under(name, head)
<1>1. /\ ListNodes' = ListNodes \cup {new} /\ new \notin ListNodes
      /\ Pointers' = Pointers \cup {new} /\ new \notin Pointers
      /\ \A h \in Pointers :
           Under(also, h)' = IF h = head THEN Under(name, h) \cup {new}
                             ELSE Under(name, h)
      /\ Under(also, new)' = {}
  BY PlaceLists
<1>2. /\ \A m \in L : heap[m].c # Letter
      /\ IsLeast({m \in L : heap[m].c > Letter}, current)
      /\ prev = 0 => \A m \in L : heap[m].c > Letter
      /\ prev # 0 => /\ prev \in L /\ heap[prev].c < Letter
                     /\ \A m \in L : heap[m].c < Letter =>
                                       heap[m].c <= heap[prev].c
  BY PlaceHere
<1>3. /\ \A k \in ListNodes :
           /\ heap'[k].c = heap[k].c
           /\ heap'[k].otherLetter = IF k = prev THEN new
                                     ELSE heap[k].otherLetter
           /\ heap'[k].rest = IF prev = 0 /\ k = head THEN new ELSE heap[k].rest
      /\ heap'[new].c = Letter /\ heap'[new].otherLetter = current
      /\ heap'[new].rest = 0
      /\ root' = IF prev = 0 /\ head = 0 THEN new ELSE root
  BY DEF Placing
<1>4. /\ head \in Pointers /\ Letter \in Nat /\ 0 \in Pointers
      /\ new # 0 /\ prev \in Pointers
      /\ \A p \in Pointers : p # 0 => p \in ListNodes
      /\ \A n \in ListNodes : heap[n].c \in Nat
      /\ \A n \in ListNodes : n # 0
  BY <1>1, AtHand, TypesOf DEF TypeOK
<1>5. \A h : Under(name, h) \subseteq ListNodes
  BY DEF Under
<1>6. \A h \in Pointers :
        /\ IsLeast(Under(name, h), First(h))
        /\ \A n \in Under(name, h) :
             IsLeast({m \in Under(name, h) : heap[m].c > heap[n].c},
                     heap[n].otherLetter)
  BY DEF Good, Linked
<1>7. \A h \in Pointers :
        First(h)' = IF prev = 0 /\ h = head THEN new ELSE First(h)
  BY <1>1, <1>3, <1>4 DEF First
<1>8. First(new)' = 0
  BY <1>3, <1>4 DEF First
<1> DEFINE Ordered(h) ==
             /\ IsLeast(Under(also, h), First(h))
             /\ \A n \in Under(also, h) :
                  IsLeast({m \in Under(also, h) : heap[m].c > heap[n].c},
                          heap[n].otherLetter)
<1>9. Ordered(new)'
  BY <1>1, <1>8 DEF IsLeast
<1>10. ASSUME NEW h \in Pointers, h # head PROVE Ordered(h)'
  <2> DEFINE U == Under(name, h)
  <2>1. Under(also, h)' = U /\ First(h)' = First(h) /\ U \subseteq ListNodes
    BY <1>1, <1>5, <1>7, <1>10
  <2>2. prev \notin U
    BY <1>2, <1>4, <1>5, <1>10, OneList DEF Good
  <2>3. \A n \in U : /\ heap'[n].c = heap[n].c
                     /\ heap'[n].otherLetter = heap[n].otherLetter
    BY <1>3, <2>1, <2>2
  <2>4. IsLeast(Under(also, h), First(h))'
    BY <1>6, <2>1, <2>3 DEF IsLeast
  <2>5. ASSUME NEW n \in U
        PROVE  IsLeast({m \in Under(also, h) : heap[m].c > heap[n].c},
                       heap[n].otherLetter)'
    <3> DEFINE S == {m \in U : heap[m].c > heap[n].c}
               p == heap[n].otherLetter
    <3>1. IsLeast(S, p)
      BY <1>6
    <3>2. {m \in Under(also, h)' : heap'[m].c > heap'[n].c} = S
      BY <2>1, <2>3
    <3>3. heap'[n].otherLetter = p /\ \A m \in S : heap'[m].c = heap[m].c
      BY <2>3
    <3> QED
      BY <3>1, <3>2, <3>3 DEF IsLeast
  <2> QED
    BY <2>1, <2>4, <2>5
<1>11. PICK g : g = head
  OBVIOUS
<1>12. /\ Under(also, g)' = L \cup {new} /\ L \subseteq ListNodes
       /\ \A n \in L : heap'[n].c = heap[n].c /\ n # new /\ heap[n].c \in Nat
  BY <1>1, <1>3, <1>4, <1>5, <1>11
<1>13. IsLeast(Under(also, g), First(g))'
  <2>1. CASE prev = 0
    <3>1. First(g)' = new
      BY <1>4, <1>7, <1>11, <2>1
    <3>2. \A m \in L \cup {new} : heap'[new].c <= heap'[m].c
      BY <1>2, <1>3, <1>4, <1>12, <2>1
    <3> QED
      BY <1>4, <1>12, <3>1, <3>2 DEF IsLeast
  <2>2. CASE prev # 0
    <3>1. PICK p : p = First(g)
      OBVIOUS
    <3>2. First(g)' = p /\ p # 0 /\ p \in L /\ \A m \in L : heap[p].c <= heap[m].c
      BY <1>2, <1>4, <1>6, <1>7, <1>11, <2>2, <3>1 DEF IsLeast
    <3>3. heap[p].c <= Letter
      BY <1>2, <1>4, <1>12, <2>2, <3>2
    <3>4. \A m \in L \cup {new} : heap'[p].c <= heap'[m].c
      BY <1>3, <1>12, <3>2, <3>3
    <3> QED
      BY <1>12, <3>2, <3>4 DEF IsLeast
  <2> QED
    BY <2>1, <2>2
<1>14. ASSUME NEW n \in L \cup {new}
       PROVE  IsLeast({m \in Under(also, g) : heap[m].c > heap[n].c},
                      heap[n].otherLetter)'
  <2> DEFINE S == {m \in L : heap[m].c > heap[n].c}
             T == {m \in L \cup {new} : heap'[m].c > heap'[n].c}
  <2> SUFFICES \/ T = {} /\ heap'[n].otherLetter = 0
               \/ /\ heap'[n].otherLetter # 0 /\ heap'[n].otherLetter \in T
                  /\ \A m \in T : heap'[heap'[n].otherLetter].c <= heap'[m].c
    BY <1>12 DEF IsLeast
  <2>1. CASE n = new
    <3>1. T = {m \in L : heap[m].c > Letter} /\ heap'[n].otherLetter = current
      BY <1>3, <1>4, <1>12, <2>1
    <3> QED
      BY <1>2, <1>12, <3>1 DEF IsLeast
  <2>2. CASE n = prev
    <3>1. n \in L /\ prev # 0 /\ n \in ListNodes /\ n # new
      BY <1>1, <1>2, <1>4, <1>12, <2>2
    <3>2. heap'[n].otherLetter = new /\ new \in T
      BY <1>2, <1>3, <1>12, <2>2, <3>1
    <3>3. \A m \in L : m \in T => heap[m].c > heap[prev].c
      BY <1>12, <2>2, <3>1
    <3>4. \A m \in L : m \in T => heap[m].c > Letter
      BY <1>2, <1>4, <1>12, <3>1, <3>3
    <3>5. \A m \in T : heap'[new].c <= heap'[m].c
      BY <1>3, <1>4, <1>12, <3>4
    <3> QED
      BY <1>4, <3>2, <3>5
  <2>3. CASE n \in L /\ n # prev /\ heap[n].c > Letter
    <3>1. T = S /\ heap'[n].otherLetter = heap[n].otherLetter
      BY <1>3, <1>4, <1>12, <2>3
    <3>2. IsLeast(S, heap[n].otherLetter)
      BY <1>4, <1>6, <2>3
    <3> QED
      BY <1>12, <3>1, <3>2 DEF IsLeast
  <2>4. CASE n \in L /\ n # prev /\ ~ (heap[n].c > Letter)
    <3>1. heap[n].c < Letter /\ prev # 0 /\ prev \in L
      BY <1>2, <1>4, <1>12, <2>4
    <3>2. heap[n].c <= heap[prev].c
      BY <1>2, <2>4, <3>1
    <3>3. heap[n].c # heap[prev].c
      BY <1>4, <2>4, <3>1, OneList DEF Good
    <3>4. prev \in S
      BY <1>12, <2>4, <3>1, <3>2, <3>3
    <3>5. IsLeast(S, heap[n].otherLetter)
      BY <1>4, <1>6, <2>4
    <3>6. PICK p : p = heap[n].otherLetter
      OBVIOUS
    <3>7. p # 0 /\ p \in S /\ \A m \in S : heap[p].c <= heap[m].c
      BY <3>4, <3>5, <3>6 DEF IsLeast
    <3>8. T = S \cup {new} /\ heap'[n].otherLetter = p
      BY <1>3, <1>4, <1>12, <2>4, <3>1, <3>6
    <3>9. heap[p].c <= Letter
      BY <1>2, <1>4, <1>12, <3>1, <3>4, <3>7
    <3>10. \A m \in T : heap'[p].c <= heap'[m].c
      BY <1>3, <1>12, <3>7, <3>8, <3>9
    <3> QED
      BY <3>7, <3>8, <3>10
  <2> QED
    BY <2>1, <2>2, <2>3, <2>4
<1>15. Ordered(g)'
  BY <1>12, <1>13, <1>14
<1>16. \A h \in Pointers' : Ordered(h)'
  BY <1>1, <1>9, <1>10, <1>11, <1>15
<1> QED
  BY <1>16 DEF Linked

LEMMA PlaceGood ==
  ASSUME TypeOK, NEW name, Good(name), Place
  PROVE  \E also : Good(also)'
<1>1. pc = "insert" /\ ~ NotBehind
  BY PlaceIsPlacing
<1>2. PICK new : Placing(new)
  BY PlaceIsPlacing
<1>3. PICK also : also = Renamed(name, new)
  OBVIOUS
<1>4. /\ ListNodes' = ListNodes \cup {new} /\ new \notin ListNodes
      /\ Pointers' = Pointers \cup {new}
      /\ \A p \in Pointers : also[p] = name[p]
      /\ also[new] = Cut(word, i)
      /\ Named(also)' /\ Linked(also)'
  BY <1>1, <1>2, <1>3, PlaceLists, PlaceLinks
<1>5. \A k \in ListNodes : also[k] = name[k]
  BY <1>4, TypesOf
<1>6. also \in [Pointers' -> Seq(Letters)]
  BY <1>4 DEF Named
<1>7. /\ ListNodes \subseteq ListNodes' /\ new \in ListNodes'
      /\ new \in Pointers' /\ new # 0
  <2>1. new = Len(heap) + 1 /\ Len(heap) \in Nat
    BY <1>2, TypesOf DEF Placing
  <2> QED
    BY <1>4, <2>1
<1>8. \A k \in ListNodes' \ {new} : /\ k \in ListNodes
                                    /\ heap'[k].invIndex = heap[k].invIndex
  BY <1>2, <1>4 DEF Placing
<1>9. \A w \in inserted : w # Cut(word, i)
  <2> SUFFICES ASSUME NEW w \in inserted, w = Cut(word, i) PROVE FALSE
    OBVIOUS
  <2>1. w \in Words /\ w \in Seq(Letters) /\ Len(w) \in 1..MaxLength
    BY WordsAreStrings DEF TypeOK
  <2>2. Len(w) \in 1..Len(w) /\ Cut(w, Len(w)) = w
    BY <2>1, LenProperties, SubSeqFull DEF Cut
  <2>3. PICK n \in ListNodes : name[n] = w
    BY <2>2 DEF Good, Filled
  <2> QED
    BY <1>1, <2>3, PlaceHere, TypesOf
<1>10. heap'[new].invIndex =
         IF MoreLetters THEN inserted \cap {also[new]}
         ELSE (inserted \cap {also[new]}) \cup {word}
  BY <1>2, <1>4, <1>9 DEF Placing
<1>11. At(new) /\ First(new)' = heap'[new].rest
  BY <1>2, <1>7 DEF Placing, First
<1>12. Good(also)'
  BY <1>1, <1>4, <1>5, <1>6, <1>7, <1>8, <1>10, <1>11, AtGood
<1> QED
  BY <1>12

-----------------------------------------------------------------------------
(* Types. *)

LEMMA BeginTypes ==
  ASSUME TypeOK, NEW label, Begin(label), label \in {"insert", "search"},
         result' = result, inserts' \in 0..MaxInserts
  PROVE  TypeOK'
<1>1. /\ heap' = heap /\ root' = root /\ inserted' = inserted
      /\ word' \in Words /\ i' = 1 /\ head' = 0 /\ prev' = 0 /\ current' = root
      /\ pc' = label
  BY DEF Begin
<1>2. Len(word') \in Nat /\ Len(word') >= 1
  BY <1>1, WordsAreStrings, LenProperties
<1>3. 1 \in 0..Len(word')
  BY <1>2
<1>4. Pointers' = Pointers /\ 0 \in Pointers
  BY <1>1, TypesOf DEF Pointers
<1> QED
  BY <1>1, <1>3, <1>4 DEF TypeOK

LEMMA StillTypes ==
  ASSUME TypeOK, Still, word' = word, i' \in 0..Len(word), inserts' = inserts,
         head' \in Pointers, prev' \in Pointers, current' \in Pointers,
         result' \subseteq Words, pc' \in {"idle", "insert", "search", "found"}
  PROVE  TypeOK'
<1>1. Pointers' = Pointers
  BY DEF Still, Pointers
<1> QED
  BY <1>1 DEF TypeOK, Still

LEMMA AtTypes ==
  ASSUME TypeOK, NEW name, Good(name), pc = "insert", NEW n, At(n),
         n \in Pointers', Pointers \subseteq Pointers',
         heap' \in Seq(Node), \A k \in ListNodes' :
           heap'[k].otherLetter \in Pointers' /\ heap'[k].rest \in Pointers',
         root' \in Pointers', n \in ListNodes'
  PROVE  TypeOK'
<1>1. /\ word \in Words /\ Len(word) \in Nat /\ i \in 1..Len(word)
      /\ 0 \in Pointers
  BY AtHand, TypesOf
<1>2. i' \in 0..Len(word) /\ head' \in Pointers' /\ current' \in Pointers'
  BY <1>1 DEF At, TypeOK, MoreLetters
<1>3. inserted' \subseteq Words
      /\ pc' \in {"idle", "insert", "search", "found"}
  BY <1>1 DEF At, TypeOK
<1>4. /\ word' = word /\ result' = result /\ inserts' = inserts /\ prev' = 0
  BY DEF At
<1>5. \A k \in 1..Len(heap') :
        heap'[k].otherLetter \in Pointers' /\ heap'[k].rest \in Pointers'
  BY DEF ListNodes
<1>6. prev' \in Pointers'
  BY <1>1, <1>4
<1> QED
  BY <1>2, <1>3, <1>4, <1>5, <1>6 DEF TypeOK, Node

LEMMA PresentTypes ==
  ASSUME TypeOK, NEW name, Good(name), Present
  PROVE  TypeOK'
<1>1. PICK n \in ListNodes : n = current
  BY AtHand, TypesOf DEF Present, NotBehind
<1>2. /\ pc = "insert" /\ At(n) /\ root' = root
      /\ heap' = IF MoreLetters THEN heap
                 ELSE [heap EXCEPT ![n].invIndex = @ \cup {word}]
  BY <1>1 DEF Present, Indexed
<1>3. heap \in Seq(Node) /\ DOMAIN heap = ListNodes /\ word \in Words
      /\ \A k \in ListNodes : heap[k] \in Node
  BY <1>2, AtHand, TypesOf, LenProperties DEF ListNodes
<1>4. [heap[n] EXCEPT !.invIndex = @ \cup {word}] \in Node
  BY <1>3 DEF Node
<1>5. heap' \in Seq(Node) /\ Len(heap') = Len(heap)
  BY <1>2, <1>3, <1>4, ExceptSeq DEF ListNodes
<1>6. Pointers' = Pointers /\ ListNodes' = ListNodes
  BY <1>5 DEF Pointers, ListNodes
<1>7. \A k \in ListNodes : /\ heap'[k].otherLetter = heap[k].otherLetter
                           /\ heap'[k].rest = heap[k].rest
  BY <1>2, <1>3, <1>4 DEF Node
<1>8. \A k \in ListNodes' :
        heap'[k].otherLetter \in Pointers' /\ heap'[k].rest \in Pointers'
  BY <1>6, <1>7, TypesOf
<1>9. n \in Pointers' /\ n \in ListNodes' /\ root' \in Pointers'
      /\ Pointers \subseteq Pointers'
  BY <1>2, <1>6, TypesOf DEF TypeOK
<1> QED
  BY <1>2, <1>5, <1>8, <1>9, AtTypes

LEMMA PlaceTypes ==
  ASSUME TypeOK, NEW name, Good(name), Place
  PROVE  TypeOK'
<1>1. pc = "insert" /\ ~ NotBehind
  BY PlaceIsPlacing
<1>2. PICK new : Placing(new)
  BY PlaceIsPlacing
<1>3. PICK also : also = Renamed(name, new)
  OBVIOUS
<1>4. /\ ListNodes' = ListNodes \cup {new}
      /\ Pointers' = Pointers \cup {new}
  BY <1>1, <1>2, <1>3, PlaceLists
<1>5. /\ heap' \in Seq(Node) /\ At(new)
      /\ \A k \in ListNodes :
           /\ heap'[k].otherLetter = IF k = prev THEN new
                                     ELSE heap[k].otherLetter
           /\ heap'[k].rest = IF prev = 0 /\ k = head THEN new ELSE heap[k].rest
      /\ heap'[new].otherLetter = current /\ heap'[new].rest = 0
      /\ root' = IF prev = 0 /\ head = 0 THEN new ELSE root
  BY <1>2 DEF Placing
<1>6. \A k \in ListNodes' :
        heap'[k].otherLetter \in Pointers' /\ heap'[k].rest \in Pointers'
  BY <1>4, <1>5, TypesOf DEF TypeOK
<1>7. new \in Pointers' /\ new \in ListNodes' /\ root' \in Pointers'
      /\ Pointers \subseteq Pointers'
  BY <1>4, <1>5 DEF TypeOK
<1> QED
  BY <1>1, <1>5, <1>6, <1>7, AtTypes

-----------------------------------------------------------------------------
(* The theorems.                                                           *)

LEMMA StepInv == Inv /\ [Next]_vars => Inv'
<1> SUFFICES ASSUME Inv, [Next]_vars PROVE Inv'
  OBVIOUS
<1>0. PICK name : Good(name)
  BY DEF Inv
<1>t. TypeOK
  BY DEF Inv
<1>1. CASE Trie_Insert
  <2>1. Begin("insert") /\ result' = result /\ inserts' \in 0..MaxInserts
    BY <1>1, <1>t, BoundsAssumption DEF Trie_Insert, TypeOK
  <2> QED
    BY <1>0, <1>t, <2>1, BeginGood, BeginTypes DEF Inv
<1>2. CASE Trie_Search
  <2>1. Begin("search") /\ result' = result /\ inserts' \in 0..MaxInserts
    BY <1>2, <1>t DEF Trie_Search, TypeOK
  <2> QED
    BY <1>0, <1>t, <2>1, BeginGood, BeginTypes DEF Inv
<1>3. CASE Walk
  <2>1. Good(name)'
    BY <1>0, <1>3, <1>t, WalkGood
  <2>2. current \in ListNodes /\ heap[current].otherLetter \in Pointers
    BY <1>0, <1>3, <1>t, AtHand, TypesOf DEF Walk, NotBehind
  <2>3. TypeOK'
    <3>1. /\ Still /\ word' = word /\ i' = i /\ inserts' = inserts
          /\ head' = head /\ prev' = current /\ result' = result /\ pc' = pc
          /\ current' = heap[current].otherLetter
      BY <1>3 DEF Walk, Still
    <3> QED
      BY <1>t, <2>2, <3>1, StillTypes DEF TypeOK
  <2> QED
    BY <2>1, <2>3 DEF Inv
<1>4. CASE Present
  BY <1>0, <1>4, <1>t, PresentGood, PresentTypes DEF Inv
<1>5. CASE Place
  BY <1>0, <1>5, <1>t, PlaceGood, PlaceTypes DEF Inv
<1>6. CASE Skip
  <2>1. Good(name)'
    BY <1>0, <1>6, <1>t, SkipGood
  <2>2. current \in ListNodes /\ heap[current].otherLetter \in Pointers
    BY <1>6, <1>t, TypesOf DEF Skip, TypeOK
  <2>3. TypeOK'
    <3>1. /\ Still /\ word' = word /\ i' = i /\ inserts' = inserts
          /\ head' = head /\ prev' = prev /\ result' = result /\ pc' = pc
          /\ current' = heap[current].otherLetter
      BY <1>6 DEF Skip, Still
    <3> QED
      BY <1>t, <2>2, <3>1, StillTypes DEF TypeOK
  <2> QED
    BY <2>1, <2>3 DEF Inv
<1>7. CASE NotFound
  <2>1. Good(name)'
    BY <1>0, <1>7, <1>t, NotFoundGood
  <2>2. /\ Still /\ word' = word /\ i' = i /\ inserts' = inserts
        /\ head' = head /\ prev' = prev /\ current' = current /\ result' = {}
        /\ pc' = "found"
    BY <1>7 DEF NotFound, Found, Still
  <2>3. TypeOK'
    BY <1>t, <2>2, StillTypes DEF TypeOK
  <2> QED
    BY <2>1, <2>3 DEF Inv
<1>8. CASE Descend
  <2>1. Good(name)'
    BY <1>0, <1>8, <1>t, DescendGood
  <2>2. /\ current \in ListNodes /\ heap[current].rest \in Pointers
        /\ current \in Pointers /\ heap[current].invIndex \subseteq Words
    BY <1>8, <1>t, TypesOf DEF Descend, TypeOK, Node
  <2>3. i + 1 \in 0..Len(word) \/ ~ MoreLetters
    BY <1>0, <1>8, <1>t, AtHand DEF Descend, MoreLetters
  <2>4. TypeOK'
    <3>1. CASE MoreLetters
      <4>1. /\ Still /\ word' = word /\ i' = i + 1 /\ inserts' = inserts
            /\ head' = current /\ prev' = prev /\ result' = result
            /\ current' = heap[current].rest /\ pc' = pc
        BY <1>8, <3>1 DEF Descend, Still
      <4> QED
        BY <1>t, <2>2, <2>3, <3>1, <4>1, StillTypes DEF TypeOK
    <3>2. CASE ~ MoreLetters
      <4>1. /\ Still /\ word' = word /\ i' = i /\ inserts' = inserts
            /\ head' = head /\ prev' = prev /\ current' = current
            /\ result' = heap[current].invIndex /\ pc' = "found"
        BY <1>8, <3>2 DEF Descend, Found, Still
      <4> QED
        BY <1>t, <2>2, <4>1, StillTypes DEF TypeOK
    <3> QED
      BY <3>1, <3>2
  <2> QED
    BY <2>1, <2>4 DEF Inv
<1>9. CASE UNCHANGED vars
  <2>1. Still /\ UNCHANGED <<word, i, head, prev, current, result, inserts, pc>>
    BY <1>9 DEF vars, Still
  <2>2. /\ Named(name)' /\ Linked(name)' /\ Filled(name)'
        /\ \A h : Under(name, h)' = Under(name, h)
    BY <1>0, <1>t, <2>1, StillKept DEF Good
  <2>3. heap' = heap /\ root' = root /\ inserted' = inserted
    BY <2>1 DEF Still
  <2>4. TypeOK'
    BY <1>t, <2>1, StillTypes DEF TypeOK
  <2>5. Placed(name)'
    BY <1>0, <2>1, <2>2, <2>3 DEF Good, Placed
  <2>6. Inserting(name)'
    BY <1>0, <2>1, <2>2, <2>3 DEF Good, Inserting, First, Letter, ListNodes
  <2>7. Searching(name)'
    BY <1>0, <2>1, <2>2, <2>3 DEF Good, Searching, Letter
  <2> QED
    BY <2>2, <2>4, <2>5, <2>6, <2>7 DEF Inv, Good
<1> QED
  BY <1>1, <1>2, <1>3, <1>4, <1>5, <1>6, <1>7, <1>8, <1>9 DEF Next

LEMMA Invariant == Spec => []Inv
BY InitInv, StepInv, PTL DEF Spec

(* The variables of a worker's trie always have their types: every pointer *)
(* is NULL or a node (trie.c:47-145).                                      *)
THEOREM TypeCorrect == Spec => []TypeOK
<1>1. Inv => TypeOK
  BY DEF Inv
<1> QED
  BY <1>1, Invariant, PTL

(* A search returns the list of the word that was searched if the word was *)
(* inserted, and nothing if it was not, whatever the words, their order    *)
(* and their number (Trie_Insert, List_insert, Trie_Search, inList,        *)
(* trie.c:47-145).                                                         *)
THEOREM SearchesAreExact == Spec => []SearchExact
<1>1. Inv => SearchExact
  BY DEF Inv, Good, Searching, SearchExact
<1> QED
  BY <1>1, Invariant, PTL

LEMMA OneWayTo ==
  ASSUME Inv, NEW n \in ListNodes
  PROVE  /\ heap[n].otherLetter # 0 => heap[n].c < heap[heap[n].otherLetter].c
         /\ Cardinality(Before(n)) + Cardinality(Above(n)) = 1
<1>1. PICK name : Good(name)
  BY DEF Inv
<1>2. /\ TypeOK /\ Named(name)
      /\ n # 0 /\ \A m \in ListNodes : heap[m].c \in Nat
  BY <1>1, TypesOf DEF Inv, Good
<1>3. \A h \in Pointers :
        /\ IsLeast(Under(name, h), First(h))
        /\ \A k \in Under(name, h) :
             IsLeast({m \in Under(name, h) : heap[m].c > heap[k].c},
                     heap[k].otherLetter)
  BY <1>1 DEF Good, Linked
<1>4. PICK h \in Pointers : n \in Under(name, h)
  BY <1>2 DEF Named
<1> DEFINE L == Under(name, h)
<1>5. /\ L \subseteq ListNodes
      /\ \A k \in L, m \in L : heap[k].c = heap[m].c => k = m
      /\ \A g \in Pointers : n \in Under(name, g) => g = h
  BY <1>2, <1>4, OneList DEF Under
<1>6. heap[n].otherLetter # 0 => heap[n].c < heap[heap[n].otherLetter].c
  BY <1>2, <1>3, <1>4, <1>5 DEF IsLeast
<1>7. Above(n) \subseteq {h}
  BY <1>2, <1>3, <1>5 DEF Above, IsLeast
<1>8. ASSUME NEW m \in Before(n)
      PROVE  /\ m \in L /\ heap[m].c < heap[n].c
             /\ \A k \in L : heap[k].c > heap[m].c => heap[n].c <= heap[k].c
  <2>1. m \in ListNodes /\ heap[m].otherLetter = n
    BY DEF Before, ListNodes
  <2>2. PICK g \in Pointers : m \in Under(name, g)
    BY <1>2, <2>1 DEF Named
  <2>3. IsLeast({k \in Under(name, g) : heap[k].c > heap[m].c}, n)
    BY <1>3, <2>1, <2>2
  <2>4. g = h
    BY <1>2, <1>5, <2>3 DEF IsLeast
  <2> QED
    BY <1>2, <1>5, <2>1, <2>2, <2>3, <2>4 DEF IsLeast
<1>9. CASE First(h) = n
  <2>1. Above(n) = {h}
    BY <1>7, <1>9 DEF Above
  <2>2. Before(n) = {}
    <3> SUFFICES ASSUME NEW m \in Before(n) PROVE FALSE
      OBVIOUS
    <3>1. m \in L /\ heap[m].c < heap[n].c
      BY <1>8
    <3>2. heap[n].c <= heap[m].c
      BY <1>2, <1>3, <1>9, <3>1 DEF IsLeast
    <3> QED
      BY <1>2, <1>4, <1>5, <3>1, <3>2
  <2>3. Cardinality(Above(n)) = 1 /\ Cardinality(Before(n)) = 0
    BY <2>1, <2>2, FS_Singleton, FS_EmptySet
  <2> QED
    BY <1>6, <2>3
<1>10. CASE First(h) # n
  <2> DEFINE S == {m \in L : heap[m].c < heap[n].c}
             D == {d \in Nat : \E m \in S : d = heap[n].c - heap[m].c}
  <2>1. Above(n) = {}
    BY <1>7, <1>10 DEF Above
  <2>2. First(h) \in S
    <3>1. PICK f : f = First(h)
      OBVIOUS
    <3>2. f \in L /\ heap[f].c <= heap[n].c
      BY <1>3, <1>4, <3>1 DEF IsLeast
    <3>3. heap[f].c # heap[n].c
      BY <1>4, <1>5, <1>10, <3>1, <3>2
    <3> QED
      BY <1>2, <1>4, <1>5, <3>1, <3>2, <3>3
  <2>3. \A m \in S : m \in L /\ heap[n].c - heap[m].c \in D
    BY <1>2, <1>4, <1>5
  <2>4. D \in SUBSET Nat /\ D # {}
    BY <2>2, <2>3
  <2>5. PICK d \in D : \A e \in D : d <= e
    BY ONLY <2>4, LeastNumber
  <2>6. PICK p \in S : d = heap[n].c - heap[p].c
    BY <2>5
  <2>7. p \in L /\ heap[p].c < heap[n].c /\ \A m \in S : heap[m].c <= heap[p].c
    BY <1>2, <1>4, <1>5, <2>3, <2>5, <2>6
  <2>8. heap[p].otherLetter = n
    <3>1. PICK q : q = heap[p].otherLetter
      OBVIOUS
    <3>2. IsLeast({m \in L : heap[m].c > heap[p].c}, q)
      BY <1>3, <2>7, <3>1
    <3>3. n \in {m \in L : heap[m].c > heap[p].c}
      BY <1>2, <1>4, <1>5, <2>7
    <3>4. q \in L /\ heap[q].c > heap[p].c /\ heap[q].c <= heap[n].c
      BY <3>2, <3>3 DEF IsLeast
    <3>5. q \notin S
      BY <1>2, <1>5, <2>7, <3>4
    <3>6. heap[q].c = heap[n].c
      BY <1>2, <1>4, <1>5, <3>4, <3>5
    <3> QED
      BY <1>4, <1>5, <3>1, <3>4, <3>6
  <2>9. Before(n) = {p}
    <3>1. p \in Before(n)
      BY <1>5, <2>7, <2>8 DEF Before, ListNodes
    <3>2. ASSUME NEW m \in Before(n) PROVE m = p
      <4>1. /\ m \in L /\ heap[m].c < heap[n].c
            /\ heap[p].c > heap[m].c => heap[n].c <= heap[p].c
        BY <1>8, <2>7
      <4>2. m \in S
        BY <4>1
      <4>3. heap[m].c = heap[p].c
        BY <1>2, <1>4, <1>5, <2>7, <4>1, <4>2
      <4> QED
        BY <1>5, <2>7, <4>1, <4>3
    <3> QED
      BY <3>1, <3>2
  <2>10. Cardinality(Above(n)) = 0 /\ Cardinality(Before(n)) = 1
    BY <2>1, <2>9, FS_Singleton, FS_EmptySet
  <2> QED
    BY <1>6, <2>10
<1> QED
  BY <1>9, <1>10

(* Every list of the trie is in the ascending order of the letters and     *)
(* every node is pointed to exactly once, so that no insertion loses a     *)
(* node or closes a circle (trie.c:64-109).                                *)
THEOREM ListsAreAscending == Spec => []ListsAscending
<1>1. Inv => ListsAscending
  BY OneWayTo DEF ListsAscending, ListNodes
<1> QED
  BY <1>1, Invariant, PTL

-----------------------------------------------------------------------------
(* What the letters of a word lead to: Lookup and Entries are recursions,  *)
(* on the number of nodes passed and on the position in the word.          *)

Pass(x) == [m \in Pointers |-> IF m = 0 \/ heap[m].c = x THEN m
                               ELSE heap[m].otherLetter]

LEMMA Passes ==
  ASSUME TypeOK, NEW x, NEW m \in Pointers
  PROVE  /\ Pass(x)[m] \in Pointers
         /\ Pass(x)[m] = IF m = 0 \/ heap[m].c = x THEN m
                         ELSE heap[m].otherLetter
BY TypesOf DEF Pass

LEMMA LookupPasses ==
  ASSUME TypeOK, NEW n \in Pointers, NEW x
  PROVE  \E g : /\ Lookup(n, x) = g[Len(heap)] /\ g[0] = n
                /\ \A k \in 1..Len(heap) : g[k] = Pass(x)[g[k - 1]]
<1> DEFINE N == Len(heap)
           Looks(g) == g = [k \in 0..N |-> IF k = 0 THEN n
                                           ELSE Pass(x)[g[k - 1]]]
<1>1. N \in Nat /\ 0 \in Nat /\ 0 \in 0..N /\ \A k \in 1..N : k \in 0..N /\ k # 0
  BY TypesOf
<1>2. \E g : Looks(g)
  <2> DEFINE F == [k \in 0..N |-> Pass(x)]
  <2>1. StaysIn(Pointers, F, 0, N)
    BY Passes DEF StaysIn
  <2> HIDE DEF F, N
  <2>2. PICK g : g \in [0..N -> Pointers] /\ Goes(g, n, F, 0, N)
    BY <1>1, <2>1, Recursion
  <2>3. \A k \in 0..N : F[k] = Pass(x)
    BY DEF F
  <2>4. g = [k \in 0..N |-> g[k]]
    BY <2>2
  <2>5. \A k \in 0..N : g[k] = IF k = 0 THEN n ELSE Pass(x)[g[k - 1]]
    BY <2>2, <2>3 DEF Goes
  <2>6. Looks(g)
    BY <2>4, <2>5
  <2> QED
    BY <2>6
<1>3. PICK g : Looks(g) /\ g = CHOOSE f : Looks(f)
  BY <1>2
<1>4. Lookup(n, x) = g[N]
  BY <1>3 DEF Lookup, Pass
<1>5. \A k \in 0..N : g[k] = IF k = 0 THEN n ELSE Pass(x)[g[k - 1]]
  BY <1>3
<1> QED
  BY <1>1, <1>4, <1>5

(* A walk from the start of a list finds the letter if the list has it.    *)
LEMMA LookupFinds ==
  ASSUME TypeOK, NEW name, Named(name), Linked(name),
         NEW h \in Pointers, NEW x \in Letters
  PROVE  LET n == Lookup(First(h), x)
         IN IF n = 0 THEN \A m \in Under(name, h) : heap[m].c # x
            ELSE n \in Under(name, h) /\ heap[n].c = x
<1> DEFINE L == Under(name, h)
           From(p) == {m \in L : heap[m].c >= heap[p].c}
           N == Len(heap)
<1>1. PICK g : /\ Lookup(First(h), x) = g[N] /\ g[0] = First(h)
               /\ \A k \in 1..N : g[k] = Pass(x)[g[k - 1]]
  BY TypesOf, LookupPasses
<1>2. /\ N \in Nat /\ L \subseteq ListNodes /\ 0 \notin ListNodes /\ x \in Nat
      /\ \A m \in ListNodes : heap[m].c \in Nat /\ m \in Pointers
      /\ 0 \in Pointers
  BY TypesOf, LettersAssumption DEF Under
<1>3. /\ IsLeast(L, First(h))
      /\ \A n \in L : IsLeast({m \in L : heap[m].c > heap[n].c},
                              heap[n].otherLetter)
      /\ \A m, n \in L : heap[m].c = heap[n].c => m = n
  BY OneList DEF Linked
<1>4. /\ IsFiniteSet(L) /\ Cardinality(L) <= N /\ Cardinality(L) \in Nat
      /\ \A p : From(p) \subseteq L /\ IsFiniteSet(From(p))
                /\ Cardinality(From(p)) \in Nat
                /\ Cardinality(From(p)) <= Cardinality(L)
  <2>1. IsFiniteSet(ListNodes) /\ Cardinality(ListNodes) = N
    <3>1. ListNodes = 1..N
      BY DEF ListNodes
    <3> HIDE DEF N
    <3>2. /\ IsFiniteSet(1..N)
          /\ Cardinality(1..N) = IF 1 > N THEN 0 ELSE N - 1 + 1
      BY ONLY <1>2, FS_Interval
    <3> QED
      BY ONLY <1>2, <3>1, <3>2
  <2>2. IsFiniteSet(L) /\ Cardinality(L) <= N /\ Cardinality(L) \in Nat
    BY <1>2, <2>1, FS_Subset, FS_CardinalityType
  <2> HIDE DEF L
  <2>3. \A p : From(p) \subseteq L
    OBVIOUS
  <2> HIDE DEF From
  <2> QED
    BY <2>2, <2>3, FS_Subset, FS_CardinalityType
<1> DEFINE Near(k, p) ==
             /\ p = 0 \/ p \in L
             /\ \A m \in L : heap[m].c = x => p # 0 /\ heap[p].c <= x
             /\ p # 0 /\ heap[p].c # x =>
                  Cardinality(From(p)) <= Cardinality(L) - k
           T == {k \in Nat : k <= N => Near(k, g[k])}
<1>5. 0 \in T
  <2>1. PICK p : p = First(h)
    OBVIOUS
  <2>2. p = 0 \/ p \in L
    BY <1>3, <2>1 DEF IsLeast
  <2>3. \A m \in L : heap[m].c = x => p # 0 /\ heap[p].c <= x
    BY <1>3, <2>1 DEF IsLeast
  <2>4. Cardinality(From(p)) <= Cardinality(L) - 0
    <3> HIDE DEF L, From
    <3> QED
      BY <1>4
  <2> HIDE DEF L, From
  <2> QED
    BY <1>1, <2>1, <2>2, <2>3, <2>4
<1>6. ASSUME NEW k \in T PROVE k + 1 \in T
  <2> SUFFICES ASSUME k + 1 <= N PROVE Near(k + 1, g[k + 1])
    OBVIOUS
  <2>1. PICK p : p = g[k]
    OBVIOUS
  <2>2. PICK q : q = g[k + 1]
    OBVIOUS
  <2>3. k \in Nat /\ k <= N /\ k + 1 \in 1..N /\ (k + 1) - 1 = k
    BY <1>2
  <2>4. Near(k, p)
    BY <2>1, <2>3
  <2>5. p \in Pointers
    BY <1>2, <2>4
  <2>6. q = IF p = 0 \/ heap[p].c = x THEN p ELSE heap[p].otherLetter
    <3>1. q = Pass(x)[p]
      BY <1>1, <2>1, <2>2, <2>3
    <3> QED
      BY <2>5, <3>1, Passes
  <2>7. CASE p = 0 \/ heap[p].c = x
    BY <2>2, <2>4, <2>6, <2>7
  <2>8. CASE p # 0 /\ heap[p].c # x
    <3> DEFINE After == {m \in L : heap[m].c > heap[p].c}
    <3>1. p \in L /\ heap[p].c \in Nat
      BY <1>2, <2>4, <2>8
    <3>2. IsLeast(After, q)
      BY <1>3, <2>6, <2>8, <3>1
    <3>3. q = 0 \/ q \in L
      BY <3>2 DEF IsLeast
    <3>4. \A m \in L : heap[m].c = x => q # 0 /\ heap[q].c <= x
      <4> SUFFICES ASSUME NEW m \in L, heap[m].c = x
                   PROVE  q # 0 /\ heap[q].c <= x
        OBVIOUS
      <4>1. heap[p].c <= x
        BY <2>4
      <4>2. m \in After
        BY <1>2, <2>8, <3>1, <4>1
      <4> QED
        BY <3>2, <4>2 DEF IsLeast
    <3>5. ASSUME q # 0
          PROVE  Cardinality(From(q)) <= Cardinality(L) - (k + 1)
      <4>1. /\ q \in L /\ heap[q].c > heap[p].c
            /\ \A m \in After : heap[q].c <= heap[m].c
        BY <3>2, <3>5 DEF IsLeast
      <4>2. From(q) = From(p) \ {p} /\ p \in From(p)
        BY <1>2, <1>3, <3>1, <4>1
      <4>3. Cardinality(From(p)) <= Cardinality(L) - k
        BY <2>4, <2>8
      <4>4. IsFiniteSet(From(p)) /\ Cardinality(From(p)) \in Nat
        BY <1>4
      <4> HIDE DEF From, L
      <4>5. Cardinality(From(q)) = Cardinality(From(p)) - 1
        BY <4>2, <4>4, FS_RemoveElement
      <4> QED
        BY <1>4, <2>3, <4>3, <4>4, <4>5
    <3> HIDE DEF From, L
    <3> QED
      BY <2>2, <3>3, <3>4, <3>5
  <2> QED
    BY <2>7, <2>8
<1>7. T = Nat
  <2> HIDE DEF T
  <2>1. T \in SUBSET Nat
    BY DEF T
  <2> QED
    BY <1>5, <1>6, <2>1, SetInduction
<1>8. Near(N, g[N])
  <2>1. N \in T
    <3> HIDE DEF T
    <3> QED
      BY <1>2, <1>7
  <2> HIDE DEF Near
  <2> QED
    BY <1>2, <2>1
<1>9. PICK n : n = g[N]
  OBVIOUS
<1>10. n # 0 => heap[n].c = x
  <2> SUFFICES ASSUME n # 0, heap[n].c # x PROVE FALSE
    OBVIOUS
  <2>1. n \in L /\ Cardinality(From(n)) <= Cardinality(L) - N
    BY <1>8, <1>9
  <2>2. n \in From(n)
    BY <1>2, <2>1
  <2>3. Cardinality(From(n)) = 0 /\ IsFiniteSet(From(n))
    <3> HIDE DEF From, L
    <3> QED
      BY <1>2, <1>4, <2>1
  <2>4. From(n) = {}
    <3> HIDE DEF From, L
    <3> QED
      BY <2>3, FS_EmptySet
  <2> QED
    BY <2>2, <2>4
<1> QED
  BY <1>1, <1>8, <1>9, <1>10

LEMMA LookupLeads ==
  ASSUME TypeOK, NEW name, Named(name), Linked(name),
         NEW h \in Pointers, NEW x \in Letters
  PROVE  LET n == Lookup(First(h), x)
         IN /\ n \in Pointers
            /\ IF n = 0 THEN \A m \in ListNodes : name[m] # Append(name[h], x)
               ELSE n \in ListNodes /\ name[n] = Append(name[h], x)
<1>1. PICK n : n = Lookup(First(h), x)
  OBVIOUS
<1>2. IF n = 0 THEN \A m \in Under(name, h) : heap[m].c # x
      ELSE n \in Under(name, h) /\ heap[n].c = x
  BY <1>1, LookupFinds
<1>3. CASE n = 0
  <2>1. \A m \in ListNodes : name[m] # Append(name[h], x)
    BY <1>2, <1>3, OneList
  <2> QED
    BY <1>1, <1>3, <2>1, TypesOf
<1>4. CASE n # 0
  <2>1. n \in ListNodes /\ name[n] = Append(name[h], x) /\ n \in Pointers
    BY <1>2, <1>4, TypesOf DEF Under
  <2> QED
    BY <1>1, <1>4, <2>1
<1> QED
  BY <1>3, <1>4

Leading(w) ==
  [k \in 1..Len(w) |->
     [p \in Pointers |-> IF p = 0 THEN 0 ELSE Lookup(heap[p].rest, w[k])]]

Follows(f, w) ==
  f = [k \in 1..Len(w) |->
         IF k = 1 THEN Lookup(root, w[1])
         ELSE LET n == f[k - 1]
              IN IF n = 0 THEN 0 ELSE Lookup(heap[n].rest, w[k])]
After(w) == CHOOSE f : Follows(f, w)

LEMMA EntriesAfter ==
  ASSUME NEW w
  PROVE  Entries(w) = LET last == After(w)[Len(w)]
                      IN IF last = 0 THEN {} ELSE heap[last].invIndex
BY DEF Entries, After, Follows

LEMMA EntriesFollow ==
  ASSUME TypeOK, NEW name, Named(name), Linked(name), NEW w \in Words
  PROVE  \E g : /\ Entries(w) = IF g[Len(w)] = 0 THEN {}
                                ELSE heap[g[Len(w)]].invIndex
                /\ \A k \in 1..Len(w) :
                     g[k] = IF k = 1 THEN Lookup(First(0), w[1])
                            ELSE IF g[k - 1] = 0 THEN 0
                            ELSE Lookup(First(g[k - 1]), w[k])
<1> DEFINE N == Len(w)
           F == Leading(w)
<1>1. /\ N \in Nat /\ 1 \in 1..N /\ 1 \in Nat /\ 0 \in Pointers
      /\ \A k \in 1..N : w[k] \in Letters
      /\ \A k \in 1..N : k # 1 => k - 1 \in 1..N
  BY WordsAreStrings, ElementOfSeq, TypesOf
<1>2. /\ First(0) = root
      /\ \A p \in Pointers : p # 0 => First(p) = heap[p].rest
  BY DEF First
<1>3. \A p \in Pointers : \A k \in 1..N : Lookup(First(p), w[k]) \in Pointers
  BY <1>1, LookupLeads
<1>4. \A k \in 1..N : \A p \in Pointers :
        F[k][p] = IF p = 0 THEN 0 ELSE Lookup(heap[p].rest, w[k])
  BY DEF Leading
<1>5. StaysIn(Pointers, F, 1, N)
  BY <1>1, <1>2, <1>3, <1>4 DEF StaysIn
<1>6. Lookup(root, w[1]) \in Pointers
  BY <1>1, <1>2, <1>3
<1>7. PICK g : g \in [1..N -> Pointers]
               /\ Goes(g, Lookup(root, w[1]), F, 1, N)
  <2> HIDE DEF F, N
  <2> QED
    BY <1>1, <1>5, <1>6, Recursion
<1>8. \A k \in 1..N : g[k] = IF k = 1 THEN Lookup(root, w[1])
                             ELSE IF g[k - 1] = 0 THEN 0
                             ELSE Lookup(heap[g[k - 1]].rest, w[k])
  <2> SUFFICES ASSUME NEW k \in 1..N, k # 1
               PROVE  g[k] = IF g[k - 1] = 0 THEN 0
                             ELSE Lookup(heap[g[k - 1]].rest, w[k])
    BY <1>7 DEF Goes
  <2>1. k - 1 \in 1..N /\ g[k - 1] \in Pointers
    BY <1>1, <1>7
  <2>2. g[k] = F[k][g[k - 1]]
    BY <1>7 DEF Goes
  <2> QED
    BY <1>4, <2>1, <2>2
<1>9. Follows(g, w)
  <2>1. g = [k \in 1..N |-> g[k]]
    BY <1>7
  <2> QED
    BY <1>8, <2>1 DEF Follows
<1>10. PICK f : Follows(f, w) /\ f = After(w)
  BY <1>9 DEF After
<1>11. Entries(w) = IF f[N] = 0 THEN {} ELSE heap[f[N]].invIndex
  BY <1>10, EntriesAfter
<1>12. \A k \in 1..N : f[k] = IF k = 1 THEN Lookup(root, w[1])
                              ELSE IF f[k - 1] = 0 THEN 0
                              ELSE Lookup(heap[f[k - 1]].rest, w[k])
  BY <1>10 DEF Follows
<1>13. \A p : p # 0 => First(p) = heap[p].rest
  BY DEF First
<1> QED
  BY <1>2, <1>11, <1>12, <1>13

(* At any moment a word leads to the words inserted that are equal to it.  *)
LEMMA EntriesExact ==
  ASSUME Inv, NEW w \in Words
  PROVE  Entries(w) = inserted \cap {w}
<1>1. PICK name : Good(name)
  BY DEF Inv
<1>2. TypeOK /\ Named(name) /\ Linked(name) /\ Filled(name)
  BY <1>1 DEF Inv, Good
<1> DEFINE N == Len(w)
<1>3. PICK g : /\ Entries(w) = IF g[N] = 0 THEN {} ELSE heap[g[N]].invIndex
               /\ \A k \in 1..N :
                    g[k] = IF k = 1 THEN Lookup(First(0), w[1])
                           ELSE IF g[k - 1] = 0 THEN 0
                           ELSE Lookup(First(g[k - 1]), w[k])
  BY <1>2, EntriesFollow
<1>4. /\ w \in Seq(Letters) /\ N \in Nat /\ N >= 1 /\ 0 \in Pointers
      /\ \A k \in 1..N : w[k] \in Letters
      /\ name[0] = <<>> /\ name \in [Pointers -> Seq(Letters)]
      /\ \A p \in Pointers : p # 0 => p \in ListNodes
      /\ \A p \in ListNodes : p # 0 /\ p \in Pointers
  BY <1>2, WordsAreStrings, ElementOfSeq, TypesOf DEF Named
<1> DEFINE Leads(k, p) ==
             /\ p \in Pointers
             /\ IF p = 0 THEN \A m \in ListNodes : name[m] # Cut(w, k)
                ELSE name[p] = Cut(w, k)
           T == {k \in Nat : k + 1 <= N => Leads(k + 1, g[k + 1])}
<1>5. \A h \in Pointers : \A k \in 1..N :
        name[h] = Cut(w, k - 1) => Leads(k, Lookup(First(h), w[k]))
  <2> SUFFICES ASSUME NEW h \in Pointers, NEW k \in 1..N,
                      name[h] = Cut(w, k - 1)
               PROVE  Leads(k, Lookup(First(h), w[k]))
    OBVIOUS
  <2>1. k - 1 \in 0..N /\ k - 1 < N /\ (k - 1) + 1 = k
    BY <1>4
  <2>2. Cut(w, k) = Append(name[h], w[k])
    <3>1. PICK m \in 0..N : m = k - 1
      BY <2>1
    <3>2. m < N => Cut(w, m + 1) = Append(Cut(w, m), w[m + 1])
      BY ONLY <1>4, Cuts, m \in 0..N
    <3>3. m < N /\ m + 1 = k
      BY <2>1, <3>1
    <3>4. Cut(w, k) = Append(Cut(w, m), w[k])
      BY <3>2, <3>3
    <3> QED
      BY <3>1, <3>4
  <2>3. PICK x \in Letters : x = w[k]
    BY <1>4
  <2>4. PICK n : n = Lookup(First(h), x)
    OBVIOUS
  <2>5. /\ n \in Pointers
        /\ IF n = 0 THEN \A m \in ListNodes : name[m] # Append(name[h], x)
           ELSE n \in ListNodes /\ name[n] = Append(name[h], x)
    BY <1>2, <2>4, LookupLeads
  <2> QED
    BY <2>2, <2>3, <2>4, <2>5
<1>6. 0 \in T
  <2>1. Cut(w, 0) = <<>> /\ 1 \in 1..N /\ 1 - 1 = 0 /\ 0 + 1 = 1
    BY <1>4, SubSeqEmpty DEF Cut
  <2>2. g[1] = Lookup(First(0), w[1])
    BY <1>3, <2>1
  <2>3. Leads(1, g[1])
    BY <1>4, <1>5, <2>1, <2>2
  <2> HIDE DEF Leads
  <2> QED
    BY <2>1, <2>3
<1>7. ASSUME NEW j \in T PROVE j + 1 \in T
  <2> SUFFICES ASSUME (j + 1) + 1 <= N
               PROVE  Leads((j + 1) + 1, g[(j + 1) + 1])
    OBVIOUS
  <2>1. PICK k : k = j + 1
    OBVIOUS
  <2>2. /\ k \in 1..N /\ k + 1 \in 1..N /\ k + 1 # 1 /\ (k + 1) - 1 = k
        /\ k \in Nat /\ k \in 0..N /\ k < N /\ k >= 1
    BY <1>4, <2>1
  <2>3. PICK p : p = g[k]
    OBVIOUS
  <2>4. Leads(k, p)
    BY <2>1, <2>2, <2>3
  <2>5. g[k + 1] = IF p = 0 THEN 0 ELSE Lookup(First(p), w[k + 1])
    BY <1>3, <2>2, <2>3
  <2>6. /\ Cut(w, k) \in Seq(Letters) /\ Len(Cut(w, k)) = k
        /\ Cut(w, k + 1) = Append(Cut(w, k), w[k + 1])
        /\ w[k + 1] \in Letters
    BY <1>4, <2>2, Cuts
  <2>7. CASE p = 0
    <3>1. ASSUME NEW m \in ListNodes, name[m] = Cut(w, k + 1) PROVE FALSE
      <4>1. PICK h \in Pointers : name[m] = Append(name[h], heap[m].c)
        BY <1>2 DEF Named, Under
      <4>2. /\ name[h] \in Seq(Letters) /\ heap[m].c \in Letters
            /\ Append(Cut(w, k), w[k + 1]) = Append(name[h], heap[m].c)
        BY <1>2, <1>4, <2>6, <3>1, <4>1, TypesOf
      <4>3. name[h] = Cut(w, k)
        BY ONLY <2>6, <4>2, SameAppends
      <4>4. h # 0
        BY <1>4, <2>2, <2>6, <4>3
      <4> QED
        BY <1>4, <2>4, <2>7, <4>3, <4>4
    <3>2. Leads(k + 1, 0)
      BY <1>4, <3>1
    <3> HIDE DEF Leads
    <3> QED
      BY <2>1, <2>5, <2>7, <3>2
  <2>8. CASE p # 0
    <3>1. p \in Pointers /\ name[p] = Cut(w, (k + 1) - 1)
      BY <2>2, <2>4, <2>8
    <3> HIDE DEF Leads
    <3>2. Leads(k + 1, Lookup(First(p), w[k + 1]))
      BY <1>5, <2>2, <3>1
    <3> QED
      BY <2>1, <2>5, <2>8, <3>2
  <2> QED
    BY <2>7, <2>8
<1>8. T = Nat
  <2> HIDE DEF T
  <2>1. T \in SUBSET Nat
    BY DEF T
  <2> QED
    BY <1>6, <1>7, <2>1, SetInduction
<1>9. Leads(N, g[N])
  <2>1. N - 1 \in T /\ (N - 1) + 1 = N
    <3> HIDE DEF T
    <3> QED
      BY <1>4, <1>8
  <2> HIDE DEF Leads
  <2> QED
    BY <2>1
<1>10. Cut(w, N) = w /\ N \in 1..N
  BY <1>4, SubSeqFull DEF Cut
<1>11. PICK p : p = g[N]
  OBVIOUS
<1>12. CASE p = 0
  <2>1. w \notin inserted
    BY <1>2, <1>9, <1>10, <1>11, <1>12 DEF Filled
  <2> QED
    BY <1>3, <1>11, <1>12, <2>1
<1>13. CASE p # 0
  <2>1. p \in ListNodes /\ name[p] = w
    BY <1>4, <1>9, <1>10, <1>11, <1>13
  <2> QED
    BY <1>2, <1>3, <1>11, <1>13, <2>1 DEF Filled
<1> QED
  BY <1>12, <1>13

-----------------------------------------------------------------------------
(* The trie implements the map.                                            *)

LEMMA InsertedGrows ==
  ASSUME Inv, [Next]_vars
  PROVE  \/ inserted' = inserted
         \/ word \in Words /\ inserted' = inserted \cup {word}
<1>1. PICK name : Good(name)
  BY DEF Inv
<1>2. ASSUME NEW n, At(n), pc = "insert"
      PROVE  \/ inserted' = inserted
             \/ word \in Words /\ inserted' = inserted \cup {word}
  BY <1>1, <1>2, AtHand DEF At, Inv
<1>3. CASE Present
  BY <1>2, <1>3 DEF Present
<1>4. CASE Place
  BY <1>2, <1>4 DEF Place
<1> QED
  BY <1>3, <1>4 DEF Next, vars, Trie_Insert, Trie_Search, Begin, Walk, Skip,
     NotFound, Descend, Found


Mapped == [w \in Words |-> Entries(w)]

LEMMA EntriesAlways == Inv => \A w \in Words : Entries(w) = inserted \cap {w}
BY EntriesExact

LEMMA StepInserts == Inv /\ Inv' /\ [Next]_vars => [Index!Next]_Mapped
<1> SUFFICES ASSUME Inv, Inv', [Next]_vars, Mapped' # Mapped
             PROVE  Index!Next
  OBVIOUS
<1>1. \A w \in Words : Entries(w) = inserted \cap {w}
  BY EntriesExact
<1>2. \A w \in Words : Entries(w)' = inserted' \cap {w}
  <2>1. (\A w \in Words : Entries(w) = inserted \cap {w})'
    BY EntriesAlways, PTL
  <2> QED
    BY <2>1
<1>3. \A w \in Words : Mapped[w] = inserted \cap {w}
                       /\ Mapped'[w] = inserted' \cap {w}
  BY <1>1, <1>2 DEF Mapped
<1>4. inserted' # inserted
  BY <1>1, <1>2 DEF Mapped
<1>5. PICK v \in Words : inserted' = inserted \cup {v}
  BY <1>4, InsertedGrows
<1>6. v \in Mapped'[v] /\ Mapped'[v] = Mapped[v] \cup {v}
  BY <1>3, <1>5
<1>7. ASSUME NEW u \in Words \ {v} PROVE Mapped'[u] = Mapped[u]
  <2>1. Mapped'[u] = inserted' \cap {u} /\ Mapped[u] = inserted \cap {u}
        /\ u # v
    BY <1>3
  <2>2. inserted' \cap {u} = inserted \cap {u}
    BY <1>5, <2>1
  <2> QED
    BY <2>1, <2>2
<1> QED
  BY <1>6, <1>7 DEF Index!Next, Index!Insert, IsWord, Mapped

(* Node by node, the trie does what a map from words to their lists does:  *)
(* the last step of an insertion adds to the list of its word, and no      *)
(* other step changes what any word leads to (Trie_Insert, List_insert,    *)
(* trie.c:47-109).                                                         *)
THEOREM TrieImplementsIndex == Spec => ImplementsIndex
<1>1. Init => Index!Init
  <2> SUFFICES ASSUME Init PROVE Index!Init
    OBVIOUS
  <2>1. \A w \in Words : Entries(w) = inserted \cap {w}
    BY InitInv, EntriesExact
  <2> QED
    BY <2>1 DEF Index!Init, Init
<1> QED
  BY <1>1, InitInv, StepInv, StepInserts, PTL
  DEF Spec, ImplementsIndex, Index!Spec, Mapped
=============================================================================
