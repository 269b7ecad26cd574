-------------------------- MODULE SearchIndexProofs --------------------------
(***************************************************************************)
(* Proofs about SearchIndex for any words, paths and contents of files, and*)
(* queries of any length and number.                                       *)
(***************************************************************************)
EXTENDS SearchIndex, DataLemmas

(* The rows of a posting list, without their order. *)
RowsIn(list) ==
  UNION {{<<list[i].path, r>> : r \in Range(list[i].offsets)} :
         i \in 1..Len(list)}

Sorted(seq) == \A i, j \in 1..Len(seq) : i < j => seq[i] < seq[j]

Reading == pc \in {"line", "words"}
Answering == pc \in {"combine", "rows", "send", "free"}

(* The lines of file p that have been read, the current one included. *)
Begun(p) ==
  IF p \in unread THEN 0
  ELSE IF Reading /\ p = path THEN at ELSE Len(text[p])

Place ==
  /\ Reading => path \in Paths \ unread /\ at \in 0..Len(text[path])
  /\ pc = "line" => row = RowOf(path, at + 1)
  /\ pc = "words" => /\ at # 0 /\ row = RowOf(path, at)
                     /\ ~ text[path][at].markup
                     /\ Range(words) \subseteq Range(text[path][at].words)
  /\ ~ Reading /\ pc # "files" => unread = {}

(* The list of a word has no row but those of the lines read so far, and   *)
(* all of these, if the word is not still to come in the current one.      *)
Sound(w) ==
  \A x \in RowsIn(index[w]) : \E p \in Paths : \E n \in 1..Begun(p) :
    Holds(w, p, n) /\ x = <<p, RowOf(p, n)>>

Coming(w, p, n) == pc = "words" /\ p = path /\ n = at /\ w \in Range(words)

Complete(w) ==
  \A p \in Paths : \A n \in 1..Begun(p) :
    Holds(w, p, n) => <<p, RowOf(p, n)>> \in RowsIn(index[w])
                      \/ Coming(w, p, n)

(* The current file has the last node of a list, and the current row, if   *)
(* it is there, is the last one of the node.                               *)
Unlike(list) ==
  \A i, j \in 1..Len(list) : list[i].path = list[j].path => i = j

Fine(list) ==
  /\ Unlike(list)
  /\ \A i \in 1..Len(list) :
       /\ list[i].path \notin unread
       /\ list[i].offsets # <<>> /\ Sorted(list[i].offsets)
       /\ Reading /\ list[i].path = path =>
            /\ i = Len(list)
            /\ \A k \in 1..Len(list[i].offsets) :
                 IF pc = "line" THEN list[i].offsets[k] < row
                                ELSE list[i].offsets[k] <= row

(* The rows of the words combined so far are in the merged list or still   *)
(* to be merged, and what has been sent is the beginning of the list, each *)
(* row with its line.                                                      *)
SentOf(node) ==
  [path |-> node.path, fr |-> node.fr,
   rows |-> [k \in 1..Len(node.offsets) |-> Row(node.path, node.offsets[k])]]

Merging ==
  Answering =>
    /\ RowsIn(merged.list) \cup Range(todo)
         = UNION {Holding(query[j]) : j \in 1..(next - 1)}
    /\ pc # "rows" => todo = <<>>
    /\ pc \in {"combine", "rows"} => sent = <<>>
    /\ pc \in {"send", "free"} =>
         /\ next = Len(query) + 1
         /\ Len(sent) <= Len(merged.list)
         /\ \A i \in 1..Len(sent) : sent[i] = SentOf(merged.list[i])
    /\ pc = "free" => Len(sent) = Len(merged.list)

Inv ==
  /\ TypeOK /\ Place /\ MergedInOrder /\ Merging
  /\ \A w \in Words : Sound(w) /\ Complete(w) /\ Fine(index[w])

-----------------------------------------------------------------------------
(* Ascending sequences, and the place of a number among them.              *)

LEMMA AscendingSorted ==
  ASSUME NEW s \in Seq(Nat), Ascending(s)
  PROVE  Sorted(s)
<1>0. Len(s) \in Nat /\ \A i \in 1..Len(s) : s[i] \in Nat
  BY ElementOfSeq, LenProperties
<1> DEFINE T == {d \in Nat : \A i \in 1..Len(s) :
                   i + d + 1 \in 1..Len(s) => s[i] < s[i + d + 1]}
<1>1. 0 \in T
  BY <1>0 DEF Ascending
<1>2. ASSUME NEW d \in T PROVE d + 1 \in T
  <2> SUFFICES ASSUME NEW i \in 1..Len(s), i + (d + 1) + 1 \in 1..Len(s)
               PROVE  s[i] < s[i + (d + 1) + 1]
    OBVIOUS
  <2>1. PICK j \in Nat : j = i + d + 1
    OBVIOUS
  <2>2. j \in 1..(Len(s) - 1) /\ j \in 1..Len(s) /\ j + 1 \in 1..Len(s)
        /\ i + (d + 1) + 1 = j + 1
    BY <1>0, <2>1
  <2>3. s[i] < s[j]
    BY <2>1, <2>2
  <2>4. s[j] < s[j + 1]
    BY <2>2 DEF Ascending
  <2>5. s[i] \in Nat /\ s[j] \in Nat /\ s[j + 1] \in Nat
    BY <1>0, <2>2
  <2>6. s[i] < s[j + 1]
    BY <2>3, <2>4, <2>5
  <2> QED
    BY <2>2, <2>6
<1>3. T = Nat
  <2> HIDE DEF T
  <2>1. T \in SUBSET Nat
    BY DEF T
  <2> QED
    BY <1>1, <1>2, <2>1, SetInduction
<1>4. ASSUME NEW i \in 1..Len(s), NEW j \in 1..Len(s), i < j
      PROVE  s[i] < s[j]
  <2>0. j - i - 1 \in Nat
    BY <1>0, <1>4
  <2>1. j - i - 1 \in T
    <3> HIDE DEF T
    <3> QED
      BY <1>3, <2>0
  <2>2. i + (j - i - 1) + 1 = j
    BY <1>0
  <2> QED
    BY <2>1, <2>2
<1> QED
  BY <1>4 DEF Sorted

LEMMA SortedAscending ==
  ASSUME NEW s \in Seq(Nat), Sorted(s)
  PROVE  Ascending(s)
BY LenProperties DEF Sorted, Ascending

(* A sequence of different numbers has no two equal ones. *)
LEMMA SortedDiffer ==
  ASSUME NEW s \in Seq(Nat), Sorted(s)
  PROVE  \A i, j \in 1..Len(s) : s[i] = s[j] => i = j
<1>0. Len(s) \in Nat /\ \A i \in 1..Len(s) : s[i] \in Nat
  BY ElementOfSeq, LenProperties
<1> QED
  BY <1>0 DEF Sorted

IsPosition(i, keys, n) ==
  /\ i \in 1..(Len(keys) + 1)
  /\ \A j \in 1..(i - 1) : keys[j] < n
  /\ i <= Len(keys) => keys[i] >= n

LEMMA PositionOf ==
  ASSUME NEW keys \in Seq(Nat), NEW n \in Nat
  PROVE  IsPosition(Position(keys, n), keys, n)
<1>0. Len(keys) \in Nat /\ \A i \in 1..Len(keys) : keys[i] \in Nat
  BY ElementOfSeq, LenProperties
<1> DEFINE S == {i \in 1..(Len(keys) + 1) : i <= Len(keys) => keys[i] >= n}
<1>1. S \in SUBSET Nat /\ Len(keys) + 1 \in S
  BY <1>0
<1>2. PICK i \in S : \A m \in S : i <= m
  BY <1>1, LeastNumber
<1>3. \A j \in 1..(i - 1) : keys[j] < n
  <2> SUFFICES ASSUME NEW j \in 1..(i - 1) PROVE keys[j] < n
    OBVIOUS
  <2>1. j \notin S /\ j \in 1..Len(keys)
    BY <1>0, <1>2
  <2> QED
    BY <1>0, <2>1
<1>4. IsPosition(i, keys, n)
  BY <1>2, <1>3 DEF IsPosition
<1> QED
  BY <1>4 DEF Position, IsPosition

(* InsertAt moves what is at the place and behind it by one. *)
IsInserted(t, s, k, e) ==
  /\ Len(t) = Len(s) + 1
  /\ \A j \in 1..Len(t) :
       t[j] = IF j < k THEN s[j] ELSE IF j = k THEN e ELSE s[j - 1]

LEMMA Inserting ==
  ASSUME NEW S, NEW s \in Seq(S), NEW k \in 1..(Len(s) + 1), NEW e \in S
  PROVE  /\ InsertAt(s, k, e) \in Seq(S)
         /\ IsInserted(InsertAt(s, k, e), s, k, e)
<1> DEFINE u == SubSeq(s, 1, k - 1)
           m == <<e>>
           v == SubSeq(s, k, Len(s))
<1>0. Len(s) \in Nat /\ \A i \in 1..Len(s) : s[i] \in S
  BY ElementOfSeq, LenProperties
<1>1. /\ u \in Seq(S) /\ Len(u) = k - 1
      /\ \A i \in 1..(k - 1) : u[i] = s[i]
  <2>1. \A i \in 1..(k - 1) : s[i] \in S
    BY <1>0
  <2>2. /\ u \in Seq(S)
        /\ Len(u) = IF 1 <= k - 1 THEN (k - 1) - 1 + 1 ELSE 0
        /\ \A i \in 1..(k - 1) - 1 + 1 : u[i] = s[1 + i - 1]
    BY <2>1, <1>0, SubSeqProperties
  <2> HIDE DEF u
  <2> QED
    BY <1>0, <2>2
<1>2. /\ v \in Seq(S) /\ Len(v) = Len(s) - k + 1
      /\ \A i \in 1..(Len(s) - k + 1) : v[i] = s[k + i - 1]
  <2>1. \A i \in k..Len(s) : s[i] \in S
    BY <1>0
  <2>2. /\ v \in Seq(S)
        /\ Len(v) = IF k <= Len(s) THEN Len(s) - k + 1 ELSE 0
        /\ \A i \in 1..(Len(s) - k + 1) : v[i] = s[k + i - 1]
    BY <2>1, <1>0, SubSeqProperties
  <2> HIDE DEF v
  <2> QED
    BY <1>0, <2>2
<1>3. m \in Seq(S) /\ Len(m) = 1 /\ m[1] = e
  OBVIOUS
<1> HIDE DEF u, m, v
<1>4. /\ u \o m \in Seq(S) /\ Len(u \o m) = k
      /\ \A i \in 1..k :
           (u \o m)[i] = IF i <= k - 1 THEN u[i] ELSE m[i - (k - 1)]
  <2>1. /\ u \o m \in Seq(S) /\ Len(u \o m) = Len(u) + Len(m)
        /\ \A i \in 1..(Len(u) + Len(m)) :
             (u \o m)[i] = IF i <= Len(u) THEN u[i] ELSE m[i - Len(u)]
    BY <1>1, <1>3, ConcatProperties
  <2>2. Len(u) + Len(m) = k
    BY <1>0, <1>1, <1>3
  <2> QED
    BY <1>1, <2>1, <2>2
<1>5. PICK um : um = u \o m
  OBVIOUS
<1>6. /\ um \o v \in Seq(S) /\ Len(um \o v) = Len(s) + 1
      /\ \A i \in 1..(Len(s) + 1) :
           (um \o v)[i] = IF i <= k THEN um[i] ELSE v[i - k]
  BY <1>0, <1>2, <1>4, <1>5, ConcatProperties
<1>7. PICK t : t = um \o v
  OBVIOUS
<1>8. ASSUME NEW j \in 1..(Len(s) + 1)
      PROVE  t[j] = IF j < k THEN s[j] ELSE IF j = k THEN e ELSE s[j - 1]
  <2>1. CASE j < k
    BY <1>0, <1>1, <1>4, <1>5, <1>6, <1>7, <2>1
  <2>2. CASE j = k
    <3>1. t[j] = m[k - (k - 1)] /\ k - (k - 1) = 1
      BY <1>0, <1>4, <1>5, <1>6, <1>7, <2>2
    <3> QED
      BY <1>3, <2>2, <3>1
  <2>3. CASE j > k
    <3>1. j - k \in 1..(Len(s) - k + 1) /\ k + (j - k) - 1 = j - 1
      BY <1>0, <2>3
    <3>2. v[j - k] = s[k + (j - k) - 1]
      BY <1>2, <3>1
    <3>3. t[j] = v[j - k]
      BY <1>0, <1>6, <1>7, <2>3
    <3> QED
      BY <2>3, <3>1, <3>2, <3>3
  <2> QED
    BY <1>0, <2>1, <2>2, <2>3
<1>9. InsertAt(s, k, e) = t
  BY <1>5, <1>7 DEF InsertAt, u, m, v
<1> QED
  BY <1>6, <1>7, <1>8, <1>9 DEF IsInserted

LEMMA InsertedRange ==
  ASSUME NEW S, NEW s \in Seq(S), NEW k \in 1..(Len(s) + 1), NEW e \in S,
         NEW t \in Seq(S), IsInserted(t, s, k, e)
  PROVE  Range(t) = Range(s) \cup {e}
<1>0. /\ Len(s) \in Nat /\ Len(t) = Len(s) + 1
      /\ \A j \in 1..Len(t) :
           t[j] = IF j < k THEN s[j] ELSE IF j = k THEN e ELSE s[j - 1]
  BY LenProperties DEF IsInserted
<1>1. \A x : x \in Range(t) <=> \E i \in 1..Len(t) : t[i] = x
  BY InRange
<1>2. \A x : x \in Range(s) <=> \E i \in 1..Len(s) : s[i] = x
  BY InRange
<1>3. ASSUME NEW x \in Range(t) PROVE x \in Range(s) \cup {e}
  <2>1. PICK j \in 1..Len(t) : t[j] = x
    BY <1>1, <1>3
  <2>2. CASE j < k
    <3>1. j \in 1..Len(s) /\ s[j] = x
      BY <1>0, <2>1, <2>2
    <3> QED
      BY <1>2, <3>1
  <2>3. CASE j = k
    BY <1>0, <2>1, <2>3
  <2>4. CASE j > k
    <3>1. j - 1 \in 1..Len(s) /\ s[j - 1] = x
      BY <1>0, <2>1, <2>4
    <3> QED
      BY <1>2, <3>1
  <2> QED
    BY <1>0, <2>2, <2>3, <2>4
<1>4. ASSUME NEW x \in Range(s) PROVE x \in Range(t)
  <2>1. PICK j \in 1..Len(s) : s[j] = x
    BY <1>2, <1>4
  <2>2. CASE j < k
    <3>1. j \in 1..Len(t) /\ t[j] = x
      BY <1>0, <2>1, <2>2
    <3> QED
      BY <1>1, <3>1
  <2>3. CASE j >= k
    <3>1. j + 1 \in 1..Len(t) /\ ~ (j + 1 < k) /\ j + 1 # k /\ (j + 1) - 1 = j
      BY <1>0, <2>3
    <3>2. t[j + 1] = x
      BY <1>0, <2>1, <3>1
    <3> QED
      BY <1>1, <3>1, <3>2
  <2> QED
    BY <1>0, <2>2, <2>3
<1>5. e \in Range(t)
  <2>1. k \in 1..Len(t) /\ t[k] = e
    BY <1>0
  <2> QED
    BY <1>1, <2>1
<1> QED
  BY <1>3, <1>4, <1>5

(* A number that is not there, inserted at its place, keeps the order. *)
LEMMA InsertedSorted ==
  ASSUME NEW s \in Seq(Nat), Sorted(s), NEW n \in Nat,
         NEW k, IsPosition(k, s, n), k <= Len(s) => s[k] # n,
         NEW t \in Seq(Nat), IsInserted(t, s, k, n)
  PROVE  Sorted(t)
<1>0. /\ Len(s) \in Nat /\ k \in 1..(Len(s) + 1) /\ Len(t) = Len(s) + 1
      /\ \A j \in 1..Len(s) : s[j] \in Nat
      /\ \A j \in 1..Len(t) :
           t[j] = IF j < k THEN s[j] ELSE IF j = k THEN n ELSE s[j - 1]
      /\ \A j \in 1..(k - 1) : s[j] < n
      /\ k <= Len(s) => s[k] >= n
  BY ElementOfSeq, LenProperties DEF IsInserted, IsPosition
<1>1. \A j \in 1..Len(s) : j >= k => s[j] > n
  <2> SUFFICES ASSUME NEW j \in 1..Len(s), j >= k PROVE s[j] > n
    OBVIOUS
  <2>1. k \in Nat /\ k <= Len(s) /\ Len(s) \in Nat /\ k \in 1..Len(s)
    BY ONLY <1>0, j \in 1..Len(s), j >= k
  <2>2. s[k] > n /\ s[k] \in Nat /\ s[j] \in Nat
    <3>1. s[k] \in Nat /\ s[j] \in Nat /\ s[k] >= n /\ s[k] # n
      BY ONLY <1>0, <2>1, j \in 1..Len(s), k <= Len(s) => s[k] # n
    <3> QED
      BY ONLY <3>1, n \in Nat
  <2>3. CASE j = k
    BY <2>2, <2>3
  <2>4. CASE j > k
    <3>1. s[k] < s[j]
      BY ONLY <2>1, <2>4, j \in 1..Len(s), Sorted(s) DEF Sorted
    <3> QED
      BY ONLY <2>2, <3>1, n \in Nat
  <2>5. j = k \/ j > k
    BY ONLY <2>1, j \in 1..Len(s), j >= k
  <2> QED
    BY <2>3, <2>4, <2>5
<1> SUFFICES ASSUME NEW i \in 1..Len(t), NEW j \in 1..Len(t), i < j
             PROVE  t[i] < t[j]
  BY DEF Sorted
<1>2. CASE j < k
  <2>1. i \in 1..Len(s) /\ j \in 1..Len(s) /\ i < k
    BY <1>0, <1>2, SMTT(60)
  <2>2. t[i] = s[i] /\ t[j] = s[j]
    BY <1>0, <1>2, <2>1
  <2> QED
    BY <2>1, <2>2 DEF Sorted
<1>3. CASE j = k
  <2>1. i \in 1..(k - 1) /\ t[i] = s[i] /\ t[j] = n
    BY <1>0, <1>3
  <2> QED
    BY <1>0, <2>1
<1>4. CASE j > k /\ i < k
  <2>1. i \in 1..(k - 1) /\ i \in 1..Len(s) /\ j - 1 \in 1..Len(s) /\ j - 1 >= k
        /\ t[i] = s[i] /\ t[j] = s[j - 1]
    BY <1>0, <1>4
  <2>2. s[i] < n /\ s[j - 1] > n /\ s[i] \in Nat /\ s[j - 1] \in Nat
    BY <1>0, <1>1, <2>1
  <2>3. \A x, y, z \in Nat : x < y /\ z > y => x < z
    OBVIOUS
  <2>4. s[i] < s[j - 1]
    BY ONLY <2>2, <2>3, n \in Nat
  <2> QED
    BY <2>1, <2>4
<1>5. CASE j > k /\ i = k
  <2>1. j - 1 \in 1..Len(s) /\ j - 1 >= k /\ t[i] = n /\ t[j] = s[j - 1]
    BY <1>0, <1>5
  <2>2. s[j - 1] > n /\ s[j - 1] \in Nat
    BY <1>0, <1>1, <2>1
  <2> QED
    BY <2>1, <2>2
<1>6. CASE j > k /\ i > k
  <2>1. i - 1 \in 1..Len(s) /\ j - 1 \in 1..Len(s) /\ i - 1 < j - 1
        /\ t[i] = s[i - 1] /\ t[j] = s[j - 1]
    BY <1>0, <1>6
  <2> QED
    BY <2>1 DEF Sorted
<1> QED
  BY <1>0, <1>2, <1>3, <1>4, <1>5, <1>6

-----------------------------------------------------------------------------
(* The recursive functions of the model: the nodes of a list one behind    *)
(* the other, and the rows passed in a file.                               *)

LEMMA Flattening ==
  ASSUME NEW X, NEW seqs \in Seq(Seq(X))
  PROVE  /\ FlattenSeq(seqs) \in Seq(X)
         /\ \A x : x \in Range(FlattenSeq(seqs)) <=>
                     \E i \in 1..Len(seqs) : x \in Range(seqs[i])
<1>1. FlattenSeq(seqs) = Flattened(seqs)
  BY DEF FlattenSeq, Flattened, TheFlat, FlatOf
<1>2. <<>> \in Seq(X)
  OBVIOUS
<1>3. Flattened(seqs) \in Seq(X)
  BY <1>2, FlatAppend
<1> QED
  BY <1>1, <1>3, FlatRange

(* The nodes of posting lists, on any paths. *)
NodesOn(X) == [path : X, fr : Nat, offsets : Seq(Nat)]

LEMMA NodeOfList ==
  ASSUME NEW X, NEW list \in Seq(NodesOn(X))
  PROVE  /\ Len(list) \in Nat
         /\ \A i \in 1..Len(list) :
              /\ list[i] \in NodesOn(X) /\ list[i].path \in X
              /\ list[i].fr \in Nat /\ list[i].offsets \in Seq(Nat)
<1>1. Len(list) \in Nat /\ \A i \in 1..Len(list) : list[i] \in NodesOn(X)
  BY ElementOfSeq, LenProperties
<1>2. \A n \in NodesOn(X) :
        n.path \in X /\ n.fr \in Nat /\ n.offsets \in Seq(Nat)
  BY DEF NodesOn
<1> QED
  BY <1>1, <1>2

LEMMA RowInList ==
  ASSUME NEW list, NEW p, NEW r
  PROVE  <<p, r>> \in RowsIn(list) <=>
           \E i \in 1..Len(list) :
             list[i].path = p /\ r \in Range(list[i].offsets)
BY DEF RowsIn

LEMMA RowsOfNode ==
  ASSUME NEW X, NEW node \in NodesOn(X)
  PROVE  /\ RowsOf(node) \in Seq(X \X Nat)
         /\ Range(RowsOf(node)) =
              {<<node.path, r>> : r \in Range(node.offsets)}
<1>1. node.path \in X /\ node.offsets \in Seq(Nat)
  BY DEF NodesOn
<1>2. PICK o : o = node.offsets
  OBVIOUS
<1>3. /\ Len(o) \in Nat /\ \A k \in 1..Len(o) : o[k] \in Nat
      /\ \A x : x \in Range(o) <=> \E k \in 1..Len(o) : o[k] = x
  BY <1>1, <1>2, ElementOfSeq, LenProperties, InRange
<1>4. PICK s : s = [k \in 1..Len(o) |-> <<node.path, o[k]>>]
  OBVIOUS
<1>5. \A k \in 1..Len(o) : <<node.path, o[k]>> \in X \X Nat
  BY <1>1, <1>3
<1>6. s \in Seq(X \X Nat)
  BY <1>3, <1>4, <1>5
<1>7. DOMAIN s = 1..Len(o) /\ \A k \in 1..Len(o) : s[k] = <<node.path, o[k]>>
  BY <1>4
<1>8. Range(s) = {<<node.path, r>> : r \in Range(o)}
  <2>1. \A x : x \in Range(s) <=> \E k \in 1..Len(o) : s[k] = x
    BY <1>7 DEF Range
  <2>2. ASSUME NEW x \in Range(s)
        PROVE  x \in {<<node.path, r>> : r \in Range(o)}
    <3>1. PICK k \in 1..Len(o) : x = <<node.path, o[k]>>
      BY <1>7, <2>1, <2>2
    <3>2. o[k] \in Range(o)
      BY <1>3
    <3> QED
      BY <3>1, <3>2
  <2>3. ASSUME NEW r \in Range(o)
        PROVE  <<node.path, r>> \in Range(s)
    <3>1. PICK k \in 1..Len(o) : o[k] = r
      BY <1>3, <2>3
    <3> QED
      BY <1>7, <2>1, <3>1
  <2> QED
    BY <2>2, <2>3
<1> QED
  BY <1>2, <1>4, <1>6, <1>8 DEF RowsOf

LEMMA PairsAreRows ==
  ASSUME NEW X, NEW list \in Seq(NodesOn(X))
  PROVE  /\ Pairs(list) \in Seq(X \X Nat)
         /\ Range(Pairs(list)) = RowsIn(list)
<1>1. Len(list) \in Nat /\ \A i \in 1..Len(list) : list[i] \in NodesOn(X)
  BY NodeOfList
<1>2. \A i \in 1..Len(list) :
        /\ RowsOf(list[i]) \in Seq(X \X Nat)
        /\ Range(RowsOf(list[i])) =
             {<<list[i].path, r>> : r \in Range(list[i].offsets)}
  BY <1>1, RowsOfNode
<1>3. PICK seqs : seqs = [i \in 1..Len(list) |-> RowsOf(list[i])]
  OBVIOUS
<1>4. /\ seqs \in Seq(Seq(X \X Nat)) /\ Len(seqs) = Len(list)
      /\ \A i \in 1..Len(list) : seqs[i] = RowsOf(list[i])
  BY <1>1, <1>2, <1>3
<1>5. /\ FlattenSeq(seqs) \in Seq(X \X Nat)
      /\ \A x : x \in Range(FlattenSeq(seqs)) <=>
                  \E i \in 1..Len(list) : x \in Range(seqs[i])
  BY <1>4, Flattening
<1>6. \A x : x \in RowsIn(list) <=>
               \E i \in 1..Len(list) : x \in Range(seqs[i])
  <2>1. \A i \in 1..Len(list) : Range(seqs[i]) =
          {<<list[i].path, r>> : r \in Range(list[i].offsets)}
    BY <1>2, <1>4
  <2>2. RowsIn(list) = UNION {Range(seqs[i]) : i \in 1..Len(list)}
    BY <2>1 DEF RowsIn
  <2> QED
    BY <2>2
<1>7. Range(FlattenSeq(seqs)) = RowsIn(list)
  BY <1>5, <1>6
<1>8. Pairs(list) = FlattenSeq(seqs)
  BY <1>3 DEF Pairs
<1> QED
  BY <1>5, <1>7, <1>8

PassedOf(g, p, offsets) ==
  g = [n \in 0..Len(text[p]) |->
         IF n = 0 THEN 0
         ELSE IF g[n - 1] < Len(offsets) /\ offsets[g[n - 1] + 1] = n - 1
              THEN g[n - 1] + 1 ELSE g[n - 1]]
ThePassed(p, offsets) == CHOOSE g : PassedOf(g, p, offsets)

LEMMA PassedByRecursion ==
  ASSUME NEW p, NEW offsets
  PROVE  Passed(p, offsets) = ThePassed(p, offsets)[Len(text[p])]
BY DEF Passed, ThePassed, PassedOf

(* A single pass over a file meets every row of a node, if the rows are in *)
(* order and in the file.                                                  *)
LEMMA AllPassed ==
  ASSUME NEW p, Len(text[p]) \in Nat, NEW o \in Seq(Nat), Sorted(o),
         \A k \in 1..Len(o) : o[k] < Len(text[p])
  PROVE  Passed(p, o) = Len(o)
<1>0. Len(o) \in Nat /\ \A k \in 1..Len(o) : o[k] \in Nat
  BY ElementOfSeq, LenProperties
<1>1. PICK N \in Nat : N = Len(text[p])
  OBVIOUS
<1> DEFINE K == 0..N
           S == 0..Len(o)
           Step(n, k) == IF k < Len(o) /\ o[k + 1] = n - 1 THEN k + 1 ELSE k
           F == [n \in K |-> [k \in S |-> Step(n, k)]]
<1>2. \A n \in K, k \in S : F[n][k] = Step(n, k) /\ Step(n, k) \in S
  BY <1>0
<1> HIDE DEF F, Step
<1>3. StaysIn(S, F, 0, N)
  BY <1>2 DEF StaysIn
<1>4. 0 \in S
  BY <1>0
<1>5. PICK g : g \in [K -> S] /\ Goes(g, 0, F, 0, N)
  <2> HIDE DEF S
  <2> QED
    BY <1>3, <1>4, Recursion
<1>6. \A n \in K : g[n] = IF n = 0 THEN 0 ELSE Step(n, g[n - 1])
  <2> SUFFICES ASSUME NEW n \in K, n # 0 PROVE g[n] = Step(n, g[n - 1])
    BY <1>5 DEF Goes
  <2>1. n - 1 \in K
    OBVIOUS
  <2>2. g[n] = F[n][g[n - 1]] /\ g[n - 1] \in S
    BY <1>5, <2>1 DEF Goes
  <2> QED
    BY <1>2, <2>2
<1>7. PassedOf(g, p, o)
  BY <1>1, <1>5, <1>6 DEF PassedOf, Step
<1>8. PICK h : h = ThePassed(p, o)
  OBVIOUS
<1>9. PassedOf(h, p, o)
  BY <1>7, <1>8 DEF ThePassed
<1>10. \A n \in K : h[n] = IF n = 0 THEN 0 ELSE Step(n, h[n - 1])
  BY <1>1, <1>9 DEF PassedOf, Step
<1> DEFINE Good(n) == /\ h[n] \in S
                      /\ \A j \in 1..Len(o) : j > h[n] => o[j] >= n
           T == {n \in Nat : n \in K => Good(n)}
<1>11. 0 \in T
  <2>1. h[0] = 0
    BY <1>10
  <2>2. Good(0)
    BY <1>0, <2>1
  <2> QED
    BY <2>2
<1>12. ASSUME NEW n \in T PROVE n + 1 \in T
  <2> SUFFICES ASSUME n + 1 \in K PROVE Good(n + 1)
    OBVIOUS
  <2>1. n \in K /\ n + 1 # 0 /\ (n + 1) - 1 = n
    OBVIOUS
  <2>2. PICK k \in S : k = h[n]
    BY <2>1
  <2>3. \A j \in 1..Len(o) : j > k => o[j] >= n
    BY <2>1, <2>2
  <2>4. h[n + 1] = Step(n + 1, k)
    BY <1>10, <2>1, <2>2
  <2>5. CASE k < Len(o) /\ o[k + 1] = n
    <3>1. h[n + 1] = k + 1
      BY <2>1, <2>4, <2>5 DEF Step
    <3>2. ASSUME NEW j \in 1..Len(o), j > k + 1 PROVE o[j] >= n + 1
      <4>1. k + 1 \in 1..Len(o)
        BY <1>0, <2>5
      <4>2. o[k + 1] < o[j]
        BY <3>2, <4>1 DEF Sorted
      <4> QED
        BY <1>0, <2>5, <4>2
    <3> QED
      BY <1>0, <2>5, <3>1, <3>2
  <2>6. CASE ~ (k < Len(o) /\ o[k + 1] = n)
    <3>1. h[n + 1] = k
      BY <2>1, <2>4, <2>6 DEF Step
    <3>2. ASSUME NEW j \in 1..Len(o), j > k PROVE o[j] >= n + 1
      <4>1. k + 1 \in 1..Len(o) /\ k < Len(o)
        BY <1>0, <3>2
      <4>2. o[k + 1] >= n /\ o[k + 1] # n /\ o[k + 1] \in Nat
        BY <1>0, <2>3, <2>6, <4>1
      <4>3. CASE j = k + 1
        BY <4>2, <4>3
      <4>4. CASE j > k + 1
        <5>1. o[k + 1] < o[j] /\ o[j] \in Nat
          BY <1>0, <4>1, <4>4 DEF Sorted
        <5> QED
          BY <4>2, <5>1
      <4> QED
        BY <1>0, <3>2, <4>3, <4>4
    <3> QED
      BY <3>1, <3>2
  <2> QED
    BY <2>5, <2>6
<1>13. T = Nat
  <2> HIDE DEF T
  <2>1. T \in SUBSET Nat
    BY DEF T
  <2> QED
    BY <1>11, <1>12, <2>1, SetInduction
<1>14. Good(N)
  <2>1. N \in T /\ N \in K
    <3> HIDE DEF T
    <3> QED
      BY <1>13
  <2> QED
    BY <2>1
<1>15. h[N] = Len(o)
  <2> SUFFICES ASSUME h[N] # Len(o) PROVE FALSE
    OBVIOUS
  <2>1. Len(o) \in 1..Len(o) /\ Len(o) > h[N]
    BY <1>0, <1>14
  <2>2. o[Len(o)] >= N /\ o[Len(o)] < N /\ o[Len(o)] \in Nat
    BY <1>0, <1>1, <1>14, <2>1
  <2> QED
    BY <2>2
<1> QED
  BY <1>1, <1>8, <1>15, PassedByRecursion

-----------------------------------------------------------------------------
(* The numbers of the rows of a file.                                      *)

LEMMA RowNumbers ==
  ASSUME NEW p, NEW n \in Nat
  PROVE  /\ RowOf(p, 1) = 0
         /\ MarkupAbove(p, n + 1) \in Nat
         /\ RowOf(p, n + 1) \in 0..n
         /\ RowOf(p, (n + 1) + 1) =
              RowOf(p, n + 1) + (IF text[p][n + 1].markup THEN 0 ELSE 1)
<1> DEFINE M(k) == {m \in 1..((k + 1) - 1) : text[p][m].markup}
<1>1. \A k \in Nat : (k + 1) - 1 = k /\ 1..((k + 1) - 1) = 1..k
  OBVIOUS
<1>2. \A k \in Nat : IsFiniteSet(1..k) /\ Cardinality(1..k) = k
  BY FS_Interval
<1>3. \A k \in Nat : M(k) \subseteq 1..k
  BY <1>1
<1>4. \A k \in Nat : IsFiniteSet(M(k)) /\ Cardinality(M(k)) \in 0..k
  <2> SUFFICES ASSUME NEW k \in Nat
               PROVE  IsFiniteSet(M(k)) /\ Cardinality(M(k)) \in 0..k
    OBVIOUS
  <2>1. M(k) \subseteq 1..k
    BY <1>3
  <2> HIDE DEF M
  <2>2. /\ IsFiniteSet(M(k))
        /\ Cardinality(M(k)) <= k
    BY <1>2, <2>1, FS_Subset
  <2>3. Cardinality(M(k)) \in Nat
    BY <2>2, FS_CardinalityType
  <2> QED
    BY <2>2, <2>3
<1>5. Cardinality(M(n)) \in 0..n /\ MarkupAbove(p, n + 1) = Cardinality(M(n))
  BY <1>4 DEF MarkupAbove
<1>6. RowOf(p, 1) = 0
  <2>1. {m \in 1..(1 - 1) : text[p][m].markup} = {}
    OBVIOUS
  <2> QED
    BY <2>1, FS_EmptySet DEF RowOf, MarkupAbove
<1>7. MarkupAbove(p, (n + 1) + 1) = Cardinality(M(n + 1))
  BY DEF MarkupAbove
<1>8. Cardinality(M(n + 1)) =
        Cardinality(M(n)) + (IF text[p][n + 1].markup THEN 1 ELSE 0)
  <2>1. 1..(((n + 1) + 1) - 1) = (1..((n + 1) - 1)) \cup {n + 1}
    OBVIOUS
  <2>2. CASE ~ text[p][n + 1].markup
    <3>1. M(n + 1) = M(n)
      BY <2>1, <2>2
    <3>2. Cardinality(M(n)) = Cardinality(M(n)) + 0
      BY <1>5
    <3> HIDE DEF M
    <3> QED
      BY <2>2, <3>1, <3>2
  <2>3. CASE text[p][n + 1].markup
    <3>1. M(n + 1) = M(n) \cup {n + 1}
      BY <2>1, <2>3
    <3>2. n + 1 \notin M(n)
      OBVIOUS
    <3>3. IsFiniteSet(M(n))
      BY <1>4
    <3> HIDE DEF M
    <3>4. Cardinality(M(n) \cup {n + 1}) = Cardinality(M(n)) + 1
      BY <3>2, <3>3, FS_AddElement
    <3> QED
      BY <2>3, <3>1, <3>4
  <2> QED
    BY <2>2, <2>3
<1> HIDE DEF M
<1>9. PICK c \in 0..n : c = Cardinality(M(n))
  BY <1>5
<1>10. RowOf(p, n + 1) = n - c /\ MarkupAbove(p, n + 1) = c
  BY <1>5, <1>9 DEF RowOf
<1>11. RowOf(p, (n + 1) + 1) =
         n + 1 - (c + (IF text[p][n + 1].markup THEN 1 ELSE 0))
  BY <1>7, <1>8, <1>9 DEF RowOf
<1> QED
  BY <1>6, <1>9, <1>10, <1>11

LEMMA TextOf ==
  ASSUME text \in Files, NEW p \in Paths
  PROVE  /\ text[p] \in Seq(Lines) /\ Len(text[p]) \in Nat
         /\ \A n \in 1..Len(text[p]) :
              /\ text[p][n] \in Lines
              /\ text[p][n].markup \in BOOLEAN
              /\ text[p][n].words \in Seq(Words)
<1>1. text[p] \in Seq(Lines)
  BY FilesAssumption
<1>2. Len(text[p]) \in Nat /\ \A n \in 1..Len(text[p]) : text[p][n] \in Lines
  BY <1>1, ElementOfSeq, LenProperties
<1>3. \A x \in Lines : x.markup \in BOOLEAN /\ x.words \in Seq(Words)
  BY DEF Lines
<1> QED
  BY <1>1, <1>2, <1>3

-----------------------------------------------------------------------------
(* A row of the current file into the posting list of a word.              *)

ListFor(list, p, r) ==
  /\ Unlike(list)
  /\ \A i \in 1..Len(list) :
       /\ list[i].offsets # <<>> /\ Sorted(list[i].offsets)
       /\ list[i].path = p =>
            /\ i = Len(list)
            /\ \A k \in 1..Len(list[i].offsets) : list[i].offsets[k] <= r

LEMMA AddedRow ==
  ASSUME NEW X, NEW node \in NodesOn(X), NEW r \in Nat,
         node.offsets # <<>>, Sorted(node.offsets),
         \A k \in 1..Len(node.offsets) : node.offsets[k] <= r
  PROVE  LET new == Again(node, r)
         IN /\ new \in NodesOn(X) /\ new.path = node.path
            /\ new.offsets # <<>> /\ Sorted(new.offsets)
            /\ \A k \in 1..Len(new.offsets) : new.offsets[k] <= r
            /\ Range(new.offsets) = Range(node.offsets) \cup {r}
<1>0. node.path \in X /\ node.fr \in Nat /\ node.offsets \in Seq(Nat)
  BY DEF NodesOn
<1>1. PICK o \in Seq(Nat) : o = node.offsets
  BY <1>0
<1>2. /\ Len(o) \in Nat /\ Len(o) # 0
      /\ \A k \in 1..Len(o) : o[k] \in Nat /\ o[k] <= r
      /\ Sorted(o)
  BY <1>1, ElementOfSeq, LenProperties, EmptySeq
<1>3. PICK new : new = Again(node, r)
  OBVIOUS
<1>4. PICK q : q = IF o[Len(o)] = r THEN o ELSE Append(o, r)
  OBVIOUS
<1>5. node = [path |-> node.path, fr |-> node.fr, offsets |-> o]
  BY <1>1 DEF NodesOn
<1>6. /\ new = [node EXCEPT !.fr = node.fr + 1, !.offsets = q]
  BY <1>1, <1>3, <1>4 DEF Again, Last
<1>7. new = [path |-> node.path, fr |-> node.fr + 1, offsets |-> q]
  BY <1>5, <1>6
<1>8. q \in Seq(Nat) /\ q # <<>> /\ Sorted(q) /\ Range(q) = Range(o) \cup {r}
      /\ \A k \in 1..Len(q) : q[k] <= r
  <2>1. CASE o[Len(o)] = r
    <3>1. q = o
      BY <1>4, <2>1
    <3>2. Len(o) \in 1..Len(o)
      BY <1>2
    <3>3. r \in Range(o)
      BY <2>1, <3>2, InRange
    <3>4. o # <<>>
      BY <1>2, EmptySeq
    <3> QED
      BY <1>2, <3>1, <3>3, <3>4
  <2>2. CASE o[Len(o)] # r
    <3>1. q = Append(o, r)
      BY <1>4, <2>2
    <3>2. /\ q \in Seq(Nat) /\ Len(q) = Len(o) + 1
          /\ \A k \in 1..Len(o) : q[k] = o[k]
          /\ q[Len(o) + 1] = r
      BY <3>1, AppendProperties
    <3>3. Range(q) = Range(o) \cup {r}
      BY <3>1, AppendRange
    <3>4. \A k \in 1..Len(o) : o[k] < r
      <4> SUFFICES ASSUME NEW k \in 1..Len(o) PROVE o[k] < r
        OBVIOUS
      <4>1. o[Len(o)] < r /\ o[Len(o)] \in Nat /\ Len(o) \in 1..Len(o)
        BY <1>2, <2>2
      <4>2. CASE k = Len(o)
        BY <4>1, <4>2
      <4>3. CASE k < Len(o)
        <5>1. o[k] < o[Len(o)] /\ o[k] \in Nat
          BY <1>2, <4>1, <4>3 DEF Sorted
        <5> QED
          BY <4>1, <5>1
      <4> QED
        BY <1>2, <4>2, <4>3
    <3>5. Sorted(q)
      <4> SUFFICES ASSUME NEW i \in 1..Len(q), NEW j \in 1..Len(q), i < j
                   PROVE  q[i] < q[j]
        BY DEF Sorted
      <4>1. i \in 1..Len(o) /\ q[i] = o[i]
        BY <1>2, <3>2
      <4>2. CASE j \in 1..Len(o)
        <5>1. q[j] = o[j] /\ o[i] < o[j]
          BY <1>2, <3>2, <4>1, <4>2 DEF Sorted
        <5> QED
          BY <4>1, <5>1
      <4>3. CASE j = Len(o) + 1
        BY <3>2, <3>4, <4>1, <4>3
      <4>4. j \in 1..Len(o) \/ j = Len(o) + 1
        <5>1. j \in 1..(Len(o) + 1) /\ Len(o) \in Nat
          BY <1>2, <3>2
        <5> QED
          BY ONLY <5>1
      <4> QED
        BY <4>2, <4>3, <4>4
    <3>6. \A k \in 1..Len(q) : q[k] <= r
      <4> SUFFICES ASSUME NEW k \in 1..Len(q) PROVE q[k] <= r
        OBVIOUS
      <4>1. k \in 1..Len(o) \/ k = Len(o) + 1
        BY <1>2, <3>2
      <4> QED
        BY <1>2, <3>2, <4>1
    <3>7. q # <<>>
      BY <1>2, <3>2, EmptySeq
    <3> QED
      BY <3>2, <3>3, <3>5, <3>6, <3>7
  <2> QED
    BY <2>1, <2>2
<1>9. new \in NodesOn(X) /\ new.path = node.path /\ new.offsets = q
  BY <1>0, <1>7, <1>8 DEF NodesOn
<1> QED
  BY <1>1, <1>3, <1>8, <1>9

(* Front and Last, put together again with another element at the end. *)
WithLast(s, e) == Append(Front(s), e)

LEMMA LastReplaced ==
  ASSUME NEW S, NEW s \in Seq(S), s # <<>>, NEW e \in S
  PROVE  /\ WithLast(s, e) \in Seq(S)
         /\ Len(WithLast(s, e)) = Len(s)
         /\ \A i \in 1..Len(s) :
              WithLast(s, e)[i] = IF i = Len(s) THEN e ELSE s[i]
<1>0. Len(s) \in Nat /\ Len(s) # 0 /\ \A i \in 1..Len(s) : s[i] \in S
  BY ElementOfSeq, LenProperties, EmptySeq
<1>1. PICK u : u = SubSeq(s, 1, Len(s) - 1)
  OBVIOUS
<1>2. /\ u \in Seq(S) /\ Len(u) = Len(s) - 1
      /\ \A i \in 1..(Len(s) - 1) : u[i] = s[i]
  <2>1. PICK k \in Nat : k = Len(s) - 1
    BY <1>0
  <2>2. \A i \in 1..k : s[i] \in S
    BY <1>0, <2>1
  <2>3. /\ SubSeq(s, 1, k) \in Seq(S)
        /\ Len(SubSeq(s, 1, k)) = IF 1 <= k THEN k - 1 + 1 ELSE 0
        /\ \A i \in 1..(k - 1 + 1) : SubSeq(s, 1, k)[i] = s[1 + i - 1]
    BY <2>2, SubSeqProperties
  <2>4. u = SubSeq(s, 1, k)
    BY <1>1, <2>1
  <2>5. Len(u) = k /\ \A i \in 1..k : u[i] = s[1 + i - 1]
    BY <2>1, <2>3, <2>4
  <2>6. \A i \in 1..k : 1 + i - 1 = i
    OBVIOUS
  <2> QED
    BY <2>1, <2>3, <2>4, <2>5, <2>6
<1> DEFINE t == WithLast(s, e)
<1>3. t = Append(u, e)
  BY <1>1 DEF Front, WithLast
<1> HIDE DEF t
<1>4. /\ t \in Seq(S) /\ Len(t) = Len(u) + 1
      /\ \A i \in 1..Len(u) : t[i] = u[i]
      /\ t[Len(u) + 1] = e
  BY <1>2, <1>3, AppendProperties
<1>5. \A i \in 1..Len(s) : i # Len(s) => i \in 1..(Len(s) - 1)
  BY <1>0
<1> QED
  BY <1>0, <1>2, <1>4, <1>5, SMTT(60) DEF t

LEMMA ListUpdated ==
  ASSUME NEW X, NEW list \in Seq(NodesOn(X)), NEW p \in X, NEW r \in Nat,
         ListFor(list, p, r), NEW new, new = invIndex_Update(list, p, r)
  PROVE  /\ new \in Seq(NodesOn(X)) /\ ListFor(new, p, r)
         /\ \A i \in 1..Len(new) :
              \/ new[i].path = p
              \/ \E j \in 1..Len(list) : list[j].path = new[i].path
         /\ \A q, o : <<q, o>> \in RowsIn(new) <=>
                        <<q, o>> \in RowsIn(list) \/ (q = p /\ o = r)
<1> DEFINE N == Len(list)
<1>0. /\ N \in Nat
      /\ \A i \in 1..N :
           /\ list[i] \in NodesOn(X) /\ list[i].path \in X
           /\ list[i].fr \in Nat /\ list[i].offsets \in Seq(Nat)
  BY NodeOfList
<1>1. CASE list = <<>> \/ Last(list).path # p
  <2>1. PICK node : node = Node(p, 1, <<r>>)
    OBVIOUS
  <2>2. PICK o : o = <<r>>
    OBVIOUS
  <2>3. o \in Seq(Nat) /\ Len(o) = 1 /\ o[1] = r /\ o # <<>>
    BY <2>2
  <2>4. node \in NodesOn(X) /\ node.path = p /\ node.offsets = o
    BY <2>1, <2>2, <2>3 DEF Node, NodesOn
  <2>5. new = Append(list, node)
    BY <1>1, <2>1 DEF invIndex_Update, NewNode
  <2>6. /\ new \in Seq(NodesOn(X)) /\ Len(new) = N + 1
        /\ \A i \in 1..N : new[i] = list[i]
        /\ new[N + 1] = node
    BY <2>4, <2>5, AppendProperties
  <2>7. \A i \in 1..N : list[i].path # p
    <3> SUFFICES ASSUME NEW i \in 1..N, list[i].path = p PROVE FALSE
      OBVIOUS
    <3>1. i = N
      BY DEF ListFor
    <3>2. Last(list).path = p
      BY <3>1 DEF Last
    <3>3. list # <<>>
      BY <1>0, EmptySeq
    <3> QED
      BY <1>1, <3>2, <3>3
  <2>8. \A i \in 1..(N + 1) : i \in 1..N \/ i = N + 1
    BY <1>0
  <2>9. Range(o) = {r}
    <3>1. \A x : x \in Range(o) <=> \E i \in 1..Len(o) : o[i] = x
      BY <2>3, InRange
    <3>2. 1..Len(o) = {1}
      BY <2>3
    <3> QED
      BY <2>3, <3>1, <3>2
  <2>10. Sorted(o) /\ \A k \in 1..Len(o) : o[k] <= r
    BY <2>3 DEF Sorted
  <2>11. Unlike(new)
    <3> SUFFICES ASSUME NEW i \in 1..(N + 1), NEW j \in 1..(N + 1),
                        new[i].path = new[j].path
                 PROVE  i = j
      BY <2>6 DEF Unlike
    <3>1. CASE i \in 1..N /\ j \in 1..N
      BY <2>6, <3>1 DEF ListFor, Unlike
    <3>2. CASE i = N + 1 /\ j \in 1..N
      BY <2>4, <2>6, <2>7, <3>2
    <3>3. CASE j = N + 1 /\ i \in 1..N
      BY <2>4, <2>6, <2>7, <3>3
    <3> QED
      BY <2>8, <3>1, <3>2, <3>3
  <2>12. ListFor(new, p, r)
    <3> SUFFICES ASSUME NEW i \in 1..(N + 1)
                 PROVE  /\ new[i].offsets # <<>> /\ Sorted(new[i].offsets)
                        /\ new[i].path = p =>
                             /\ i = Len(new)
                             /\ \A k \in 1..Len(new[i].offsets) :
                                  new[i].offsets[k] <= r
      BY <2>6, <2>11 DEF ListFor
    <3>1. CASE i \in 1..N
      BY <2>6, <2>7, <3>1 DEF ListFor
    <3>2. CASE i = N + 1
      BY <2>3, <2>4, <2>6, <2>10, <3>2
    <3> QED
      BY <2>8, <3>1, <3>2
  <2>13. \A i \in 1..Len(new) :
           new[i].path = p \/ \E j \in 1..N : list[j].path = new[i].path
    BY <2>4, <2>6, <2>8
  <2>14. ASSUME NEW q, NEW x
         PROVE  <<q, x>> \in RowsIn(new) <=>
                  <<q, x>> \in RowsIn(list) \/ (q = p /\ x = r)
    <3>1. <<q, x>> \in RowsIn(new) <=>
            \E i \in 1..(N + 1) : new[i].path = q /\ x \in Range(new[i].offsets)
      BY <2>6, RowInList
    <3>2. <<q, x>> \in RowsIn(list) <=>
            \E i \in 1..N : list[i].path = q /\ x \in Range(list[i].offsets)
      BY RowInList
    <3>3. N + 1 \in 1..(N + 1) /\ \A i \in 1..N : i \in 1..(N + 1)
      BY <1>0
    <3>4. new[N + 1].path = p /\ Range(new[N + 1].offsets) = {r}
      BY <2>4, <2>6, <2>9
    <3> HIDE DEF N
    <3> QED
      BY <2>6, <2>8, <3>1, <3>2, <3>3, <3>4
  <2> QED
    BY <2>6, <2>12, <2>13, <2>14
<1>2. CASE ~ (list = <<>> \/ Last(list).path # p)
  <2>1. list # <<>> /\ list[N].path = p
    BY <1>2 DEF Last
  <2>2. N # 0 /\ N \in 1..N
    BY <1>0, <2>1, EmptySeq
  <2>3. PICK node : node = list[N]
    OBVIOUS
  <2>4. /\ node \in NodesOn(X) /\ node.path = p
        /\ node.offsets # <<>> /\ Sorted(node.offsets)
        /\ \A k \in 1..Len(node.offsets) : node.offsets[k] <= r
    BY <1>0, <2>1, <2>2, <2>3 DEF ListFor
  <2>5. PICK last : last = Again(node, r)
    OBVIOUS
  <2>6. /\ last \in NodesOn(X) /\ last.path = node.path
        /\ last.offsets # <<>> /\ Sorted(last.offsets)
        /\ \A k \in 1..Len(last.offsets) : last.offsets[k] <= r
        /\ Range(last.offsets) = Range(node.offsets) \cup {r}
    BY <2>4, <2>5, AddedRow
  <2>7. new = WithLast(list, last)
    BY <1>2, <2>3, <2>5 DEF invIndex_Update, Last, WithLast
  <2>8. /\ new \in Seq(NodesOn(X)) /\ Len(new) = N
        /\ \A i \in 1..N : new[i] = IF i = N THEN last ELSE list[i]
    <3> DEFINE t == WithLast(list, last)
    <3>1. /\ t \in Seq(NodesOn(X))
          /\ Len(t) = Len(list)
          /\ \A i \in 1..Len(list) :
               t[i] = IF i = Len(list) THEN last ELSE list[i]
      <4> HIDE DEF N
      <4> QED
        BY <2>1, <2>6, LastReplaced
    <3> HIDE DEF t
    <3> QED
      BY <2>7, <3>1 DEF t
  <2>9. \A i \in 1..N : new[i].path = list[i].path
    BY <2>3, <2>6, <2>8
  <2>10. ListFor(new, p, r)
    <3>1. Unlike(new)
      BY <2>8, <2>9 DEF ListFor, Unlike
    <3> SUFFICES ASSUME NEW i \in 1..N
                 PROVE  /\ new[i].offsets # <<>> /\ Sorted(new[i].offsets)
                        /\ new[i].path = p =>
                             /\ i = Len(new)
                             /\ \A k \in 1..Len(new[i].offsets) :
                                  new[i].offsets[k] <= r
      BY <2>8, <3>1 DEF ListFor
    <3>2. CASE i = N
      BY <2>6, <2>8, <3>2
    <3>3. CASE i # N
      BY <2>8, <3>3 DEF ListFor
    <3> QED
      BY <3>2, <3>3
  <2>11. \A i \in 1..Len(new) : \E j \in 1..N : list[j].path = new[i].path
    BY <2>8, <2>9
  <2>12. ASSUME NEW q, NEW x
         PROVE  <<q, x>> \in RowsIn(new) <=>
                  <<q, x>> \in RowsIn(list) \/ (q = p /\ x = r)
    <3>1. <<q, x>> \in RowsIn(new) <=>
            \E i \in 1..N : new[i].path = q /\ x \in Range(new[i].offsets)
      BY <2>8, RowInList
    <3>2. <<q, x>> \in RowsIn(list) <=>
            \E i \in 1..N : list[i].path = q /\ x \in Range(list[i].offsets)
      BY RowInList
    <3>3. new[N].path = p /\ list[N].path = p
          /\ Range(new[N].offsets) = Range(list[N].offsets) \cup {r}
      BY <2>1, <2>2, <2>3, <2>4, <2>6, <2>8
    <3>4. \A i \in 1..N : i # N => new[i] = list[i]
      BY <2>8
    <3> HIDE DEF N
    <3> QED
      BY <2>2, <3>1, <3>2, <3>3, <3>4
  <2> QED
    BY <2>8, <2>10, <2>11, <2>12
<1> QED
  BY <1>1, <1>2

-----------------------------------------------------------------------------
(* A row into the merged list.                                             *)

Results(X) == [df : Nat, list : Seq(NodesOn(X))]

NodeOk(node) == Ascending(node.offsets) /\ node.fr = Len(node.offsets)

InOrder(result) ==
  /\ result.df = Len(result.list)
  /\ Ascending(PathsOf(result.list))
  /\ \A i \in 1..Len(result.list) : NodeOk(result.list[i])

LEMMA NodeRowAdded ==
  ASSUME NEW X, NEW node \in NodesOn(X), NodeOk(node), NEW r \in Nat
  PROVE  LET new == AddRow(node, r)
         IN /\ new \in NodesOn(X) /\ new.path = node.path /\ NodeOk(new)
            /\ Range(new.offsets) = Range(node.offsets) \cup {r}
<1>0. node.path \in X /\ node.fr \in Nat /\ node.offsets \in Seq(Nat)
  BY DEF NodesOn
<1>1. PICK o \in Seq(Nat) : o = node.offsets
  BY <1>0
<1>2. Len(o) \in Nat /\ Ascending(o) /\ node.fr = Len(o) /\ Sorted(o)
  BY <1>1, LenProperties, AscendingSorted DEF NodeOk
<1>3. PICK k : k = Position(o, r)
  OBVIOUS
<1>4. IsPosition(k, o, r) /\ k \in 1..(Len(o) + 1)
  BY <1>3, PositionOf DEF IsPosition
<1>5. CASE k <= Len(o) /\ o[k] = r
  <2>1. AddRow(node, r) = node
    BY <1>1, <1>3, <1>5 DEF AddRow
  <2>2. k \in 1..Len(o)
    BY <1>2, <1>4, <1>5
  <2>3. r \in Range(o)
    BY <1>5, <2>2, InRange
  <2> QED
    BY <1>1, <2>1, <2>3
<1>6. CASE ~ (k <= Len(o) /\ o[k] = r)
  <2>1. PICK q : q = InsertAt(o, k, r)
    OBVIOUS
  <2>2. q \in Seq(Nat) /\ IsInserted(q, o, k, r)
    BY <1>4, <2>1, Inserting
  <2>3. Len(q) = Len(o) + 1 /\ Range(q) = Range(o) \cup {r}
    <3>1. Range(q) = Range(o) \cup {r}
      <4>1. PICK N : N = Nat
        OBVIOUS
      <4>2. o \in Seq(N) /\ q \in Seq(N) /\ r \in N /\ k \in 1..(Len(o) + 1)
        BY <1>4, <2>2, <4>1
      <4> QED
        BY ONLY <2>2, <4>2, InsertedRange
    <3> QED
      BY <2>2, <3>1 DEF IsInserted
  <2>4. Sorted(q)
    BY <1>2, <1>4, <1>6, <2>2, InsertedSorted
  <2>5. Ascending(q)
    BY <2>2, <2>4, SortedAscending
  <2>6. node = [path |-> node.path, fr |-> node.fr, offsets |-> o]
    BY <1>1 DEF NodesOn
  <2>7. AddRow(node, r) = [node EXCEPT !.fr = node.fr + 1, !.offsets = q]
    BY <1>1, <1>3, <1>6, <2>1 DEF AddRow
  <2>8. AddRow(node, r) =
          [path |-> node.path, fr |-> node.fr + 1, offsets |-> q]
    BY <2>6, <2>7
  <2>9. PICK new : new = AddRow(node, r)
    OBVIOUS
  <2>10. /\ new.path = node.path /\ new.fr = node.fr + 1 /\ new.offsets = q
    BY <2>8, <2>9
  <2>11. new \in NodesOn(X)
    BY <1>0, <2>2, <2>8, <2>9 DEF NodesOn
  <2>12. NodeOk(new)
    BY <1>2, <2>3, <2>5, <2>10 DEF NodeOk
  <2> QED
    BY <1>1, <2>3, <2>9, <2>10, <2>11, <2>12
<1> QED
  BY <1>5, <1>6

LEMMA RowInNode ==
  ASSUME NEW X, NEW list \in Seq(NodesOn(X)), NEW p, NEW r
  PROVE  <<p, r>> \in RowsIn(list) <=>
           \E node \in Range(list) : node.path = p /\ r \in Range(node.offsets)
<1>1. \A x : x \in Range(list) <=> \E i \in 1..Len(list) : list[i] = x
  BY InRange
<1> QED
  BY <1>1, RowInList

LEMMA PathsOfList ==
  ASSUME NEW X \in SUBSET Nat, NEW list \in Seq(NodesOn(X))
  PROVE  /\ PathsOf(list) \in Seq(Nat) /\ Len(PathsOf(list)) = Len(list)
         /\ \A i \in 1..Len(list) : PathsOf(list)[i] = list[i].path
<1>1. Len(list) \in Nat /\ \A i \in 1..Len(list) : list[i].path \in Nat
  BY NodeOfList
<1>2. PathsOf(list) = [i \in 1..Len(list) |-> list[i].path]
  BY DEF PathsOf
<1> QED
  BY <1>1, <1>2

LEMMA MergedRow ==
  ASSUME NEW X \in SUBSET Nat, NEW result \in Results(X), InOrder(result),
         NEW p \in X, NEW r \in Nat
  PROVE  LET new == ResultsInvertedIndexUpdate(result, p, r)
         IN /\ new \in Results(X) /\ InOrder(new)
            /\ \A q, o : <<q, o>> \in RowsIn(new.list) <=>
                 <<q, o>> \in RowsIn(result.list) \/ (q = p /\ o = r)
<1>0. /\ result.df \in Nat /\ result.list \in Seq(NodesOn(X))
      /\ result = [df |-> result.df, list |-> result.list]
  BY DEF Results
<1>1. PICK s \in Seq(NodesOn(X)) : s = result.list
  BY <1>0
<1>2. /\ Len(s) \in Nat
      /\ \A i \in 1..Len(s) : s[i] \in NodesOn(X) /\ s[i].path \in Nat
  BY NodeOfList
<1>3. PICK keys : keys = PathsOf(s)
  OBVIOUS
<1>4. /\ keys \in Seq(Nat) /\ Len(keys) = Len(s)
      /\ \A i \in 1..Len(s) : keys[i] = s[i].path
  BY <1>3, PathsOfList
<1>5. /\ result.df = Len(s) /\ Ascending(keys) /\ Sorted(keys)
      /\ \A i \in 1..Len(s) : NodeOk(s[i])
  BY <1>1, <1>3, <1>4, AscendingSorted DEF InOrder
<1>6. PICK k : k = Position(keys, p)
  OBVIOUS
<1>7. p \in Nat /\ IsPosition(k, keys, p)
  BY <1>4, <1>6, PositionOf
<1>8. k \in 1..(Len(s) + 1)
  BY <1>4, <1>7 DEF IsPosition
<1>9. PICK new : new = ResultsInvertedIndexUpdate(result, p, r)
  OBVIOUS
<1>10. CASE k <= Len(s) /\ s[k].path = p
  <2>1. PICK node : node = AddRow(s[k], r)
    OBVIOUS
  <2>2. k \in 1..Len(s)
    BY <1>2, <1>8, <1>10
  <2>3. /\ node \in NodesOn(X) /\ node.path = s[k].path /\ NodeOk(node)
        /\ Range(node.offsets) = Range(s[k].offsets) \cup {r}
    BY <1>2, <1>5, <2>1, <2>2, NodeRowAdded
  <2>4. PICK t : t = [s EXCEPT ![k] = node]
    OBVIOUS
  <2>5. /\ t \in Seq(NodesOn(X)) /\ Len(t) = Len(s)
        /\ \A j \in 1..Len(s) : t[j] = IF j = k THEN node ELSE s[j]
    BY <2>2, <2>3, <2>4, ExceptSeq
  <2>6. new = [result EXCEPT !.list[k] = node]
    BY <1>1, <1>3, <1>6, <1>9, <1>10, <2>1 DEF ResultsInvertedIndexUpdate
  <2>7. new = [df |-> Len(s), list |-> t]
    BY <1>0, <1>1, <1>5, <2>4, <2>6
  <2>8. new.df = Len(s) /\ new.list = t /\ new \in Results(X)
    BY <1>2, <2>5, <2>7 DEF Results
  <2>9. PathsOf(t) = keys
    <3>1. \A j \in 1..Len(s) : t[j].path = s[j].path
      BY <2>3, <2>5
    <3> QED
      BY <1>3, <2>5, <3>1 DEF PathsOf
  <2>10. InOrder(new)
    <3>1. \A j \in 1..Len(t) : NodeOk(t[j])
      BY <1>5, <2>3, <2>5
    <3> QED
      BY <1>5, <2>5, <2>8, <2>9, <3>1 DEF InOrder
  <2>11. ASSUME NEW q, NEW o
         PROVE  <<q, o>> \in RowsIn(t) <=>
                  <<q, o>> \in RowsIn(s) \/ (q = p /\ o = r)
    <3>1. <<q, o>> \in RowsIn(t) <=>
            \E i \in 1..Len(s) : t[i].path = q /\ o \in Range(t[i].offsets)
      BY <2>5, RowInList
    <3>2. <<q, o>> \in RowsIn(s) <=>
            \E i \in 1..Len(s) : s[i].path = q /\ o \in Range(s[i].offsets)
      BY RowInList
    <3>3. t[k].path = p /\ s[k].path = p
          /\ Range(t[k].offsets) = Range(s[k].offsets) \cup {r}
      BY <1>10, <2>2, <2>3, <2>5
    <3>4. \A i \in 1..Len(s) : i # k => t[i] = s[i]
      BY <2>5
    <3> QED
      BY <2>2, <3>1, <3>2, <3>3, <3>4
  <2> QED
    BY <1>1, <1>9, <2>8, <2>10, <2>11
<1>11. CASE ~ (k <= Len(s) /\ s[k].path = p)
  <2>1. PICK node : node = Node(p, 1, <<r>>)
    OBVIOUS
  <2>2. PICK o : o = <<r>>
    OBVIOUS
  <2>3. o \in Seq(Nat) /\ Len(o) = 1 /\ o[1] = r
    BY <2>2
  <2>4. node \in NodesOn(X) /\ node.path = p /\ node.offsets = o
        /\ node.fr = 1
    BY <2>1, <2>2, <2>3 DEF Node, NodesOn
  <2>5. NodeOk(node)
    <3>1. Ascending(o)
      BY <2>3 DEF Ascending
    <3> QED
      BY <2>3, <2>4, <3>1 DEF NodeOk
  <2>6. Range(o) = {r}
    <3>1. \A x : x \in Range(o) <=> \E i \in 1..Len(o) : o[i] = x
      BY <2>3, InRange
    <3>2. 1..Len(o) = {1}
      BY <2>3
    <3> QED
      BY <2>3, <3>1, <3>2
  <2>7. PICK t : t = InsertAt(s, k, node)
    OBVIOUS
  <2>8. t \in Seq(NodesOn(X)) /\ IsInserted(t, s, k, node)
    BY <1>8, <2>4, <2>7, Inserting
  <2>9. Range(t) = Range(s) \cup {node} /\ Len(t) = Len(s) + 1
    <3>1. Range(t) = Range(s) \cup {node}
      BY <1>8, <2>4, <2>8, InsertedRange
    <3> QED
      BY <2>8, <3>1 DEF IsInserted
  <2>10. new = [df |-> Len(s) + 1, list |-> t]
    BY <1>1, <1>3, <1>5, <1>6, <1>9, <1>11, <2>1, <2>7
       DEF ResultsInvertedIndexUpdate
  <2>11. new.df = Len(t) /\ new.list = t /\ new \in Results(X)
    BY <1>2, <2>8, <2>9, <2>10 DEF Results
  <2>12. PICK keys2 : keys2 = PathsOf(t)
    OBVIOUS
  <2>13. /\ keys2 \in Seq(Nat) /\ Len(keys2) = Len(t)
         /\ \A i \in 1..Len(t) : keys2[i] = t[i].path
    BY <2>8, <2>12, PathsOfList
  <2>14. IsInserted(keys2, keys, k, p)
    <3>1. Len(keys2) = Len(keys) + 1
      BY <1>4, <2>9, <2>13
    <3> SUFFICES ASSUME NEW j \in 1..Len(keys2)
                 PROVE  keys2[j] = IF j < k THEN keys[j]
                                   ELSE IF j = k THEN p ELSE keys[j - 1]
      BY <3>1 DEF IsInserted
    <3>2. keys2[j] = t[j].path /\ j \in 1..Len(t)
          /\ t[j] = IF j < k THEN s[j] ELSE IF j = k THEN node ELSE s[j - 1]
      BY <2>8, <2>13 DEF IsInserted
    <3>3. CASE j < k
      <4>1. j \in 1..Len(s)
        BY <1>2, <1>8, <3>3
      <4> QED
        BY <1>4, <3>2, <3>3, <4>1
    <3>4. CASE j = k
      BY <1>8, <2>4, <3>2, <3>4
    <3>5. CASE j > k
      <4>1. j - 1 \in 1..Len(s) /\ ~ (j < k) /\ j # k
        BY <1>2, <1>8, <2>9, <3>2, <3>5
      <4> QED
        BY <1>4, <3>2, <4>1
    <3> QED
      BY <1>8, <3>2, <3>3, <3>4, <3>5
  <2>15. k <= Len(keys) => keys[k] # p
    <3> SUFFICES ASSUME k <= Len(keys) PROVE keys[k] # p
      OBVIOUS
    <3>1. k \in 1..Len(s)
      BY <1>2, <1>4, <1>8
    <3> QED
      BY <1>4, <1>11, <3>1
  <2>16. Ascending(keys2)
    <3>1. Sorted(keys2)
      BY <1>4, <1>5, <1>7, <2>13, <2>14, <2>15, InsertedSorted
    <3> QED
      BY <2>13, <3>1, SortedAscending
  <2>17. ASSUME NEW j \in 1..Len(t) PROVE NodeOk(t[j])
    <3>0. t[j] \in Range(t)
      BY <2>8, <2>17, InRange
    <3>1. t[j] = node \/ t[j] \in Range(s)
      BY <2>9, <3>0
    <3>2. \A x \in Range(s) : NodeOk(x)
      <4>1. \A x : x \in Range(s) <=> \E i \in 1..Len(s) : s[i] = x
        BY InRange
      <4> QED
        BY <1>5, <4>1
    <3> QED
      BY <2>5, <3>1, <3>2
  <2>18. InOrder(new)
    BY <2>11, <2>12, <2>16, <2>17 DEF InOrder
  <2>19. ASSUME NEW q, NEW x
         PROVE  <<q, x>> \in RowsIn(t) <=>
                  <<q, x>> \in RowsIn(s) \/ (q = p /\ x = r)
    <3>1. <<q, x>> \in RowsIn(t) <=>
            \E nd \in Range(t) : nd.path = q /\ x \in Range(nd.offsets)
      BY <2>8, RowInNode
    <3>2. <<q, x>> \in RowsIn(s) <=>
            \E nd \in Range(s) : nd.path = q /\ x \in Range(nd.offsets)
      BY RowInNode
    <3> QED
      BY <2>4, <2>6, <2>9, <3>1, <3>2
  <2> QED
    BY <1>1, <1>9, <2>11, <2>18, <2>19
<1> QED
  BY <1>10, <1>11

-----------------------------------------------------------------------------
(* The first state, and the steps that index the files.                    *)

LEMMA NodesOnPaths ==
  /\ Paths \subseteq Nat
  /\ Nodes = NodesOn(Paths)
  /\ [df : Nat, list : Seq(Nodes)] = Results(Paths)
BY PathsAssumption DEF Nodes, NodesOn, Results

LEMMA MergedIs == MergedInOrder <=> InOrder(merged)
BY DEF MergedInOrder, InOrder, NodeOk

LEMMA NoRows == RowsIn(<<>>) = {}
<1>1. PICK e : e = <<>>
  OBVIOUS
<1>2. Len(e) = 0 /\ 1..Len(e) = {}
  BY <1>1, EmptySeq
<1>3. RowsIn(e) = {}
  BY <1>2 DEF RowsIn
<1> QED
  BY <1>1, <1>3

LEMMA NoRange == Range(<<>>) = {}
BY DEF Range

LEMMA NothingMerged == NoResult \in Results(Paths) /\ InOrder(NoResult)
<1>1. PICK e : e = <<>>
  OBVIOUS
<1>2. e \in Seq(NodesOn(Paths)) /\ Len(e) = 0
  BY <1>1, EmptySeq
<1>3. NoResult = [df |-> 0, list |-> e] /\ NoResult.df = 0 /\ NoResult.list = e
  BY <1>1 DEF NoResult
<1>4. NoResult \in Results(Paths)
  BY <1>2, <1>3 DEF Results
<1>5. PICK keys : keys = PathsOf(e)
  OBVIOUS
<1>6. Len(keys) = 0
  BY <1>2, <1>5, NodesOnPaths, PathsOfList
<1>7. Ascending(keys)
  BY <1>6 DEF Ascending
<1>8. \A i \in 1..Len(e) : NodeOk(e[i])
  BY <1>2
<1> QED
  BY <1>2, <1>3, <1>4, <1>5, <1>7, <1>8 DEF InOrder

LEMMA Initially == Init => Inv
<1> SUFFICES ASSUME Init PROVE Inv
  OBVIOUS
<1>1. TypeOK
  <2>1. \A S : <<>> \in Seq(S) /\ Len(<<>>) = 0
    BY EmptySeq
  <2>2. merged \in [df : Nat, list : Seq(Nodes)]
    BY NothingMerged, NodesOnPaths DEF Init
  <2>3. index \in [Words -> Seq(Nodes)]
    BY <2>1 DEF Init
  <2>4. query \in Seq(Words) /\ next \in 1..(Len(query) + 1)
        /\ words \in Seq(Words) /\ todo \in Seq(Paths \X Nat)
        /\ sent \in Seq(SentFiles)
    BY <2>1 DEF Init
  <2>5. queries \in 0..MaxQueries
    BY BoundsAssumption DEF Init
  <2> QED
    BY <2>2, <2>3, <2>4, <2>5 DEF Init, TypeOK
<1>2. Place
  BY DEF Init, Place, Reading
<1>3. MergedInOrder
  BY NothingMerged, MergedIs DEF Init
<1>4. Merging
  BY DEF Init, Merging, Answering
<1>5. ASSUME NEW w \in Words PROVE Sound(w) /\ Complete(w) /\ Fine(index[w])
  <2>1. index[w] = <<>>
    BY DEF Init
  <2>2. Sound(w)
    BY <2>1, NoRows DEF Sound
  <2>3. \A p \in Paths : ~ \E n : n \in 1..Begun(p)
    BY DEF Begun, Init
  <2>4. Complete(w)
    BY <2>3 DEF Complete
  <2>5. PICK e : e = <<>>
    OBVIOUS
  <2>6. 1..Len(e) = {}
    BY <2>5, EmptySeq
  <2>7. Fine(e)
    BY <2>6 DEF Fine, Unlike
  <2> QED
    BY <2>1, <2>2, <2>4, <2>5, <2>7
<1> QED
  BY <1>1, <1>2, <1>3, <1>4, <1>5 DEF Inv

(* The rows in the index stay right if no line is begun, and the current   *)
(* one has no more words.                                                  *)
Indexing == \A w \in Words : Sound(w) /\ Complete(w)

LEMMA SameText ==
  ASSUME text' = text
  PROVE  /\ \A p, n : RowOf(p, n)' = RowOf(p, n)
         /\ \A w, p, n : Holds(w, p, n)' <=> Holds(w, p, n)
BY DEF RowOf, MarkupAbove, Holds

LEMMA SoundKept ==
  ASSUME NEW w, text' = text, index' = index,
         \A x \in RowsIn(index[w]) : \E p \in Paths : \E n \in 1..Begun(p)' :
           Holds(w, p, n) /\ x = <<p, RowOf(p, n)>>
  PROVE  Sound(w)'
<1> SUFFICES ASSUME NEW x \in RowsIn(index[w])'
             PROVE  \E p \in Paths : \E n \in 1..Begun(p)' :
                      Holds(w, p, n)' /\ x = <<p, RowOf(p, n)'>>
  BY DEF Sound
<1>1. x \in RowsIn(index[w])
  OBVIOUS
<1>2. PICK p \in Paths : \E n \in 1..Begun(p)' :
        Holds(w, p, n) /\ x = <<p, RowOf(p, n)>>
  BY <1>1
<1>3. PICK n \in 1..Begun(p)' : Holds(w, p, n) /\ x = <<p, RowOf(p, n)>>
  BY <1>2
<1>4. Holds(w, p, n)' /\ RowOf(p, n)' = RowOf(p, n)
  BY <1>3, SameText
<1> QED
  BY <1>3, <1>4

LEMMA LinesKept ==
  ASSUME Indexing, text' = text, index' = index,
         \A p \in Paths : Begun(p)' = Begun(p),
         pc = "words" => words = <<>>
  PROVE  Indexing'
<1>1. ASSUME NEW w, NEW p, NEW n PROVE ~ Coming(w, p, n)
  BY NoRange DEF Coming
<1>2. ASSUME NEW w \in Words PROVE Sound(w)'
  <2>1. Sound(w)
    BY DEF Indexing
  <2>2. \A x \in RowsIn(index[w]) : \E p \in Paths : \E n \in 1..Begun(p)' :
          Holds(w, p, n) /\ x = <<p, RowOf(p, n)>>
    BY <2>1 DEF Sound
  <2> QED
    BY <2>2, SoundKept
<1>3. ASSUME NEW w \in Words PROVE Complete(w)'
  <2>1. Complete(w)
    BY DEF Indexing
  <2>2. \A p \in Paths : \A n \in 1..Begun(p) :
          Holds(w, p, n) => <<p, RowOf(p, n)>> \in RowsIn(index[w])
    BY <1>1, <2>1 DEF Complete
  <2>3. \A p \in Paths : \A n \in 1..Begun(p)' :
          Holds(w, p, n)' => <<p, RowOf(p, n)'>> \in RowsIn(index'[w])
    BY <2>2 DEF Holds, RowOf, MarkupAbove
  <2> QED
    BY <2>3 DEF Complete
<1> QED
  BY <1>2, <1>3 DEF Indexing

LEMMA NextFileStep ==
  ASSUME Inv, NextFile
  PROVE  TypeOK' /\ Place' /\ Indexing' /\ \A w \in Words : Fine(index[w])'
<1>0. /\ TypeOK /\ Place /\ Indexing /\ pc = "files"
      /\ text' = text /\ index' = index /\ words' = words
      /\ \A w \in Words : Fine(index[w])
  BY DEF Inv, NextFile, Indexing, answerVars
<1>1. CASE unread = {}
  <2>1. pc' = "command" /\ unread' = unread /\ path' = path /\ at' = at
        /\ row' = row
    BY <1>1 DEF NextFile
  <2>2. TypeOK'
    BY <1>0, <2>1 DEF TypeOK, NextFile, answerVars
  <2>3. Place'
    BY <1>0, <1>1, <2>1 DEF Place, Reading
  <2>4. \A p \in Paths : Begun(p)' = Begun(p)
    BY <1>0, <2>1 DEF Begun, Reading
  <2>5. Indexing'
    BY <1>0, <2>4, LinesKept
  <2>6. \A w \in Words : Fine(index[w])'
    BY <1>0, <2>1 DEF Fine, Reading
  <2> QED
    BY <2>2, <2>3, <2>5, <2>6
<1>2. CASE unread # {}
  <2>1. PICK p \in unread :
          /\ path' = p /\ unread' = unread \ {p}
          /\ at' = 0 /\ row' = 0 /\ pc' = "line"
    BY <1>2 DEF NextFile
  <2>2. p \in Paths /\ p \in Nat
    BY <1>0, PathsAssumption DEF TypeOK
  <2>3. TypeOK'
    BY <1>0, <2>1, <2>2 DEF TypeOK, NextFile, answerVars
  <2>4. Place'
    <3>1. Len(text[p]) \in Nat
      BY <1>0, <2>2, TextOf DEF TypeOK
    <3>2. RowOf(p, 0 + 1) = 0
      BY RowNumbers
    <3>3. RowOf(p, 0 + 1)' = RowOf(p, 0 + 1)
      BY <1>0 DEF RowOf, MarkupAbove
    <3>4. row' = RowOf(path, at + 1)'
      BY <2>1, <3>2, <3>3 DEF RowOf, MarkupAbove
    <3> QED
      BY <1>0, <2>1, <2>2, <3>1, <3>4 DEF Place, Reading
  <2>5. \A q \in Paths : Begun(q)' = Begun(q)
    BY <1>0, <2>1 DEF Begun, Reading
  <2>6. Indexing'
    BY <1>0, <2>5, LinesKept
  <2>7. \A w \in Words : Fine(index[w])'
    BY <1>0, <2>1 DEF Fine, Reading
  <2> QED
    BY <2>3, <2>4, <2>6, <2>7
<1> QED
  BY <1>1, <1>2

LEMMA ReadLineStep ==
  ASSUME Inv, ReadLine
  PROVE  TypeOK' /\ Place' /\ Indexing' /\ \A w \in Words : Fine(index[w])'
<1>0. /\ TypeOK /\ Place /\ Indexing /\ pc = "line"
      /\ text' = text /\ index' = index /\ unread' = unread
      /\ path' = path /\ row' = row
      /\ \A w \in Words : Fine(index[w])
  BY DEF Inv, ReadLine, Indexing, answerVars
<1>1. /\ path \in Paths /\ path \notin unread
      /\ Len(text[path]) \in Nat /\ at \in 0..Len(text[path])
      /\ row = RowOf(path, at + 1) /\ row \in Nat
  BY <1>0, TextOf DEF Place, Reading, TypeOK
<1>2. CASE at = Len(text[path])
  <2>1. pc' = "files" /\ at' = at /\ words' = words
    BY <1>2 DEF ReadLine
  <2>2. TypeOK'
    BY <1>0, <2>1 DEF TypeOK, ReadLine, answerVars
  <2>3. Place'
    BY <1>0, <2>1 DEF Place, Reading
  <2>4. \A q \in Paths : Begun(q)' = Begun(q)
    BY <1>0, <1>2, <2>1 DEF Begun, Reading
  <2>5. Indexing'
    BY <1>0, <2>4, LinesKept
  <2>6. \A w \in Words : Fine(index[w])'
    BY <1>0, <2>1 DEF Fine, Reading
  <2> QED
    BY <2>2, <2>3, <2>5, <2>6
<1>3. CASE at # Len(text[path])
  <2>1. PICK n \in Nat : n = at + 1
    BY <1>1
  <2>2. n \in 1..Len(text[path]) /\ at' = n
    BY <1>1, <1>3, <2>1 DEF ReadLine
  <2>3. \A q \in Paths : Begun(q)' = IF q = path THEN n ELSE Begun(q)
    <3>1. pc' \in {"line", "words"}
      BY <1>0, <1>3 DEF ReadLine
    <3> QED
      BY <1>0, <1>1, <2>2, <3>1 DEF Begun, Reading
  <2>4. Begun(path) = at
    BY <1>0, <1>1 DEF Begun, Reading
  <2>5. \A q \in Paths : \A m \in 1..Begun(q) : m \in 1..Begun(q)'
    BY <1>1, <2>1, <2>3, <2>4
  <2>6. \A q \in Paths : \A m \in 1..Begun(q)' :
          m \in 1..Begun(q) \/ (q = path /\ m = n)
    BY <1>1, <2>1, <2>3, <2>4
  <2>7. /\ text[path][n] \in Lines /\ text[path][n].words \in Seq(Words)
        /\ text[path][n].markup \in BOOLEAN
    BY <1>0, <1>1, <2>2, TextOf DEF TypeOK
  <2>8. ASSUME NEW w \in Words PROVE Sound(w)'
    <3>1. Sound(w)
      BY <1>0 DEF Indexing
    <3>2. \A x \in RowsIn(index[w]) : \E p \in Paths : \E m \in 1..Begun(p)' :
            Holds(w, p, m) /\ x = <<p, RowOf(p, m)>>
      BY <2>5, <3>1 DEF Sound
    <3> QED
      BY <1>0, <3>2, SoundKept
  <2>9. \A w \in Words : \A p \in Paths : \A m \in 1..Begun(p) :
          Holds(w, p, m) => <<p, RowOf(p, m)>> \in RowsIn(index[w])
    BY <1>0 DEF Indexing, Complete, Coming
  <2>10. CASE text[path][n].markup
    <3>1. pc' = "line" /\ words' = words
      BY <1>0, <1>3, <2>1, <2>10 DEF ReadLine
    <3>2. TypeOK'
      BY <1>0, <2>1, <2>2, <3>1 DEF TypeOK, ReadLine, answerVars
    <3>3. Place'
      <4>1. PICK k \in Nat : k = at
        BY <1>1
      <4>2. PICK q : q = path
        OBVIOUS
      <4>3. RowOf(q, (k + 1) + 1) =
              RowOf(q, k + 1) + (IF text[q][k + 1].markup THEN 0 ELSE 1)
        BY RowNumbers
      <4>4. RowOf(path, (at + 1) + 1) =
              RowOf(path, at + 1) + (IF text[path][at + 1].markup THEN 0 ELSE 1)
        BY <4>1, <4>2, <4>3
      <4>5. RowOf(path, n + 1) = row
        BY <1>1, <2>1, <2>10, <4>4
      <4>6. row' = RowOf(path, at + 1)'
        BY <1>0, <2>2, <4>5 DEF RowOf, MarkupAbove
      <4> QED
        BY <1>0, <1>1, <2>2, <3>1, <4>6 DEF Place, Reading
    <3>4. ASSUME NEW w \in Words PROVE Complete(w)'
      <4>1. ~ Holds(w, path, n)
        BY <2>10 DEF Holds
      <4>2. \A p \in Paths : \A m \in 1..Begun(p)' :
              Holds(w, p, m) => <<p, RowOf(p, m)>> \in RowsIn(index[w])
        BY <2>6, <2>9, <4>1
      <4> QED
        BY <1>0, <4>2 DEF Complete, Holds, RowOf, MarkupAbove
    <3>5. \A w \in Words : Fine(index[w])'
      BY <1>0, <3>1 DEF Fine, Reading
    <3> QED
      BY <2>8, <3>2, <3>3, <3>4, <3>5 DEF Indexing
  <2>11. CASE ~ text[path][n].markup
    <3>1. pc' = "words" /\ words' = text[path][n].words
      BY <1>0, <1>3, <2>1, <2>11 DEF ReadLine
    <3>2. TypeOK'
      BY <1>0, <2>1, <2>2, <2>7, <3>1 DEF TypeOK, ReadLine, answerVars
    <3>3. Place'
      <4>1. row' = RowOf(path, at)'
        BY <1>0, <1>1, <2>1, <2>2 DEF RowOf, MarkupAbove
      <4> QED
        BY <1>0, <1>1, <2>1, <2>2, <2>11, <3>1, <4>1 DEF Place, Reading
    <3>4. ASSUME NEW w \in Words PROVE Complete(w)'
      <4>1. Holds(w, path, n) => w \in Range(words')
        BY <3>1 DEF Holds
      <4>2. \A p \in Paths : \A m \in 1..Begun(p)' :
              Holds(w, p, m) => \/ <<p, RowOf(p, m)>> \in RowsIn(index[w])
                                \/ p = path /\ m = n /\ w \in Range(words')
        BY <2>6, <2>9, <4>1
      <4> QED
        BY <1>0, <2>2, <3>1, <4>2
        DEF Complete, Coming, Holds, RowOf, MarkupAbove
    <3>5. ASSUME NEW w \in Words PROVE Fine(index[w])'
      <4>1. index[w] \in Seq(NodesOn(Paths))
        BY <1>0, NodesOnPaths DEF TypeOK
      <4>2. \A i \in 1..Len(index[w]) : index[w][i].offsets \in Seq(Nat)
        BY <4>1, NodeOfList
      <4>3. \A i \in 1..Len(index[w]) : \A k \in 1..Len(index[w][i].offsets) :
              index[w][i].offsets[k] \in Nat
        BY <4>2, ElementOfSeq
      <4>4. \A i \in 1..Len(index[w]) : \A k \in 1..Len(index[w][i].offsets) :
              index[w][i].offsets[k] < row => index[w][i].offsets[k] <= row
        BY <1>1, <4>3
      <4>5. Fine(index[w])
        BY <1>0
      <4> QED
        BY <1>0, <3>1, <4>4, <4>5 DEF Fine, Reading
    <3> QED
      BY <2>8, <3>2, <3>3, <3>4, <3>5 DEF Indexing
  <2> QED
    BY <2>10, <2>11
<1> QED
  BY <1>2, <1>3

LEMMA RowsArePairs ==
  ASSUME NEW list, NEW x \in RowsIn(list)
  PROVE  \E q, o : x = <<q, o>>
BY DEF RowsIn

LEMMA InsertWordStep ==
  ASSUME Inv, InsertWord
  PROVE  TypeOK' /\ Place' /\ Indexing' /\ \A w \in Words : Fine(index[w])'
<1>0. /\ TypeOK /\ Place /\ Indexing /\ pc = "words" /\ pc' = "words"
      /\ text' = text /\ unread' = unread /\ at' = at
      /\ path' = path /\ row' = row
      /\ words # <<>> /\ words' = Tail(words)
      /\ \A w \in Words : Fine(index[w])
  BY DEF Inv, InsertWord, Indexing, answerVars
<1>1. /\ path \in Paths /\ path \notin unread
      /\ Len(text[path]) \in Nat /\ at \in 1..Len(text[path])
      /\ ~ text[path][at].markup
      /\ Range(words) \subseteq Range(text[path][at].words)
      /\ row = RowOf(path, at) /\ row \in Nat
  <2>1. path \in Paths /\ path \notin unread /\ at \in 0..Len(text[path])
    BY <1>0 DEF Place, Reading
  <2>2. Len(text[path]) \in Nat
    BY <1>0, <2>1, TextOf DEF TypeOK
  <2> QED
    BY <1>0, <2>1, <2>2 DEF Place, TypeOK
<1>2. PICK W : W = Head(words)
  OBVIOUS
<1>3. words \in Seq(Words)
  BY <1>0 DEF TypeOK
<1>4. /\ W \in Words /\ words' \in Seq(Words)
      /\ Range(words) = {W} \cup Range(words')
  BY <1>0, <1>2, <1>3, HeadTailRange
<1>5. PICK list : list = index[W]
  OBVIOUS
<1>6. list \in Seq(NodesOn(Paths))
  BY <1>0, <1>4, <1>5, NodesOnPaths DEF TypeOK
<1>7. ListFor(list, path, row)
  <2>1. Fine(list)
    BY <1>0, <1>4, <1>5
  <2> QED
    BY <1>0, <2>1 DEF Fine, ListFor, Reading
<1>8. PICK p \in Paths : p = path
  BY <1>1
<1>9. PICK r \in Nat : r = row
  BY <1>1
<1>10. PICK new : new = invIndex_Update(list, p, r)
  OBVIOUS
<1>11. ListFor(list, p, r)
  BY <1>7, <1>8, <1>9
<1>12. /\ new \in Seq(NodesOn(Paths)) /\ ListFor(new, p, r)
       /\ \A i \in 1..Len(new) :
            \/ new[i].path = p
            \/ \E j \in 1..Len(list) : list[j].path = new[i].path
       /\ \A q, o : <<q, o>> \in RowsIn(new) <=>
                      <<q, o>> \in RowsIn(list) \/ (q = p /\ o = r)
  BY ONLY <1>6, <1>10, <1>11, ListUpdated, p \in Paths, r \in Nat
<1>13. index' = [index EXCEPT ![W] = new]
  BY <1>2, <1>5, <1>8, <1>9, <1>10 DEF InsertWord, Trie_Insert
<1>14. /\ index' \in [Words -> Seq(Nodes)] /\ index'[W] = new
       /\ \A w \in Words : w # W => index'[w] = index[w]
  BY <1>0, <1>4, <1>12, <1>13, NodesOnPaths DEF TypeOK
<1>15. TypeOK'
  BY <1>0, <1>4, <1>14 DEF TypeOK, InsertWord, answerVars
<1>16. Place'
  <2>1. row' = RowOf(path, at)'
    BY <1>0, <1>1 DEF RowOf, MarkupAbove
  <2> QED
    BY <1>0, <1>1, <1>4, <2>1 DEF Place, Reading
<1>17. /\ \A q \in Paths : Begun(q)' = Begun(q)
       /\ Begun(path) = at
  BY <1>0, <1>1 DEF Begun, Reading
<1>18. ASSUME NEW w \in Words PROVE Sound(w)'
  <2> SUFFICES ASSUME NEW x \in RowsIn(index'[w])
               PROVE  \E q \in Paths : \E n \in 1..Begun(q)' :
                        Holds(w, q, n)' /\ x = <<q, RowOf(q, n)'>>
    BY DEF Sound
  <2>1. Sound(w)
    BY <1>0 DEF Indexing
  <2>2. CASE x \in RowsIn(index[w])
    <3>1. PICK q \in Paths : \E n \in 1..Begun(q) :
            Holds(w, q, n) /\ x = <<q, RowOf(q, n)>>
      BY <2>1, <2>2 DEF Sound
    <3>2. PICK n \in 1..Begun(q) : Holds(w, q, n) /\ x = <<q, RowOf(q, n)>>
      BY <3>1
    <3>3. Holds(w, q, n)' /\ RowOf(q, n)' = RowOf(q, n)
      BY <1>0, <3>2, SameText
    <3> QED
      BY <1>17, <3>2, <3>3
  <2>3. CASE x \notin RowsIn(index[w])
    <3>1. w = W
      BY <1>14, <2>3
    <3>2. PICK q, o : x = <<q, o>>
      BY RowsArePairs
    <3>3. q = p /\ o = r
      BY <1>5, <1>12, <1>14, <2>3, <3>1, <3>2
    <3>4. PICK n \in 1..Begun(p) : n = at
      BY <1>1, <1>8, <1>17
    <3>5. Holds(w, p, n)
      BY <1>1, <1>4, <1>8, <3>1, <3>4 DEF Holds
    <3>6. r = RowOf(p, n)
      BY <1>1, <1>8, <1>9, <3>4
    <3>7. Holds(w, p, n)' /\ RowOf(p, n)' = RowOf(p, n)
      BY <1>0, <3>5, SameText
    <3> QED
      BY <1>17, <3>2, <3>3, <3>6, <3>7
  <2> QED
    BY <2>2, <2>3
<1>19. ASSUME NEW w \in Words PROVE Complete(w)'
  <2> SUFFICES ASSUME NEW q \in Paths, NEW n \in 1..Begun(q)', Holds(w, q, n)'
               PROVE  \/ <<q, RowOf(q, n)'>> \in RowsIn(index'[w])
                      \/ Coming(w, q, n)'
    BY DEF Complete
  <2>1. Complete(w)
    BY <1>0 DEF Indexing
  <2>2. n \in 1..Begun(q) /\ Holds(w, q, n) /\ RowOf(q, n)' = RowOf(q, n)
    BY <1>0, <1>17, SameText
  <2>3. \A y, o :
          <<y, o>> \in RowsIn(index[w]) => <<y, o>> \in RowsIn(index'[w])
    BY <1>5, <1>12, <1>14
  <2>4. CASE <<q, RowOf(q, n)>> \in RowsIn(index[w])
    BY <2>2, <2>3, <2>4
  <2>5. CASE Coming(w, q, n)
    <3>1. q = path /\ n = at /\ w \in Range(words)
      BY <2>5 DEF Coming
    <3>2. CASE w = W
      <4>1. q = p /\ RowOf(q, n) = r
        BY <1>1, <1>8, <1>9, <3>1
      <4>2. <<p, r>> \in RowsIn(new)
        BY <1>12
      <4> QED
        BY <1>14, <2>2, <3>2, <4>1, <4>2
    <3>3. CASE w # W
      BY <1>0, <1>4, <3>1, <3>3 DEF Coming
    <3> QED
      BY <3>2, <3>3
  <2> QED
    BY <2>1, <2>2, <2>4, <2>5 DEF Complete
<1>20. ASSUME NEW w \in Words PROVE Fine(index[w])'
  <2>1. CASE w # W
    <3>1. index'[w] = index[w] /\ Fine(index[w])
      BY <1>0, <1>14, <2>1
    <3> QED
      BY <1>0, <3>1 DEF Fine, Reading
  <2>2. CASE w = W
    <3>1. \A i \in 1..Len(new) : new[i].path \notin unread
      <4>1. Fine(list)
        BY <1>0, <1>4, <1>5
      <4> QED
        BY <1>1, <1>8, <1>12, <4>1 DEF Fine
    <3>2. ListFor(new, path, row)
      BY <1>8, <1>9, <1>12
    <3>3. Fine(new)
      BY <1>0, <3>1, <3>2 DEF Fine, ListFor, Reading
    <3> QED
      BY <1>0, <1>14, <2>2, <3>3 DEF Fine, Reading
  <2> QED
    BY <2>1, <2>2
<1> QED
  BY <1>15, <1>16, <1>18, <1>19, <1>20 DEF Indexing

LEMMA EndLineStep ==
  ASSUME Inv, EndLine
  PROVE  TypeOK' /\ Place' /\ Indexing' /\ \A w \in Words : Fine(index[w])'
<1>0. /\ TypeOK /\ Place /\ Indexing /\ pc = "words" /\ pc' = "line"
      /\ text' = text /\ unread' = unread /\ at' = at
      /\ path' = path /\ row' = row + 1 /\ index' = index
      /\ words = <<>> /\ words' = words
      /\ \A w \in Words : Fine(index[w])
  BY DEF Inv, EndLine, Indexing, answerVars
<1>1. /\ path \in Paths /\ path \notin unread
      /\ Len(text[path]) \in Nat /\ at \in 1..Len(text[path])
      /\ ~ text[path][at].markup
      /\ row = RowOf(path, at) /\ row \in Nat
  <2>1. path \in Paths /\ path \notin unread /\ at \in 0..Len(text[path])
    BY <1>0 DEF Place, Reading
  <2>2. Len(text[path]) \in Nat
    BY <1>0, <2>1, TextOf DEF TypeOK
  <2> QED
    BY <1>0, <2>1, <2>2 DEF Place, TypeOK
<1>2. TypeOK'
  BY <1>0, <1>1 DEF TypeOK, EndLine, answerVars
<1>3. Place'
  <2>1. PICK k \in Nat : at = k + 1
    <3>1. at - 1 \in Nat /\ at = (at - 1) + 1
      BY <1>1
    <3> QED
      BY <3>1
  <2>2. PICK q : q = path
    OBVIOUS
  <2>3. RowOf(q, (k + 1) + 1) =
          RowOf(q, k + 1) + (IF text[q][k + 1].markup THEN 0 ELSE 1)
    BY RowNumbers
  <2>4. RowOf(path, at + 1) = row + 1
    BY <1>1, <2>1, <2>2, <2>3
  <2>5. row' = RowOf(path, at + 1)'
    BY <1>0, <2>4 DEF RowOf, MarkupAbove
  <2> QED
    BY <1>0, <1>1, <2>5 DEF Place, Reading
<1>4. \A q \in Paths : Begun(q)' = Begun(q)
  BY <1>0 DEF Begun, Reading
<1>5. Indexing'
  BY <1>0, <1>4, LinesKept
<1>6. ASSUME NEW w \in Words PROVE Fine(index[w])'
  <2>1. index[w] \in Seq(NodesOn(Paths))
    BY <1>0, NodesOnPaths DEF TypeOK
  <2>2. \A i \in 1..Len(index[w]) : index[w][i].offsets \in Seq(Nat)
    BY <2>1, NodeOfList
  <2>3. \A i \in 1..Len(index[w]) : \A k \in 1..Len(index[w][i].offsets) :
          index[w][i].offsets[k] \in Nat
    BY <2>2, ElementOfSeq
  <2>4. \A i \in 1..Len(index[w]) : \A k \in 1..Len(index[w][i].offsets) :
          index[w][i].offsets[k] <= row => index[w][i].offsets[k] < row'
    BY <1>0, <1>1, <2>3
  <2>5. Fine(index[w])
    BY <1>0
  <2> QED
    BY <1>0, <2>4, <2>5 DEF Fine, Reading
<1> QED
  BY <1>2, <1>3, <1>5, <1>6

-----------------------------------------------------------------------------
(* The index is exact when all files have been read.                       *)

LEMMA InHolding ==
  ASSUME NEW w, NEW x
  PROVE  x \in Holding(w) <=>
           \E p \in Paths : \E n \in 1..Len(text[p]) :
             Holds(w, p, n) /\ x = <<p, RowOf(p, n)>>
<1>1. ASSUME x \in Holding(w)
      PROVE  \E p \in Paths : \E n \in 1..Len(text[p]) :
               Holds(w, p, n) /\ x = <<p, RowOf(p, n)>>
  BY <1>1 DEF Holding
<1>2. ASSUME NEW p \in Paths, NEW n \in 1..Len(text[p]),
             Holds(w, p, n), x = <<p, RowOf(p, n)>>
      PROVE  x \in Holding(w)
  <2>1. n \in {m \in 1..Len(text[p]) : Holds(w, p, m)}
    BY <1>2
  <2>2. x \in {<<p, RowOf(p, k)>> :
               k \in {m \in 1..Len(text[p]) : Holds(w, p, m)}}
    BY <1>2, <2>1
  <2> QED
    BY <2>2 DEF Holding
<1> QED
  BY <1>1, <1>2

LEMMA RowsAreHeld ==
  ASSUME Inv, pc \notin {"files", "line", "words"}, NEW w \in Words
  PROVE  RowsIn(index[w]) = Holding(w)
<1>1. Sound(w) /\ Complete(w) /\ Place
  BY DEF Inv
<1>2. \A p \in Paths : Begun(p) = Len(text[p])
  BY <1>1 DEF Place, Begun, Reading
<1>3. ASSUME NEW x \in RowsIn(index[w]) PROVE x \in Holding(w)
  BY <1>1, <1>2, <1>3, InHolding DEF Sound
<1>4. ASSUME NEW x \in Holding(w) PROVE x \in RowsIn(index[w])
  <2>1. PICK p \in Paths : \E n \in 1..Len(text[p]) :
          Holds(w, p, n) /\ x = <<p, RowOf(p, n)>>
    BY <1>4, InHolding
  <2>2. PICK n \in 1..Len(text[p]) : Holds(w, p, n) /\ x = <<p, RowOf(p, n)>>
    BY <2>1
  <2>3. ~ Coming(w, p, n)
    BY DEF Coming
  <2> QED
    BY <1>1, <1>2, <2>2, <2>3 DEF Complete
<1> QED
  BY <1>3, <1>4

LEMMA ExactIndex == Inv => IndexExact
<1> SUFFICES ASSUME Inv, Indexed, NEW w \in Words
             PROVE  /\ Range(Pairs(index[w])) = Holding(w)
                    /\ IsInjective(PathsOf(index[w]))
                    /\ \A i \in 1..Len(index[w]) :
                         Ascending(index[w][i].offsets)
  BY DEF IndexExact
<1>1. PICK list : list = index[w]
  OBVIOUS
<1>2. list \in Seq(NodesOn(Paths)) /\ Fine(list)
  BY <1>1, NodesOnPaths DEF Inv, TypeOK
<1>3. Range(Pairs(list)) = Holding(w)
  BY <1>1, <1>2, PairsAreRows, RowsAreHeld DEF Indexed
<1>4. PICK keys : keys = PathsOf(list)
  OBVIOUS
<1>5. /\ keys \in Seq(Nat) /\ Len(keys) = Len(list)
      /\ \A i \in 1..Len(list) : keys[i] = list[i].path
  BY <1>2, <1>4, NodesOnPaths, PathsOfList
<1>6. DOMAIN keys = 1..Len(list)
  BY <1>5, LenProperties
<1>7. IsInjective(keys)
  BY <1>2, <1>5, <1>6 DEF IsInjective, Fine, Unlike
<1>8. ASSUME NEW i \in 1..Len(list) PROVE Ascending(list[i].offsets)
  BY <1>2, NodeOfList, SortedAscending DEF Fine
<1> QED
  BY <1>1, <1>3, <1>4, <1>7, <1>8

-----------------------------------------------------------------------------
(* The steps of a query.  They leave the index alone.                      *)

LEMMA IndexKept ==
  ASSUME Inv, text' = text, UNCHANGED readVars,
         pc \notin {"files", "line", "words"},
         pc' \notin {"files", "line", "words"}
  PROVE  Place' /\ Indexing' /\ \A w \in Words : Fine(index[w])'
<1>0. /\ unread' = unread /\ path' = path /\ at' = at /\ row' = row
      /\ words' = words /\ index' = index
      /\ Place /\ Indexing /\ \A w \in Words : Fine(index[w])
  BY DEF readVars, Inv, Indexing
<1>1. Place'
  BY <1>0 DEF Place, Reading
<1>2. \A p \in Paths : Begun(p)' = Begun(p)
  BY <1>0 DEF Begun, Reading
<1>3. Indexing'
  BY <1>0, <1>2, LinesKept
<1>4. \A w \in Words : Fine(index[w])'
  BY <1>0 DEF Fine, Reading
<1> QED
  BY <1>1, <1>3, <1>4

(* The rows of the words that have been combined. *)
Asked == UNION {Holding(query[j]) : j \in 1..(next - 1)}

Merged(list, rest) == RowsIn(list) \cup Range(rest) = Asked

LEMMA HeldStay == text' = text => \A w : Holding(w)' = Holding(w)
BY DEF Holding, Holds, RowOf, MarkupAbove

LEMMA AskedStay ==
  text' = text /\ query' = query /\ next' = next => Asked' = Asked
BY HeldStay DEF Asked

LEMMA ReceiveQueryStep ==
  ASSUME Inv, ReceiveQuery
  PROVE  TypeOK' /\ MergedInOrder' /\ Merging'
<1>0. /\ TypeOK /\ pc' = "combine" /\ next' = 1 /\ todo' = <<>>
      /\ merged' = NoResult /\ sent' = <<>> /\ queries' = queries + 1
      /\ queries < MaxQueries
  BY DEF Inv, ReceiveQuery
<1>1. query' \in Seq(Words)
  <2>1. PICK n \in 0..MaxWords : \E q \in [1..n -> Words] : query' = q
    BY DEF ReceiveQuery
  <2>2. n \in Nat
    BY BoundsAssumption
  <2> QED
    BY <2>1, <2>2
<1>2. \A S : <<>> \in Seq(S)
  BY EmptySeq
<1>3. Len(query') \in Nat
  BY <1>1, LenProperties
<1>4. queries' \in 0..MaxQueries
  BY <1>0, BoundsAssumption DEF TypeOK
<1>5. merged' \in [df : Nat, list : Seq(Nodes)]
  BY <1>0, NothingMerged, NodesOnPaths
<1>6. next' \in 1..(Len(query') + 1)
  BY <1>0, <1>3
<1>7. TypeOK'
  BY <1>0, <1>1, <1>2, <1>4, <1>5, <1>6 DEF TypeOK, ReceiveQuery, readVars
<1>8. MergedInOrder'
  <2>1. InOrder(merged')
    BY <1>0, NothingMerged
  <2> QED
    BY <2>1 DEF MergedInOrder, InOrder, NodeOk
<1>9. Merging'
  <2>1. merged'.list = <<>>
    BY <1>0 DEF NoResult
  <2>2. RowsIn(merged'.list) \cup Range(todo') = {}
    BY <1>0, <2>1, NoRows, NoRange
  <2>3. 1..(next' - 1) = {}
    BY <1>0
  <2>4. RowsIn(merged'.list) \cup Range(todo')
          = UNION {Holding(query[j])' : j \in 1..(next' - 1)}
    BY <2>2, <2>3
  <2> QED
    BY <1>0, <2>4 DEF Merging
<1> QED
  BY <1>7, <1>8, <1>9

LEMMA CombineWordStep ==
  ASSUME Inv, CombineWord
  PROVE  TypeOK' /\ Merging'
<1>0. /\ TypeOK /\ pc = "combine" /\ text' = text /\ query' = query
      /\ merged' = merged /\ sent' = sent
      /\ todo = <<>> /\ sent = <<>> /\ Merged(merged.list, todo)
      /\ query \in Seq(Words) /\ Len(query) \in Nat
      /\ next \in 1..(Len(query) + 1)
  BY LenProperties
     DEF Inv, CombineWord, Merging, Answering, Merged, Asked, TypeOK
<1>1. CASE next > Len(query)
  <2>1. pc' = "send" /\ next' = next /\ todo' = todo
    BY <1>1 DEF CombineWord
  <2>2. TypeOK'
    BY <1>0, <2>1 DEF TypeOK, CombineWord, readVars
  <2>3. next' = Len(query') + 1
    BY <1>0, <1>1, <2>1
  <2>4. Asked' = Asked
    BY <1>0, <2>1, AskedStay
  <2>5. Merged(merged.list, todo)'
    BY <1>0, <2>1, <2>4 DEF Merged
  <2>6. Len(sent') = 0 /\ Len(merged'.list) \in Nat
    <3>1. merged.list \in Seq(Nodes)
      BY <1>0 DEF TypeOK
    <3> QED
      BY <1>0, <3>1, LenProperties, EmptySeq
  <2>7. Len(sent') <= Len(merged'.list) /\ \A i \in 1..Len(sent') : FALSE
    BY <2>6
  <2> QED
    BY <1>0, <2>1, <2>2, <2>3, <2>5, <2>7
       DEF Merging, Answering, Merged, Asked
<1>2. CASE ~ (next > Len(query))
  <2>1. PICK list : list = index[query[next]]
    OBVIOUS
  <2>2. next \in 1..Len(query) /\ query[next] \in Words
    BY <1>0, <1>2, ElementOfSeq
  <2>3. list \in Seq(NodesOn(Paths))
    BY <1>0, <2>1, <2>2, NodesOnPaths DEF TypeOK
  <2>4. /\ todo' = Pairs(list) /\ next' = next + 1
        /\ pc' \in {"undefined", "rows"}
    BY <1>2, <2>1 DEF CombineWord
  <2>5. todo' \in Seq(Paths \X Nat) /\ Range(todo') = RowsIn(list)
    BY <2>3, <2>4, PairsAreRows
  <2>6. next' \in 1..(Len(query') + 1)
    BY <1>0, <2>2, <2>4
  <2>7. TypeOK'
    BY <1>0, <2>4, <2>5, <2>6 DEF TypeOK, CombineWord, readVars
  <2>8. RowsIn(list) = Holding(query[next])
    BY <1>0, <2>1, <2>2, RowsAreHeld
  <2>9. Asked' = Asked \cup Holding(query[next])
    <3>1. 1..(next' - 1) = (1..(next - 1)) \cup {next}
      BY <1>0, <2>4
    <3>2. Asked' = UNION {Holding(query[j]) : j \in 1..(next' - 1)}
      BY <1>0, HeldStay DEF Asked
    <3> QED
      BY <3>1, <3>2 DEF Asked
  <2>10. RowsIn(merged.list) = Asked
    BY <1>0, NoRange DEF Merged
  <2>11. Merged(merged.list, todo)'
    BY <1>0, <2>5, <2>8, <2>9, <2>10 DEF Merged
  <2>12. Merging'
    BY <1>0, <2>4, <2>11 DEF Merging, Answering, Merged, Asked
  <2> QED
    BY <2>7, <2>12
<1> QED
  BY <1>1, <1>2

LEMMA CombineRowStep ==
  ASSUME Inv, CombineRow
  PROVE  TypeOK' /\ MergedInOrder' /\ Merging'
<1>0. /\ TypeOK /\ pc = "rows" /\ text' = text /\ query' = query
      /\ next' = next /\ sent' = sent /\ MergedInOrder
      /\ sent = <<>> /\ Merged(merged.list, todo)
      /\ todo \in Seq(Paths \X Nat)
  BY DEF Inv, CombineRow, Merging, Answering, Merged, Asked, TypeOK
<1>1. Asked' = Asked
  BY <1>0, AskedStay
<1>2. CASE todo = <<>>
  <2>1. pc' = "combine" /\ merged' = merged /\ todo' = todo
    BY <1>2 DEF CombineRow
  <2>2. TypeOK'
    BY <1>0, <2>1 DEF TypeOK, CombineRow, readVars
  <2>3. Merged(merged.list, todo)'
    BY <1>0, <1>1, <2>1 DEF Merged
  <2>4. MergedInOrder'
    BY <1>0, <2>1 DEF MergedInOrder, PathsOf
  <2>5. Merging'
    BY <1>0, <1>2, <2>1, <2>3 DEF Merging, Answering, Merged, Asked
  <2> QED
    BY <2>2, <2>4, <2>5
<1>3. CASE todo # <<>>
  <2>1. /\ Head(todo) \in Paths \X Nat /\ Tail(todo) \in Seq(Paths \X Nat)
        /\ Range(todo) = {Head(todo)} \cup Range(Tail(todo))
    BY <1>0, <1>3, HeadTailRange
  <2>2. PICK p \in Paths : \E r \in Nat : Head(todo) = <<p, r>>
    BY <2>1
  <2>3. PICK r \in Nat : Head(todo) = <<p, r>>
    BY <2>2
  <2>4. PICK result : result = merged
    OBVIOUS
  <2>5. result \in Results(Paths) /\ InOrder(result)
    BY <1>0, <2>4, NodesOnPaths, MergedIs DEF TypeOK
  <2>6. PICK new : new = ResultsInvertedIndexUpdate(result, p, r)
    OBVIOUS
  <2>7. pc' = "rows" /\ merged' = new /\ todo' = Tail(todo)
    BY <1>0, <1>3, <2>3, <2>4, <2>6 DEF CombineRow
  <2>8. /\ new \in Results(Paths) /\ InOrder(new)
        /\ \A q, o : <<q, o>> \in RowsIn(new.list) <=>
             <<q, o>> \in RowsIn(result.list) \/ (q = p /\ o = r)
    <3>1. Paths \in SUBSET Nat
      BY NodesOnPaths
    <3> QED
      BY ONLY <2>5, <2>6, <3>1, MergedRow, p \in Paths, r \in Nat
  <2>9. TypeOK'
    <3>1. merged' \in [df : Nat, list : Seq(Nodes)]
      BY <2>7, <2>8, NodesOnPaths
    <3> QED
      BY <1>0, <2>1, <2>7, <3>1 DEF TypeOK, CombineRow, readVars
  <2>10. MergedInOrder'
    BY <2>7, <2>8 DEF MergedInOrder, InOrder, NodeOk
  <2>11. RowsIn(new.list) = RowsIn(result.list) \cup {<<p, r>>}
    <3>1. ASSUME NEW x \in RowsIn(new.list)
          PROVE  x \in RowsIn(result.list) \cup {<<p, r>>}
      <4>1. PICK q, o : x = <<q, o>>
        BY <3>1, RowsArePairs
      <4> QED
        BY <2>8, <3>1, <4>1
    <3>2. ASSUME NEW x \in RowsIn(result.list) PROVE x \in RowsIn(new.list)
      <4>1. PICK q, o : x = <<q, o>>
        BY <3>2, RowsArePairs
      <4> QED
        BY <2>8, <3>2, <4>1
    <3>3. <<p, r>> \in RowsIn(new.list)
      BY <2>8
    <3> QED
      BY <3>1, <3>2, <3>3
  <2>12. RowsIn(merged'.list) \cup Range(todo')
           = RowsIn(merged.list) \cup Range(todo)
    BY <2>1, <2>3, <2>4, <2>7, <2>11
  <2>13. Merged(merged.list, todo)'
    BY <1>0, <1>1, <2>12 DEF Merged
  <2>14. Merging'
    BY <1>0, <2>7, <2>13 DEF Merging, Answering, Merged, Asked
  <2> QED
    BY <2>9, <2>10, <2>14
<1> QED
  BY <1>2, <1>3

(* The rows of a node of the merged list are rows of its file, so that all *)
(* of them are sent.                                                       *)
LEMMA RowsAreSent ==
  ASSUME Inv, pc = "send", NEW i \in 1..Len(merged.list)
  PROVE  /\ SentOf(merged.list[i]).rows = Rows(merged.list[i])
         /\ SentOf(merged.list[i]) \in SentFiles
<1>0. /\ TypeOK /\ InOrder(merged) /\ RowsIn(merged.list) \subseteq Asked
      /\ merged.list \in Seq(NodesOn(Paths))
  BY NodesOnPaths, MergedIs DEF Inv, Merging, Answering, Asked, TypeOK
<1>1. PICK node : node = merged.list[i]
  OBVIOUS
<1>2. PICK o : o = node.offsets
  OBVIOUS
<1>3. /\ node.path \in Paths /\ o \in Seq(Nat)
      /\ node \in NodesOn(Paths)
  BY <1>0, <1>1, <1>2, NodeOfList
<1>4. Sorted(o)
  <2>1. NodeOk(node)
    BY <1>0, <1>1 DEF InOrder
  <2> QED
    BY <1>2, <1>3, <2>1, AscendingSorted DEF NodeOk
<1>5. PICK p \in Paths : p = node.path
  BY <1>3
<1>6. Len(text[p]) \in Nat
  BY <1>0, TextOf DEF TypeOK
<1>7. ASSUME NEW k \in 1..Len(o) PROVE o[k] < Len(text[p])
  <2>1. o[k] \in Range(o) /\ o[k] \in Nat
    BY <1>3, ElementOfSeq, InRange
  <2>2. <<p, o[k]>> \in RowsIn(merged.list)
    BY <1>1, <1>2, <1>5, <2>1, RowInList
  <2>3. PICK j \in 1..(next - 1) : <<p, o[k]>> \in Holding(query[j])
    BY <1>0, <2>2 DEF Asked
  <2>4. PICK q \in Paths : \E n \in 1..Len(text[q]) :
          Holds(query[j], q, n) /\ <<p, o[k]>> = <<q, RowOf(q, n)>>
    BY <2>3, InHolding
  <2>5. PICK n \in 1..Len(text[q]) : <<p, o[k]>> = <<q, RowOf(q, n)>>
    BY <2>4
  <2>6. q = p /\ o[k] = RowOf(p, n) /\ n \in 1..Len(text[p])
    BY <2>5
  <2>7. PICK m \in Nat : n = m + 1
    <3>1. n - 1 \in Nat /\ n = (n - 1) + 1
      BY <1>6, <2>6
    <3> QED
      BY <3>1
  <2>8. RowOf(p, m + 1) \in 0..m
    BY RowNumbers
  <2>9. o[k] \in 0..m /\ m + 1 <= Len(text[p])
    BY <1>6, <2>6, <2>7, <2>8
  <2> QED
    BY <1>6, <2>9
<1>8. Passed(p, o) = Len(o)
  BY <1>3, <1>4, <1>6, <1>7, AllPassed
<1>9. Len(o) \in Nat /\ \A k \in 1..Len(o) : o[k] \in Nat
  BY <1>3, ElementOfSeq, LenProperties
<1>10. \A k \in 1..Len(o) : Row(p, o[k]) \in Nat \X Lines
  <2> SUFFICES ASSUME NEW k \in 1..Len(o) PROVE Row(p, o[k]) \in Nat \X Lines
    OBVIOUS
  <2>1. o[k] \in Nat /\ o[k] + 1 \in 1..Len(text[p])
    BY <1>6, <1>7, <1>9
  <2>2. text[p][o[k] + 1] \in Lines
    BY <1>0, <2>1, TextOf DEF TypeOK
  <2> QED
    BY <2>1, <2>2 DEF Row
<1>11. PICK rows : rows = [k \in 1..Len(o) |-> Row(p, o[k])]
  OBVIOUS
<1>12. rows \in [1..Len(o) -> Nat \X Lines]
  BY <1>10, <1>11
<1>13. rows \in Seq(Nat \X Lines)
  BY <1>9, <1>12, SeqDef
<1>14. Rows(node) = rows
  BY <1>2, <1>5, <1>8, <1>11 DEF Rows
<1>15. SentOf(node) = [path |-> p, fr |-> node.fr, rows |-> rows]
  BY <1>2, <1>5, <1>11 DEF SentOf
<1>16. SentOf(node) \in SentFiles
  BY <1>3, <1>5, <1>13, <1>15 DEF SentFiles, NodesOn
<1> QED
  BY <1>1, <1>14, <1>15, <1>16

LEMMA SendFileStep ==
  ASSUME Inv, SendFile
  PROVE  TypeOK' /\ Merging'
<1>0. /\ TypeOK /\ pc = "send" /\ text' = text /\ query' = query
      /\ merged' = merged /\ next' = next /\ todo' = todo
      /\ todo = <<>> /\ Merged(merged.list, todo)
      /\ next = Len(query) + 1
      /\ Len(sent) <= Len(merged.list)
      /\ \A i \in 1..Len(sent) : sent[i] = SentOf(merged.list[i])
      /\ sent \in Seq(SentFiles) /\ merged.list \in Seq(NodesOn(Paths))
  BY NodesOnPaths
     DEF Inv, SendFile, Merging, Answering, Merged, Asked, TypeOK
<1>1. Merged(merged.list, todo)'
  BY <1>0, AskedStay DEF Merged
<1>2. Len(sent) \in Nat /\ Len(merged.list) \in Nat
  BY <1>0, LenProperties
<1>3. CASE Len(sent) = Len(merged.list)
  <2>1. pc' = "free" /\ sent' = sent
    BY <1>3 DEF SendFile
  <2>2. TypeOK'
    BY <1>0, <2>1 DEF TypeOK, SendFile, readVars
  <2>3. Merging'
    BY <1>0, <1>1, <1>3, <2>1
    DEF Merging, Answering, Merged, Asked, SentOf, Row
  <2> QED
    BY <2>2, <2>3
<1>4. CASE Len(sent) # Len(merged.list)
  <2>1. PICK n \in 1..Len(merged.list) : n = Len(sent) + 1
    BY <1>0, <1>2, <1>4
  <2>2. PICK node : node = merged.list[n]
    OBVIOUS
  <2>3. SentOf(node).rows = Rows(node) /\ SentOf(node) \in SentFiles
    BY <1>0, <2>2, RowsAreSent
  <2>4. PICK file \in SentFiles : file = SentOf(node)
    BY <2>3
  <2>5. [path |-> node.path, fr |-> node.fr, rows |-> Rows(node)] = file
    BY <2>3, <2>4 DEF SentOf
  <2>6. pc' = "send" /\ sent' = Append(sent, file)
    BY <1>0, <1>4, <2>1, <2>2, <2>5 DEF SendFile
  <2>7. /\ sent' \in Seq(SentFiles) /\ Len(sent') = Len(sent) + 1
        /\ \A i \in 1..Len(sent) : sent'[i] = sent[i]
        /\ sent'[Len(sent) + 1] = file
    BY <1>0, <2>6, AppendProperties
  <2>8. \A i \in 1..Len(sent') : sent'[i] = SentOf(merged.list[i])'
    <3> SUFFICES ASSUME NEW i \in 1..Len(sent')
                 PROVE  sent'[i] = SentOf(merged.list[i])'
      OBVIOUS
    <3>1. i \in 1..Len(sent) \/ i = n
      BY <1>2, <2>1, <2>7
    <3>2. sent'[i] = SentOf(merged.list[i])
      BY <1>0, <2>1, <2>2, <2>4, <2>7, <3>1
    <3> QED
      BY <1>0, <3>2 DEF SentOf, Row
  <2>9. Len(sent') <= Len(merged'.list)
    BY <1>0, <1>2, <2>1, <2>7
  <2>10. TypeOK'
    BY <1>0, <2>6, <2>7 DEF TypeOK, SendFile, readVars
  <2>11. Merging'
    BY <1>0, <1>1, <2>6, <2>8, <2>9 DEF Merging, Answering, Merged, Asked
  <2> QED
    BY <2>10, <2>11
<1> QED
  BY <1>3, <1>4

LEMMA EndingStep ==
  ASSUME Inv, FreeResults
  PROVE  TypeOK' /\ MergedInOrder' /\ Merging'
<1>0. /\ TypeOK /\ text' = text /\ UNCHANGED readVars /\ UNCHANGED answerVars
      /\ queries' = queries /\ MergedInOrder
      /\ pc' \in {"undefined", "command"} /\ freed' = freed \cup Found
  BY DEF Inv, FreeResults
<1>1. freed' \subseteq Words
  <2>1. query \in Seq(Words) /\ freed \subseteq Words
    BY <1>0 DEF TypeOK
  <2>2. Range(query) \subseteq Words
    BY <2>1, RangeOfSeq
  <2> QED
    BY <1>0, <2>1, <2>2 DEF Found
<1>2. TypeOK'
  BY <1>0, <1>1 DEF TypeOK, readVars, answerVars
<1>3. MergedInOrder'
  BY <1>0 DEF MergedInOrder, PathsOf, answerVars
<1>4. Merging'
  BY <1>0 DEF Merging, Answering
<1> QED
  BY <1>2, <1>3, <1>4

-----------------------------------------------------------------------------
(* Every step keeps the invariant.                                         *)

LEMMA ReadingKeepsMerged ==
  ASSUME Inv, NextFile \/ ReadLine \/ InsertWord \/ EndLine
  PROVE  MergedInOrder' /\ Merging'
<1>1. MergedInOrder /\ merged' = merged
  BY DEF Inv, NextFile, ReadLine, InsertWord, EndLine, answerVars
<1>2. pc' \in {"files", "line", "words", "command"}
  BY DEF NextFile, ReadLine, InsertWord, EndLine
<1>3. MergedInOrder'
  BY <1>1 DEF MergedInOrder, PathsOf
<1>4. Merging'
  BY <1>2 DEF Merging, Answering
<1> QED
  BY <1>3, <1>4

LEMMA QueryKeepsIndex ==
  ASSUME Inv,
         ReceiveQuery \/ CombineWord \/ CombineRow \/ SendFile \/ FreeResults
  PROVE  Place' /\ Indexing' /\ \A w \in Words : Fine(index[w])'
<1>1. text' = text /\ UNCHANGED readVars
  BY DEF ReceiveQuery, CombineWord, CombineRow, SendFile, FreeResults
<1>2. pc \notin {"files", "line", "words"}
  BY DEF ReceiveQuery, CombineWord, CombineRow, SendFile, FreeResults
<1>3. pc' \notin {"files", "line", "words"}
  BY <1>2 DEF ReceiveQuery, CombineWord, CombineRow, SendFile, FreeResults
<1> QED
  BY <1>1, <1>2, <1>3, IndexKept

LEMMA Stuttering == Inv /\ UNCHANGED vars => Inv'
<1> SUFFICES ASSUME Inv, UNCHANGED vars PROVE Inv'
  OBVIOUS
<1>0. /\ text' = text /\ unread' = unread /\ path' = path /\ at' = at
      /\ row' = row /\ words' = words /\ index' = index /\ freed' = freed
      /\ query' = query /\ next' = next /\ todo' = todo /\ merged' = merged
      /\ sent' = sent /\ queries' = queries /\ pc' = pc
      /\ TypeOK /\ Place /\ MergedInOrder /\ Merging
      /\ \A w \in Words : Sound(w) /\ Complete(w) /\ Fine(index[w])
  BY DEF vars, Inv
<1>1. TypeOK' /\ Place'
  BY <1>0 DEF TypeOK, Place, Reading, RowOf, MarkupAbove
<1>2. MergedInOrder' /\ Merging'
  <2>1. MergedInOrder'
    BY <1>0 DEF MergedInOrder, PathsOf
  <2>2. Asked' = Asked
    BY <1>0, AskedStay
  <2>3. \A node : SentOf(node)' = SentOf(node)
    BY <1>0 DEF SentOf, Row
  <2>4. Merging'
    BY <1>0, <2>2, <2>3 DEF Merging, Answering, Asked
  <2> QED
    BY <2>1, <2>4
<1>3. \A p \in Paths : Begun(p)' = Begun(p)
  BY <1>0 DEF Begun, Reading
<1>4. ASSUME NEW w \in Words PROVE Sound(w)' /\ Fine(index[w])'
  <2>1. Sound(w) /\ Fine(index[w])
    BY <1>0
  <2>2. \A x \in RowsIn(index[w]) : \E p \in Paths : \E n \in 1..Begun(p)' :
          Holds(w, p, n) /\ x = <<p, RowOf(p, n)>>
    BY <1>3, <2>1 DEF Sound
  <2>3. Sound(w)'
    BY <1>0, <2>2, SoundKept
  <2>4. Fine(index[w])'
    BY <1>0, <2>1 DEF Fine, Reading
  <2> QED
    BY <2>3, <2>4
<1>5. ASSUME NEW w \in Words PROVE Complete(w)'
  <2> SUFFICES ASSUME NEW p \in Paths, NEW n \in 1..Begun(p)', Holds(w, p, n)'
               PROVE  \/ <<p, RowOf(p, n)'>> \in RowsIn(index'[w])
                      \/ Coming(w, p, n)'
    BY DEF Complete
  <2>1. n \in 1..Begun(p) /\ Holds(w, p, n) /\ RowOf(p, n)' = RowOf(p, n)
    BY <1>0, <1>3, SameText
  <2>2. Coming(w, p, n)' = Coming(w, p, n)
    BY <1>0 DEF Coming
  <2>3. Complete(w)
    BY <1>0
  <2> QED
    BY <1>0, <2>1, <2>2, <2>3 DEF Complete
<1> QED
  BY <1>1, <1>2, <1>4, <1>5 DEF Inv

LEMMA Inductive == Inv /\ [Next]_vars => Inv'
<1> SUFFICES ASSUME Inv, [Next]_vars PROVE Inv'
  OBVIOUS
<1>0. MergedInOrder
  BY DEF Inv
<1>1. ASSUME TypeOK', Place', Indexing', \A w \in Words : Fine(index[w])',
             MergedInOrder', Merging'
      PROVE  Inv'
  BY <1>1 DEF Inv, Indexing
<1>2. CASE NextFile
  BY <1>1, <1>2, NextFileStep, ReadingKeepsMerged
<1>3. CASE ReadLine
  BY <1>1, <1>3, ReadLineStep, ReadingKeepsMerged
<1>4. CASE InsertWord
  BY <1>1, <1>4, InsertWordStep, ReadingKeepsMerged
<1>5. CASE EndLine
  BY <1>1, <1>5, EndLineStep, ReadingKeepsMerged
<1>6. CASE ReceiveQuery
  BY <1>1, <1>6, ReceiveQueryStep, QueryKeepsIndex
<1>7. CASE CombineWord
  <2>1. MergedInOrder'
    BY <1>0, <1>7 DEF CombineWord, MergedInOrder, PathsOf
  <2> QED
    BY <1>1, <1>7, <2>1, CombineWordStep, QueryKeepsIndex
<1>8. CASE CombineRow
  BY <1>1, <1>8, CombineRowStep, QueryKeepsIndex
<1>9. CASE SendFile
  <2>1. MergedInOrder'
    BY <1>0, <1>9 DEF SendFile, MergedInOrder, PathsOf
  <2> QED
    BY <1>1, <1>9, <2>1, SendFileStep, QueryKeepsIndex
<1>10. CASE FreeResults
  BY <1>1, <1>10, EndingStep, QueryKeepsIndex
<1>11. CASE UNCHANGED vars
  BY <1>11, Stuttering
<1> QED
  BY <1>2, <1>3, <1>4, <1>5, <1>6, <1>7, <1>8, <1>9, <1>10, <1>11
  DEF Next

LEMMA Invariance == Spec => []Inv
<1> QED
  BY Initially, Inductive, PTL DEF Spec

(* The line shown for a line that holds a word is the one with its row's   *)
(* number in the whole file.                                               *)
LEMMA InShown ==
  ASSUME text \in Files, NEW w, NEW x
  PROVE  x \in ShownFor(w) <=>
           \E h \in Holding(w) : x = <<h[1], h[2], text[h[1]][h[2] + 1]>>
<1>1. ASSUME NEW p \in Paths, NEW n \in 1..Len(text[p])
      PROVE  RowOf(p, n) + 1 = n - MarkupAbove(p, n)
  <2>1. Len(text[p]) \in Nat
    BY TextOf
  <2>2. PICK m \in Nat : n = m + 1
    <3>1. n - 1 \in Nat /\ n = (n - 1) + 1
      BY <2>1
    <3> QED
      BY <3>1
  <2>3. PICK c \in Nat : c = MarkupAbove(p, n)
    BY <2>2, RowNumbers
  <2>4. RowOf(p, n) = n - 1 - c
    BY <2>3 DEF RowOf
  <2> QED
    BY <2>2, <2>3, <2>4
<1>2. ASSUME x \in ShownFor(w)
      PROVE  \E h \in Holding(w) : x = <<h[1], h[2], text[h[1]][h[2] + 1]>>
  <2>1. PICK p \in Paths : \E n \in {m \in 1..Len(text[p]) : Holds(w, p, m)} :
          x = <<p, RowOf(p, n), text[p][n - MarkupAbove(p, n)]>>
    BY <1>2 DEF ShownFor
  <2>2. PICK n \in {m \in 1..Len(text[p]) : Holds(w, p, m)} :
          x = <<p, RowOf(p, n), text[p][n - MarkupAbove(p, n)]>>
    BY <2>1
  <2>3. PICK h : h = <<p, RowOf(p, n)>>
    OBVIOUS
  <2>4. h \in Holding(w)
    BY <2>2, <2>3, InHolding
  <2>5. h[1] = p /\ h[2] = RowOf(p, n)
    BY <2>3
  <2>6. x = <<h[1], h[2], text[h[1]][h[2] + 1]>>
    BY <1>1, <2>2, <2>5
  <2> QED
    BY <2>4, <2>6
<1>3. ASSUME NEW h \in Holding(w), x = <<h[1], h[2], text[h[1]][h[2] + 1]>>
      PROVE  x \in ShownFor(w)
  <2>1. PICK p \in Paths : \E n \in 1..Len(text[p]) :
          Holds(w, p, n) /\ h = <<p, RowOf(p, n)>>
    BY InHolding
  <2>2. PICK n \in 1..Len(text[p]) : Holds(w, p, n) /\ h = <<p, RowOf(p, n)>>
    BY <2>1
  <2>3. x = <<p, RowOf(p, n), text[p][n - MarkupAbove(p, n)]>>
    BY <1>1, <1>3, <2>2
  <2>4. n \in {m \in 1..Len(text[p]) : Holds(w, p, m)}
    BY <2>2
  <2> QED
    BY <2>3, <2>4 DEF ShownFor
<1> QED
  BY <1>2, <1>3

LEMMA ExactAnswer == Inv => AnswerExact
<1> SUFFICES ASSUME Inv, pc = "free"
             PROVE  /\ Shown = UNION {ShownFor(w) : w \in Range(query)}
                    /\ Len(sent) = merged.df
                    /\ \A i \in 1..Len(sent) : Len(sent[i].rows) = sent[i].fr
  BY DEF AnswerExact
<1>1. /\ InOrder(merged) /\ RowsIn(merged.list) \cup Range(todo) = Asked
      /\ todo = <<>> /\ next = Len(query) + 1
      /\ Len(sent) = Len(merged.list)
      /\ \A i \in 1..Len(sent) : sent[i] = SentOf(merged.list[i])
      /\ sent \in Seq(SentFiles) /\ merged.list \in Seq(NodesOn(Paths))
      /\ query \in Seq(Words) /\ text \in Files
  BY NodesOnPaths, MergedIs DEF Inv, Merging, Answering, Asked, TypeOK
<1>2. RowsIn(merged.list) = Asked
  BY <1>1, NoRange
<1>3. 1..(next - 1) = 1..Len(query)
  BY <1>1, LenProperties
<1>4. Asked = UNION {Holding(w) : w \in Range(query)}
  <2>1. \A w : w \in Range(query) <=> \E j \in 1..Len(query) : query[j] = w
    BY <1>1, InRange
  <2> QED
    BY <1>3, <2>1 DEF Asked
<1>5. ASSUME NEW i \in 1..Len(sent)
      PROVE  /\ sent[i].path = merged.list[i].path
             /\ sent[i].fr = merged.list[i].fr
             /\ merged.list[i].offsets \in Seq(Nat)
             /\ Len(sent[i].rows) = Len(merged.list[i].offsets)
             /\ sent[i].rows \in Seq(Nat \X Lines)
             /\ \A k \in 1..Len(sent[i].rows) : sent[i].rows[k] =
                  Row(merged.list[i].path, merged.list[i].offsets[k])
  <2>1. PICK node : node = merged.list[i]
    OBVIOUS
  <2>2. PICK file : file = sent[i]
    OBVIOUS
  <2>3. PICK o : o = node.offsets
    OBVIOUS
  <2>4. node \in NodesOn(Paths) /\ file \in SentFiles
    BY <1>1, <2>1, <2>2, NodeOfList, ElementOfSeq
  <2>5. o \in Seq(Nat) /\ Len(o) \in Nat
    BY <2>3, <2>4, LenProperties DEF NodesOn
  <2>6. file = SentOf(node)
    BY <1>1, <2>1, <2>2
  <2>7. PICK rows : rows = [k \in 1..Len(o) |-> Row(node.path, o[k])]
    OBVIOUS
  <2>8. file.path = node.path /\ file.fr = node.fr /\ file.rows = rows
    BY <2>3, <2>6, <2>7 DEF SentOf
  <2>9. rows \in Seq(Nat \X Lines)
    BY <2>4, <2>8 DEF SentFiles
  <2>10. Len(rows) = Len(o)
    BY <2>5, <2>7, <2>9, LenProperties
  <2>11. \A k \in 1..Len(rows) : rows[k] = Row(node.path, o[k])
    BY <2>7, <2>10
  <2> QED
    BY <2>1, <2>2, <2>3, <2>5, <2>8, <2>9, <2>10, <2>11
<1>6. \A i \in 1..Len(sent) : Len(sent[i].rows) = sent[i].fr
  BY <1>1, <1>5 DEF InOrder, NodeOk
<1>7. ASSUME NEW x \in Shown
      PROVE  x \in UNION {ShownFor(w) : w \in Range(query)}
  <2>1. PICK i \in 1..Len(sent) : \E y \in Range(sent[i].rows) :
          x = <<sent[i].path, y[1], y[2]>>
    BY DEF Shown
  <2>2. PICK y \in Range(sent[i].rows) : x = <<sent[i].path, y[1], y[2]>>
    BY <2>1
  <2>3. PICK k \in 1..Len(sent[i].rows) : y = sent[i].rows[k]
    BY <1>5, InRange
  <2>4. PICK p : p = merged.list[i].path
    OBVIOUS
  <2>5. PICK r : r = merged.list[i].offsets[k]
    OBVIOUS
  <2>6. y = <<r, text[p][r + 1]>>
    BY <1>5, <2>3, <2>4, <2>5 DEF Row
  <2>7. x = <<p, r, text[p][r + 1]>>
    BY <1>5, <2>2, <2>4, <2>6
  <2>8. r \in Range(merged.list[i].offsets)
    BY <1>5, <2>3, <2>5, InRange
  <2>9. <<p, r>> \in RowsIn(merged.list)
    BY <1>1, <2>4, <2>8, RowInList
  <2>10. PICK w \in Range(query) : <<p, r>> \in Holding(w)
    BY <1>2, <1>4, <2>9
  <2>11. x \in ShownFor(w)
    BY <1>1, <2>7, <2>10, InShown
  <2> QED
    BY <2>11
<1>8. ASSUME NEW w \in Range(query), NEW x \in ShownFor(w)
      PROVE  x \in Shown
  <2>1. PICK h \in Holding(w) : x = <<h[1], h[2], text[h[1]][h[2] + 1]>>
    BY <1>1, InShown
  <2>2. h \in RowsIn(merged.list)
    BY <1>2, <1>4
  <2>3. PICK i \in 1..Len(merged.list) :
          \E r \in Range(merged.list[i].offsets) :
            h = <<merged.list[i].path, r>>
    BY <2>2 DEF RowsIn
  <2>4. PICK r \in Range(merged.list[i].offsets) :
           h = <<merged.list[i].path, r>>
    BY <2>3
  <2>5. i \in 1..Len(sent)
    BY <1>1
  <2>6. PICK k \in 1..Len(merged.list[i].offsets) :
          r = merged.list[i].offsets[k]
    BY <1>5, <2>5, <2>4, InRange
  <2>7. PICK p : p = merged.list[i].path
    OBVIOUS
  <2>8. PICK y : y = sent[i].rows[k]
    OBVIOUS
  <2>9. y = <<r, text[p][r + 1]>> /\ y \in Range(sent[i].rows)
    BY <1>5, <2>5, <2>6, <2>7, <2>8, InRange DEF Row
  <2>10. x = <<sent[i].path, y[1], y[2]>>
    BY <1>5, <2>1, <2>5, <2>7, <2>9, <2>4
  <2> QED
    BY <2>5, <2>9, <2>10 DEF Shown
<1> QED
  BY <1>1, <1>6, <1>7, <1>8 DEF InOrder

(* The variables of the worker have the values their types allow.          *)
THEOREM TypeCorrect == Spec => []TypeOK
<1>1. Inv => TypeOK
  BY DEF Inv
<1> QED
  BY <1>1, Invariance, PTL

(* The index has, for every line that holds a word, its offset less the    *)
(* markup above it, and no other row, whatever the files are and in        *)
(* whatever order they are read (trie.c:16-62, invindex.c:7-66).           *)
THEOREM IndexIsExact == Spec => []IndexExact
BY Invariance, ExactIndex, PTL

(* The list that the words of a query are merged into is in order, without *)
(* repetition, and its counts are right (invindex.c:85-160).               *)
THEOREM MergeIsOrdered == Spec => []MergedInOrder
<1>1. Inv => MergedInOrder
  BY DEF Inv
<1> QED
  BY <1>1, Invariance, PTL

(* The answer to a query has one row for every line that holds one of its  *)
(* words and no other, and as many as it announces: the single pass over a *)
(* file misses none.  The line in the row is as many lines above the one   *)
(* that holds the word as there are lines of markup above that one         *)
(* (functions.c:81-100, childMessages.c:39-86).                            *)
THEOREM AnswersAreExact == Spec => []AnswerExact
BY Invariance, ExactAnswer, PTL
=============================================================================
