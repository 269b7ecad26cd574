-------------------------- MODULE HttpExchangeProofs --------------------------
(***************************************************************************)
(* Proofs about HttpExchange for any pages, any length of a chunk that     *)
(* holds a request, and reads of any length.                               *)
(***************************************************************************)
EXTENDS HttpExchange, DataLemmas

(* What text consists of. *)
Plain == Symbols \ {Nul}

LEMMA SizeFacts == BUFFERSIZE \in Nat /\ BUFFERSIZE >= 8
BY SizeAssumption

LEMMA ReservedFacts ==
  /\ Reserved \subseteq Symbols /\ Nul \in Symbols
  /\ \A x \in Reserved : x # Nul => x \in Plain
  /\ Header \in Seq(Plain) /\ Len(Header) = 6
<1>1. Reserved \subseteq Symbols /\ Nul \in Reserved
  BY DEF Symbols, Reserved
<1>2. \A x \in Reserved : x # Nul => x \in Plain
  BY <1>1 DEF Plain
<1>3. \A x \in {"HTTP/1.1", "20", "0", "Content-Length:", "12", "34"} :
        x \in Reserved /\ x # Nul
  BY DEF Reserved, Nul
<1>4. Header \in Seq(Plain) /\ Len(Header) = 6
  BY <1>2, <1>3 DEF Header
<1> QED
  BY <1>1, <1>2, <1>4

LEMMA SpellingFacts ==
  ASSUME NEW n \in Names
  PROVE  /\ Spelling[n] \in Seq(Plain) /\ Len(Spelling[n]) = 2
         /\ Spelling[n] = <<Spelling[n][1], Spelling[n][2]>>
         /\ \A i \in 1..2 : Spelling[n][i] \in Plain \ Reserved
<1>1. PICK x : x = Spelling[n][1]
  OBVIOUS
<1>2. PICK y : y = Spelling[n][2]
  OBVIOUS
<1>3. Spelling[n] = <<x, y>> /\ ToSet(Spelling[n]) \cap Reserved = {}
  BY <1>1, <1>2, PagesAssumption
<1>4. ToSet(<<x, y>>) = {x, y}
  BY DEF ToSet
<1>5. x \notin Reserved /\ y \notin Reserved
  BY <1>3, <1>4
<1>6. x \in Symbols /\ y \in Symbols
  BY <1>3, <1>4 DEF Symbols
<1>7. x \in Plain /\ y \in Plain
  BY <1>5, <1>6 DEF Plain, Reserved
<1> QED
  BY <1>1, <1>2, <1>3, <1>5, <1>7

LEMMA SpellingsDiffer ==
  \A m, n \in Names : Spelling[m] = Spelling[n] => m = n
BY PagesAssumption

LEMMA TextFacts ==
  ASSUME NEW n \in DOMAIN Text
  PROVE  /\ n \in Names /\ Text[n] \in Seq(Seq(Plain))
         /\ \A i \in 1..Len(Text[n]) : Text[n][i] # <<>>
<1>1. n \in Names /\ Text[n] \in Seq(ToSet(Text[n]))
  BY PagesAssumption
<1>2. ASSUME NEW line \in ToSet(Text[n])
      PROVE  line \in Seq(Plain) /\ line # <<>>
  <2>1. line \in Seq(ToSet(line)) /\ line # <<>> /\ Nul \notin ToSet(line)
    BY PagesAssumption
  <2>2. ToSet(line) \subseteq Symbols
    BY DEF Symbols
  <2>3. ToSet(line) \subseteq Plain
    BY <2>1, <2>2 DEF Plain
  <2> QED
    BY <2>1, <2>3
<1>3. Text[n] \in Seq(Seq(Plain))
  BY <1>1, <1>2
<1>4. \A i \in 1..Len(Text[n]) : Text[n][i] \in ToSet(Text[n])
  BY <1>1 DEF ToSet
<1> QED
  BY <1>1, <1>2, <1>3, <1>4

-----------------------------------------------------------------------------
(* Beginnings of texts.                                                    *)

LEMMA MinIs ==
  ASSUME NEW S \in SUBSET Nat, S # {}
  PROVE  Min(S) \in S /\ \A m \in S : Min(S) <= m
<1>1. \E n \in S : \A m \in S : n <= m
  BY LeastNumber
<1> QED
  BY <1>1 DEF Min

(* The first n elements. *)
IsFirst(s, t, n) ==
  Len(s) = n /\ n <= Len(t) /\ \A i \in 1..n : s[i] = t[i]

LEMMA Firsts ==
  ASSUME NEW X, NEW t \in Seq(X), NEW n \in 0..Len(t)
  PROVE  SubSeq(t, 1, n) \in Seq(X) /\ IsFirst(SubSeq(t, 1, n), t, n)
<1>1. Len(t) \in Nat /\ \A i \in 1..Len(t) : t[i] \in X
  BY ElementOfSeq, LenProperties
<1>2. CASE n = 0
  <2>1. SubSeq(t, 1, n) = <<>>
    BY <1>2, SubSeqEmpty
  <2>2. <<>> \in Seq(X) /\ Len(<<>>) = 0
    OBVIOUS
  <2> QED
    BY <1>1, <1>2, <2>1, <2>2 DEF IsFirst
<1>3. CASE n # 0
  <2>1. \A i \in 1..n : i \in 1..Len(t) /\ t[i] \in X
    BY <1>1
  <2>2. /\ SubSeq(t, 1, n) \in Seq(X) /\ Len(SubSeq(t, 1, n)) = n - 1 + 1
        /\ \A i \in 1..(n - 1 + 1) : SubSeq(t, 1, n)[i] = t[1 + i - 1]
    BY <1>1, <1>3, <2>1, SubSeqProperties
  <2>3. n - 1 + 1 = n /\ \A i \in 1..n : 1 + i - 1 = i
    OBVIOUS
  <2> QED
    BY <1>1, <2>2, <2>3 DEF IsFirst
<1> QED
  BY <1>2, <1>3

(* The elements from the m-th on. *)
IsRest(s, t, m, X) ==
  /\ s \in Seq(X) /\ Len(s) = Len(t) - m + 1
  /\ \A j \in 1..(Len(t) - m + 1) : s[j] = t[m - 1 + j]

LEMMA Rests ==
  ASSUME NEW X, NEW t \in Seq(X), NEW m \in 1..(Len(t) + 1)
  PROVE  IsRest(SubSeq(t, m, Len(t)), t, m, X)
<1>1. PICK n \in Nat : n = Len(t)
  BY LenProperties
<1>2. m \in Int /\ n \in Int /\ m <= n + 1
  BY <1>1
<1>3. CASE m = n + 1
  <2>1. SubSeq(t, m, n) = <<>>
    BY <1>2, <1>3, SubSeqEmpty
  <2> QED
    BY <1>1, <1>3, <2>1 DEF IsRest
<1>4. CASE m # n + 1
  <2>1. \A j \in m..n : t[j] \in X
    BY <1>1, ElementOfSeq
  <2>2. m <= n
    BY <1>2, <1>4
  <2>3. /\ SubSeq(t, m, n) \in Seq(X) /\ Len(SubSeq(t, m, n)) = n - m + 1
        /\ \A j \in 1..(n - m + 1) : SubSeq(t, m, n)[j] = t[m + j - 1]
    BY <1>2, <2>1, <2>2, SubSeqProperties
  <2>4. \A j \in 1..(n - m + 1) : m + j - 1 = m - 1 + j
    BY <1>2
  <2> QED
    BY <1>1, <2>3, <2>4 DEF IsRest
<1> QED
  BY <1>3, <1>4

(* One behind the other. *)
IsJoin(m, s, t, X) ==
  /\ m \in Seq(X) /\ Len(m) = Len(s) + Len(t)
  /\ \A i \in 1..(Len(s) + Len(t)) :
       m[i] = IF i <= Len(s) THEN s[i] ELSE t[i - Len(s)]

LEMMA Joins ==
  ASSUME NEW X, NEW s \in Seq(X), NEW t \in Seq(X)
  PROVE  IsJoin(s \o t, s, t, X)
BY ConcatProperties DEF IsJoin

LEMMA HeadApart ==
  ASSUME NEW X, NEW s \in Seq(X), s # <<>>
  PROVE  /\ Head(s) \in X /\ Tail(s) \in Seq(X)
         /\ s = <<Head(s)>> \o Tail(s)
<1>1. PICK h \in X : h = Head(s)
  BY HeadTailProperties
<1>2. PICK r \in Seq(X) : r = Tail(s)
  BY HeadTailProperties
<1>3. PICK a : a = <<h>>
  OBVIOUS
<1>4. a \in Seq(X) /\ Len(a) = 1 /\ a[1] = h
  BY <1>3
<1>5. IsJoin(a \o r, a, r, X)
  BY <1>4, Joins
<1>6. PICK m : m = a \o r
  OBVIOUS
<1>7. /\ Len(s) \in Nat /\ Len(r) = Len(s) - 1 /\ s[1] = h
      /\ \A i \in 1..Len(r) : r[i] = s[i + 1]
  BY <1>1, <1>2, HeadTailProperties, LenProperties
<1>8. m \in Seq(X) /\ Len(m) = 1 + Len(r) /\ 1 + Len(r) = Len(s)
  BY <1>4, <1>5, <1>6, <1>7 DEF IsJoin
<1>9. ASSUME NEW i \in 1..Len(s) PROVE m[i] = s[i]
  <2>1. m[i] = IF i <= 1 THEN a[i] ELSE r[i - 1]
    BY <1>4, <1>5, <1>6, <1>8 DEF IsJoin
  <2>2. CASE i <= 1
    <3>1. i = 1
      BY <1>7, <2>2
    <3> QED
      BY <1>4, <1>7, <2>1, <2>2, <3>1
  <2>3. CASE ~ (i <= 1)
    <3>1. i - 1 \in 1..Len(r) /\ (i - 1) + 1 = i
      BY <1>7, <2>3
    <3> QED
      BY <1>7, <2>1, <2>3, <3>1
  <2> QED
    BY <2>2, <2>3
<1>10. m = s
  BY <1>8, <1>9, SeqEqual
<1> QED
  BY <1>1, <1>2, <1>3, <1>6, <1>10

LEMMA SameFirst ==
  ASSUME NEW X, NEW r \in Seq(X), NEW s \in Seq(X), NEW t, NEW n \in Nat,
         IsFirst(r, t, n), IsFirst(s, t, n)
  PROVE  r = s
BY SeqEqual DEF IsFirst

(* What UpTo and Before give. *)
LEMMA UpToIs ==
  ASSUME NEW X, NEW t \in Seq(X), NEW n \in Nat
  PROVE  /\ UpTo(t, n) \in Seq(X)
         /\ IsFirst(UpTo(t, n), t, IF n <= Len(t) THEN n ELSE Len(t))
<1>1. Len(t) \in Nat
  BY LenProperties
<1>2. Min({n, Len(t)}) = IF n <= Len(t) THEN n ELSE Len(t)
  <2>1. Min({n, Len(t)}) \in {n, Len(t)} /\ \A m \in {n, Len(t)} : Min({n, Len(t)}) <= m
    BY <1>1, MinIs
  <2> QED
    BY <1>1, <2>1
<1>3. PICK k \in 0..Len(t) : k = Min({n, Len(t)})
  BY <1>1, <1>2
<1>4. UpTo(t, n) = SubSeq(t, 1, k)
  BY <1>3 DEF UpTo
<1> QED
  BY <1>2, <1>3, <1>4, Firsts

(* n elements come before the first x. *)
FirstAt(t, x, n) ==
  /\ n \in 0..Len(t)
  /\ \A i \in 1..n : t[i] # x
  /\ n < Len(t) => t[n + 1] = x

LEMMA FirstIsOne ==
  ASSUME NEW X, NEW t \in Seq(X), NEW x, NEW m, NEW n,
         FirstAt(t, x, m), FirstAt(t, x, n)
  PROVE  m = n
<1>1. Len(t) \in Nat
  BY LenProperties
<1>2. ~ (m < n)
  <2> SUFFICES ASSUME m < n PROVE FALSE
    OBVIOUS
  <2>1. m < Len(t) /\ m + 1 \in 1..n
    BY <1>1 DEF FirstAt
  <2> QED
    BY <2>1 DEF FirstAt
<1>3. ~ (n < m)
  <2> SUFFICES ASSUME n < m PROVE FALSE
    OBVIOUS
  <2>1. n < Len(t) /\ n + 1 \in 1..m
    BY <1>1 DEF FirstAt
  <2> QED
    BY <2>1 DEF FirstAt
<1> QED
  BY <1>1, <1>2, <1>3 DEF FirstAt

LEMMA BeforeIs ==
  ASSUME NEW X, NEW t \in Seq(X), NEW x
  PROVE  \E n : /\ FirstAt(t, x, n) /\ IsFirst(Before(t, x), t, n)
                /\ Before(t, x) \in Seq(X \ {x})
<1>1. Len(t) \in Nat /\ DOMAIN t = 1..Len(t)
  BY LenProperties
<1>2. PICK S : S = {i \in DOMAIN t : t[i] = x} \cup {Len(t) + 1}
  OBVIOUS
<1>3. S \in SUBSET Nat /\ Len(t) + 1 \in S
  BY <1>1, <1>2
<1>4. PICK k : k = Min(S)
  OBVIOUS
<1>5. k \in S /\ k \in Nat /\ \A m \in S : k <= m
  BY <1>3, <1>4, MinIs
<1>6. PICK n \in 0..Len(t) : n = k - 1
  BY <1>1, <1>2, <1>3, <1>5
<1>7. FirstAt(t, x, n)
  <2>1. \A i \in 1..n : t[i] # x
    <3> SUFFICES ASSUME NEW i \in 1..n, t[i] = x PROVE FALSE
      OBVIOUS
    <3>1. i \in S
      BY <1>1, <1>2
    <3> QED
      BY <1>5, <1>6, <3>1
  <2>2. n < Len(t) => t[n + 1] = x
    BY <1>1, <1>2, <1>5, <1>6
  <2> QED
    BY <2>1, <2>2 DEF FirstAt
<1>8. Before(t, x) = SubSeq(t, 1, n)
  BY <1>2, <1>4, <1>6 DEF Before
<1>9. SubSeq(t, 1, n) \in Seq(X) /\ IsFirst(SubSeq(t, 1, n), t, n)
  BY Firsts
<1>10. SubSeq(t, 1, n) \in Seq(X \ {x})
  <2>1. PICK b \in Seq(X) : b = SubSeq(t, 1, n)
    BY <1>9
  <2>2. Len(b) = n /\ \A i \in 1..n : b[i] \in X /\ b[i] # x
    BY <1>7, <1>9, <2>1, ElementOfSeq DEF IsFirst, FirstAt
  <2>3. b \in Seq(X \ {x})
    BY <2>2
  <2> QED
    BY <2>1, <2>3
<1> QED
  BY <1>7, <1>8, <1>9, <1>10

-----------------------------------------------------------------------------
(* Chunks and reads.                                                       *)

LEMMA ChunkIs ==
  ASSUME NEW p \in Seq(Plain), Len(p) <= BUFFERSIZE
  PROVE  /\ Chunk(p) \in Seq(Symbols) /\ Len(Chunk(p)) = BUFFERSIZE
         /\ \A i \in 1..BUFFERSIZE :
              Chunk(p)[i] = IF i <= Len(p) THEN p[i] ELSE Nul
<1>1. \A i \in 1..Len(p) : p[i] \in Symbols
  BY ElementOfSeq DEF Plain
<1>2. Len(p) \in Nat /\ Nul \in Symbols /\ BUFFERSIZE \in Nat
  BY LenProperties, ReservedFacts, SizeFacts
<1>3. \A i \in 1..BUFFERSIZE : (IF i <= Len(p) THEN p[i] ELSE Nul) \in Symbols
  BY <1>1, <1>2
<1> QED
  BY <1>2, <1>3 DEF Chunk

LEMMA BlankIs == Blank \in Seq(Symbols)
BY ReservedFacts, SizeFacts DEF Blank

(* What a read of n symbols of s leaves in an array of zeros, and the text *)
(* that is in it then.                                                     *)
Filled(s, n) == [i \in 1..BUFFERSIZE |-> IF i <= n THEN s[i] ELSE Nul]
IsText(t, s, n) ==
  /\ t \in Seq(Plain)
  /\ \E k \in 0..n : /\ IsFirst(t, s, k)
                     /\ \A i \in 1..k : s[i] # Nul
                     /\ k < n => s[k + 1] = Nul

LEMMA TextRead ==
  ASSUME NEW s \in Seq(Symbols), NEW n \in 1..BUFFERSIZE, n <= Len(s)
  PROVE  IsText(Visible(Filled(s, n)), s, n)
<1>1. \A i \in 1..Len(s) : s[i] \in Symbols
  BY ElementOfSeq
<1>2. /\ Len(s) \in Nat /\ n \in Nat /\ BUFFERSIZE \in Nat
      /\ \A i \in 1..n : i \in 1..Len(s) /\ i \in 1..BUFFERSIZE
  BY LenProperties, SizeFacts
<1>3. PICK f : f = Filled(s, n)
  OBVIOUS
<1>4. /\ f \in Seq(Symbols) /\ Len(f) = BUFFERSIZE
      /\ \A i \in 1..BUFFERSIZE : f[i] = IF i <= n THEN s[i] ELSE Nul
  <2>1. \A i \in 1..BUFFERSIZE : (IF i <= n THEN s[i] ELSE Nul) \in Symbols
    BY <1>1, <1>2, ReservedFacts
  <2> QED
    BY <1>2, <1>3, <2>1 DEF Filled
<1>5. PICK k : /\ FirstAt(f, Nul, k) /\ IsFirst(Before(f, Nul), f, k)
               /\ Before(f, Nul) \in Seq(Symbols \ {Nul})
  BY <1>4, BeforeIs
<1>6. k \in 0..n
  <2>1. k \in 0..BUFFERSIZE
    BY <1>4, <1>5 DEF FirstAt
  <2> SUFFICES ASSUME k > n PROVE FALSE
    BY <1>2, <2>1
  <2>2. n + 1 \in 1..k /\ n + 1 \in 1..BUFFERSIZE
    BY <1>2, <2>1
  <2>3. f[n + 1] = Nul /\ f[n + 1] # Nul
    BY <1>2, <1>4, <1>5, <2>2 DEF FirstAt
  <2> QED
    BY <2>3
<1>7. \A i \in 1..k : i \in 1..n /\ i \in 1..BUFFERSIZE /\ f[i] = s[i]
  BY <1>2, <1>4, <1>6
<1>8. IsFirst(Before(f, Nul), s, k) /\ \A i \in 1..k : s[i] # Nul
  BY <1>2, <1>5, <1>6, <1>7 DEF IsFirst, FirstAt
<1>9. k < n => s[k + 1] = Nul
  <2> SUFFICES ASSUME k < n PROVE s[k + 1] = Nul
    OBVIOUS
  <2>1. k < Len(f) /\ k + 1 \in 1..n /\ k + 1 \in 1..BUFFERSIZE
    BY <1>2, <1>4, <1>6
  <2>2. f[k + 1] = Nul /\ f[k + 1] = s[k + 1]
    BY <1>4, <1>5, <2>1 DEF FirstAt
  <2> QED
    BY <2>2
<1> QED
  BY <1>3, <1>5, <1>6, <1>8, <1>9 DEF IsText, Visible, Plain

-----------------------------------------------------------------------------
(* Links.                                                                  *)

LEMMA PlacesIn ==
  ASSUME NEW t \in Seq(Plain), NEW i \in LinkPlaces(t)
  PROVE  i \in 1..Len(t) /\ i + 1 \in 1..Len(t) /\ Len(t) \in Nat
<1>1. Len(t) \in Nat /\ i \in 1..(Len(t) - 1)
  BY LenProperties DEF LinkPlaces
<1> QED
  BY ONLY <1>1

LEMMA PlaceIs ==
  ASSUME NEW t, NEW i
  PROVE  i \in LinkPlaces(t) <=>
           /\ i \in 1..(Len(t) - 1)
           /\ t[i] = "<a" /\ t[i + 1] = " href=\""
<1>1. PICK x : x = t[i]
  OBVIOUS
<1>2. PICK y : y = t[i + 1]
  OBVIOUS
<1>3. i \in LinkPlaces(t) <=> i \in 1..(Len(t) - 1) /\ <<x, y>> = LinkStart
  BY <1>1, <1>2 DEF LinkPlaces
<1>4. <<x, y>> = LinkStart <=> x = "<a" /\ y = " href=\""
  BY DEF LinkStart
<1> QED
  BY ONLY <1>1, <1>2, <1>3, <1>4

(* What is behind a place. *)
LEMMA BehindPlace ==
  ASSUME NEW t \in Seq(Plain), NEW i \in LinkPlaces(t)
  PROVE  IsRest(SubSeq(t, i + 2, Len(t)), t, i + 2, Plain)
<1>1. Len(t) \in Nat /\ i + 2 \in 1..(Len(t) + 1)
  BY PlacesIn
<1> QED
  BY <1>1, Rests

LEMMA TargetType ==
  ASSUME NEW t \in Seq(Plain), NEW i \in LinkPlaces(t)
  PROVE  Target(t, i) \in Seq(Plain)
<1>1. PICK u \in Seq(Plain) : u = SubSeq(t, i + 2, Len(t))
  BY BehindPlace DEF IsRest
<1>2. Before(u, Quote) \in Seq(Plain \ {Quote})
  BY BeforeIs
<1>3. \A b \in Seq(Plain \ {Quote}) : b \in Seq(Plain)
  OBVIOUS
<1> QED
  BY <1>1, <1>2, <1>3 DEF Target

TargetsAt(t) ==
  [i \in DOMAIN t |-> IF i \in LinkPlaces(t) THEN <<Target(t, i)>> ELSE <<>>]

LEMMA TargetsAtIs ==
  ASSUME NEW t \in Seq(Plain)
  PROVE  /\ Targets(t) = Flattened(TargetsAt(t))
         /\ TargetsAt(t) \in Seq(Seq(Seq(Plain)))
         /\ Len(TargetsAt(t)) = Len(t)
         /\ \A i \in 1..Len(t) : TargetsAt(t)[i] =
              IF i \in LinkPlaces(t) THEN <<Target(t, i)>> ELSE <<>>
<1>1. Targets(t) = Flattened(TargetsAt(t))
  BY DEF Targets, TargetsAt, FlattenSeq, Flattened, TheFlat, FlatOf
<1>2. Len(t) \in Nat /\ DOMAIN t = 1..Len(t)
  BY LenProperties
<1>3. ASSUME NEW i \in 1..Len(t)
      PROVE  TargetsAt(t)[i] \in Seq(Seq(Plain))
  <2>1. CASE i \in LinkPlaces(t)
    <3>1. TargetsAt(t)[i] = <<Target(t, i)>>
      BY <1>2, <2>1 DEF TargetsAt
    <3>2. PICK x \in Seq(Plain) : x = Target(t, i)
      BY <2>1, TargetType
    <3>3. <<x>> \in Seq(Seq(Plain))
      OBVIOUS
    <3> QED
      BY <3>1, <3>2, <3>3
  <2>2. CASE i \notin LinkPlaces(t)
    BY <1>2, <2>2 DEF TargetsAt
  <2> QED
    BY <2>1, <2>2
<1>4. \A i \in 1..Len(t) : TargetsAt(t)[i] =
              IF i \in LinkPlaces(t) THEN <<Target(t, i)>> ELSE <<>>
  BY <1>2 DEF TargetsAt
<1>5. PICK f : f = TargetsAt(t)
  OBVIOUS
<1>6. f = [i \in 1..Len(t) |-> f[i]]
  BY <1>2, <1>5 DEF TargetsAt
<1>7. f \in Seq(Seq(Seq(Plain))) /\ Len(f) = Len(t)
  BY <1>2, <1>3, <1>5, <1>6
<1> QED
  BY <1>1, <1>4, <1>5, <1>7

LEMMA TargetsAre ==
  ASSUME NEW t \in Seq(Plain)
  PROVE  /\ Targets(t) \in Seq(Seq(Plain))
         /\ \A x : (\E k \in 1..Len(Targets(t)) : Targets(t)[k] = x) <=>
                   (\E i \in LinkPlaces(t) : Target(t, i) = x)
<1>1. PICK f \in Seq(Seq(Seq(Plain))) : f = TargetsAt(t)
  BY TargetsAtIs
<1>2. /\ Targets(t) = Flattened(f) /\ Len(f) = Len(t)
      /\ \A i \in 1..Len(t) :
           f[i] = IF i \in LinkPlaces(t) THEN <<Target(t, i)>> ELSE <<>>
  BY <1>1, TargetsAtIs
<1>3. Flattened(f) \in Seq(Seq(Plain))
  <2>1. <<>> \in Seq(Seq(Plain))
    OBVIOUS
  <2> QED
    BY <2>1, FlatAppend
<1>4. \A x : x \in Range(Flattened(f)) <=> \E i \in 1..Len(f) : x \in Range(f[i])
  BY FlatRange
<1>5. \A x : x \in Range(Flattened(f)) <=>
               \E k \in 1..Len(Flattened(f)) : Flattened(f)[k] = x
  BY <1>3, InRange
<1>6. ASSUME NEW i \in 1..Len(t), NEW x
      PROVE  x \in Range(f[i]) <=> i \in LinkPlaces(t) /\ Target(t, i) = x
  <2>1. CASE i \in LinkPlaces(t)
    <3>1. PICK y : y = Target(t, i)
      OBVIOUS
    <3>2. f[i] = <<y>>
      BY <1>2, <2>1, <3>1
    <3>3. Range(<<y>>) = {y}
      BY DEF Range
    <3> QED
      BY <2>1, <3>1, <3>2, <3>3
  <2>2. CASE i \notin LinkPlaces(t)
    <3>1. f[i] = <<>>
      BY <1>2, <2>2
    <3>2. Range(<<>>) = {}
      BY DEF Range
    <3> QED
      BY <2>2, <3>1, <3>2
  <2> QED
    BY <2>1, <2>2
<1>7. \A i \in LinkPlaces(t) : i \in 1..Len(t)
  BY PlacesIn
<1>8. \A x : (\E k \in 1..Len(Flattened(f)) : Flattened(f)[k] = x) <=>
            (\E i \in LinkPlaces(t) : Target(t, i) = x)
  <2> SUFFICES ASSUME NEW x
               PROVE  (\E i \in 1..Len(f) : x \in Range(f[i])) <=>
                      (\E i \in LinkPlaces(t) : Target(t, i) = x)
    BY <1>4, <1>5
  <2>1. ASSUME NEW i \in 1..Len(f), x \in Range(f[i])
        PROVE  i \in LinkPlaces(t) /\ Target(t, i) = x
    BY <1>2, <1>6, <2>1
  <2>2. ASSUME NEW i \in LinkPlaces(t), Target(t, i) = x
        PROVE  i \in 1..Len(f) /\ x \in Range(f[i])
    BY <1>2, <1>6, <1>7, <2>2
  <2> QED
    BY <2>1, <2>2
<1> QED
  BY <1>2, <1>3, <1>8

LEMMA StrippedType ==
  ASSUME NEW X, NEW t \in Seq(X)
  PROVE  /\ Stripped(t) \in Seq(X)
         /\ IsPrefix(Up, t) => Len(t) >= 2 /\ IsRest(Stripped(t), t, 3, X)
<1>1. Len(t) \in Nat
  BY LenProperties
<1>2. CASE ~ IsPrefix(Up, t)
  BY <1>2 DEF Stripped
<1>3. CASE IsPrefix(Up, t)
  <2>1. Len(t) >= 2 /\ Stripped(t) = SubSeq(t, 3, Len(t))
    BY <1>3 DEF IsPrefix, Up, Stripped
  <2>2. 3 \in 1..(Len(t) + 1)
    BY <1>1, <2>1
  <2>3. IsRest(SubSeq(t, 3, Len(t)), t, 3, X)
    BY <2>2, Rests
  <2> QED
    BY <2>1, <2>3 DEF IsRest
<1> QED
  BY <1>2, <1>3

(* What check_links looks at are the first targets, and all of them if it  *)
(* can go on behind each.                                                  *)
Bad == {<<>>, Up}

LEMMA SeenIs ==
  ASSUME NEW t \in Seq(Plain)
  PROVE  /\ check_links(t) \in Seq(Seq(Plain))
         /\ \E k \in 0..Len(Targets(t)) : IsFirst(check_links(t), Targets(t), k)
         /\ (\A i \in LinkPlaces(t) : Target(t, i) \notin Bad)
              => /\ check_links(t) = Targets(t)
                 /\ \A k \in 1..Len(Targets(t)) : Targets(t)[k] \notin Bad
<1>1. PICK T \in Seq(Seq(Plain)) : T = Targets(t)
  BY TargetsAre
<1>2. Len(T) \in Nat /\ DOMAIN T = 1..Len(T)
  BY LenProperties
<1>3. PICK S : S = {k \in DOMAIN T : T[k] \in {<<>>, Up}} \cup {Len(T)}
  OBVIOUS
<1>4. S \in SUBSET Nat /\ Len(T) \in S
  BY <1>2, <1>3
<1>5. PICK n : n = Min(S)
  OBVIOUS
<1>6. n \in Nat /\ n \in S /\ n <= Len(T)
  BY <1>4, <1>5, MinIs
<1>7. check_links(t) = UpTo(T, n)
  BY <1>1, <1>3, <1>5 DEF check_links
<1>8. UpTo(T, n) \in Seq(Seq(Plain)) /\ IsFirst(UpTo(T, n), T, n)
  BY <1>6, UpToIs
<1>9. n \in 0..Len(T)
  BY <1>2, <1>6
<1>10. ASSUME \A i \in LinkPlaces(t) : Target(t, i) \notin Bad
       PROVE  /\ UpTo(T, n) = T
              /\ \A k \in 1..Len(T) : T[k] \notin Bad
  <2>1. \A k \in 1..Len(T) : T[k] \notin Bad
    BY <1>1, <1>10, TargetsAre
  <2>2. n = Len(T)
    BY <1>2, <1>3, <1>6, <2>1 DEF Bad
  <2>3. IsFirst(T, T, n)
    BY <1>2, <2>2 DEF IsFirst
  <2>4. UpTo(T, n) = T
    BY <1>6, <1>8, <2>3, SameFirst
  <2> QED
    BY <2>1, <2>4
<1> QED
  BY <1>1, <1>7, <1>8, <1>9, <1>10

-----------------------------------------------------------------------------
(* The types, and that an array is all zeros between two reads.            *)

Blanks == [e \in Ends |-> Blank]
Base == TypeOK /\ buffer = Blanks

LEMMA ReadEffect ==
  ASSUME Base, NEW e \in Ends, NEW n \in 1..BUFFERSIZE, Read(e, n)
  PROVE  /\ stream[e] \in Seq(Symbols) /\ n <= Len(stream[e])
         /\ stream' \in [Ends -> Seq(Symbols)]
         /\ IsRest(stream'[e], stream[e], n + 1, Symbols)
         /\ \A d \in Ends : d # e => stream'[d] = stream[d]
         /\ buffer' = Blanks
         /\ short \subseteq short' /\ short' \subseteq Ends
         /\ short' = {} => short = {} /\ n = BUFFERSIZE
         /\ IsText(Visible(Received(e, n)), stream[e], n)
<1>1. /\ stream \in [Ends -> Seq(Symbols)] /\ buffer = Blanks /\ short \subseteq Ends
      /\ n \in Nat /\ BUFFERSIZE \in Nat /\ n <= BUFFERSIZE
  BY SizeFacts DEF Base, TypeOK
<1>2. PICK s \in Seq(Symbols) : s = stream[e]
  BY <1>1
<1>3. /\ n <= Len(s) /\ stream' = [stream EXCEPT ![e] = SubSeq(s, n + 1, Len(s))]
      /\ buffer' = [buffer EXCEPT ![e] = Blank]
      /\ short' = IF n < BUFFERSIZE THEN short \cup {e} ELSE short
  BY <1>2 DEF Read, Cleared
<1>4. n + 1 \in 1..(Len(s) + 1)
  BY <1>1, <1>3, LenProperties
<1>5. IsRest(SubSeq(s, n + 1, Len(s)), s, n + 1, Symbols)
  BY <1>4, Rests
<1>6. PICK r \in Seq(Symbols) : r = SubSeq(s, n + 1, Len(s))
  BY <1>5 DEF IsRest
<1>7. /\ stream' \in [Ends -> Seq(Symbols)] /\ stream'[e] = r
      /\ \A d \in Ends : d # e => stream'[d] = stream[d]
  BY <1>1, <1>3, <1>6
<1>8. buffer' = Blanks
  BY <1>1, <1>3 DEF Blanks
<1>9. Received(e, n) = Filled(s, n)
  <2>1. \A i \in 1..BUFFERSIZE : buffer[e][i] = Nul
    BY <1>1 DEF Blanks, Blank
  <2> QED
    BY <1>2, <2>1 DEF Received, Filled
<1>10. IsText(Visible(Filled(s, n)), s, n)
  BY <1>3, TextRead
<1>11. IsRest(stream'[e], stream[e], n + 1, Symbols)
  <2>1. stream'[e] = SubSeq(s, n + 1, Len(s))
    BY <1>6, <1>7
  <2> QED
    BY ONLY <2>1, <1>2, <1>5
<1>12. IsText(Visible(Received(e, n)), stream[e], n)
  BY ONLY <1>2, <1>9, <1>10
<1>13. /\ short \subseteq short' /\ short' \subseteq Ends
       /\ short' = {} => short = {} /\ n = BUFFERSIZE
  <2>1. CASE n < BUFFERSIZE
    <3>1. short' = short \cup {e}
      BY <1>3, <2>1
    <3> QED
      BY ONLY <1>1, <3>1, e \in Ends
  <2>2. CASE ~ (n < BUFFERSIZE)
    <3>1. short' = short
      BY <1>3, <2>2
    <3>2. n = BUFFERSIZE
      BY ONLY <1>1, <2>2
    <3> QED
      BY ONLY <1>1, <3>1, <3>2
  <2> QED
    BY <2>1, <2>2
<1>14. stream[e] \in Seq(Symbols) /\ n <= Len(stream[e])
  BY <1>2, <1>3
<1> QED
  BY ONLY <1>7, <1>8, <1>11, <1>12, <1>13, <1>14

LEMMA WriteEffect ==
  ASSUME Base, NEW e \in Ends, NEW c \in Seq(Symbols), Write(e, c)
  PROVE  /\ stream' \in [Ends -> Seq(Symbols)]
         /\ stream'[e] = stream[e] \o c
         /\ \A d \in Ends : d # e => stream'[d] = stream[d]
<1>1. stream \in [Ends -> Seq(Symbols)]
  BY DEF Base, TypeOK
<1>2. stream[e] \o c \in Seq(Symbols)
  BY <1>1, ConcatProperties
<1> QED
  BY <1>1, <1>2 DEF Write

LEMMA SevenWords ==
  ASSUME NEW X, NEW a \in X, NEW b \in X, NEW c \in X, NEW d \in X,
         NEW u \in X, NEW v \in X, NEW w \in X
  PROVE  (<<a, b>> \o <<c, d>>) \o <<u, v, w>> = <<a, b, c, d, u, v, w>>
<1>1. PICK p : p = <<a, b>>
  OBVIOUS
<1>2. PICK q : q = <<c, d>>
  OBVIOUS
<1>3. PICK r : r = <<u, v, w>>
  OBVIOUS
<1>4. PICK s : s = <<a, b, c, d, u, v, w>>
  OBVIOUS
<1>5. p \in Seq(X) /\ Len(p) = 2 /\ p[1] = a /\ p[2] = b
  BY <1>1
<1>6. q \in Seq(X) /\ Len(q) = 2 /\ q[1] = c /\ q[2] = d
  BY <1>2
<1>7. r \in Seq(X) /\ Len(r) = 3 /\ r[1] = u /\ r[2] = v /\ r[3] = w
  BY <1>3
<1>8. /\ s \in Seq(X) /\ Len(s) = 7 /\ s[1] = a /\ s[2] = b /\ s[3] = c
      /\ s[4] = d /\ s[5] = u /\ s[6] = v /\ s[7] = w
  BY <1>4
<1>9. IsJoin(p \o q, p, q, X)
  BY <1>5, <1>6, Joins
<1>10. PICK m : m = p \o q
  OBVIOUS
<1>11. m \in Seq(X) /\ Len(m) = 4 /\ m[1] = a /\ m[2] = b /\ m[3] = c /\ m[4] = d
  BY <1>5, <1>6, <1>9, <1>10 DEF IsJoin
<1>12. IsJoin(m \o r, m, r, X)
  BY <1>7, <1>11, Joins
<1>13. PICK n : n = m \o r
  OBVIOUS
<1>14. /\ n \in Seq(X) /\ Len(n) = 7 /\ n[1] = a /\ n[2] = b /\ n[3] = c
       /\ n[4] = d /\ n[5] = u /\ n[6] = v /\ n[7] = w
  BY <1>7, <1>11, <1>12, <1>13 DEF IsJoin
<1>15. \A i \in 1..7 : n[i] = s[i]
  BY <1>8, <1>14
<1>16. n = s
  BY <1>8, <1>14, <1>15, SeqEqual
<1> QED
  BY <1>1, <1>2, <1>3, <1>4, <1>10, <1>13, <1>16

(* The request of n. *)
Asking(n) ==
  <<"Ge", "t", Spelling[n][1], Spelling[n][2], "HTTP/1.1", "\r\n", "\r\n">>

LEMMA RequestIs ==
  ASSUME NEW n \in Names
  PROVE  /\ Request(n) = Chunk(Asking(n))
         /\ Asking(n) \in Seq(Plain) /\ Len(Asking(n)) = 7
         /\ Request(n) \in Seq(Symbols) /\ Len(Request(n)) = BUFFERSIZE
<1>1. PICK x \in Plain : x = Spelling[n][1]
  BY SpellingFacts
<1>2. PICK y \in Plain : y = Spelling[n][2]
  BY SpellingFacts
<1>3. Spelling[n] = <<x, y>>
  BY <1>1, <1>2, SpellingFacts
<1>4. \A s \in {"Ge", "t", "HTTP/1.1", "\r\n"} : s \in Plain
  <2>1. \A s \in {"Ge", "t", "HTTP/1.1", "\r\n"} : s \in Reserved /\ s # Nul
    BY DEF Reserved, Nul
  <2> QED
    BY <2>1, ReservedFacts
<1>5. (<<"Ge", "t">> \o <<x, y>>) \o <<"HTTP/1.1", "\r\n", "\r\n">>
        = <<"Ge", "t", x, y, "HTTP/1.1", "\r\n", "\r\n">>
  BY <1>4, SevenWords
<1>6. Request(n) = Chunk(Asking(n))
  BY <1>1, <1>2, <1>3, <1>5 DEF Request, Asking
<1>7. Asking(n) \in Seq(Plain) /\ Len(Asking(n)) = 7
  BY <1>1, <1>2, <1>4 DEF Asking
<1>8. Chunk(Asking(n)) \in Seq(Symbols) /\ Len(Chunk(Asking(n))) = BUFFERSIZE
  <2>1. PICK p \in Seq(Plain) : p = Asking(n) /\ Len(p) = 7
    BY <1>7
  <2>2. Len(p) <= BUFFERSIZE
    BY <2>1, SizeFacts
  <2> QED
    BY <2>1, <2>2, ChunkIs
<1> QED
  BY <1>6, <1>7, <1>8

(* The answer that refuses a page. *)
Refusal(x) == <<"HTTP/1.1", "40", x, "html">>

LEMMA RefusalIs ==
  ASSUME NEW x \in {"3", "4"}
  PROVE  /\ Refusal(x) \in Seq(Plain) /\ Len(Refusal(x)) = 4
         /\ Chunk(Refusal(x)) \in Seq(Symbols) /\ Len(Chunk(Refusal(x))) = BUFFERSIZE
<1>1. \A s \in {"HTTP/1.1", "40", "3", "4", "html"} : s \in Plain
  <2>1. \A s \in {"HTTP/1.1", "40", "3", "4", "html"} : s \in Reserved /\ s # Nul
    BY DEF Reserved, Nul
  <2> QED
    BY <2>1, ReservedFacts
<1>2. Refusal(x) \in Seq(Plain) /\ Len(Refusal(x)) = 4
  BY <1>1 DEF Refusal
<1>3. PICK p \in Seq(Plain) : p = Refusal(x) /\ Len(p) = 4
  BY <1>2
<1>4. Len(p) <= BUFFERSIZE
  BY <1>3, SizeFacts
<1> QED
  BY <1>2, <1>3, <1>4, ChunkIs

LEMMA SendErrorIs ==
  ASSUME SendError
  PROVE  \E x \in {"3", "4"} :
           /\ Write("crawler", Chunk(Refusal(x)))
           /\ x = IF \E n \in Forbidden : file = Spelling[n] THEN "3" ELSE "4"
BY DEF SendError, Refusal

(* A line is what fgets gives of it and what is left. *)
Left(line) == SubSeq(line, Len(Piece(line)) + 1, Len(line))

LEMMA PieceIs ==
  ASSUME NEW X, NEW line \in Seq(X)
  PROVE  /\ Piece(line) \in Seq(X) /\ Left(line) \in Seq(X)
         /\ Len(Piece(line)) < BUFFERSIZE /\ Len(Piece(line)) <= Len(line)
         /\ IsFirst(Piece(line), line, Len(Piece(line)))
         /\ IsRest(Left(line), line, Len(Piece(line)) + 1, X)
         /\ line # <<>> => Len(Piece(line)) > 0
         /\ Len(line) < BUFFERSIZE => Piece(line) = line /\ Left(line) = <<>>
<1>1. BUFFERSIZE - 1 \in Nat /\ BUFFERSIZE \in Nat /\ BUFFERSIZE - 1 > 0
  BY SizeFacts
<1>2. PICK m \in Nat : m = BUFFERSIZE - 1
  BY <1>1
<1>3. PICK p : p = Piece(line)
  OBVIOUS
<1>4. Len(line) \in Nat /\ (line # <<>> => Len(line) > 0)
  BY LenProperties, EmptySeq
<1>5. PICK k : k = IF m <= Len(line) THEN m ELSE Len(line)
  OBVIOUS
<1>6. p \in Seq(X) /\ IsFirst(p, line, k)
  BY <1>2, <1>3, <1>5, UpToIs DEF Piece
<1>7. Len(p) = k /\ k \in Nat /\ k + 1 \in 1..(Len(line) + 1)
  BY <1>2, <1>4, <1>5, <1>6 DEF IsFirst
<1>8. IsRest(SubSeq(line, k + 1, Len(line)), line, k + 1, X)
  BY <1>7, Rests
<1>9. Left(line) = SubSeq(line, k + 1, Len(line))
  BY <1>3, <1>7 DEF Left
<1>10. ASSUME Len(line) < BUFFERSIZE PROVE Piece(line) = line /\ Left(line) = <<>>
  <2>1. k = Len(line)
    BY <1>1, <1>2, <1>4, <1>5, <1>10
  <2>2. IsFirst(line, line, k)
    BY <1>4, <2>1 DEF IsFirst
  <2>3. p = line
    BY <1>6, <1>7, <2>2, SameFirst
  <2>4. SubSeq(line, k + 1, Len(line)) = <<>>
    BY <1>4, <2>1, SubSeqEmpty
  <2> QED
    BY <1>3, <1>9, <2>3, <2>4
<1>11. k < BUFFERSIZE /\ k <= Len(line) /\ (line # <<>> => k > 0)
  BY <1>1, <1>2, <1>4, <1>5
<1> QED
  BY <1>3, <1>6, <1>7, <1>8, <1>9, <1>10, <1>11 DEF IsRest

-----------------------------------------------------------------------------
(* Each action keeps the types and leaves the arrays blank.                *)

LEMMA RestType ==
  ASSUME NEW X, NEW t \in Seq(X), NEW m \in Nat \ {0}
  PROVE  /\ SubSeq(t, m, Len(t)) \in Seq(X)
         /\ m > Len(t) => SubSeq(t, m, Len(t)) = <<>>
<1>1. Len(t) \in Nat
  BY LenProperties
<1>2. CASE m > Len(t)
  <2>1. SubSeq(t, m, Len(t)) = <<>>
    BY <1>1, <1>2, SubSeqEmpty
  <2>2. <<>> \in Seq(X)
    OBVIOUS
  <2> QED
    BY <2>1, <2>2
<1>3. CASE ~ (m > Len(t))
  <2>1. m \in 1..(Len(t) + 1)
    BY <1>1, <1>3
  <2>2. IsRest(SubSeq(t, m, Len(t)), t, m, X)
    BY <2>1, Rests
  <2> QED
    BY <1>3, <2>2 DEF IsRest
<1> QED
  BY <1>2, <1>3

(* Two words of a text, the second of them word b, as far as they are      *)
(* there.                                                                  *)
Words(t, b) == SubSeq(UpTo(t, b), b - 1, Len(UpTo(t, b)))

LEMMA WordsAre ==
  ASSUME NEW X, NEW t \in Seq(X), NEW b \in 2..4
  PROVE  /\ Words(t, b) \in Seq(X)
         /\ Len(t) >= b => Words(t, b) = <<t[b - 1], t[b]>>
         /\ Len(t) < b => Len(Words(t, b)) < 2
<1>1. Len(t) \in Nat /\ b \in Nat /\ b - 1 \in Nat \ {0}
  BY LenProperties
<1>2. PICK u : u = UpTo(t, b)
  OBVIOUS
<1>3. u \in Seq(X) /\ IsFirst(u, t, IF b <= Len(t) THEN b ELSE Len(t))
  BY <1>1, <1>2, UpToIs
<1>4. PICK m \in Nat \ {0} : m = b - 1
  BY <1>1
<1>5. PICK w : w = SubSeq(u, m, Len(u))
  OBVIOUS
<1>6. w \in Seq(X) /\ (m > Len(u) => w = <<>>)
  BY <1>3, <1>5, RestType
<1>7. w = Words(t, b)
  BY <1>2, <1>4, <1>5 DEF Words
<1>8. Len(u) \in Nat
  BY <1>3, LenProperties
<1>9. m <= Len(u) + 1 => IsRest(w, u, m, X)
  <2> SUFFICES ASSUME m <= Len(u) + 1 PROVE IsRest(w, u, m, X)
    OBVIOUS
  <2>1. m \in 1..(Len(u) + 1)
    BY <1>8
  <2> QED
    BY <1>3, <1>5, <2>1, Rests
<1>10. ASSUME Len(t) >= b PROVE w = <<t[b - 1], t[b]>>
  <2>1. Len(u) = b /\ \A i \in 1..b : u[i] = t[i]
    BY <1>1, <1>3, <1>10 DEF IsFirst
  <2>2. Len(w) = 2 /\ \A j \in 1..2 : w[j] = u[m - 1 + j]
    BY <1>1, <1>4, <1>9, <2>1 DEF IsRest
  <2>3. /\ m - 1 + 1 = b - 1 /\ m - 1 + 2 = b
        /\ b - 1 \in 1..b /\ b \in 1..b /\ 1 \in 1..2 /\ 2 \in 1..2
    BY <1>1, <1>4
  <2>4. w[1] = u[b - 1] /\ w[2] = u[b]
    BY <2>2, <2>3
  <2>5. w[1] = t[b - 1] /\ w[2] = t[b]
    BY <2>1, <2>3, <2>4
  <2>6. w = <<w[1], w[2]>>
    BY <1>6, <2>2
  <2> QED
    BY <2>5, <2>6
<1>11. ASSUME Len(t) < b PROVE Len(w) < 2
  <2>1. Len(u) = Len(t)
    BY <1>1, <1>3, <1>11 DEF IsFirst
  <2>2. CASE m > Len(u)
    <3>1. w = <<>>
      BY <1>6, <2>2
    <3>2. Len(<<>>) = 0
      OBVIOUS
    <3> QED
      BY <3>1, <3>2
  <2>3. CASE ~ (m > Len(u))
    <3>1. Len(w) = Len(u) - m + 1
      BY <1>4, <1>8, <1>9, <2>3 DEF IsRest
    <3> QED
      BY <1>1, <1>4, <1>11, <2>1, <3>1
  <2> QED
    BY <2>2, <2>3
<1> QED
  BY <1>6, <1>7, <1>10, <1>11

LEMMA PageIsWords == \A t : PageOf(t) = Words(t, 4)
<1>1. 4 - 1 = 3
  OBVIOUS
<1> QED
  BY <1>1 DEF PageOf, Words

LEMMA TextType ==
  ASSUME NEW t, NEW s, NEW n, IsText(t, s, n)
  PROVE  t \in Seq(Plain)
BY DEF IsText

(* Without primes: what the crawler and the server keep for themselves.    *)
CrawlerTypes ==
  /\ cpc \in {"get", "header", "data", "done", "crashed", "looping"}
  /\ fp \in BOOLEAN
  /\ saved \in Seq(Plain)
  /\ found \in Seq(Seq(Plain))
  /\ length \in {"undefined", "cut", "whole", "-1"}
ServerTypes ==
  /\ spc \in {"read", "respond", "send", "close", "closed", "crashed",
              "killed", "nofile"}
  /\ file = Unset \/ file \in Seq(Plain)
  /\ rest \in Seq(Seq(Plain))
StreamTypes ==
  /\ asked \in Names
  /\ stream \in [Ends -> Seq(Symbols)]
  /\ buffer = Blanks
  /\ short \subseteq Ends

LEMMA BlanksType == Blanks \in [Ends -> Seq(Symbols)]
BY BlankIs DEF Blanks

LEMMA BaseParts ==
  Base <=> CrawlerTypes /\ ServerTypes /\ StreamTypes
BY BlanksType DEF Base, TypeOK, CrawlerTypes, ServerTypes, StreamTypes, Plain

LEMMA BasePartsNext ==
  CrawlerTypes' /\ ServerTypes' /\ StreamTypes' => Base'
BY BlanksType DEF Base, TypeOK, CrawlerTypes, ServerTypes, StreamTypes, Plain, Blanks

LEMMA BaseInit ==
  ASSUME Init PROVE Base
<1>1. <<>> \in Seq(Symbols) /\ <<>> \in Seq(Plain) /\ <<>> \in Seq(Seq(Plain))
  OBVIOUS
<1>2. CrawlerTypes /\ ServerTypes
  BY <1>1 DEF Init, CrawlerTypes, ServerTypes
<1>3. StreamTypes
  BY <1>1 DEF Init, StreamTypes, Blanks, Ends
<1> QED
  BY <1>2, <1>3, BaseParts

LEMMA EndsAre == "server" \in Ends /\ "crawler" \in Ends
BY DEF Ends

LEMMA BaseReadRequest ==
  ASSUME Base, NEW n \in 1..BUFFERSIZE, ReadRequest(n) PROVE Base'
<1>0. CrawlerTypes /\ ServerTypes /\ StreamTypes
  BY BaseParts
<1>1. StreamTypes'
  <2>1. Read("server", n) /\ asked' = asked
    BY DEF ReadRequest
  <2>2. stream' \in [Ends -> Seq(Symbols)] /\ buffer' = Blanks /\ short' \subseteq Ends
    BY <2>1, EndsAre, ReadEffect
  <2> QED
    BY <1>0, <2>1, <2>2 DEF StreamTypes, Blanks
<1>2. PICK t : t = Visible(Received("server", n))
  OBVIOUS
<1>3. t \in Seq(Plain)
  <2>1. Read("server", n)
    BY DEF ReadRequest
  <2>2. IsText(Visible(Received("server", n)), stream["server"], n)
    BY <2>1, EndsAre, ReadEffect
  <2> QED
    BY <1>2, <2>2, TextType
<1>4. PageOf(t) \in Seq(Plain)
  BY <1>3, WordsAre, PageIsWords
<1>5. /\ spc' \in {"crashed", "respond", "read"}
      /\ file' \in {file, PageOf(t)} /\ rest' = rest
  BY <1>2 DEF ReadRequest
<1>6. ServerTypes'
  BY <1>0, <1>4, <1>5 DEF ServerTypes
<1>7. CrawlerTypes'
  BY <1>0 DEF CrawlerTypes, crawlerVars, ReadRequest
<1> QED
  BY <1>1, <1>6, <1>7, BasePartsNext

LEMMA BaseReuseMemory ==
  ASSUME Base, ReuseMemory PROVE Base'
<1>0. CrawlerTypes /\ ServerTypes /\ StreamTypes
  BY BaseParts
<1>1. CrawlerTypes' /\ StreamTypes'
  BY <1>0 DEF CrawlerTypes, StreamTypes, ReuseMemory, crawlerVars, Blanks
<1>2. file' \in Seq(Plain)
  <2>1. <<>> \in Seq(Plain)
    OBVIOUS
  <2>2. \A n \in DOMAIN Text : Spelling[n] \in Seq(Plain)
    BY TextFacts, SpellingFacts
  <2> QED
    BY <2>1, <2>2 DEF ReuseMemory
<1>3. ServerTypes'
  BY <1>0, <1>2 DEF ServerTypes, ReuseMemory
<1> QED
  BY <1>1, <1>3, BasePartsNext

LEMMA ServedIs ==
  ASSUME NEW n \in Served
  PROVE  /\ n \in DOMAIN Text /\ n \in Names /\ file = Spelling[n]
         /\ \A m \in Served : m = n
         /\ (CHOOSE m \in Served : TRUE) = n
<1>1. \A m \in Served : m \in DOMAIN Text /\ m \in Names /\ file = Spelling[m]
  BY TextFacts DEF Served
<1>2. \A m \in Served : m = n
  BY <1>1, SpellingsDiffer
<1> QED
  BY <1>1, <1>2

LEMMA HeaderIs ==
  Chunk(Header) \in Seq(Symbols) /\ Len(Chunk(Header)) = BUFFERSIZE
<1>1. PICK p \in Seq(Plain) : p = Header /\ Len(p) = 6
  BY ReservedFacts
<1>2. Len(p) <= BUFFERSIZE
  BY <1>1, SizeFacts
<1> QED
  BY <1>1, <1>2, ChunkIs

LEMMA BaseSendOk ==
  ASSUME Base, SendOk PROVE Base'
<1>0. CrawlerTypes /\ ServerTypes /\ StreamTypes
  BY BaseParts
<1>1. stream' \in [Ends -> Seq(Symbols)]
  BY HeaderIs, EndsAre, WriteEffect DEF SendOk
<1>2. CrawlerTypes' /\ StreamTypes'
  BY <1>0, <1>1 DEF CrawlerTypes, StreamTypes, SendOk, crawlerVars, Blanks
<1>3. rest' \in Seq(Seq(Plain))
  <2>1. CASE file = <<>>
    BY <2>1 DEF SendOk
  <2>2. CASE file # <<>>
    <3>1. PICK n : n \in Served
      BY <2>2 DEF SendOk
    <3>2. rest' = Text[n] /\ n \in DOMAIN Text
      BY <2>2, <3>1, ServedIs DEF SendOk
    <3> QED
      BY <3>2, TextFacts
  <2> QED
    BY <2>1, <2>2
<1>4. ServerTypes'
  BY <1>0, <1>3 DEF ServerTypes, SendOk
<1> QED
  BY <1>2, <1>4, BasePartsNext

LEMMA BaseOpenFails ==
  ASSUME Base, OpenFails PROVE Base'
<1>0. CrawlerTypes /\ ServerTypes /\ StreamTypes
  BY BaseParts
<1>1. CrawlerTypes' /\ StreamTypes' /\ ServerTypes'
  BY <1>0
  DEF CrawlerTypes, StreamTypes, ServerTypes, OpenFails, crawlerVars, Blanks
<1> QED
  BY <1>1, BasePartsNext

LEMMA BaseSendError ==
  ASSUME Base, SendError PROVE Base'
<1>0. CrawlerTypes /\ ServerTypes /\ StreamTypes
  BY BaseParts
<1>1. PICK x \in {"3", "4"} : Write("crawler", Chunk(Refusal(x)))
  BY SendErrorIs
<1>2. stream' \in [Ends -> Seq(Symbols)]
  BY <1>1, RefusalIs, EndsAre, WriteEffect
<1>3. CrawlerTypes' /\ StreamTypes' /\ ServerTypes'
  BY <1>0, <1>2
  DEF CrawlerTypes, StreamTypes, ServerTypes, SendError, crawlerVars, Blanks
<1> QED
  BY <1>3, BasePartsNext

(* The lines after one turn of fgets. *)
LinesLeft(lines) ==
  (IF Left(Head(lines)) = <<>> THEN <<>> ELSE <<Left(Head(lines))>>) \o Tail(lines)

LEMMA LinesLeftType ==
  ASSUME NEW lines \in Seq(Seq(Plain)), lines # <<>>
  PROVE  /\ LinesLeft(lines) \in Seq(Seq(Plain))
         /\ Head(lines) \in Seq(Plain) /\ Tail(lines) \in Seq(Seq(Plain))
         /\ lines = <<Head(lines)>> \o Tail(lines)
<1>1. Head(lines) \in Seq(Plain) /\ Tail(lines) \in Seq(Seq(Plain))
  BY HeadTailProperties
<1>2. PICK l \in Seq(Plain) : l = Left(Head(lines))
  BY <1>1, PieceIs
<1>3. PICK r \in Seq(Seq(Plain)) : r = Tail(lines)
  BY <1>1
<1>4. <<l>> \in Seq(Seq(Plain)) /\ <<>> \in Seq(Seq(Plain))
  OBVIOUS
<1>5. <<l>> \o r \in Seq(Seq(Plain)) /\ <<>> \o r \in Seq(Seq(Plain))
  BY <1>4, ConcatProperties
<1>6. lines = <<Head(lines)>> \o Tail(lines)
  BY HeadApart
<1> QED
  BY <1>1, <1>2, <1>3, <1>5, <1>6 DEF LinesLeft

LEMMA SendLineIs ==
  ASSUME SendLine
  PROVE  /\ spc = "send" /\ rest # <<>> /\ rest' = LinesLeft(rest)
         /\ cpc = "crashed" => UNCHANGED stream
         /\ cpc # "crashed" => Write("crawler", Chunk(Piece(Head(rest))))
         /\ UNCHANGED <<asked, buffer, crawlerVars, spc, file, short>>
BY DEF SendLine, LinesLeft, Left

LEMMA PieceChunk ==
  ASSUME NEW line \in Seq(Plain)
  PROVE  /\ Piece(line) \in Seq(Plain) /\ Len(Piece(line)) < BUFFERSIZE
         /\ Chunk(Piece(line)) \in Seq(Symbols)
         /\ Len(Chunk(Piece(line))) = BUFFERSIZE
<1>1. PICK p \in Seq(Plain) : p = Piece(line) /\ Len(p) < BUFFERSIZE
  BY PieceIs
<1>2. Len(p) <= BUFFERSIZE
  BY <1>1, SizeFacts, LenProperties
<1> QED
  BY <1>1, <1>2, ChunkIs

LEMMA BaseSendLine ==
  ASSUME Base, SendLine PROVE Base'
<1>0. CrawlerTypes /\ ServerTypes /\ StreamTypes
  BY BaseParts
<1>1. rest \in Seq(Seq(Plain)) /\ rest # <<>> /\ rest' = LinesLeft(rest)
  BY <1>0, SendLineIs DEF ServerTypes
<1>2. rest' \in Seq(Seq(Plain)) /\ Head(rest) \in Seq(Plain)
  BY <1>1, LinesLeftType
<1>3. stream' \in [Ends -> Seq(Symbols)]
  <2>1. CASE cpc = "crashed"
    BY <1>0, <2>1, SendLineIs DEF StreamTypes
  <2>2. CASE cpc # "crashed"
    <3>1. Write("crawler", Chunk(Piece(Head(rest))))
      BY <2>2, SendLineIs
    <3>2. Chunk(Piece(Head(rest))) \in Seq(Symbols)
      BY <1>2, PieceChunk
    <3> QED
      BY <3>1, <3>2, EndsAre, WriteEffect
  <2> QED
    BY <2>1, <2>2
<1>4. UNCHANGED <<asked, buffer, crawlerVars, spc, file, short>>
  BY SendLineIs
<1>5. CrawlerTypes' /\ StreamTypes' /\ ServerTypes'
  BY <1>0, <1>2, <1>3, <1>4
  DEF CrawlerTypes, StreamTypes, ServerTypes, crawlerVars, Blanks
<1> QED
  BY <1>5, BasePartsNext

LEMMA BaseSigpipe ==
  ASSUME Base, Sigpipe PROVE Base'
<1>0. CrawlerTypes /\ ServerTypes /\ StreamTypes
  BY BaseParts
<1>1. CrawlerTypes' /\ StreamTypes' /\ ServerTypes'
  BY <1>0
  DEF CrawlerTypes, StreamTypes, ServerTypes, Sigpipe, crawlerVars, Blanks
<1> QED
  BY <1>1, BasePartsNext

LEMMA CloseEffect ==
  ASSUME Base, CloseServer
  PROVE  /\ stream' \in [Ends -> Seq(Symbols)]
         /\ stream'["server"] = stream["server"]
         /\ \E k \in 0..Len(stream["crawler"]) :
              /\ stream["server"] = <<>> => k = Len(stream["crawler"])
              /\ IsFirst(stream'["crawler"], stream["crawler"], k)
         /\ stream["server"] = <<>> => stream' = stream
<1>1. stream \in [Ends -> Seq(Symbols)]
  BY DEF Base, TypeOK
<1>2. PICK s \in Seq(Symbols) : s = stream["crawler"]
  BY <1>1, EndsAre
<1>3. PICK k \in 0..Len(s) :
        /\ stream["server"] = <<>> => k = Len(s)
        /\ stream' = [stream EXCEPT !["crawler"] = SubSeq(s, 1, k)]
  BY <1>2 DEF CloseServer
<1>4. SubSeq(s, 1, k) \in Seq(Symbols) /\ IsFirst(SubSeq(s, 1, k), s, k)
  BY Firsts
<1>5. PICK r \in Seq(Symbols) : r = SubSeq(s, 1, k)
  BY <1>4
<1>6. /\ stream' \in [Ends -> Seq(Symbols)]
      /\ stream'["server"] = stream["server"] /\ stream'["crawler"] = r
  BY <1>1, <1>3, <1>5, EndsAre
<1>7. ASSUME stream["server"] = <<>> PROVE stream' = stream
  <2>1. IsFirst(r, s, Len(s)) /\ IsFirst(s, s, Len(s)) /\ Len(s) \in Nat
    BY <1>3, <1>4, <1>5, <1>7, LenProperties DEF IsFirst
  <2>2. r = s
    BY <2>1, SameFirst
  <2> QED
    BY <1>1, <1>2, <1>3, <1>5, <2>2, EndsAre
<1> QED
  BY <1>2, <1>3, <1>4, <1>5, <1>6, <1>7

LEMMA BaseCloseServer ==
  ASSUME Base, CloseServer PROVE Base'
<1>0. CrawlerTypes /\ ServerTypes /\ StreamTypes
  BY BaseParts
<1>1. stream' \in [Ends -> Seq(Symbols)]
  BY CloseEffect
<1>2. CrawlerTypes' /\ StreamTypes' /\ ServerTypes'
  BY <1>0, <1>1
  DEF CrawlerTypes, StreamTypes, ServerTypes, CloseServer, crawlerVars, Blanks
<1> QED
  BY <1>2, BasePartsNext

LEMMA BaseGET ==
  ASSUME Base, GET PROVE Base'
<1>0. CrawlerTypes /\ ServerTypes /\ StreamTypes
  BY BaseParts
<1>1. stream' \in [Ends -> Seq(Symbols)]
  <2>1. asked \in Names /\ Write("server", Request(asked))
    BY <1>0 DEF StreamTypes, GET
  <2>2. Request(asked) \in Seq(Symbols)
    BY <2>1, RequestIs
  <2> QED
    BY <2>1, <2>2, EndsAre, WriteEffect
<1>2. CrawlerTypes' /\ StreamTypes' /\ ServerTypes'
  BY <1>0, <1>1
  DEF CrawlerTypes, StreamTypes, ServerTypes, GET, serverVars, Blanks
<1> QED
  BY <1>2, BasePartsNext

LEMMA BaseReadEnd ==
  ASSUME Base, ReadEnd PROVE Base'
<1>0. CrawlerTypes /\ ServerTypes /\ StreamTypes
  BY BaseParts
<1>1. CrawlerTypes' /\ StreamTypes' /\ ServerTypes'
  BY <1>0
  DEF CrawlerTypes, StreamTypes, ServerTypes, ReadEnd, serverVars, Blanks
<1> QED
  BY <1>1, BasePartsNext

(* A read by the crawler changes nothing of the server's. *)
LEMMA BaseCrawlerRead ==
  ASSUME Base, NEW n \in 1..BUFFERSIZE, Read("crawler", n),
         UNCHANGED <<asked, serverVars>>
  PROVE  StreamTypes' /\ ServerTypes'
<1>0. ServerTypes /\ StreamTypes
  BY BaseParts
<1>1. stream' \in [Ends -> Seq(Symbols)] /\ buffer' = Blanks /\ short' \subseteq Ends
  BY EndsAre, ReadEffect
<1> QED
  BY <1>0, <1>1 DEF StreamTypes, ServerTypes, serverVars, Blanks

(* What the header makes of a text. *)
LEMMA ReadHeaderIs ==
  ASSUME NEW n, ReadHeader(n)
  PROVE  \E t : /\ t = Visible(Received("crawler", n))
                /\ cpc = "header" /\ Read("crawler", n)
                /\ UNCHANGED <<asked, saved, found, serverVars>>
                /\ Len(t) = 1 \/ (Opened(Words(t, 3)) /\ Len(t) = 4) =>
                     cpc' = "crashed" /\ UNCHANGED <<fp, length>>
                /\ ~ (Len(t) = 1 \/ (Opened(Words(t, 3)) /\ Len(t) = 4)) =>
                     /\ fp' = (Opened(Words(t, 3)) /\ asked \in Storable)
                     /\ cpc' = IF Refused(Words(t, 3)) THEN "done" ELSE "data"
                     /\ length' = CASE Refused(Words(t, 3)) -> "-1"
                                    [] Opened(Words(t, 3)) -> LengthIn(t)
                                    [] OTHER -> length
<1>1. 3 - 1 = 2
  OBVIOUS
<1> QED
  BY <1>1 DEF ReadHeader, Words

LEMMA BaseReadHeader ==
  ASSUME Base, NEW n \in 1..BUFFERSIZE, ReadHeader(n) PROVE Base'
<1>0. CrawlerTypes
  BY BaseParts
<1>1. StreamTypes' /\ ServerTypes'
  <2>1. Read("crawler", n) /\ UNCHANGED <<asked, serverVars>>
    BY DEF ReadHeader
  <2> QED
    BY <2>1, BaseCrawlerRead
<1>2. PICK t :
        /\ Len(t) = 1 \/ (Opened(Words(t, 3)) /\ Len(t) = 4) =>
             cpc' = "crashed" /\ UNCHANGED <<fp, length>>
        /\ ~ (Len(t) = 1 \/ (Opened(Words(t, 3)) /\ Len(t) = 4)) =>
             /\ fp' = (Opened(Words(t, 3)) /\ asked \in Storable)
             /\ cpc' = IF Refused(Words(t, 3)) THEN "done" ELSE "data"
             /\ length' = CASE Refused(Words(t, 3)) -> "-1"
                            [] Opened(Words(t, 3)) -> LengthIn(t)
                            [] OTHER -> length
  BY ReadHeaderIs
<1>3. Opened(Words(t, 3)) \in BOOLEAN /\ Refused(Words(t, 3)) \in BOOLEAN
  BY DEF Opened, Refused
<1>4. LengthIn(t) \in {"undefined", "cut", "whole"}
  BY DEF LengthIn
<1>5. fp' \in BOOLEAN /\ cpc' \in {"crashed", "done", "data"}
  BY <1>0, <1>2, <1>3 DEF CrawlerTypes
<1>6. length' \in {"undefined", "cut", "whole", "-1"}
  BY <1>0, <1>2, <1>3, <1>4 DEF CrawlerTypes
<1>7. saved' = saved /\ found' = found
  BY DEF ReadHeader
<1>8. CrawlerTypes'
  BY <1>0, <1>5, <1>6, <1>7 DEF CrawlerTypes
<1> QED
  BY <1>1, <1>8, BasePartsNext

(* What was seen, as JQ_Addjob gets it. *)
Handed(seen) == [k \in DOMAIN seen |-> Stripped(seen[k])]

LEMMA HandedType ==
  ASSUME NEW X, NEW seen \in Seq(Seq(X))
  PROVE  /\ Handed(seen) \in Seq(Seq(X)) /\ Len(Handed(seen)) = Len(seen)
         /\ \A k \in 1..Len(seen) : Handed(seen)[k] = Stripped(seen[k])
<1>1. Len(seen) \in Nat /\ DOMAIN seen = 1..Len(seen)
  BY LenProperties
<1>2. \A k \in 1..Len(seen) : Stripped(seen[k]) \in Seq(X)
  BY ElementOfSeq, StrippedType
<1> QED
  BY <1>1, <1>2 DEF Handed

BadEnd(seen) == seen # <<>> /\ Last(seen) \in {<<>>, Up}

LEMMA ReadDataIs ==
  ASSUME NEW n, ReadData(n)
  PROVE  \E t : /\ t = Visible(Received("crawler", n))
                /\ cpc = "data" /\ Read("crawler", n)
                /\ UNCHANGED <<asked, fp, length, serverVars>>
                /\ found' = found \o Handed(check_links(t))
                /\ cpc' = IF BadEnd(check_links(t)) /\ Last(check_links(t)) = Up
                          THEN "looping"
                          ELSE IF BadEnd(check_links(t)) \/ ~fp THEN "crashed"
                          ELSE "data"
                /\ saved' = IF BadEnd(check_links(t)) \/ ~fp THEN saved
                            ELSE saved \o t
BY DEF ReadData, Handed, BadEnd

LEMMA BaseReadData ==
  ASSUME Base, NEW n \in 1..BUFFERSIZE, ReadData(n) PROVE Base'
<1>0. CrawlerTypes
  BY BaseParts
<1>1. StreamTypes' /\ ServerTypes'
  <2>1. Read("crawler", n) /\ UNCHANGED <<asked, serverVars>>
    BY DEF ReadData
  <2> QED
    BY <2>1, BaseCrawlerRead
<1>2. PICK t : /\ t = Visible(Received("crawler", n))
               /\ UNCHANGED <<asked, fp, length, serverVars>>
               /\ found' = found \o Handed(check_links(t))
               /\ cpc' \in {"looping", "crashed", "data"}
               /\ saved' \in {saved, saved \o t}
  BY ReadDataIs
<1>3. t \in Seq(Plain)
  <2>1. Read("crawler", n)
    BY DEF ReadData
  <2>2. IsText(Visible(Received("crawler", n)), stream["crawler"], n)
    BY <2>1, EndsAre, ReadEffect
  <2> QED
    BY <1>2, <2>2, TextType
<1>4. Handed(check_links(t)) \in Seq(Seq(Plain))
  BY <1>3, SeenIs, HandedType
<1>5. found' \in Seq(Seq(Plain)) /\ saved' \in Seq(Plain)
  BY <1>0, <1>2, <1>3, <1>4, ConcatProperties DEF CrawlerTypes
<1>6. CrawlerTypes'
  BY <1>0, <1>2, <1>5 DEF CrawlerTypes
<1> QED
  BY <1>1, <1>6, BasePartsNext

LEMMA BaseStep ==
  ASSUME Base, [Next]_vars PROVE Base'
<1>1. CASE UNCHANGED vars
  BY <1>1 DEF Base, TypeOK, vars, crawlerVars, serverVars, Blanks
<1>2. CASE CrawlerStep
  BY <1>2, BaseGET, BaseReadEnd, BaseReadHeader, BaseReadData DEF CrawlerStep
<1>3. CASE ServerStep
  BY <1>3, BaseReadRequest, BaseReuseMemory, BaseSendOk, BaseOpenFails,
     BaseSendError, BaseSendLine, BaseSigpipe, BaseCloseServer DEF ServerStep
<1> QED
  BY <1>1, <1>2, <1>3 DEF Next

LEMMA BaseHolds == Spec => []Base
<1>1. Init => Base
  BY BaseInit
<1>2. Base /\ [Next]_vars => Base'
  BY BaseStep
<1> QED
  BY <1>1, <1>2, PTL DEF Spec

(* The types, for any pages, any length of a chunk and any reads: what the *)
(* crawler saves and hands on never has a zero in it.                      *)
THEOREM TypeCorrect == Spec => []TypeOK
<1>1. Base => TypeOK
  BY DEF Base
<1> QED
  BY <1>1, BaseHolds, PTL

-----------------------------------------------------------------------------
(* Piece by piece: what f gives for each element, one behind the other.    *)
Applied(f, s) == [i \in 1..Len(s) |-> f[s[i]]]
Piecewise(f, s) == Flattened(Applied(f, s))

IsApplied(a, f, s, X) ==
  /\ a \in Seq(Seq(X)) /\ Len(a) = Len(s)
  /\ \A i \in 1..Len(s) : a[i] = f[s[i]]

LEMMA AppliedIs ==
  ASSUME NEW D, NEW X, NEW f \in [D -> Seq(X)], NEW s \in Seq(D)
  PROVE  IsApplied(Applied(f, s), f, s, X)
<1>1. Len(s) \in Nat /\ \A i \in 1..Len(s) : s[i] \in D
  BY LenProperties, ElementOfSeq
<1>2. \A i \in 1..Len(s) : f[s[i]] \in Seq(X)
  BY <1>1
<1> QED
  BY <1>1, <1>2 DEF Applied, IsApplied

LEMMA FlatType ==
  ASSUME NEW X, NEW s \in Seq(Seq(X)) PROVE Flattened(s) \in Seq(X)
<1>1. <<>> \in Seq(X)
  OBVIOUS
<1> QED
  BY <1>1, FlatAppend

LEMMA PiecewiseStart ==
  /\ \A f : Piecewise(f, <<>>) = <<>>
  /\ \A D, X : \A f \in [D -> Seq(X)] : \A p \in D : Piecewise(f, <<p>>) = f[p]
<1>1. ASSUME NEW f PROVE Piecewise(f, <<>>) = <<>>
  <2>1. PICK e : e = <<>>
    OBVIOUS
  <2>2. Len(e) = 0
    BY <2>1
  <2>3. Applied(f, e) = <<>>
    BY <2>2 DEF Applied
  <2> QED
    BY <2>1, <2>3, FlatStart DEF Piecewise
<1>2. ASSUME NEW D, NEW X, NEW f \in [D -> Seq(X)], NEW p \in D
      PROVE  Piecewise(f, <<p>>) = f[p]
  <2>1. PICK s : s = <<p>>
    OBVIOUS
  <2>2. s \in Seq(D) /\ Len(s) = 1 /\ s[1] = p
    BY <2>1
  <2>3. PICK a : a = Applied(f, s)
    OBVIOUS
  <2>4. a \in Seq(Seq(X)) /\ Len(a) = 1 /\ a[1] = f[p]
    <3>1. IsApplied(a, f, s, X)
      BY <2>2, <2>3, AppliedIs
    <3> QED
      BY <2>2, <3>1 DEF IsApplied
  <2>5. PICK y \in Seq(X) : y = f[p]
    OBVIOUS
  <2>6. a = <<y>>
    BY <2>4, <2>5
  <2>7. Flattened(<<y>>) = y
    BY FlatStart
  <2> QED
    BY <2>1, <2>3, <2>5, <2>6, <2>7 DEF Piecewise
<1> QED
  BY <1>1, <1>2

IsMap(f, D, X) == f \in [D -> Seq(X)]
Distributes(f, s, t) == Piecewise(f, s \o t) = Piecewise(f, s) \o Piecewise(f, t)

LEMMA PiecewiseConcat ==
  ASSUME NEW D, NEW X, NEW f, IsMap(f, D, X), NEW s \in Seq(D), NEW t \in Seq(D)
  PROVE  Piecewise(f, s) \in Seq(X) /\ Distributes(f, s, t)
<1>0. f \in [D -> Seq(X)]
  BY DEF IsMap
<1>1. PICK a : a = Applied(f, s)
  OBVIOUS
<1>2. PICK b : b = Applied(f, t)
  OBVIOUS
<1>3. /\ a \in Seq(Seq(X)) /\ Len(a) = Len(s) /\ Len(s) \in Nat
      /\ \A i \in 1..Len(s) : a[i] = f[s[i]]
  <2>1. IsApplied(a, f, s, X)
    BY <1>0, <1>1, AppliedIs
  <2> QED
    BY <2>1, LenProperties DEF IsApplied
<1>4. /\ b \in Seq(Seq(X)) /\ Len(b) = Len(t) /\ Len(t) \in Nat
      /\ \A i \in 1..Len(t) : b[i] = f[t[i]]
  <2>1. IsApplied(b, f, t, X)
    BY <1>0, <1>2, AppliedIs
  <2> QED
    BY <2>1, LenProperties DEF IsApplied
<1>5. PICK u : u = s \o t
  OBVIOUS
<1>6. /\ u \in Seq(D) /\ Len(u) = Len(s) + Len(t)
      /\ \A i \in 1..(Len(s) + Len(t)) :
           u[i] = IF i <= Len(s) THEN s[i] ELSE t[i - Len(s)]
  BY <1>5, Joins DEF IsJoin
<1>7. PICK c : c = Applied(f, u)
  OBVIOUS
<1>8. /\ c \in Seq(Seq(X)) /\ Len(c) = Len(u)
      /\ \A i \in 1..Len(u) : c[i] = f[u[i]]
  <2>1. IsApplied(c, f, u, X)
    BY <1>0, <1>6, <1>7, AppliedIs
  <2> QED
    BY <2>1 DEF IsApplied
<1>9. PICK d : d = a \o b
  OBVIOUS
<1>10. /\ d \in Seq(Seq(X)) /\ Len(d) = Len(a) + Len(b)
       /\ \A i \in 1..(Len(a) + Len(b)) :
            d[i] = IF i <= Len(a) THEN a[i] ELSE b[i - Len(a)]
  <2>1. IsJoin(a \o b, a, b, Seq(X))
    BY <1>3, <1>4, Joins
  <2> QED
    BY <1>9, <2>1 DEF IsJoin
<1>11. ASSUME NEW i \in 1..Len(c) PROVE c[i] = d[i]
  <2>1. c[i] = f[u[i]] /\ i \in 1..(Len(s) + Len(t))
    BY <1>6, <1>8
  <2>2. CASE i <= Len(s)
    <3>1. i \in 1..Len(s) /\ u[i] = s[i] /\ d[i] = a[i]
      BY <1>3, <1>4, <1>6, <1>10, <2>1, <2>2
    <3> QED
      BY <1>3, <2>1, <3>1
  <2>3. CASE ~ (i <= Len(s))
    <3>1. i - Len(s) \in 1..Len(t)
      BY <1>3, <1>4, <2>1, <2>3
    <3>2. u[i] = t[i - Len(s)] /\ d[i] = b[i - Len(s)]
      BY <1>3, <1>4, <1>6, <1>10, <2>1, <2>3
    <3> QED
      BY <1>4, <2>1, <3>1, <3>2
  <2> QED
    BY <2>2, <2>3
<1>12. Len(c) = Len(d)
  BY <1>3, <1>4, <1>6, <1>8, <1>10
<1>13. c = d
  BY <1>8, <1>10, <1>11, <1>12, SeqEqual
<1>14. Flattened(a \o b) = Flattened(a) \o Flattened(b) /\ Flattened(a) \in Seq(X)
  BY <1>3, <1>4, FlatConcat, FlatType
<1> QED
  BY <1>1, <1>2, <1>5, <1>7, <1>9, <1>13, <1>14 DEF Piecewise, Distributes

(* How the parts may be put together. *)
Together(a, b, c) == (a \o b) \o c = a \o (b \o c)
GoesLeft(a, b, p, r) == (a \o b) \o (p \o r) = (a \o (b \o p)) \o r
GoesIn(a, p, b, r) == (a \o (p \o b)) \o r = ((a \o p) \o b) \o r

LEMMA PutTogether ==
  ASSUME NEW X, NEW a \in Seq(X), NEW b \in Seq(X), NEW c \in Seq(X)
  PROVE  Together(a, b, c)
BY ConcatAssociative DEF Together

LEMMA Moved ==
  ASSUME NEW X, NEW a \in Seq(X), NEW b \in Seq(X), NEW p \in Seq(X), NEW r \in Seq(X)
  PROVE  GoesLeft(a, b, p, r) /\ GoesIn(a, p, b, r)
<1>1. PICK m \in Seq(X) : m = a \o b
  BY ConcatProperties
<1>2. PICK n \in Seq(X) : n = a \o p
  BY ConcatProperties
<1>3. Together(m, p, r)
  BY <1>1, PutTogether
<1>4. Together(a, b, p)
  BY PutTogether
<1>5. Together(a, p, b)
  BY PutTogether
<1> QED
  BY <1>1, <1>2, <1>3, <1>4, <1>5 DEF Together, GoesLeft, GoesIn

-----------------------------------------------------------------------------
(* Whole chunks.                                                           *)

Pieces == {p \in Seq(Plain) : Len(p) < BUFFERSIZE}
ChunkOf == [p \in Pieces |-> Chunk(p)]
LinksIn == [t \in Seq(Plain) |-> Handed(Targets(t))]

LEMMA ChunkOfType == ChunkOf \in [Pieces -> Seq(Symbols)]
<1>1. ASSUME NEW p \in Pieces PROVE Chunk(p) \in Seq(Symbols)
  <2>1. p \in Seq(Plain) /\ Len(p) <= BUFFERSIZE
    BY SizeFacts, LenProperties DEF Pieces
  <2> QED
    BY <2>1, ChunkIs
<1> QED
  BY <1>1 DEF ChunkOf

LEMMA LinksInType == LinksIn \in [Seq(Plain) -> Seq(Seq(Plain))]
<1>1. ASSUME NEW t \in Seq(Plain) PROVE Handed(Targets(t)) \in Seq(Seq(Plain))
  BY TargetsAre, HandedType
<1> QED
  BY <1>1 DEF LinksIn

(* A read of a whole chunk gives the piece in it and leaves what is behind. *)
LEMMA ChunkRead ==
  ASSUME NEW p \in Seq(Plain), Len(p) <= BUFFERSIZE, NEW r \in Seq(Symbols),
         NEW s \in Seq(Symbols), s = Chunk(p) \o r
  PROVE  /\ \A t : IsText(t, s, BUFFERSIZE) => t = p
         /\ \A u : IsRest(u, s, BUFFERSIZE + 1, Symbols) => u = r
<1>1. PICK c : c = Chunk(p)
  OBVIOUS
<1>2. /\ c \in Seq(Symbols) /\ Len(c) = BUFFERSIZE
      /\ \A i \in 1..BUFFERSIZE : c[i] = IF i <= Len(p) THEN p[i] ELSE Nul
  BY <1>1, ChunkIs
<1>3. /\ Len(p) \in Nat /\ Len(r) \in Nat /\ BUFFERSIZE \in Nat
      /\ \A i \in 1..Len(p) : p[i] # Nul
  BY LenProperties, SizeFacts, ElementOfSeq DEF Plain
<1>4. /\ s \in Seq(Symbols) /\ Len(s) = BUFFERSIZE + Len(r)
      /\ \A i \in 1..(BUFFERSIZE + Len(r)) :
           s[i] = IF i <= BUFFERSIZE THEN c[i] ELSE r[i - BUFFERSIZE]
  <2>1. IsJoin(c \o r, c, r, Symbols)
    BY <1>2, Joins
  <2> QED
    BY <1>1, <1>2, <2>1 DEF IsJoin
<1>5. ASSUME NEW i \in 1..BUFFERSIZE
      PROVE  (i <= Len(p) => s[i] = p[i]) /\ (i > Len(p) => s[i] = Nul)
  <2>1. s[i] = c[i] /\ c[i] = IF i <= Len(p) THEN p[i] ELSE Nul
    BY <1>2, <1>3, <1>4
  <2> QED
    BY <1>3, <2>1
<1>6. ASSUME NEW t, IsText(t, s, BUFFERSIZE) PROVE t = p
  <2>1. t \in Seq(Plain)
    BY <1>6 DEF IsText
  <2>2. PICK k \in 0..BUFFERSIZE : /\ IsFirst(t, s, k)
                                   /\ \A i \in 1..k : s[i] # Nul
                                   /\ k < BUFFERSIZE => s[k + 1] = Nul
    BY <1>6 DEF IsText
  <2>3. ~ (k < Len(p))
    <3> SUFFICES ASSUME k < Len(p) PROVE FALSE
      OBVIOUS
    <3>1. k < BUFFERSIZE /\ k + 1 \in 1..BUFFERSIZE /\ k + 1 \in 1..Len(p)
      BY <1>3
    <3>2. PICK i \in 1..BUFFERSIZE : i = k + 1 /\ i <= Len(p) /\ i \in 1..Len(p)
      BY <1>3, <3>1
    <3>3. s[i] = p[i]
      BY <1>5, <3>2
    <3> QED
      BY <1>3, <2>2, <3>1, <3>2, <3>3
  <2>4. ~ (k > Len(p))
    <3> SUFFICES ASSUME k > Len(p) PROVE FALSE
      OBVIOUS
    <3>1. Len(p) + 1 \in 1..k /\ Len(p) + 1 \in 1..BUFFERSIZE
      BY <1>3
    <3>2. PICK i \in 1..BUFFERSIZE : i = Len(p) + 1 /\ i > Len(p) /\ i \in 1..k
      BY <1>3, <3>1
    <3>3. s[i] = Nul
      BY <1>5, <3>2
    <3> QED
      BY <2>2, <3>2, <3>3
  <2>5. k = Len(p)
    BY <1>3, <2>3, <2>4
  <2>6. IsFirst(p, s, k)
    <3>1. k <= Len(s)
      BY <1>3, <1>4
    <3>2. \A i \in 1..k : p[i] = s[i]
      <4>1. \A i \in 1..k : i \in 1..BUFFERSIZE /\ i <= Len(p)
        BY <1>3, <2>5
      <4> QED
        BY <1>5, <4>1
    <3> QED
      BY <2>5, <3>1, <3>2 DEF IsFirst
  <2> QED
    BY <1>3, <2>1, <2>2, <2>5, <2>6, SameFirst
<1>7. ASSUME NEW u, IsRest(u, s, BUFFERSIZE + 1, Symbols) PROVE u = r
  <2>1. PICK m : m = BUFFERSIZE + 1
    OBVIOUS
  <2>2. /\ u \in Seq(Symbols) /\ Len(u) = Len(s) - m + 1
        /\ \A j \in 1..(Len(s) - m + 1) : u[j] = s[m - 1 + j]
    BY <1>7, <2>1 DEF IsRest
  <2>3. Len(s) - m + 1 = Len(r)
    BY <1>3, <1>4, <2>1
  <2>4. ASSUME NEW j \in 1..Len(r) PROVE u[j] = r[j]
    <3>1. PICK i \in 1..(BUFFERSIZE + Len(r)) :
            i = m - 1 + j /\ i - BUFFERSIZE = j /\ ~ (i <= BUFFERSIZE)
      BY <1>3, <2>1
    <3>2. s[i] = r[j]
      BY <1>4, <3>1
    <3> QED
      BY <2>2, <2>3, <3>1, <3>2
  <2> QED
    BY <2>2, <2>3, <2>4, SeqEqual
<1> QED
  BY <1>6, <1>7

-----------------------------------------------------------------------------
(* The links of a text are those of its lines, if none lies across an end. *)

Closed(t) == \A i \in LinkPlaces(t) : \E j \in (i + 2)..Len(t) : t[j] = Quote
Apart(t) == Closed(t) /\ (t # <<>> => t[Len(t)] # "<a")

LEMMA Offset ==
  \A m, n \in Nat : \A i \in 1..(m + n) :
    ~ (i <= m) => \E j \in 1..n : j = i - m /\ i = m + j
<1> SUFFICES ASSUME NEW m \in Nat, NEW n \in Nat, NEW i \in 1..(m + n), ~ (i <= m)
             PROVE  \E j \in 1..n : j = i - m /\ i = m + j
  OBVIOUS
<1>1. i - m \in 1..n /\ i = m + (i - m)
  OBVIOUS
<1> QED
  BY <1>1

(* In c = a \o b: places in a and behind it, and what follows them.        *)
LEMMA PlacesBefore ==
  ASSUME NEW a \in Seq(Plain), NEW b \in Seq(Plain), NEW c, IsJoin(c, a, b, Plain),
         Apart(a), NEW i \in 1..Len(a)
  PROVE  i \in LinkPlaces(c) <=> i \in LinkPlaces(a)
<1>1. /\ Len(a) \in Nat /\ Len(b) \in Nat /\ Len(c) = Len(a) + Len(b)
      /\ c[i] = a[i]
  BY LenProperties DEF IsJoin
<1>2. CASE i = Len(a)
  <2>1. a[i] # "<a"
    <3>1. a # <<>>
      BY <1>1, EmptySeq
    <3> QED
      BY <1>2, <3>1 DEF Apart
  <2> QED
    BY <1>1, <1>2, <2>1, PlaceIs
<1>3. CASE i # Len(a)
  <2>1. PICK k \in 1..Len(a) : k = i + 1
    BY <1>1, <1>3
  <2>2. c[k] = a[k]
    BY <1>1, <2>1 DEF IsJoin
  <2>3. i \in 1..(Len(a) - 1) /\ i \in 1..(Len(c) - 1)
    BY <1>1, <1>3
  <2>4. i \in LinkPlaces(a) <=> a[i] = "<a" /\ a[k] = " href=\""
    BY <2>1, <2>3, PlaceIs
  <2>5. i \in LinkPlaces(c) <=> c[i] = "<a" /\ c[k] = " href=\""
    BY <2>1, <2>3, PlaceIs
  <2> QED
    BY ONLY <1>1, <2>2, <2>4, <2>5
<1> QED
  BY <1>2, <1>3

LEMMA TargetBefore ==
  ASSUME NEW a \in Seq(Plain), NEW b \in Seq(Plain), NEW c, IsJoin(c, a, b, Plain),
         Closed(a), NEW i \in LinkPlaces(a), i \in LinkPlaces(c)
  PROVE  Target(c, i) = Target(a, i)
<1>1. /\ Len(a) \in Nat /\ Len(b) \in Nat /\ Len(c) = Len(a) + Len(b)
      /\ c \in Seq(Plain) /\ i \in 1..Len(a) /\ i + 1 \in 1..Len(a)
  BY LenProperties, PlacesIn DEF IsJoin
<1>2. PICK f : f = SubSeq(a, i + 2, Len(a))
  OBVIOUS
<1>3. PICK g : g = SubSeq(c, i + 2, Len(c))
  OBVIOUS
<1>4. PICK m \in Nat : m = i + 2
  BY <1>1
<1>5. /\ f \in Seq(Plain) /\ Len(f) = Len(a) - m + 1
      /\ \A j \in 1..(Len(a) - m + 1) : f[j] = a[m - 1 + j]
  BY <1>2, <1>4, BehindPlace DEF IsRest
<1>6. /\ g \in Seq(Plain) /\ Len(g) = Len(c) - m + 1
      /\ \A j \in 1..(Len(c) - m + 1) : g[j] = c[m - 1 + j]
  BY <1>1, <1>3, <1>4, BehindPlace DEF IsRest
<1>7. Len(f) \in Nat /\ Len(f) <= Len(g) /\ \A j \in 1..Len(f) : g[j] = f[j]
  <2>1. Len(f) \in Nat /\ Len(f) <= Len(g)
    BY <1>1, <1>4, <1>5, <1>6
  <2>2. ASSUME NEW j \in 1..Len(f) PROVE g[j] = f[j]
    <3>1. PICK k \in 1..Len(a) : k = m - 1 + j
      BY <1>1, <1>4, <1>5
    <3>2. c[k] = a[k]
      BY <1>1, <3>1 DEF IsJoin
    <3>3. j \in 1..(Len(a) - m + 1) /\ j \in 1..(Len(c) - m + 1)
      BY <1>1, <1>5, <1>6, <2>1
    <3> QED
      BY <1>5, <1>6, <3>1, <3>2, <3>3
  <2> QED
    BY <2>1, <2>2
<1>8. PICK n : FirstAt(f, Quote, n) /\ IsFirst(Before(f, Quote), f, n)
               /\ Before(f, Quote) \in Seq(Plain \ {Quote})
  BY <1>5, BeforeIs
<1>9. n < Len(f)
  <2>1. PICK j \in (i + 2)..Len(a) : a[j] = Quote
    BY DEF Closed
  <2>2. PICK q \in 1..Len(f) : q = j - m + 1 /\ m - 1 + q = j
    BY <1>1, <1>4, <1>5, <2>1
  <2>3. f[q] = Quote
    BY <1>5, <2>1, <2>2
  <2> QED
    BY <1>7, <1>8, <2>3 DEF FirstAt
<1>10. FirstAt(g, Quote, n) /\ IsFirst(Before(f, Quote), g, n) /\ n \in Nat
  <2>1. n \in 0..Len(g) /\ n \in Nat /\ \A j \in 1..n : j \in 1..Len(f)
    BY <1>6, <1>7, <1>8, <1>9, LenProperties DEF FirstAt
  <2>2. \A j \in 1..n : g[j] = f[j] /\ f[j] # Quote /\ Before(f, Quote)[j] = f[j]
    BY <1>7, <1>8, <2>1 DEF FirstAt, IsFirst
  <2>3. g[n + 1] = Quote
    <3>1. PICK q \in 1..Len(f) : q = n + 1
      BY <1>7, <1>9, <2>1
    <3>2. f[q] = Quote
      BY <1>8, <1>9, <3>1 DEF FirstAt
    <3> QED
      BY <1>7, <3>1, <3>2
  <2>4. Len(Before(f, Quote)) = n
    BY <1>8 DEF IsFirst
  <2>5. n <= Len(g)
    BY <2>1, <1>6, LenProperties
  <2> QED
    BY <2>1, <2>2, <2>3, <2>4, <2>5 DEF FirstAt, IsFirst
<1>11. PICK k : FirstAt(g, Quote, k) /\ IsFirst(Before(g, Quote), g, k)
                /\ Before(g, Quote) \in Seq(Plain \ {Quote})
  BY <1>6, BeforeIs
<1>12. k = n
  BY <1>6, <1>10, <1>11, FirstIsOne
<1>13. Before(g, Quote) = Before(f, Quote)
  BY <1>8, <1>10, <1>11, <1>12, SameFirst
<1> QED
  BY <1>2, <1>3, <1>13 DEF Target

LEMMA PlacesBehind ==
  ASSUME NEW a \in Seq(Plain), NEW b \in Seq(Plain), NEW c, IsJoin(c, a, b, Plain),
         NEW i \in 1..Len(b), NEW k, k = Len(a) + i
  PROVE  /\ k \in LinkPlaces(c) <=> i \in LinkPlaces(b)
         /\ i \in LinkPlaces(b) => Target(c, k) = Target(b, i)
<1>1. /\ Len(a) \in Nat /\ Len(b) \in Nat /\ Len(c) = Len(a) + Len(b)
      /\ c \in Seq(Plain)
      /\ \A j \in 1..(Len(a) + Len(b)) :
           c[j] = IF j <= Len(a) THEN a[j] ELSE b[j - Len(a)]
  BY LenProperties DEF IsJoin
<1>2. ASSUME NEW j \in 1..Len(b), NEW q, q = Len(a) + j PROVE c[q] = b[j]
  <2>1. q \in 1..(Len(a) + Len(b)) /\ ~ (q <= Len(a)) /\ q - Len(a) = j
    BY <1>1, <1>2
  <2> QED
    BY <1>1, <2>1
<1>3. k \in LinkPlaces(c) <=> i \in LinkPlaces(b)
  <2>1. k \in 1..(Len(c) - 1) <=> i \in 1..(Len(b) - 1)
    BY <1>1
  <2>2. c[k] = b[i]
    BY <1>2
  <2>3. ASSUME i \in 1..(Len(b) - 1) PROVE c[k + 1] = b[i + 1]
    <3>1. PICK j \in 1..Len(b) : j = i + 1
      BY <1>1, <2>3
    <3>2. PICK q : q = k + 1
      OBVIOUS
    <3>3. q = Len(a) + j
      BY <1>1, <3>1, <3>2
    <3> QED
      BY <1>2, <3>1, <3>2, <3>3
  <2>4. PICK x : x = c[k + 1]
    OBVIOUS
  <2>5. PICK y : y = b[i + 1]
    OBVIOUS
  <2>6. k \in LinkPlaces(c) <=>
          k \in 1..(Len(c) - 1) /\ c[k] = "<a" /\ x = " href=\""
    BY <2>4, PlaceIs
  <2>7. i \in LinkPlaces(b) <=>
          i \in 1..(Len(b) - 1) /\ b[i] = "<a" /\ y = " href=\""
    BY <2>5, PlaceIs
  <2> QED
    BY ONLY <2>1, <2>2, <2>3, <2>4, <2>5, <2>6, <2>7
<1>4. ASSUME i \in LinkPlaces(b) PROVE Target(c, k) = Target(b, i)
  <2>1. PICK f : f = SubSeq(b, i + 2, Len(b))
    OBVIOUS
  <2>2. PICK g : g = SubSeq(c, k + 2, Len(c))
    OBVIOUS
  <2>3. PICK m \in Nat : m = i + 2
    BY <1>1
  <2>4. PICK n \in Nat : n = k + 2
    BY <1>1
  <2>5. /\ f \in Seq(Plain) /\ Len(f) = Len(b) - m + 1
        /\ \A j \in 1..(Len(b) - m + 1) : f[j] = b[m - 1 + j]
    BY <1>4, <2>1, <2>3, BehindPlace DEF IsRest
  <2>6. /\ g \in Seq(Plain) /\ Len(g) = Len(c) - n + 1
        /\ \A j \in 1..(Len(c) - n + 1) : g[j] = c[n - 1 + j]
    BY <1>1, <1>3, <1>4, <2>2, <2>4, BehindPlace DEF IsRest
  <2>7. Len(f) = Len(g) /\ Len(f) \in Nat
    BY <1>1, <2>3, <2>4, <2>5, <2>6, LenProperties
  <2>8. ASSUME NEW j \in 1..Len(f) PROVE f[j] = g[j]
    <3>1. PICK p \in 1..Len(b) : p = m - 1 + j
      BY <1>1, <2>3, <2>5, <2>7
    <3>2. PICK q : q = n - 1 + j
      OBVIOUS
    <3>3. q = Len(a) + p
      BY <1>1, <2>3, <2>4, <2>7, <3>1, <3>2
    <3>4. c[q] = b[p]
      BY <1>2, <3>3
    <3>5. f[j] = b[p] /\ g[j] = c[q]
      BY <2>5, <2>6, <2>7, <3>1, <3>2
    <3> QED
      BY <3>4, <3>5
  <2>9. f = g
    BY <2>5, <2>6, <2>7, <2>8, SeqEqual
  <2> QED
    BY <2>1, <2>2, <2>9 DEF Target
<1> QED
  BY <1>3, <1>4

LEMMA TargetsSplit ==
  ASSUME NEW a \in Seq(Plain), NEW b \in Seq(Plain), Apart(a)
  PROVE  Targets(a \o b) = Targets(a) \o Targets(b)
<1>1. PICK c : c = a \o b
  OBVIOUS
<1>2. IsJoin(c, a, b, Plain)
  BY <1>1, Joins
<1>3. c \in Seq(Plain) /\ Len(c) = Len(a) + Len(b) /\ Len(a) \in Nat /\ Len(b) \in Nat
  BY <1>2, LenProperties DEF IsJoin
<1>4. PICK A \in Seq(Seq(Seq(Plain))) : A = TargetsAt(a)
  BY TargetsAtIs
<1>5. PICK B \in Seq(Seq(Seq(Plain))) : B = TargetsAt(b)
  BY TargetsAtIs
<1>6. PICK C \in Seq(Seq(Seq(Plain))) : C = TargetsAt(c)
  BY <1>3, TargetsAtIs
<1>7. /\ Len(A) = Len(a) /\ Targets(a) = Flattened(A)
      /\ \A i \in 1..Len(a) :
           A[i] = IF i \in LinkPlaces(a) THEN <<Target(a, i)>> ELSE <<>>
  BY <1>4, TargetsAtIs
<1>8. /\ Len(B) = Len(b) /\ Targets(b) = Flattened(B)
      /\ \A i \in 1..Len(b) :
           B[i] = IF i \in LinkPlaces(b) THEN <<Target(b, i)>> ELSE <<>>
  BY <1>5, TargetsAtIs
<1>9. /\ Len(C) = Len(c) /\ Targets(c) = Flattened(C)
      /\ \A i \in 1..Len(c) :
           C[i] = IF i \in LinkPlaces(c) THEN <<Target(c, i)>> ELSE <<>>
  BY <1>3, <1>6, TargetsAtIs
<1>10. PICK D : D = A \o B
  OBVIOUS
<1>11. IsJoin(D, A, B, Seq(Seq(Plain)))
  BY <1>10, Joins
<1>12. /\ D \in Seq(Seq(Seq(Plain))) /\ Len(D) = Len(c)
       /\ \A i \in 1..Len(c) : D[i] = IF i <= Len(a) THEN A[i] ELSE B[i - Len(a)]
  BY <1>3, <1>7, <1>8, <1>11 DEF IsJoin
<1>13. ASSUME NEW i \in 1..Len(c) PROVE C[i] = D[i]
  <2>1. CASE i <= Len(a)
    <3>1. i \in 1..Len(a) /\ D[i] = A[i]
      BY <1>3, <1>12, <2>1
    <3>2. i \in LinkPlaces(c) <=> i \in LinkPlaces(a)
      BY <1>2, <3>1, PlacesBefore
    <3>3. i \in LinkPlaces(a) => Target(c, i) = Target(a, i)
      BY <1>2, <3>2, TargetBefore DEF Apart
    <3> QED
      BY <1>7, <1>9, <3>1, <3>2, <3>3
  <2>2. CASE ~ (i <= Len(a))
    <3>1. PICK j \in 1..Len(b) : j = i - Len(a) /\ i = Len(a) + j
      <4>1. i \in 1..(Len(a) + Len(b))
        BY <1>3
      <4> QED
        BY <1>3, <2>2, <4>1, Offset
    <3>2. D[i] = B[j]
      BY <1>12, <2>2, <3>1
    <3>3. /\ i \in LinkPlaces(c) <=> j \in LinkPlaces(b)
          /\ j \in LinkPlaces(b) => Target(c, i) = Target(b, j)
      BY <1>2, <3>1, PlacesBehind
    <3> QED
      BY <1>8, <1>9, <3>2, <3>3
  <2> QED
    BY <2>1, <2>2
<1>14. C = D
  BY <1>9, <1>12, <1>13, SeqEqual
<1>15. Flattened(A \o B) = Flattened(A) \o Flattened(B)
  BY FlatConcat
<1> QED
  BY <1>1, <1>7, <1>8, <1>9, <1>10, <1>14, <1>15

LEMMA ApartJoin ==
  ASSUME NEW a \in Seq(Plain), NEW b \in Seq(Plain), Apart(a), Apart(b)
  PROVE  Apart(a \o b)
<1>1. PICK c : c = a \o b
  OBVIOUS
<1>2. IsJoin(c, a, b, Plain)
  BY <1>1, Joins
<1>3. /\ c \in Seq(Plain) /\ Len(c) = Len(a) + Len(b)
      /\ Len(a) \in Nat /\ Len(b) \in Nat
      /\ \A j \in 1..Len(c) : c[j] = IF j <= Len(a) THEN a[j] ELSE b[j - Len(a)]
  BY <1>2, LenProperties DEF IsJoin
<1>4. ASSUME NEW i \in LinkPlaces(c)
      PROVE  \E j \in (i + 2)..Len(c) : c[j] = Quote
  <2>1. i \in 1..Len(c)
    BY <1>3, <1>4, PlacesIn
  <2>2. CASE i <= Len(a)
    <3>1. i \in LinkPlaces(a)
      BY <1>2, <1>3, <1>4, <2>1, <2>2, PlacesBefore
    <3>2. PICK j \in (i + 2)..Len(a) : a[j] = Quote
      BY <3>1 DEF Apart, Closed
    <3>3. j \in (i + 2)..Len(c) /\ j \in 1..Len(c) /\ j <= Len(a)
      BY <1>3, <2>1, <3>2
    <3> QED
      BY <1>3, <3>2, <3>3
  <2>3. CASE ~ (i <= Len(a))
    <3>1. PICK k \in 1..Len(b) : k = i - Len(a) /\ i = Len(a) + k
      BY <1>3, <2>1, <2>3, Offset
    <3>2. k \in LinkPlaces(b)
      BY <1>2, <1>4, <3>1, PlacesBehind
    <3>3. PICK j \in (k + 2)..Len(b) : b[j] = Quote
      BY <3>2 DEF Apart, Closed
    <3>4. PICK q \in (i + 2)..Len(c) :
            q \in 1..Len(c) /\ ~ (q <= Len(a)) /\ q - Len(a) = j
      <4>1. /\ Len(a) + j \in (i + 2)..Len(c) /\ Len(a) + j \in 1..Len(c)
            /\ ~ (Len(a) + j <= Len(a)) /\ Len(a) + j - Len(a) = j
        BY <1>3, <3>1, <3>3
      <4> QED
        BY <4>1
    <3> QED
      BY <1>3, <3>3, <3>4
  <2> QED
    BY <2>2, <2>3
<1>5. ASSUME c # <<>> PROVE c[Len(c)] # "<a"
  <2>1. CASE b = <<>>
    <3>1. c = a
      BY <1>1, <2>1, ConcatEmptySeq
    <3> QED
      BY <1>5, <3>1 DEF Apart
  <2>2. CASE b # <<>>
    <3>1. Len(b) > 0 /\ b[Len(b)] # "<a"
      BY <1>3, <2>2, EmptySeq DEF Apart
    <3>2. PICK n \in 1..Len(c) : n = Len(c) /\ ~ (n <= Len(a)) /\ n - Len(a) = Len(b)
      BY <1>3, <3>1
    <3> QED
      BY <1>3, <3>1, <3>2
  <2> QED
    BY <2>1, <2>2
<1> QED
  BY <1>1, <1>4, <1>5 DEF Apart, Closed

LEMMA HandedJoin ==
  ASSUME NEW s \in Seq(Seq(Plain)), NEW t \in Seq(Seq(Plain))
  PROVE  Handed(s \o t) = Handed(s) \o Handed(t)
<1>1. PICK u : u = s \o t
  OBVIOUS
<1>2. /\ u \in Seq(Seq(Plain)) /\ Len(u) = Len(s) + Len(t)
      /\ Len(s) \in Nat /\ Len(t) \in Nat
      /\ \A i \in 1..(Len(s) + Len(t)) :
           u[i] = IF i <= Len(s) THEN s[i] ELSE t[i - Len(s)]
  <2>1. IsJoin(u, s, t, Seq(Plain))
    BY <1>1, Joins
  <2> QED
    BY <2>1, LenProperties DEF IsJoin
<1>3. PICK a \in Seq(Seq(Plain)) : a = Handed(s)
  BY HandedType
<1>4. PICK b \in Seq(Seq(Plain)) : b = Handed(t)
  BY HandedType
<1>5. PICK c \in Seq(Seq(Plain)) : c = Handed(u)
  BY <1>2, HandedType
<1>6. /\ Len(a) = Len(s) /\ Len(b) = Len(t) /\ Len(c) = Len(u)
      /\ \A i \in 1..Len(s) : a[i] = Stripped(s[i])
      /\ \A i \in 1..Len(t) : b[i] = Stripped(t[i])
      /\ \A i \in 1..Len(u) : c[i] = Stripped(u[i])
  BY <1>2, <1>3, <1>4, <1>5, HandedType
<1>7. PICK d : d = a \o b
  OBVIOUS
<1>8. /\ d \in Seq(Seq(Plain)) /\ Len(d) = Len(u)
      /\ \A i \in 1..Len(u) : d[i] = IF i <= Len(s) THEN a[i] ELSE b[i - Len(s)]
  <2>1. IsJoin(d, a, b, Seq(Plain))
    BY <1>7, Joins
  <2> QED
    BY <1>2, <1>6, <2>1 DEF IsJoin
<1>9. ASSUME NEW i \in 1..Len(u) PROVE c[i] = d[i]
  <2>1. CASE i <= Len(s)
    <3>1. i \in 1..Len(s) /\ u[i] = s[i] /\ d[i] = a[i]
      BY <1>2, <1>8, <2>1
    <3> QED
      BY <1>6, <3>1
  <2>2. CASE ~ (i <= Len(s))
    <3>0. Len(s) \in Nat /\ Len(t) \in Nat /\ i \in 1..(Len(s) + Len(t))
      BY <1>2
    <3>1. PICK j \in 1..Len(t) : j = i - Len(s) /\ i = Len(s) + j
      BY ONLY <2>2, <3>0, Offset
    <3>2. u[i] = t[j] /\ d[i] = b[j]
      BY <1>2, <1>8, <2>2, <3>1
    <3> QED
      BY <1>6, <3>2
  <2> QED
    BY <2>1, <2>2
<1>10. c = d
  BY <1>6, <1>8, <1>9, SeqEqual
<1> QED
  BY <1>1, <1>3, <1>4, <1>5, <1>7, <1>10

(* No place, no link. *)
LEMMA NoPlaces ==
  ASSUME NEW t \in Seq(Plain), LinkPlaces(t) = {}
  PROVE  Targets(t) = <<>> /\ LinksIn[t] = <<>>
<1>1. PICK T \in Seq(Seq(Plain)) : T = Targets(t)
  BY TargetsAre
<1>2. T = <<>>
  <2>1. ~ \E k \in 1..Len(T) : TRUE
    BY <1>1, TargetsAre
  <2>2. Len(T) \in Nat
    BY LenProperties
  <2>3. Len(T) = 0
    <3> SUFFICES ASSUME Len(T) # 0 PROVE FALSE
      OBVIOUS
    <3>1. 1 \in 1..Len(T)
      BY <2>2
    <3> QED
      BY <2>1, <3>1
  <2> QED
    BY <2>3, EmptySeq
<1>3. LinksIn[t] = Handed(T)
  BY <1>1 DEF LinksIn
<1>4. Handed(T) \in Seq(Seq(Plain)) /\ Len(Handed(T)) = 0
  BY <1>2, HandedType
<1>5. Handed(T) = <<>>
  BY <1>4, EmptySeq
<1> QED
  BY <1>1, <1>2, <1>3, <1>5

LEMMA EmptyHasNoPlace == <<>> \in Seq(Plain) /\ LinkPlaces(<<>>) = {}
<1>1. PICK t : t = <<>>
  OBVIOUS
<1>2. t \in Seq(Plain) /\ Len(t) = 0
  BY <1>1
<1>3. ASSUME NEW i \in LinkPlaces(t) PROVE FALSE
  <2>1. i \in 1..Len(t)
    BY <1>2, <1>3, PlacesIn
  <2> QED
    BY <1>2, <2>1
<1> QED
  BY <1>1, <1>2, <1>3

LEMMA LinksSplit ==
  ASSUME NEW a \in Seq(Plain), NEW b \in Seq(Plain), Apart(a)
  PROVE  LinksIn[a \o b] = LinksIn[a] \o LinksIn[b]
<1>1. PICK c \in Seq(Plain) : c = a \o b
  BY ConcatProperties
<1>2. LinksIn[c] = Handed(Targets(c)) /\ LinksIn[a] = Handed(Targets(a))
      /\ LinksIn[b] = Handed(Targets(b))
  BY DEF LinksIn
<1>3. PICK S \in Seq(Seq(Plain)) : S = Targets(a)
  BY TargetsAre
<1>4. PICK T \in Seq(Seq(Plain)) : T = Targets(b)
  BY TargetsAre
<1>5. Targets(c) = S \o T
  BY <1>1, <1>3, <1>4, TargetsSplit
<1>6. Handed(S \o T) = Handed(S) \o Handed(T)
  BY HandedJoin
<1> QED
  BY <1>1, <1>2, <1>3, <1>4, <1>5, <1>6

LEMMA LinksConcat ==
  ASSUME NEW s \in Seq(Seq(Plain)), NEW t \in Seq(Seq(Plain))
  PROVE  /\ Piecewise(LinksIn, s) \in Seq(Seq(Plain))
         /\ Piecewise(LinksIn, s \o t) = Piecewise(LinksIn, s) \o Piecewise(LinksIn, t)
<1>1. IsMap(LinksIn, Seq(Plain), Seq(Plain))
  BY LinksInType DEF IsMap
<1>2. Piecewise(LinksIn, s) \in Seq(Seq(Plain)) /\ Distributes(LinksIn, s, t)
  BY <1>1, PiecewiseConcat
<1> QED
  BY <1>2 DEF Distributes

LEMMA LinksOne ==
  ASSUME NEW x \in Seq(Plain)
  PROVE  <<x>> \in Seq(Seq(Plain)) /\ Piecewise(LinksIn, <<x>>) = LinksIn[x]
<1>1. <<x>> \in Seq(Seq(Plain))
  OBVIOUS
<1> QED
  BY <1>1, LinksInType, PiecewiseStart

LEMMA LinksOneMore ==
  ASSUME NEW s \in Seq(Seq(Plain)), NEW x \in Seq(Plain)
  PROVE  /\ Piecewise(LinksIn, s \o <<x>>) = Piecewise(LinksIn, s) \o LinksIn[x]
         /\ Piecewise(LinksIn, <<x>> \o s) = LinksIn[x] \o Piecewise(LinksIn, s)
<1>1. PICK o : o = <<x>>
  OBVIOUS
<1>2. o \in Seq(Seq(Plain)) /\ Piecewise(LinksIn, o) = LinksIn[x]
  BY <1>1, LinksOne
<1>3. Piecewise(LinksIn, s \o o) = Piecewise(LinksIn, s) \o Piecewise(LinksIn, o)
  BY <1>2, LinksConcat
<1>4. Piecewise(LinksIn, o \o s) = Piecewise(LinksIn, o) \o Piecewise(LinksIn, s)
  BY <1>2, LinksConcat
<1> QED
  BY <1>1, <1>2, <1>3, <1>4

ApartTexts == {t \in Seq(Plain) : Apart(t)}

LEMMA LinksOfLines ==
  ASSUME NEW s \in Seq(ApartTexts)
  PROVE  /\ Flattened(s) \in ApartTexts
         /\ LinksIn[Flattened(s)] = Piecewise(LinksIn, s)
<1> DEFINE Good(u) == /\ Flattened(u) \in ApartTexts
                      /\ LinksIn[Flattened(u)] = Piecewise(LinksIn, u)
           T == {n \in Nat : \A u \in Seq(ApartTexts) : Len(u) = n => Good(u)}
<1>1. 0 \in T
  <2> SUFFICES ASSUME NEW u \in Seq(ApartTexts), Len(u) = 0 PROVE Good(u)
    OBVIOUS
  <2>1. u = <<>>
    BY EmptySeq
  <2>2. Flattened(u) = <<>> /\ Piecewise(LinksIn, u) = <<>>
    BY <2>1, FlatStart, PiecewiseStart
  <2>3. <<>> \in ApartTexts
    BY EmptyHasNoPlace DEF ApartTexts, Apart, Closed
  <2>4. LinksIn[<<>>] = <<>>
    BY EmptyHasNoPlace, NoPlaces
  <2> QED
    BY <2>2, <2>3, <2>4
<1>2. ASSUME NEW n \in Nat, n \in T PROVE n + 1 \in T
  <2> SUFFICES ASSUME NEW u \in Seq(ApartTexts), Len(u) = n + 1 PROVE Good(u)
    OBVIOUS
  <2>1. PICK f \in Seq(ApartTexts), x \in ApartTexts : u = Append(f, x) /\ Len(f) = n
    BY LastApart
  <2>2. Good(f)
    BY <1>2, <2>1
  <2>3. f \in Seq(Seq(Plain)) /\ x \in Seq(Plain)
    <3>1. ApartTexts \subseteq Seq(Plain)
      BY DEF ApartTexts
    <3>2. \A i \in 1..Len(f) : f[i] \in Seq(Plain)
      BY <3>1, ElementOfSeq
    <3> QED
      BY <3>1, <3>2, LenProperties
  <2>4. PICK a \in Seq(Plain) : a = Flattened(f)
    BY <2>3, FlatType
  <2>5. Flattened(u) = a \o x
    BY <2>1, <2>3, <2>4, FlatAppend
  <2>6. Apart(a) /\ Apart(x)
    BY <2>2, <2>4 DEF ApartTexts
  <2>7. a \o x \in ApartTexts
    BY <2>3, <2>6, ApartJoin, ConcatProperties DEF ApartTexts
  <2>8. LinksIn[a \o x] = LinksIn[a] \o LinksIn[x]
    BY <2>3, <2>6, LinksSplit
  <2>9. u = f \o <<x>>
    BY <2>1, AppendIsConcat
  <2>10. Piecewise(LinksIn, f \o <<x>>) = Piecewise(LinksIn, f) \o LinksIn[x]
    BY <2>3, LinksOneMore
  <2> QED
    BY <2>2, <2>4, <2>5, <2>7, <2>8, <2>9, <2>10
<1> HIDE DEF T
<1>3. \A n \in Nat : n \in T
  <2>1. T \in SUBSET Nat
    BY DEF T
  <2> QED
    BY <1>1, <1>2, <2>1, SetInduction
<1> QED
  BY <1>3, LenProperties DEF T

(* Lines that fgets cuts only where nothing is cut with them. *)
Fits(line) ==
  /\ LinkPlaces(line) # {} => Len(line) < BUFFERSIZE
  /\ \A i \in LinkPlaces(line) : Target(line, i) \notin Bad
FitTexts == {t \in Seq(Plain) : Fits(t)}

LEMMA NoPlaceInPart ==
  ASSUME NEW t \in Seq(Plain), LinkPlaces(t) = {},
         NEW s \in Seq(Plain), NEW m \in Nat, Len(s) + m <= Len(t),
         \A i \in 1..Len(s) : s[i] = t[m + i]
  PROVE  LinkPlaces(s) = {}
<1> SUFFICES ASSUME NEW i \in LinkPlaces(s) PROVE FALSE
  OBVIOUS
<1>1. /\ i \in 1..(Len(s) - 1) /\ s[i] = "<a" /\ s[i + 1] = " href=\""
      /\ Len(s) \in Nat /\ Len(t) \in Nat
  BY PlaceIs, LenProperties
<1>2. PICK k : k = m + i
  OBVIOUS
<1>3. k \in 1..(Len(t) - 1) /\ i \in 1..Len(s) /\ i + 1 \in 1..Len(s) /\ m + (i + 1) = k + 1
  <2>1. i \in 1..(Len(s) - 1) /\ Len(s) \in Nat /\ Len(t) \in Nat /\ Len(s) + m <= Len(t)
    BY <1>1
  <2> QED
    BY ONLY <1>2, <2>1, m \in Nat
<1>4. t[k] = s[i]
  BY <1>2, <1>3
<1>5. PICK j \in 1..Len(s) : j = i + 1
  BY <1>3
<1>6. s[j] = t[m + j] /\ m + j = k + 1
  BY <1>3, <1>5
<1>7. t[k + 1] = s[i + 1]
  BY <1>5, <1>6
<1>8. k \in LinkPlaces(t)
  BY <1>1, <1>3, <1>4, <1>7, PlaceIs
<1> QED
  BY <1>8

LEMMA LinksOfPiece ==
  ASSUME NEW line \in FitTexts
  PROVE  /\ Piece(line) \in FitTexts /\ Left(line) \in FitTexts
         /\ LinksIn[line] = LinksIn[Piece(line)] \o LinksIn[Left(line)]
<1>0. line \in Seq(Plain) /\ Fits(line)
  BY DEF FitTexts
<1>1. PICK p \in Seq(Plain) : p = Piece(line)
  BY <1>0, PieceIs
<1>2. PICK l \in Seq(Plain) : l = Left(line)
  BY <1>0, PieceIs
<1>3. LinksIn[line] \in Seq(Seq(Plain)) /\ <<>> \in Seq(Seq(Plain))
  BY <1>0, LinksInType
<1>4. CASE LinkPlaces(line) = {}
  <2>0. Len(p) \in Nat /\ Len(l) \in Nat /\ Len(line) \in Nat
    BY <1>0, LenProperties
  <2>1. LinkPlaces(p) = {}
    <3>1. Len(p) + 0 <= Len(line) /\ \A i \in 1..Len(p) : p[i] = line[0 + i]
      BY <1>0, <1>1, <2>0, PieceIs DEF IsFirst
    <3> QED
      BY <1>0, <1>4, <3>1, NoPlaceInPart
  <2>2. LinkPlaces(l) = {}
    <3>1. IsRest(l, line, Len(p) + 1, Plain) /\ Len(p) <= Len(line)
      BY <1>0, <1>1, <1>2, PieceIs
    <3>2. Len(l) + Len(p) = Len(line) /\ \A i \in 1..Len(l) : l[i] = line[Len(p) + i]
      BY <2>0, <3>1 DEF IsRest
    <3> QED
      BY <1>0, <1>4, <2>0, <3>2, NoPlaceInPart
  <2>3. LinksIn[line] = <<>> /\ LinksIn[p] = <<>> /\ LinksIn[l] = <<>>
    BY <1>0, <1>4, <2>1, <2>2, NoPlaces
  <2>4. <<>> \o <<>> = <<>>
    BY <1>3, ConcatEmptySeq
  <2>5. p \in FitTexts /\ l \in FitTexts
    BY <2>1, <2>2 DEF FitTexts, Fits
  <2> QED
    BY <1>1, <1>2, <2>3, <2>4, <2>5
<1>5. CASE LinkPlaces(line) # {}
  <2>1. p = line /\ l = <<>>
    BY <1>0, <1>1, <1>2, <1>5, PieceIs DEF Fits
  <2>2. LinksIn[l] = <<>> /\ l \in FitTexts
    BY <2>1, EmptyHasNoPlace, NoPlaces DEF FitTexts, Fits
  <2>3. LinksIn[line] \o <<>> = LinksIn[line]
    BY <1>3, ConcatEmptySeq
  <2> QED
    BY <1>1, <1>2, <2>1, <2>2, <2>3
<1> QED
  BY <1>4, <1>5

-----------------------------------------------------------------------------
(* A page on its way.  S is what the crawler can read, behind h the pieces *)
(* ps of the page, v what it has saved, f the links it has followed and r  *)
(* the lines still to be sent; together they are always the whole page n.  *)
Moving(S, v, f, r, n, h, ps) ==
  /\ ps \in Seq(Pieces)
  /\ S = h \o Piecewise(ChunkOf, ps)
  /\ (v \o Flattened(ps)) \o Flattened(r) = Flattened(Text[n])
  /\ LinksFit[n] =>
       /\ ps \in Seq(FitTexts) /\ r \in Seq(FitTexts)
       /\ (f \o Piecewise(LinksIn, ps)) \o Piecewise(LinksIn, r) = LinksOf[n]

LEMMA PiecesAre ==
  ASSUME NEW ps \in Seq(Pieces)
  PROVE  ps \in Seq(Seq(Plain)) /\ Flattened(ps) \in Seq(Plain)
         /\ Piecewise(ChunkOf, ps) \in Seq(Symbols)
<1>1. \A i \in 1..Len(ps) : ps[i] \in Seq(Plain)
  BY ElementOfSeq DEF Pieces
<1>2. ps \in Seq(Seq(Plain))
  BY <1>1, LenProperties
<1>3. IsMap(ChunkOf, Pieces, Symbols)
  BY ChunkOfType DEF IsMap
<1>4. Piecewise(ChunkOf, ps) \in Seq(Symbols)
  BY <1>3, PiecewiseConcat
<1> QED
  BY <1>2, <1>4, FlatType

LEMMA ChunksOne ==
  ASSUME NEW p \in Pieces
  PROVE  <<p>> \in Seq(Pieces) /\ Piecewise(ChunkOf, <<p>>) = Chunk(p)
<1>1. <<p>> \in Seq(Pieces)
  OBVIOUS
<1>2. Piecewise(ChunkOf, <<p>>) = ChunkOf[p]
  BY ChunkOfType, PiecewiseStart
<1> QED
  BY <1>1, <1>2 DEF ChunkOf

LEMMA ChunksConcat ==
  ASSUME NEW s \in Seq(Pieces), NEW t \in Seq(Pieces)
  PROVE  Piecewise(ChunkOf, s \o t) = Piecewise(ChunkOf, s) \o Piecewise(ChunkOf, t)
<1>1. IsMap(ChunkOf, Pieces, Symbols)
  BY ChunkOfType DEF IsMap
<1>2. Distributes(ChunkOf, s, t)
  BY <1>1, PiecewiseConcat
<1> QED
  BY <1>2 DEF Distributes

LEMMA FlatOneMore ==
  ASSUME NEW s \in Seq(Seq(Plain)), NEW x \in Seq(Plain)
  PROVE  /\ Flattened(s \o <<x>>) = Flattened(s) \o x
         /\ Flattened(<<x>> \o s) = x \o Flattened(s)
<1>1. PICK o : o = <<x>>
  OBVIOUS
<1>2. o \in Seq(Seq(Plain)) /\ Flattened(o) = x
  BY <1>1, FlatStart
<1>3. Flattened(s \o o) = Flattened(s) \o Flattened(o)
  BY <1>2, FlatConcat
<1>4. Flattened(o \o s) = Flattened(o) \o Flattened(s)
  BY <1>2, FlatConcat
<1> QED
  BY <1>1, <1>2, <1>3, <1>4

(* A line is its piece and what is left. *)
LEMMA PieceAndLeft ==
  ASSUME NEW line \in Seq(Plain)
  PROVE  line = Piece(line) \o Left(line)
<1>1. PICK p \in Seq(Plain) : p = Piece(line)
  BY PieceIs
<1>2. PICK l \in Seq(Plain) : l = Left(line)
  BY PieceIs
<1>3. IsFirst(p, line, Len(p)) /\ IsRest(l, line, Len(p) + 1, Plain)
  BY <1>1, <1>2, PieceIs
<1>4. Len(p) \in Nat /\ Len(l) \in Nat /\ Len(line) \in Nat
  BY LenProperties
<1>5. PICK j : j = p \o l
  OBVIOUS
<1>6. /\ j \in Seq(Plain) /\ Len(j) = Len(p) + Len(l)
      /\ \A i \in 1..(Len(p) + Len(l)) : j[i] = IF i <= Len(p) THEN p[i] ELSE l[i - Len(p)]
  <2>1. IsJoin(j, p, l, Plain)
    BY <1>5, Joins
  <2> QED
    BY <2>1 DEF IsJoin
<1>7. Len(line) = Len(p) + Len(l)
  BY <1>3, <1>4 DEF IsRest
<1>8. ASSUME NEW i \in 1..Len(line) PROVE j[i] = line[i]
  <2>1. CASE i <= Len(p)
    <3>1. i \in 1..Len(p) /\ j[i] = p[i]
      BY <1>4, <1>6, <1>7, <2>1
    <3> QED
      BY <1>3, <3>1 DEF IsFirst
  <2>2. CASE ~ (i <= Len(p))
    <3>0. i \in 1..(Len(p) + Len(l))
      BY <1>7
    <3>1. PICK k \in 1..Len(l) : k = i - Len(p) /\ i = Len(p) + k
      BY <1>4, <2>2, <3>0, Offset
    <3>2. j[i] = l[k]
      BY <1>6, <2>2, <3>0, <3>1
    <3>3. PICK m : m = Len(p) + 1
      OBVIOUS
    <3>4. k \in 1..(Len(line) - m + 1) /\ m - 1 + k = i
      BY <1>4, <1>7, <3>1, <3>3
    <3>5. l[k] = line[m - 1 + k]
      BY <1>3, <3>3, <3>4 DEF IsRest
    <3> QED
      BY <3>2, <3>4, <3>5
  <2> QED
    BY <2>1, <2>2
<1>9. j = line
  BY <1>6, <1>7, <1>8, SeqEqual
<1> QED
  BY <1>1, <1>2, <1>5, <1>9

(* Sending a line moves its piece out of what is still to be sent. *)
LEMMA Sending ==
  ASSUME NEW r \in Seq(Seq(Plain)), r # <<>>,
         NEW p, p = Piece(Head(r)), NEW s, s = LinesLeft(r)
  PROVE  /\ p \in Pieces /\ p \in Seq(Plain) /\ s \in Seq(Seq(Plain))
         /\ Flattened(r) = p \o Flattened(s)
         /\ r \in Seq(FitTexts) =>
              /\ p \in FitTexts /\ s \in Seq(FitTexts)
              /\ Piecewise(LinksIn, r) = LinksIn[p] \o Piecewise(LinksIn, s)
<1>1. PICK h \in Seq(Plain) : h = Head(r)
  BY LinesLeftType
<1>2. PICK q \in Seq(Seq(Plain)) : q = Tail(r)
  BY LinesLeftType
<1>3. r = <<h>> \o q /\ s \in Seq(Seq(Plain))
  BY <1>1, <1>2, LinesLeftType
<1>4. p = Piece(h)
  BY <1>1
<1>5. p \in Pieces /\ p \in Seq(Plain)
  BY <1>4, PieceIs DEF Pieces
<1>6. PICK l \in Seq(Plain) : l = Left(h)
  BY PieceIs
<1>7. h = p \o l
  BY <1>4, <1>6, PieceAndLeft
<1>8. s = (IF l = <<>> THEN <<>> ELSE <<l>>) \o q
  BY <1>1, <1>2, <1>6 DEF LinesLeft
<1>9. l = <<>> => s = q
  <2>1. <<>> \o q = q
    BY ConcatEmptySeq
  <2> QED
    BY <1>8, <2>1
<1>10. l # <<>> => s = <<l>> \o q
  BY <1>8
<1>11. Flattened(s) = l \o Flattened(q)
  <2>1. CASE l = <<>>
    <3>1. Flattened(q) \in Seq(Plain)
      BY FlatType
    <3>2. <<>> \o Flattened(q) = Flattened(q)
      BY <3>1, ConcatEmptySeq
    <3> QED
      BY <1>9, <2>1, <3>2
  <2>2. CASE l # <<>>
    BY <1>10, <2>2, FlatOneMore
  <2> QED
    BY <2>1, <2>2
<1>12. Flattened(r) = p \o Flattened(s)
  <2>1. PICK g \in Seq(Plain) : g = Flattened(q)
    BY FlatType
  <2>2. Flattened(r) = h \o g
    BY <1>3, <2>1, FlatOneMore
  <2>3. Together(p, l, g)
    BY <1>5, PutTogether
  <2> QED
    BY <1>7, <1>11, <2>1, <2>2, <2>3 DEF Together
<1>13. ASSUME r \in Seq(FitTexts)
       PROVE  /\ p \in FitTexts /\ s \in Seq(FitTexts)
              /\ Piecewise(LinksIn, r) = LinksIn[p] \o Piecewise(LinksIn, s)
  <2>1. h \in FitTexts /\ q \in Seq(FitTexts)
    BY <1>1, <1>2, <1>13, HeadTailProperties
  <2>2. p \in FitTexts /\ l \in FitTexts /\ LinksIn[h] = LinksIn[p] \o LinksIn[l]
    BY <1>4, <1>6, <2>1, LinksOfPiece
  <2>3. s \in Seq(FitTexts)
    <3>1. CASE l = <<>>
      BY <1>9, <2>1, <3>1
    <3>2. CASE l # <<>>
      <4>1. <<l>> \in Seq(FitTexts)
        BY <2>2
      <4>2. <<l>> \o q \in Seq(FitTexts)
        BY <2>1, <4>1, ConcatProperties
      <4> QED
        BY <1>10, <3>2, <4>2
    <3> QED
      BY <3>1, <3>2
  <2>4. PICK g \in Seq(Seq(Plain)) : g = Piecewise(LinksIn, q)
    BY LinksConcat
  <2>5. PICK x \in Seq(Seq(Plain)) : x = LinksIn[p]
    BY <1>5, LinksInType
  <2>6. PICK y \in Seq(Seq(Plain)) : y = LinksIn[l]
    BY LinksInType
  <2>7. Piecewise(LinksIn, s) = y \o g
    <3>1. CASE l = <<>>
      <4>1. y = <<>>
        BY <2>6, <3>1, EmptyHasNoPlace, NoPlaces
      <4>2. <<>> \o g = g
        BY ConcatEmptySeq
      <4> QED
        BY <1>9, <2>4, <3>1, <4>1, <4>2
    <3>2. CASE l # <<>>
      BY <1>10, <2>4, <2>6, <3>2, LinksOneMore
    <3> QED
      BY <3>1, <3>2
  <2>8. Piecewise(LinksIn, r) = LinksIn[h] \o g
    BY <1>3, <2>4, LinksOneMore
  <2>9. Together(x, y, g)
    BY PutTogether
  <2> QED
    BY <2>2, <2>3, <2>5, <2>6, <2>7, <2>8, <2>9 DEF Together
<1> QED
  BY <1>3, <1>5, <1>12, <1>13

LEMMA MovingSend ==
  ASSUME NEW n, NEW h \in Seq(Symbols), NEW S, NEW v \in Seq(Plain),
         NEW f \in Seq(Seq(Plain)), NEW r \in Seq(Seq(Plain)), r # <<>>, NEW ps,
         Moving(S, v, f, r, n, h, ps), NEW p, p = Piece(Head(r)),
         NEW s, s = LinesLeft(r)
  PROVE  \E qs : Moving(S \o Chunk(p), v, f, s, n, h, qs)
<1>1. /\ p \in Pieces /\ p \in Seq(Plain) /\ s \in Seq(Seq(Plain))
      /\ Flattened(r) = p \o Flattened(s)
      /\ r \in Seq(FitTexts) =>
           /\ p \in FitTexts /\ s \in Seq(FitTexts)
           /\ Piecewise(LinksIn, r) = LinksIn[p] \o Piecewise(LinksIn, s)
  BY Sending, ZenonT(60)
<1>2. ps \in Seq(Pieces) /\ ps \in Seq(Seq(Plain))
  BY PiecesAre DEF Moving
<1>3. PICK o : o = <<p>>
  OBVIOUS
<1>4. o \in Seq(Pieces) /\ Piecewise(ChunkOf, o) = Chunk(p)
  BY <1>1, <1>3, ChunksOne
<1>5. PICK qs \in Seq(Pieces) : qs = ps \o o
  BY <1>2, <1>4, ConcatProperties
<1>6. S \o Chunk(p) = h \o Piecewise(ChunkOf, qs)
  <2>1. PICK a \in Seq(Symbols) : a = Piecewise(ChunkOf, ps)
    BY <1>2, PiecesAre
  <2>2. PICK c \in Seq(Symbols) : c = Chunk(p)
    BY <1>4, PiecesAre
  <2>3. Piecewise(ChunkOf, qs) = a \o c
    BY <1>2, <1>4, <1>5, <2>1, <2>2, ChunksConcat
  <2>4. Together(h, a, c)
    BY PutTogether
  <2>5. S = h \o a
    BY <2>1 DEF Moving
  <2> QED
    BY <2>2, <2>3, <2>4, <2>5 DEF Together
<1>7. (v \o Flattened(qs)) \o Flattened(s) = Flattened(Text[n])
  <2>1. PICK a \in Seq(Plain) : a = Flattened(ps)
    BY <1>2, FlatType
  <2>2. PICK b \in Seq(Plain) : b = Flattened(s)
    BY <1>1, FlatType
  <2>3. Flattened(qs) = a \o p
    BY <1>1, <1>2, <1>3, <1>5, <2>1, FlatOneMore
  <2>4. GoesLeft(v, a, p, b)
    BY <1>1, Moved
  <2>5. (v \o a) \o (p \o b) = Flattened(Text[n])
    BY <1>1, <2>1, <2>2 DEF Moving
  <2> QED
    BY <2>2, <2>3, <2>4, <2>5 DEF GoesLeft
<1>8. ASSUME LinksFit[n]
      PROVE  /\ qs \in Seq(FitTexts) /\ s \in Seq(FitTexts)
             /\ (f \o Piecewise(LinksIn, qs)) \o Piecewise(LinksIn, s) = LinksOf[n]
  <2>1. /\ ps \in Seq(FitTexts) /\ r \in Seq(FitTexts)
        /\ (f \o Piecewise(LinksIn, ps)) \o Piecewise(LinksIn, r) = LinksOf[n]
    BY <1>8 DEF Moving
  <2>2. p \in FitTexts /\ s \in Seq(FitTexts)
    BY <1>1, <2>1
  <2>3. qs \in Seq(FitTexts)
    <3>1. o \in Seq(FitTexts)
      BY <1>3, <2>2
    <3> QED
      BY <1>5, <2>1, <3>1, ConcatProperties
  <2>4. PICK a \in Seq(Seq(Plain)) : a = Piecewise(LinksIn, ps)
    BY <1>2, LinksConcat
  <2>5. PICK b \in Seq(Seq(Plain)) : b = Piecewise(LinksIn, s)
    BY <1>1, LinksConcat
  <2>6. PICK c \in Seq(Seq(Plain)) : c = LinksIn[p]
    BY <1>1, LinksInType
  <2>7. Piecewise(LinksIn, qs) = a \o c
    BY <1>1, <1>2, <1>3, <1>5, <2>4, <2>6, LinksOneMore
  <2>8. Piecewise(LinksIn, r) = c \o b
    BY <1>1, <2>1, <2>5, <2>6
  <2>9. GoesLeft(f, a, c, b)
    BY Moved
  <2> QED
    BY <2>1, <2>2, <2>3, <2>4, <2>5, <2>7, <2>8, <2>9 DEF GoesLeft
<1>9. Moving(S \o Chunk(p), v, f, s, n, h, qs)
  BY <1>5, <1>6, <1>7, <1>8 DEF Moving
<1> QED
  BY <1>9

(* The first chunk of what the crawler can read is a piece, and reading it *)
(* moves it into what is saved.                                            *)
TakesPiece(S, v, f, r, n, p, q) ==
  /\ p \in Pieces /\ p \in Seq(Plain) /\ Len(p) <= BUFFERSIZE /\ q \in Seq(Symbols)
  /\ S = Chunk(p) \o q
  /\ LinksFit[n] => p \in FitTexts
  /\ \A g : (LinksFit[n] => g = f \o LinksIn[p]) =>
              \E qs : Moving(q, v \o p, g, r, n, <<>>, qs)

LEMMA MovingRead ==
  ASSUME NEW n, NEW S, NEW v \in Seq(Plain), NEW f \in Seq(Seq(Plain)),
         NEW r \in Seq(Seq(Plain)), NEW ps, Moving(S, v, f, r, n, <<>>, ps), S # <<>>
  PROVE  \E p, q : TakesPiece(S, v, f, r, n, p, q)
<1>1. ps \in Seq(Pieces) /\ ps \in Seq(Seq(Plain)) /\ S = Piecewise(ChunkOf, ps)
  <2>1. ps \in Seq(Pieces) /\ S = <<>> \o Piecewise(ChunkOf, ps)
    BY DEF Moving
  <2>2. PICK c \in Seq(Symbols) : c = Piecewise(ChunkOf, ps)
    BY <2>1, PiecesAre
  <2>3. <<>> \o c = c
    BY ConcatEmptySeq
  <2> QED
    BY <2>1, <2>2, <2>3, PiecesAre
<1>2. ps # <<>>
  BY <1>1, PiecewiseStart
<1>3. PICK p \in Pieces : p = Head(ps)
  BY <1>1, <1>2, HeadApart
<1>4. PICK qs \in Seq(Pieces) : qs = Tail(ps)
  BY <1>1, <1>2, HeadApart
<1>5. ps = <<p>> \o qs
  BY <1>1, <1>2, <1>3, <1>4, HeadApart
<1>6. p \in Seq(Plain) /\ Len(p) <= BUFFERSIZE /\ qs \in Seq(Seq(Plain))
  BY SizeFacts, LenProperties, PiecesAre DEF Pieces
<1>7. PICK o : o = <<p>>
  OBVIOUS
<1>8. o \in Seq(Pieces) /\ Piecewise(ChunkOf, o) = Chunk(p)
  BY <1>7, ChunksOne
<1>9. PICK q \in Seq(Symbols) : q = Piecewise(ChunkOf, qs)
  BY PiecesAre
<1>10. S = Chunk(p) \o q
  BY <1>1, <1>5, <1>7, <1>8, <1>9, ChunksConcat
<1>11. LinksFit[n] => p \in FitTexts /\ qs \in Seq(FitTexts) /\ r \in Seq(FitTexts)
  BY <1>2, <1>3, <1>4, HeadTailProperties DEF Moving
<1>12. ASSUME NEW g, LinksFit[n] => g = f \o LinksIn[p]
       PROVE  Moving(q, v \o p, g, r, n, <<>>, qs)
  <2>1. q = <<>> \o Piecewise(ChunkOf, qs)
    BY <1>9, ConcatEmptySeq
  <2>2. ((v \o p) \o Flattened(qs)) \o Flattened(r) = Flattened(Text[n])
    <3>1. PICK a \in Seq(Plain) : a = Flattened(qs)
      BY PiecesAre
    <3>2. PICK b \in Seq(Plain) : b = Flattened(r)
      BY FlatType
    <3>3. Flattened(ps) = p \o a
      BY <1>5, <1>6, <3>1, FlatOneMore
    <3>4. GoesIn(v, p, a, b)
      BY <1>6, Moved
    <3> QED
      BY <3>1, <3>2, <3>3, <3>4 DEF Moving, GoesIn
  <2>3. ASSUME LinksFit[n]
        PROVE  (g \o Piecewise(LinksIn, qs)) \o Piecewise(LinksIn, r) = LinksOf[n]
    <3>1. PICK a \in Seq(Seq(Plain)) : a = Piecewise(LinksIn, qs)
      BY <1>6, LinksConcat
    <3>2. PICK b \in Seq(Seq(Plain)) : b = Piecewise(LinksIn, r)
      BY LinksConcat
    <3>3. PICK c \in Seq(Seq(Plain)) : c = LinksIn[p]
      BY <1>6, LinksInType
    <3>4. Piecewise(LinksIn, ps) = c \o a
      BY <1>5, <1>6, <3>1, <3>3, LinksOneMore
    <3>5. GoesIn(f, c, a, b)
      BY Moved
    <3>6. (f \o Piecewise(LinksIn, ps)) \o Piecewise(LinksIn, r) = LinksOf[n]
      BY <2>3 DEF Moving
    <3> QED
      BY <1>12, <2>3, <3>1, <3>2, <3>3, <3>4, <3>5, <3>6 DEF GoesIn
  <2> QED
    BY <1>11, <2>1, <2>2, <2>3 DEF Moving
<1>13. TakesPiece(S, v, f, r, n, p, q)
  BY <1>6, <1>10, <1>11, <1>12 DEF TakesPiece
<1> QED
  BY <1>13

LEMMA MovingHeader ==
  ASSUME NEW n, NEW S, NEW v, NEW f, NEW r, NEW h, NEW ps, Moving(S, v, f, r, n, h, ps)
  PROVE  \E q \in Seq(Symbols) : S = h \o q /\ Moving(q, v, f, r, n, <<>>, ps)
<1>1. ps \in Seq(Pieces)
  BY DEF Moving
<1>2. PICK q \in Seq(Symbols) : q = Piecewise(ChunkOf, ps)
  BY <1>1, PiecesAre
<1>3. <<>> \o q = q
  BY ConcatEmptySeq
<1> QED
  BY <1>2, <1>3 DEF Moving

LEMMA MovingEnd ==
  ASSUME NEW n, NEW v \in Seq(Plain), NEW f \in Seq(Seq(Plain)), NEW ps,
         Moving(<<>>, v, f, <<>>, n, <<>>, ps)
  PROVE  v = Flattened(Text[n]) /\ (LinksFit[n] => f = LinksOf[n])
<1>1. ps \in Seq(Pieces) /\ <<>> = <<>> \o Piecewise(ChunkOf, ps)
  BY DEF Moving
<1>2. ps = <<>>
  <2> SUFFICES ASSUME ps # <<>> PROVE FALSE
    OBVIOUS
  <2>1. PICK p \in Pieces : p = Head(ps)
    BY <1>1, HeadApart
  <2>2. PICK qs \in Seq(Pieces) : qs = Tail(ps)
    BY <1>1, HeadApart
  <2>3. ps = <<p>> \o qs
    BY <1>1, <2>1, <2>2, HeadApart
  <2>4. PICK o : o = <<p>>
    OBVIOUS
  <2>5. o \in Seq(Pieces) /\ Piecewise(ChunkOf, o) = Chunk(p)
    BY <2>4, ChunksOne
  <2>6. PICK c : c = Chunk(p)
    OBVIOUS
  <2>7. c \in Seq(Symbols) /\ Len(c) = BUFFERSIZE
    BY <2>6, SizeFacts, LenProperties, ChunkIs DEF Pieces
  <2>8. PICK q \in Seq(Symbols) : q = Piecewise(ChunkOf, qs)
    BY PiecesAre
  <2>9. Piecewise(ChunkOf, ps) = c \o q
    BY <2>2, <2>3, <2>4, <2>5, <2>6, <2>8, ChunksConcat
  <2>10. PICK d \in Seq(Symbols) : d = c \o q /\ Len(d) = Len(c) + Len(q)
    BY <2>7, ConcatProperties
  <2>11. <<>> \o d = d
    BY ConcatEmptySeq
  <2>12. d = <<>>
    BY <1>1, <2>9, <2>10, <2>11
  <2>13. Len(d) = 0 /\ Len(q) \in Nat
    BY <2>12, EmptySeq, LenProperties
  <2> QED
    BY <2>7, <2>10, <2>13, SizeFacts
<1>3. Flattened(<<>>) = <<>> /\ Piecewise(LinksIn, <<>>) = <<>>
  BY FlatStart, PiecewiseStart
<1>4. v \o <<>> = v /\ f \o <<>> = f
  BY ConcatEmptySeq
<1> QED
  BY <1>2, <1>3, <1>4 DEF Moving

LEMMA WholeIs ==
  ASSUME NEW n \in DOMAIN Text
  PROVE  /\ WholeText[n] = Flattened(Text[n]) /\ WholeText[n] \in Seq(Plain)
         /\ LinksOf[n] = LinksIn[Flattened(Text[n])]
<1>1. WholeText[n] = Flattened(Text[n])
  BY DEF WholeText, FlattenSeq, Flattened, TheFlat, FlatOf
<1>2. PICK w \in Seq(Plain) : w = Flattened(Text[n])
  BY TextFacts, FlatType
<1>3. LinksOf[n] = Handed(Targets(w))
  BY <1>1, <1>2 DEF LinksOf, Handed
<1> QED
  BY <1>1, <1>2, <1>3 DEF LinksIn

LEMMA FitPages ==
  ASSUME NEW n \in DOMAIN Text, LinksFit[n]
  PROVE  Text[n] \in Seq(FitTexts) /\ Text[n] \in Seq(ApartTexts)
<1>1. /\ Text[n] \in Seq(Seq(Plain)) /\ Len(Text[n]) \in Nat
      /\ \A i \in 1..Len(Text[n]) : Text[n][i] \in Seq(Plain)
  BY TextFacts, ElementOfSeq, LenProperties
<1>2. ASSUME NEW i \in 1..Len(Text[n])
      PROVE  Text[n][i] \in FitTexts /\ Text[n][i] \in ApartTexts
  <2>1. PICK line \in Seq(Plain) : line = Text[n][i]
    BY <1>1
  <2>2. line \in ToSet(Text[n])
    BY <1>1, <2>1 DEF ToSet
  <2>3. KeepsLinks(line)
    BY <2>2 DEF LinksFit
  <2>4. Fits(line) /\ Apart(line)
    BY <2>3 DEF KeepsLinks, Fits, Apart, Closed, Bad
  <2> QED
    BY <2>1, <2>4 DEF FitTexts, ApartTexts
<1>3. PICK s \in Seq(Seq(Plain)) : s = Text[n]
  BY <1>1
<1>4. \A i \in 1..Len(s) : s[i] \in FitTexts
  BY <1>2, <1>3
<1>5. \A i \in 1..Len(s) : s[i] \in ApartTexts
  BY <1>2, <1>3
<1>6. s \in Seq(FitTexts)
  BY <1>4, LenProperties
<1>7. s \in Seq(ApartTexts)
  BY <1>5, LenProperties
<1> QED
  BY <1>3, <1>6, <1>7

LEMMA MovingStart ==
  ASSUME NEW n \in DOMAIN Text
  PROVE  Moving(Chunk(Header), <<>>, <<>>, Text[n], n, Chunk(Header), <<>>)
<1>1. PICK c \in Seq(Symbols) : c = Chunk(Header)
  BY HeaderIs
<1>2. c \o <<>> = c
  BY ConcatEmptySeq
<1>3. Piecewise(ChunkOf, <<>>) = <<>> /\ Piecewise(LinksIn, <<>>) = <<>>
      /\ Flattened(<<>>) = <<>>
  BY PiecewiseStart, FlatStart
<1>4. <<>> \in Seq(Pieces) /\ <<>> \in Seq(FitTexts)
  OBVIOUS
<1>5. PICK w \in Seq(Plain) : w = Flattened(Text[n])
  BY TextFacts, FlatType
<1>6. (<<>> \o <<>>) \o w = w
  <2>1. <<>> \o <<>> = <<>> /\ <<>> \o w = w
    BY ConcatEmptySeq
  <2> QED
    BY <2>1
<1>7. ASSUME LinksFit[n]
      PROVE  /\ Text[n] \in Seq(FitTexts)
             /\ (<<>> \o <<>>) \o Piecewise(LinksIn, Text[n]) = LinksOf[n]
  <2>1. Text[n] \in Seq(FitTexts) /\ Text[n] \in Seq(ApartTexts)
    BY <1>7, FitPages
  <2>2. LinksOf[n] = Piecewise(LinksIn, Text[n])
    BY <2>1, LinksOfLines, WholeIs
  <2>3. PICK l \in Seq(Seq(Plain)) : l = Piecewise(LinksIn, Text[n])
    BY TextFacts, LinksConcat
  <2>4. <<>> \o <<>> = <<>> /\ <<>> \o l = l
    BY <2>3, ConcatEmptySeq
  <2> QED
    BY <2>1, <2>2, <2>3, <2>4
<1> QED
  BY <1>1, <1>2, <1>3, <1>4, <1>5, <1>6, <1>7 DEF Moving

(* Links of a piece that fits: all of them are followed. *)
LEMMA SeenOfPiece ==
  ASSUME NEW p \in FitTexts
  PROVE  ~ BadEnd(check_links(p)) /\ Handed(check_links(p)) = LinksIn[p]
<1>1. p \in Seq(Plain) /\ \A i \in LinkPlaces(p) : Target(p, i) \notin Bad
  BY DEF FitTexts, Fits
<1>2. PICK T \in Seq(Seq(Plain)) : T = Targets(p)
  BY <1>1, TargetsAre
<1>3. check_links(p) = T /\ \A k \in 1..Len(T) : T[k] \notin Bad
  BY <1>1, <1>2, SeenIs
<1>4. ~ BadEnd(T)
  <2> SUFFICES ASSUME T # <<>> PROVE T[Len(T)] \notin Bad
    BY DEF BadEnd, Last, Bad
  <2>1. Len(T) \in Nat /\ Len(T) > 0
    BY LenProperties, EmptySeq
  <2> QED
    BY <1>3, <2>1
<1> QED
  BY <1>1, <1>2, <1>3, <1>4 DEF LinksIn

-----------------------------------------------------------------------------
(* Whole chunks only: the states of an exchange none of whose reads was    *)
(* short.                                                                  *)

Untouched == fp = FALSE /\ saved = <<>> /\ found = <<>>
Fresh == Untouched /\ length = "undefined"
Start ==
  /\ cpc = "get" /\ spc = "read" /\ file = Unset /\ Fresh
  /\ stream["server"] = <<>> /\ stream["crawler"] = <<>>
Requested ==
  /\ cpc = "header" /\ spc = "read" /\ file = Unset /\ Fresh
  /\ stream["server"] = Request(asked) /\ stream["crawler"] = <<>>
Heard ==
  /\ cpc = "header" /\ spc = "respond" /\ file = Spelling[asked] /\ Fresh
  /\ stream["server"] = <<>> /\ stream["crawler"] = <<>>

Refusing ==
  /\ asked \notin DOMAIN Text /\ file = Spelling[asked] /\ Untouched
  /\ stream["server"] = <<>> /\ spc \in {"close", "closed"}
  /\ \/ cpc = "header" /\ \E x \in {"3", "4"} : stream["crawler"] = Chunk(Refusal(x))
     \/ cpc = "done" /\ length = "-1" /\ stream["crawler"] = <<>>

(* The server died when it opened the page. *)
Lost ==
  /\ asked \in DOMAIN Text /\ file = Spelling[asked] /\ Fresh
  /\ spc = "nofile" /\ cpc \in {"header", "done"}
  /\ stream["server"] = <<>> /\ stream["crawler"] = <<>>

Failed ==
  /\ cpc \in {"crashed", "looping"}
  /\ asked \in Storable => ~ LinksFit[asked]
Awaited ==
  /\ cpc = "header" /\ Untouched
  /\ \E ps : Moving(stream["crawler"], saved, found, rest, asked, Chunk(Header), ps)
Arriving ==
  /\ cpc = "data" /\ fp = (asked \in Storable) /\ length = "whole"
  /\ \E ps : Moving(stream["crawler"], saved, found, rest, asked, <<>>, ps)
Complete ==
  /\ cpc = "done" /\ fp = (asked \in Storable) /\ length = "whole"
  /\ spc = "closed"
  /\ saved = Flattened(Text[asked])
  /\ LinksFit[asked] => found = LinksOf[asked]
Serving ==
  /\ asked \in DOMAIN Text /\ file = Spelling[asked]
  /\ stream["server"] = <<>> /\ spc \in {"send", "closed", "killed"}
  /\ spc = "closed" => rest = <<>>
  /\ spc = "killed" => cpc = "crashed"
  /\ Failed \/ Awaited \/ Arriving \/ Complete

Whole == Start \/ Requested \/ Heard \/ Refusing \/ Lost \/ Serving

LEMMA AskedIs ==
  ASSUME Base
  PROVE  /\ asked \in Names /\ Spelling[asked] # Unset /\ Spelling[asked] # <<>>
         /\ file = Spelling[asked] =>
              Served = IF asked \in DOMAIN Text THEN {asked} ELSE {}
<1>1. asked \in Names
  BY DEF Base, TypeOK
<1>2. PICK s \in Seq(Plain) : s = Spelling[asked] /\ Len(s) = 2
  BY <1>1, SpellingFacts
<1>3. Len(Unset) = 1 /\ Len(<<>>) = 0
  BY DEF Unset
<1>4. s # Unset /\ s # <<>>
  <2>1. ASSUME s = Unset PROVE FALSE
    <3>1. PICK k : k = Len(s)
      OBVIOUS
    <3>2. k = 2 /\ k = 1
      BY <1>2, <1>3, <2>1, <3>1
    <3> QED
      BY ONLY <3>2
  <2>2. ASSUME s = <<>> PROVE FALSE
    <3>1. Len(s) = 0
      BY <1>3, <2>2
    <3> QED
      BY <1>2, <3>1
  <2> QED
    BY <2>1, <2>2
<1>5. ASSUME file = Spelling[asked]
      PROVE  Served = IF asked \in DOMAIN Text THEN {asked} ELSE {}
  <2>1. \A n \in DOMAIN Text : n \in Names /\ (file = Spelling[n] <=> n = asked)
    BY <1>1, <1>5, TextFacts, SpellingsDiffer
  <2> QED
    BY <2>1 DEF Served
<1> QED
  BY <1>1, <1>2, <1>4, <1>5

LEMMA WholeInit ==
  ASSUME Init PROVE Start
BY EndsAre DEF Init, Start, Fresh, Untouched

(* A step that leaves the crawler's side of a page as it is. *)
LEMMA WholeGET ==
  ASSUME Base, Whole, GET PROVE Whole'
<1>1. Start
  BY DEF Whole, Requested, Heard, Refusing, Serving, Failed, Awaited, Arriving,
         Complete, Lost, GET
<1>2. PICK c \in Seq(Symbols) : c = Request(asked)
  BY AskedIs, RequestIs
<1>3. Write("server", c)
  BY <1>2 DEF GET
<1>4. stream'["server"] = stream["server"] \o c /\ stream'["crawler"] = stream["crawler"]
  BY <1>3, EndsAre, WriteEffect
<1>5. <<>> \o c = c
  BY ConcatEmptySeq
<1>6. stream'["server"] = Request(asked) /\ stream'["crawler"] = <<>>
  BY <1>1, <1>2, <1>4, <1>5 DEF Start
<1>7. asked' = asked /\ cpc' = "header" /\ spc' = spc /\ file' = file
      /\ fp' = fp /\ saved' = saved /\ found' = found /\ length' = length
  BY DEF GET, serverVars
<1>8. Request(asked)' = Request(asked)
  BY <1>7
<1>9. Requested'
  BY <1>1, <1>6, <1>7 DEF Start, Requested, Fresh, Untouched
<1> QED
  BY <1>9 DEF Whole

LEMMA WholeReadRequest ==
  ASSUME Base, Whole, NEW n \in 1..BUFFERSIZE, ReadRequest(n), short' = {}
  PROVE  Whole'
<1>1. Read("server", n) /\ spc = "read"
  BY DEF ReadRequest
<1>2. /\ n <= Len(stream["server"]) /\ n = BUFFERSIZE
      /\ IsRest(stream'["server"], stream["server"], n + 1, Symbols)
      /\ stream'["crawler"] = stream["crawler"]
      /\ IsText(Visible(Received("server", n)), stream["server"], n)
  <2>1. "crawler" # "server"
    OBVIOUS
  <2> QED
    BY <1>1, <2>1, EndsAre, ReadEffect
<1>3. Requested
  <2>1. ~ Start
    <3> SUFFICES ASSUME Start PROVE FALSE
      OBVIOUS
    <3>1. Len(stream["server"]) = 0
      BY DEF Start
    <3> QED
      BY <1>2, <3>1
  <2> QED
    BY <1>1, <2>1 DEF Whole, Heard, Refusing, Lost, Serving
<1>4. asked \in Names
  BY AskedIs
<1>5. PICK p \in Seq(Plain) : p = Asking(asked) /\ Len(p) = 7
  BY <1>4, RequestIs
<1>6. PICK s \in Seq(Symbols) : s = stream["server"]
  BY EndsAre DEF Base, TypeOK
<1>7. PICK e : e = <<>>
  OBVIOUS
<1>8. s = Chunk(p) \o e /\ Len(p) <= BUFFERSIZE
  <2>1. PICK c \in Seq(Symbols) : c = Request(asked)
    BY <1>4, RequestIs
  <2>2. c = Chunk(p) /\ c = s
    BY <1>3, <1>4, <1>5, <1>6, <2>1, RequestIs DEF Requested
  <2>3. c \o <<>> = c
    BY ConcatEmptySeq
  <2>4. Len(p) <= BUFFERSIZE
    BY <1>5, SizeFacts
  <2> QED
    BY <1>7, <2>2, <2>3, <2>4
<1>9. Visible(Received("server", n)) = p /\ stream'["server"] = <<>>
  <2>1. e \in Seq(Symbols)
    BY <1>7
  <2>2. /\ \A t : IsText(t, s, BUFFERSIZE) => t = p
        /\ \A u : IsRest(u, s, BUFFERSIZE + 1, Symbols) => u = e
    BY <1>8, <2>1, ChunkRead
  <2> QED
    BY <1>2, <1>6, <1>7, <2>2
<1>10. p[1] = "Ge" /\ p[2] = "t" /\ p[3] = Spelling[asked][1]
       /\ p[4] = Spelling[asked][2] /\ p[6] = "\r\n" /\ p[7] = "\r\n"
  BY <1>5 DEF Asking
<1>11. IsPrefix(<<"Ge", "t">>, p)
  <2>1. PICK g : g = <<"Ge", "t">>
    OBVIOUS
  <2>2. Len(g) = 2 /\ g[1] = "Ge" /\ g[2] = "t"
    BY <2>1
  <2>3. Len(g) <= Len(p) /\ \A i \in 1..Len(g) : g[i] = p[i]
    BY <1>5, <1>10, <2>2
  <2> QED
    BY <2>1, <2>3 DEF IsPrefix
<1>12. PageOf(p) = Spelling[asked]
  <2>1. PICK b \in 2..4 : b = 4 /\ b - 1 = 3 /\ Len(p) >= b
    BY <1>5
  <2>2. Words(p, b) = <<p[b - 1], p[b]>>
    BY <2>1, WordsAre
  <2>3. PageOf(p) = <<p[3], p[4]>>
    BY <2>1, <2>2, PageIsWords
  <2> QED
    BY <1>4, <1>10, <2>3, SpellingFacts
<1>13. EndOfRequest(p)
  <2>1. 6 \in 1..(Len(p) - 1) /\ 6 + 1 = 7
    BY <1>5
  <2>2. p[6] = "\r\n" /\ p[6 + 1] = "\r\n"
    BY <1>10, <2>1
  <2> QED
    BY <2>1, <2>2 DEF EndOfRequest
<1>14. p # <<>> /\ Len(p) # 2
  <2>1. ASSUME p = <<>> PROVE FALSE
    <3>1. Len(p) = 0
      BY <2>1
    <3> QED
      BY <1>5, <3>1
  <2>2. 7 # 2
    OBVIOUS
  <2> QED
    BY <1>5, <2>1, <2>2
<1>15. file' = Spelling[asked] /\ spc' = "respond" /\ asked' = asked
       /\ cpc' = cpc /\ fp' = fp /\ saved' = saved /\ found' = found
       /\ length' = length
  BY <1>9, <1>11, <1>12, <1>13, <1>14 DEF ReadRequest, crawlerVars
<1>16. Heard'
  BY <1>2, <1>3, <1>9, <1>15 DEF Requested, Heard, Fresh, Untouched
<1> QED
  BY <1>16 DEF Whole

LEMMA WholeReuseMemory ==
  ASSUME Base, Whole, ReuseMemory PROVE FALSE
<1>1. spc = "respond" /\ file = Unset
  BY DEF ReuseMemory
<1>2. file = Spelling[asked]
  BY <1>1 DEF Whole, Start, Requested, Heard, Refusing, Lost, Serving
<1> QED
  BY <1>1, <1>2, AskedIs

LEMMA WholeSendOk ==
  ASSUME Base, Whole, SendOk PROVE Whole'
<1>1. Heard
  BY DEF SendOk, Whole, Start, Requested, Refusing, Lost, Serving
<1>2. asked \in DOMAIN Text /\ Served = {asked} /\ file # <<>>
  BY <1>1, AskedIs DEF SendOk, Heard
<1>3. rest' = Text[asked]
  <2>1. asked \in Served
    BY <1>2
  <2>2. (CHOOSE n \in Served : TRUE) = asked
    BY <2>1, ServedIs
  <2> QED
    BY <1>2, <2>2 DEF SendOk
<1>4. PICK c \in Seq(Symbols) : c = Chunk(Header)
  BY HeaderIs
<1>5. /\ stream'["crawler"] = stream["crawler"] \o c
      /\ stream'["server"] = stream["server"]
  <2>1. Write("crawler", c) /\ "crawler" # "server"
    BY <1>4 DEF SendOk
  <2> QED
    BY <2>1, EndsAre, WriteEffect
<1>6. stream'["crawler"] = Chunk(Header)
  <2>1. <<>> \o c = c
    BY ConcatEmptySeq
  <2> QED
    BY <1>1, <1>4, <1>5, <2>1 DEF Heard
<1>7. /\ asked' = asked /\ cpc' = cpc /\ fp' = fp /\ saved' = saved /\ found' = found
      /\ spc' = "send" /\ file' = file
  BY DEF SendOk, crawlerVars
<1>8. Moving(Chunk(Header), <<>>, <<>>, Text[asked], asked, Chunk(Header), <<>>)
  BY <1>2, MovingStart
<1>9. Awaited'
  <2>1. Moving(stream'["crawler"], saved', found', rest', asked', Chunk(Header), <<>>)
    BY <1>1, <1>3, <1>6, <1>7, <1>8 DEF Heard, Fresh, Untouched
  <2> QED
    BY <1>1, <1>7, <2>1 DEF Heard, Awaited, Fresh, Untouched
<1>10. Serving'
  BY <1>1, <1>2, <1>5, <1>7, <1>9 DEF Heard, Serving
<1> QED
  BY <1>10 DEF Whole

LEMMA WholeOpenFails ==
  ASSUME Base, Whole, OpenFails PROVE Whole'
<1>1. Heard
  BY DEF OpenFails, Whole, Start, Requested, Refusing, Lost, Serving
<1>2. asked \in DOMAIN Text
  BY <1>1, AskedIs DEF OpenFails, Heard
<1>3. Lost'
  BY <1>1, <1>2 DEF OpenFails, Heard, Lost, Fresh, Untouched, crawlerVars
<1> QED
  BY <1>3 DEF Whole

LEMMA WholeSendError ==
  ASSUME Base, Whole, SendError PROVE Whole'
<1>1. Heard
  BY DEF SendError, Whole, Start, Requested, Refusing, Lost, Serving
<1>2. asked \notin DOMAIN Text
  BY <1>1, AskedIs DEF SendError, Heard
<1>3. PICK x \in {"3", "4"} : Write("crawler", Chunk(Refusal(x)))
  BY SendErrorIs
<1>4. PICK c \in Seq(Symbols) : c = Chunk(Refusal(x))
  BY RefusalIs
<1>5. /\ stream'["crawler"] = stream["crawler"] \o c
      /\ stream'["server"] = stream["server"]
  <2>1. "crawler" # "server"
    OBVIOUS
  <2> QED
    BY <1>3, <1>4, <2>1, EndsAre, WriteEffect
<1>6. stream'["crawler"] = Chunk(Refusal(x))
  <2>1. <<>> \o c = c
    BY ConcatEmptySeq
  <2> QED
    BY <1>1, <1>4, <1>5, <2>1 DEF Heard
<1>7. /\ asked' = asked /\ cpc' = cpc /\ fp' = fp /\ saved' = saved /\ found' = found
      /\ spc' = "close" /\ file' = file
  BY DEF SendError, crawlerVars
<1>8. Refusing'
  BY <1>1, <1>2, <1>5, <1>6, <1>7 DEF Heard, Refusing, Fresh, Untouched
<1> QED
  BY <1>8 DEF Whole

LEMMA WholeSendLine ==
  ASSUME Base, Whole, SendLine PROVE Whole'
<1>1. /\ spc = "send" /\ rest # <<>> /\ rest' = LinesLeft(rest)
      /\ cpc = "crashed" => UNCHANGED stream
      /\ cpc # "crashed" => Write("crawler", Chunk(Piece(Head(rest))))
      /\ UNCHANGED <<asked, buffer, crawlerVars, spc, file, short>>
  BY SendLineIs
<1>2. /\ asked' = asked /\ cpc' = cpc /\ fp' = fp /\ saved' = saved /\ found' = found
      /\ length' = length /\ spc' = "send" /\ file' = file
  BY <1>1 DEF crawlerVars
<1>3. Serving
  BY <1>1 DEF Whole, Start, Requested, Heard, Refusing, Lost
<1>4. /\ rest \in Seq(Seq(Plain)) /\ saved \in Seq(Plain)
      /\ found \in Seq(Seq(Plain)) /\ asked \in Names
  BY BaseParts DEF ServerTypes, CrawlerTypes, StreamTypes
<1>5. PICK p : p = Piece(Head(rest))
  OBVIOUS
<1>6. Chunk(p) \in Seq(Symbols)
  BY <1>1, <1>4, <1>5, LinesLeftType, PieceChunk
<1>7. stream'["server"] = <<>>
  <2>1. CASE cpc = "crashed"
    BY <1>1, <1>3, <2>1 DEF Serving
  <2>2. CASE cpc # "crashed"
    <3>1. Write("crawler", Chunk(p)) /\ "crawler" # "server"
      BY <1>1, <1>5, <2>2
    <3>2. stream'["server"] = stream["server"]
      BY <1>6, <3>1, EndsAre, WriteEffect
    <3> QED
      BY <1>3, <3>2 DEF Serving
  <2> QED
    BY <2>1, <2>2
<1>8. cpc # "crashed" => stream'["crawler"] = stream["crawler"] \o Chunk(p)
  BY <1>1, <1>5, <1>6, EndsAre, WriteEffect
<1>9. Failed' \/ Awaited' \/ Arriving'
  <2>1. CASE Failed
    BY <1>2, <2>1 DEF Failed
  <2>2. CASE Awaited
    <3>1. PICK ps : Moving(stream["crawler"], saved, found, rest, asked, Chunk(Header), ps)
      BY <2>2 DEF Awaited
    <3>2. \E qs : Moving(stream["crawler"] \o Chunk(p), saved, found, LinesLeft(rest),
                         asked, Chunk(Header), qs)
      BY <1>1, <1>4, <1>5, <3>1, HeaderIs, MovingSend
    <3>3. \E qs : Moving(stream'["crawler"], saved', found', rest', asked',
                         Chunk(Header), qs)
      BY <1>1, <1>2, <1>8, <2>2, <3>2 DEF Awaited
    <3> QED
      BY <1>2, <2>2, <3>3 DEF Awaited, Untouched
  <2>3. CASE Arriving
    <3>1. PICK ps : Moving(stream["crawler"], saved, found, rest, asked, <<>>, ps)
      BY <2>3 DEF Arriving
    <3>2. <<>> \in Seq(Symbols)
      OBVIOUS
    <3>3. \E qs : Moving(stream["crawler"] \o Chunk(p), saved, found, LinesLeft(rest),
                         asked, <<>>, qs)
      BY <1>1, <1>4, <1>5, <3>1, <3>2, MovingSend
    <3>4. \E qs : Moving(stream'["crawler"], saved', found', rest', asked', <<>>, qs)
      BY <1>1, <1>2, <1>8, <2>3, <3>3 DEF Arriving
    <3> QED
      BY <1>2, <2>3, <3>4 DEF Arriving
  <2> QED
    BY <1>1, <1>3, <2>1, <2>2, <2>3 DEF Serving, Complete
<1>10. Serving'
  BY <1>2, <1>3, <1>7, <1>9 DEF Serving
<1> QED
  BY <1>10 DEF Whole

LEMMA WholeSigpipe ==
  ASSUME Base, Whole, Sigpipe PROVE Whole'
<1>1. Serving /\ Failed
  BY DEF Sigpipe, Whole, Start, Requested, Heard, Refusing, Lost, Serving,
         Awaited, Arriving, Complete
<1>2. Serving'
  BY <1>1 DEF Sigpipe, Serving, Failed, crawlerVars
<1> QED
  BY <1>2 DEF Whole

LEMMA WholeCloseServer ==
  ASSUME Base, Whole, CloseServer PROVE Whole'
<1>1. Refusing \/ Serving
  BY DEF CloseServer, Whole, Start, Requested, Heard, Lost
<1>2. stream' = stream
  BY <1>1, CloseEffect DEF Refusing, Serving
<1>3. /\ asked' = asked /\ cpc' = cpc /\ fp' = fp /\ saved' = saved /\ found' = found
      /\ length' = length /\ file' = file /\ rest' = rest /\ spc' = "closed"
      /\ spc = "close" \/ (spc = "send" /\ rest = <<>>)
  BY DEF CloseServer, crawlerVars
<1>4. CASE Refusing
  <2>1. Refusing'
    BY <1>2, <1>3, <1>4 DEF Refusing, Untouched
  <2> QED
    BY <2>1 DEF Whole
<1>5. CASE Serving
  <2>1. Failed' \/ Awaited' \/ Arriving' \/ Complete'
    BY <1>2, <1>3, <1>5 DEF Serving, Failed, Awaited, Arriving, Complete, Untouched
  <2>2. Serving'
    BY <1>2, <1>3, <1>5, <2>1 DEF Serving
  <2> QED
    BY <2>2 DEF Whole
<1> QED
  BY <1>1, <1>4, <1>5

LEMMA ChunkNotEmpty ==
  ASSUME NEW p \in Seq(Plain), Len(p) <= BUFFERSIZE, NEW q \in Seq(Symbols)
  PROVE  Chunk(p) \o q # <<>>
<1>1. PICK c : c = Chunk(p)
  OBVIOUS
<1>2. c \in Seq(Symbols) /\ Len(c) = BUFFERSIZE
  BY <1>1, ChunkIs
<1>3. PICK d \in Seq(Symbols) : d = c \o q /\ Len(d) = Len(c) + Len(q)
  BY <1>2, ConcatProperties
<1>4. Len(d) > 0
  BY <1>2, <1>3, SizeFacts, LenProperties
<1>5. d # <<>>
  <2> SUFFICES ASSUME d = <<>> PROVE FALSE
    OBVIOUS
  <2>1. Len(d) = 0
    OBVIOUS
  <2> QED
    BY <1>4, <2>1
<1> QED
  BY <1>1, <1>3, <1>5

LEMMA WholeReadEnd ==
  ASSUME Base, Whole, ReadEnd PROVE Whole'
<1>1. /\ cpc \in {"header", "data"} /\ cpc' = "done"
      /\ spc \in {"closed", "crashed", "nofile"}
      /\ stream["crawler"] = <<>> /\ stream' = stream /\ asked' = asked
      /\ fp' = fp /\ saved' = saved /\ found' = found /\ length' = length
      /\ spc' = spc /\ file' = file /\ rest' = rest
  BY DEF ReadEnd, serverVars
<1>2. ~ Refusing
  <2> SUFFICES ASSUME Refusing PROVE FALSE
    OBVIOUS
  <2>1. PICK x \in {"3", "4"} : stream["crawler"] = Chunk(Refusal(x))
    BY <1>1 DEF Refusing
  <2>2. PICK p \in Seq(Plain) : p = Refusal(x) /\ Len(p) = 4
    BY RefusalIs
  <2>3. PICK c \in Seq(Symbols) : c = Chunk(p)
    BY <2>2, RefusalIs
  <2>4. Len(p) <= BUFFERSIZE
    BY <2>2, SizeFacts
  <2>5. <<>> \in Seq(Symbols) /\ c \o <<>> = c
    BY ConcatEmptySeq
  <2>6. Chunk(p) \o <<>> # <<>>
    BY <2>4, <2>5, ChunkNotEmpty
  <2> QED
    BY <1>1, <2>1, <2>2, <2>3, <2>5, <2>6
<1>3. CASE Lost
  <2>1. Lost'
    BY <1>1, <1>3 DEF Lost, Fresh, Untouched
  <2> QED
    BY <2>1 DEF Whole
<1>4. CASE Serving
  <2>0. ~ Awaited
    <3> SUFFICES ASSUME Awaited PROVE FALSE
      OBVIOUS
    <3>1. PICK ps : Moving(stream["crawler"], saved, found, rest, asked, Chunk(Header), ps)
      BY DEF Awaited
    <3>2. PICK q \in Seq(Symbols) :
            /\ stream["crawler"] = Chunk(Header) \o q
            /\ Moving(q, saved, found, rest, asked, <<>>, ps)
      BY <3>1, MovingHeader, ZenonT(60)
    <3>3. PICK p \in Seq(Plain) : p = Header /\ Len(p) = 6
      BY ReservedFacts
    <3>4. Len(p) <= BUFFERSIZE
      BY <3>3, SizeFacts
    <3>5. Chunk(p) \o q # <<>>
      BY <3>4, ChunkNotEmpty
    <3> QED
      BY <1>1, <3>2, <3>3, <3>5
  <2>1. Arriving /\ spc = "closed"
    BY <1>1, <1>4, <2>0 DEF Serving, Failed, Complete
  <2>2. Complete'
    <3>1. PICK ps : Moving(stream["crawler"], saved, found, rest, asked, <<>>, ps)
      BY <2>1 DEF Arriving
    <3>2. Moving(<<>>, saved, found, <<>>, asked, <<>>, ps)
      BY <1>1, <1>4, <2>1, <3>1 DEF Serving
    <3>3. saved \in Seq(Plain) /\ found \in Seq(Seq(Plain))
      BY BaseParts DEF CrawlerTypes
    <3>4. saved = Flattened(Text[asked]) /\ (LinksFit[asked] => found = LinksOf[asked])
      BY <3>2, <3>3, MovingEnd
    <3> QED
      BY <1>1, <2>1, <3>4 DEF Arriving, Complete
  <2>3. Serving'
    BY <1>1, <1>4, <2>2 DEF Serving
  <2> QED
    BY <2>3 DEF Whole
<1> QED
  BY <1>1, <1>2, <1>3, <1>4 DEF Whole, Start, Requested, Heard

(* What a read of a whole chunk by the crawler does. *)
LEMMA CrawlerReads ==
  ASSUME Base, NEW n \in 1..BUFFERSIZE, Read("crawler", n), short' = {},
         NEW p \in Seq(Plain), Len(p) <= BUFFERSIZE, NEW q \in Seq(Symbols),
         stream["crawler"] = Chunk(p) \o q
  PROVE  /\ Visible(Received("crawler", n)) = p
         /\ stream'["crawler"] = q /\ stream'["server"] = stream["server"]
<1>1. /\ n <= Len(stream["crawler"]) /\ n = BUFFERSIZE
      /\ IsRest(stream'["crawler"], stream["crawler"], n + 1, Symbols)
      /\ stream'["server"] = stream["server"]
      /\ IsText(Visible(Received("crawler", n)), stream["crawler"], n)
  <2>1. "crawler" # "server"
    OBVIOUS
  <2> QED
    BY <2>1, EndsAre, ReadEffect
<1>2. PICK s \in Seq(Symbols) : s = stream["crawler"]
  BY EndsAre DEF Base, TypeOK
<1>3. s = Chunk(p) \o q
  BY <1>2
<1>4. /\ \A t : IsText(t, s, BUFFERSIZE) => t = p
      /\ \A u : IsRest(u, s, BUFFERSIZE + 1, Symbols) => u = q
  BY <1>3, ChunkRead
<1> QED
  BY <1>1, <1>2, <1>4

(* What the crawler makes of the two headers. *)
LEMMA HeaderRead ==
  /\ ~ (Len(Header) = 1 \/ (Opened(Words(Header, 3)) /\ Len(Header) = 4))
  /\ Opened(Words(Header, 3)) /\ ~ Refused(Words(Header, 3))
  /\ LengthIn(Header) = "whole"
<1>1. PICK p \in Seq(Plain) : p = Header /\ Len(p) = 6
  BY ReservedFacts
<1>2. p[2] = "20" /\ p[3] = "0"
  BY <1>1 DEF Header
<1>3. PICK b \in 2..4 : b = 3 /\ b - 1 = 2 /\ Len(p) >= b
  BY <1>1
<1>4. Words(p, b) = <<p[b - 1], p[b]>>
  BY <1>3, WordsAre
<1>5. Words(p, 3) = <<"20", "0">>
  BY <1>2, <1>3, <1>4
<1>6. <<"20", "0">> # <<"40", "4">> /\ <<"20", "0">> # <<"40", "3">>
  <2>1. "20" # "40"
    OBVIOUS
  <2> QED
    BY ONLY <2>1
<1>7. Opened(Words(p, 3)) /\ ~ Refused(Words(p, 3))
  BY <1>5, <1>6 DEF Opened, Refused
<1>8. Len(p) # 1 /\ Len(p) # 4 /\ Len(p) # 5 /\ ~ (Len(p) < 4)
  <2>1. 6 # 1 /\ 6 # 4 /\ 6 # 5 /\ ~ (6 < 4)
    OBVIOUS
  <2> QED
    BY <1>1, <2>1
<1>9. LengthIn(p) = "whole"
  BY <1>8 DEF LengthIn
<1> QED
  BY <1>1, <1>7, <1>8, <1>9

LEMMA RefusalRead ==
  ASSUME NEW x \in {"3", "4"}
  PROVE  /\ ~ (Len(Refusal(x)) = 1 \/ (Opened(Words(Refusal(x), 3)) /\ Len(Refusal(x)) = 4))
         /\ ~ Opened(Words(Refusal(x), 3)) /\ Refused(Words(Refusal(x), 3))
<1>1. PICK p \in Seq(Plain) : p = Refusal(x) /\ Len(p) = 4
  BY RefusalIs
<1>2. p[2] = "40" /\ p[3] = x
  BY <1>1 DEF Refusal
<1>3. PICK b \in 2..4 : b = 3 /\ b - 1 = 2 /\ Len(p) >= b
  BY <1>1
<1>4. Words(p, b) = <<p[b - 1], p[b]>>
  BY <1>3, WordsAre
<1>5. Words(p, 3) = <<"40", x>>
  BY <1>2, <1>3, <1>4
<1>6. <<"40", x>> # <<"20", "0">>
  <2>1. "20" # "40"
    OBVIOUS
  <2> QED
    BY ONLY <2>1
<1>7. ~ Opened(Words(p, 3)) /\ Refused(Words(p, 3))
  BY <1>5, <1>6 DEF Opened, Refused
<1>8. Len(p) # 1
  <2>1. 4 # 1
    OBVIOUS
  <2> QED
    BY <1>1, <2>1
<1> QED
  BY <1>1, <1>7, <1>8

LEMMA WholeReadHeader ==
  ASSUME Base, Whole, NEW n \in 1..BUFFERSIZE, ReadHeader(n), short' = {}
  PROVE  Whole'
<1>1. PICK t :
        /\ t = Visible(Received("crawler", n)) /\ cpc = "header" /\ Read("crawler", n)
        /\ UNCHANGED <<asked, saved, found, serverVars>>
        /\ ~ (Len(t) = 1 \/ (Opened(Words(t, 3)) /\ Len(t) = 4)) =>
             /\ fp' = (Opened(Words(t, 3)) /\ asked \in Storable)
             /\ cpc' = IF Refused(Words(t, 3)) THEN "done" ELSE "data"
             /\ length' = CASE Refused(Words(t, 3)) -> "-1"
                            [] Opened(Words(t, 3)) -> LengthIn(t)
                            [] OTHER -> length
  BY ReadHeaderIs
<1>2. /\ asked' = asked /\ saved' = saved /\ found' = found
      /\ spc' = spc /\ file' = file /\ rest' = rest
  BY <1>1 DEF serverVars
<1>3. stream["crawler"] # <<>>
  <2> SUFFICES ASSUME stream["crawler"] = <<>> PROVE FALSE
    OBVIOUS
  <2>1. Len(stream["crawler"]) = 0
    OBVIOUS
  <2>2. n <= Len(stream["crawler"])
    BY <1>1 DEF Read
  <2> QED
    BY <2>1, <2>2
<1>4. Refusing \/ (Serving /\ Awaited)
  BY <1>1, <1>3
  DEF Whole, Start, Requested, Heard, Lost, Serving, Failed, Arriving, Complete
<1>5. CASE Refusing
  <2>1. PICK x \in {"3", "4"} : stream["crawler"] = Chunk(Refusal(x))
    BY <1>1, <1>5 DEF Refusing
  <2>2. PICK p \in Seq(Plain) : p = Refusal(x) /\ Len(p) = 4
    BY RefusalIs
  <2>3. PICK c \in Seq(Symbols) : c = Chunk(p)
    BY <2>2, RefusalIs
  <2>4. Len(p) <= BUFFERSIZE
    BY <2>2, SizeFacts
  <2>5. <<>> \in Seq(Symbols) /\ c \o <<>> = c
    BY ConcatEmptySeq
  <2>6. stream["crawler"] = Chunk(p) \o <<>>
    BY <2>1, <2>2, <2>3, <2>5
  <2>7. t = p /\ stream'["crawler"] = <<>> /\ stream'["server"] = stream["server"]
    BY <1>1, <2>4, <2>5, <2>6, CrawlerReads
  <2>8. /\ ~ (Len(t) = 1 \/ (Opened(Words(t, 3)) /\ Len(t) = 4))
        /\ ~ Opened(Words(t, 3)) /\ Refused(Words(t, 3))
    BY <2>2, <2>7, RefusalRead
  <2>9. fp' = FALSE /\ cpc' = "done" /\ length' = "-1"
    BY <1>1, <2>8
  <2>10. Refusing'
    BY <1>2, <1>5, <2>7, <2>9 DEF Refusing, Untouched
  <2> QED
    BY <2>10 DEF Whole
<1>6. CASE Serving /\ Awaited
  <2>1. PICK ps : Moving(stream["crawler"], saved, found, rest, asked, Chunk(Header), ps)
    BY <1>6 DEF Awaited
  <2>2. PICK q \in Seq(Symbols) :
          /\ stream["crawler"] = Chunk(Header) \o q
          /\ Moving(q, saved, found, rest, asked, <<>>, ps)
    BY <2>1, MovingHeader, ZenonT(60)
  <2>3. PICK p \in Seq(Plain) : p = Header /\ Len(p) = 6
    BY ReservedFacts
  <2>4. Len(p) <= BUFFERSIZE
    BY <2>3, SizeFacts
  <2>5. t = p /\ stream'["crawler"] = q /\ stream'["server"] = stream["server"]
    BY <1>1, <2>2, <2>3, <2>4, CrawlerReads
  <2>6. /\ ~ (Len(t) = 1 \/ (Opened(Words(t, 3)) /\ Len(t) = 4))
        /\ Opened(Words(t, 3)) /\ ~ Refused(Words(t, 3))
        /\ LengthIn(t) = "whole"
    BY <2>3, <2>5, HeaderRead
  <2>7. fp' = (asked \in Storable) /\ cpc' = "data" /\ length' = "whole"
    BY <1>1, <2>6
  <2>8. Moving(stream'["crawler"], saved', found', rest', asked', <<>>, ps)
    BY <1>2, <2>2, <2>5
  <2>9. Arriving'
    BY <1>2, <2>7, <2>8 DEF Arriving
  <2>10. spc # "killed"
    BY <1>1, <1>6 DEF Serving
  <2>11. Serving'
    BY <1>2, <1>6, <2>5, <2>9, <2>10 DEF Serving
  <2> QED
    BY <2>11 DEF Whole
<1> QED
  BY <1>4, <1>5, <1>6

LEMMA WholeReadData ==
  ASSUME Base, Whole, NEW n \in 1..BUFFERSIZE, ReadData(n), short' = {}
  PROVE  Whole'
<1>1. PICK t :
        /\ t = Visible(Received("crawler", n)) /\ cpc = "data" /\ Read("crawler", n)
        /\ UNCHANGED <<asked, fp, length, serverVars>>
        /\ found' = found \o Handed(check_links(t))
        /\ cpc' = IF BadEnd(check_links(t)) /\ Last(check_links(t)) = Up
                  THEN "looping"
                  ELSE IF BadEnd(check_links(t)) \/ ~fp THEN "crashed"
                  ELSE "data"
        /\ saved' = IF BadEnd(check_links(t)) \/ ~fp THEN saved
                    ELSE saved \o t
  BY ReadDataIs
<1>2. /\ asked' = asked /\ fp' = fp /\ length' = length
      /\ spc' = spc /\ file' = file /\ rest' = rest
  BY <1>1 DEF serverVars
<1>3. stream["crawler"] # <<>>
  <2> SUFFICES ASSUME stream["crawler"] = <<>> PROVE FALSE
    OBVIOUS
  <2>1. Len(stream["crawler"]) = 0
    OBVIOUS
  <2>2. n <= Len(stream["crawler"])
    BY <1>1 DEF Read
  <2> QED
    BY <2>1, <2>2
<1>4. Serving /\ Arriving
  BY <1>1
  DEF Whole, Start, Requested, Heard, Refusing, Lost, Serving, Failed, Awaited,
      Complete
<1>5. /\ rest \in Seq(Seq(Plain)) /\ saved \in Seq(Plain)
      /\ found \in Seq(Seq(Plain)) /\ asked \in Names
  BY BaseParts DEF ServerTypes, CrawlerTypes, StreamTypes
<1>6. PICK ps : Moving(stream["crawler"], saved, found, rest, asked, <<>>, ps)
  BY <1>4 DEF Arriving
<1>7. PICK p, q : TakesPiece(stream["crawler"], saved, found, rest, asked, p, q)
  BY <1>3, <1>5, <1>6, MovingRead
<1>8. /\ p \in Seq(Plain) /\ Len(p) <= BUFFERSIZE /\ q \in Seq(Symbols)
      /\ stream["crawler"] = Chunk(p) \o q
      /\ LinksFit[asked] => p \in FitTexts
  BY <1>7 DEF TakesPiece
<1>9. t = p /\ stream'["crawler"] = q /\ stream'["server"] = stream["server"]
  BY <1>1, <1>8, CrawlerReads
<1>10. LinksFit[asked] => ~ BadEnd(check_links(t)) /\ Handed(check_links(t)) = LinksIn[p]
  BY <1>8, <1>9, SeenOfPiece
<1>11. fp = (asked \in Storable)
  BY <1>4 DEF Arriving
<1>12. Failed' \/ Arriving'
  <2>1. CASE BadEnd(check_links(t)) \/ ~ fp
    <3>1. cpc' \in {"looping", "crashed"}
      BY <1>1, <2>1
    <3>2. asked \in Storable => ~ LinksFit[asked]
      BY <1>10, <1>11, <2>1
    <3> QED
      BY <1>2, <3>1, <3>2 DEF Failed
  <2>2. CASE ~ (BadEnd(check_links(t)) \/ ~ fp)
    <3>1. cpc' = "data" /\ saved' = saved \o p
      BY <1>1, <1>9, <2>2
    <3>2. LinksFit[asked] => found' = found \o LinksIn[p]
      BY <1>1, <1>10
    <3>3. PICK g : g = found'
      OBVIOUS
    <3>4. \E qs : Moving(q, saved \o p, g, rest, asked, <<>>, qs)
      BY <1>7, <3>2, <3>3 DEF TakesPiece
    <3>5. \E qs : Moving(stream'["crawler"], saved', found', rest', asked', <<>>, qs)
      BY <1>2, <1>9, <3>1, <3>3, <3>4
    <3>6. fp' = (asked' \in Storable) /\ length' = "whole"
      BY <1>2, <1>4 DEF Arriving
    <3> QED
      BY <3>1, <3>5, <3>6 DEF Arriving
  <2> QED
    BY <2>1, <2>2
<1>13. spc # "killed"
  BY <1>1, <1>4 DEF Serving
<1>14. Serving'
  BY <1>2, <1>4, <1>9, <1>12, <1>13 DEF Serving
<1> QED
  BY <1>14 DEF Whole

(* Once a read has been short it stays recorded. *)
WholeUnlessShort == short = {} => Whole
WInv == Base /\ WholeUnlessShort

LEMMA ShortGrows ==
  ASSUME Base, Next, short' = {} PROVE short = {}
<1>1. ASSUME NEW e \in Ends, NEW n \in 1..BUFFERSIZE, Read(e, n) PROVE short = {}
  BY <1>1, ReadEffect
<1>2. CASE \E n \in 1..BUFFERSIZE : ReadRequest(n) \/ ReadHeader(n) \/ ReadData(n)
  BY <1>1, <1>2, EndsAre DEF ReadRequest, ReadHeader, ReadData
<1>3. CASE GET \/ ReadEnd \/ ReuseMemory \/ SendOk \/ OpenFails \/ SendError
           \/ SendLine \/ Sigpipe \/ CloseServer
  BY <1>3 DEF GET, ReadEnd, ReuseMemory, SendOk, OpenFails, SendError,
              SendLine, Sigpipe, CloseServer
<1> QED
  BY <1>2, <1>3 DEF Next, CrawlerStep, ServerStep

LEMMA WholeStep ==
  ASSUME WInv, [Next]_vars PROVE WInv'
<1>0. Base /\ Base'
  BY BaseStep DEF WInv
<1> SUFFICES ASSUME short' = {} PROVE Whole'
  BY <1>0 DEF WInv, WholeUnlessShort
<1>1. CASE UNCHANGED vars
  <2>1. Whole
    BY <1>1 DEF WInv, WholeUnlessShort, vars
  <2> QED
    BY <1>1, <2>1
    DEF vars, crawlerVars, serverVars, Whole, Start, Requested, Heard, Refusing,
        Lost, Serving, Failed, Awaited, Arriving, Complete, Fresh, Untouched
<1>2. CASE Next
  <2>1. Whole
    BY <1>0, <1>2, ShortGrows DEF WInv, WholeUnlessShort
  <2>2. CASE CrawlerStep
    BY <1>0, <2>1, <2>2, WholeGET, WholeReadEnd, WholeReadHeader, WholeReadData
    DEF CrawlerStep
  <2>3. CASE ServerStep
    BY <1>0, <2>1, <2>3, WholeReadRequest, WholeReuseMemory, WholeSendOk,
       WholeOpenFails, WholeSendError, WholeSendLine, WholeSigpipe, WholeCloseServer
    DEF ServerStep
  <2> QED
    BY <1>2, <2>2, <2>3 DEF Next
<1> QED
  BY <1>1, <1>2

LEMMA WholeHolds == Spec => []WInv
<1>1. Init => WInv
  BY BaseInit, WholeInit DEF WInv, WholeUnlessShort, Whole
<1>2. WInv /\ [Next]_vars => WInv'
  BY WholeStep
<1> QED
  BY <1>1, <1>2, PTL DEF Spec

(* Reads of whole chunks copy any page: the file saved is the file served, *)
(* whatever the length of its lines, and if the links fit their lines each *)
(* is followed once, in order; a page that cannot be had leaves nothing    *)
(* behind, nor does a server that dies when it opens the page              *)
(* (crawler_functions.c:52-102).                                           *)
THEOREM ExchangeIsExact == Spec => []ExchangeExact
<1>1. ASSUME WInv PROVE ExchangeExact
  <2> SUFFICES ASSUME cpc = "done", short = {}
               PROVE  IF asked \notin DOMAIN Text
                      THEN ~fp /\ saved = <<>> /\ found = <<>> /\ length = "-1"
                      ELSE IF spc = "nofile"
                      THEN /\ ~fp /\ saved = <<>> /\ found = <<>>
                           /\ length = "undefined"
                      ELSE /\ fp = (asked \in Storable)
                           /\ saved = WholeText[asked]
                           /\ LinksFit[asked] => found = LinksOf[asked]
                           /\ length = "whole"
    BY DEF ExchangeExact
  <2>1. Whole
    BY <1>1 DEF WInv, WholeUnlessShort
  <2>2. Refusing \/ Lost \/ (Serving /\ Complete)
    BY <2>1 DEF Whole, Start, Requested, Heard, Serving, Failed, Awaited, Arriving
  <2>3. CASE Refusing
    BY <2>3 DEF Refusing, Untouched
  <2>4. CASE Lost
    BY <2>4 DEF Lost, Fresh, Untouched
  <2>5. CASE Serving /\ Complete
    <3>1. asked \in DOMAIN Text /\ spc = "closed"
      BY <2>5 DEF Serving, Complete
    <3>2. WholeText[asked] = Flattened(Text[asked])
      BY <3>1, WholeIs
    <3> QED
      BY <2>5, <3>1, <3>2 DEF Complete
  <2> QED
    BY <2>2, <2>3, <2>4, <2>5
<1> QED
  BY <1>1, WholeHolds, PTL

(* No process dies or spins by what it reads, over any page whose links    *)
(* fit their lines and whose name the crawler can open a file for, unless  *)
(* a read was short; that the server may be out of descriptors when it     *)
(* opens the page is left aside (crawler_functions.c:31-33, 67-94,         *)
(* server_functions.c:157-165).                                            *)
THEOREM DeathIsByCut == Spec => []DeathOnlyByCut
<1>1. ASSUME WInv PROVE DeathOnlyByCut
  <2> SUFFICES ASSUME cpc \in {"crashed", "looping"} \/ spc \in {"crashed", "killed"},
                      short = {}, asked \notin DOMAIN Text \ Storable
               PROVE  \E n \in Served : ~LinksFit[n]
    BY DEF DeathOnlyByCut
  <2>1. Whole /\ Base
    BY <1>1 DEF WInv, WholeUnlessShort
  <2>2. Serving /\ Failed
    BY <2>1 DEF Whole, Start, Requested, Heard, Refusing, Lost, Serving, Awaited,
                Arriving, Complete
  <2>3. asked \in Served /\ asked \in Storable
    BY <2>1, <2>2, AskedIs DEF Serving
  <2> QED
    BY <2>2, <2>3 DEF Failed
<1> QED
  BY <1>1, WholeHolds, PTL

-----------------------------------------------------------------------------
(* Reads of any length.  Places in the first c symbols of S for what w     *)
(* holds besides zeros, in its order.                                      *)
Placed(w, g, S, c) ==
  /\ g \in [1..Len(w) -> Nat]
  /\ \A i \in 1..Len(w) : w[i] # Nul => g[i] \in 1..c /\ S[g[i]] = w[i]
  /\ \A i \in 1..Len(w) : \A j \in 1..Len(w) :
       i < j /\ w[i] # Nul /\ w[j] # Nul => g[i] < g[j]
HasPlaces(w, S, c) == \E g : Placed(w, g, S, c)

(* v is what h picks of w. *)
PicksFrom(v, h, w) ==
  /\ h \in [1..Len(v) -> 1..Len(w)]
  /\ \A i \in 1..Len(v) : v[i] = w[h[i]]
  /\ \A i \in 1..Len(v) : \A j \in 1..Len(v) : i < j => h[i] < h[j]

(* What is left when symbols are dropped has its places still. *)
LEMMA PlacesThin ==
  ASSUME NEW v, NEW h, NEW w, PicksFrom(v, h, w), NEW S, NEW c, HasPlaces(w, S, c)
  PROVE  HasPlaces(v, S, c)
<1>1. PICK g : Placed(w, g, S, c)
  BY DEF HasPlaces
<1>2. PICK f : f = [i \in 1..Len(v) |-> g[h[i]]]
  OBVIOUS
<1>3. \A i \in 1..Len(v) : h[i] \in 1..Len(w) /\ v[i] = w[h[i]] /\ f[i] = g[h[i]]
  BY <1>2 DEF PicksFrom
<1>4. f \in [1..Len(v) -> Nat]
  BY <1>1, <1>2, <1>3 DEF Placed
<1>5. \A i \in 1..Len(v) : v[i] # Nul => f[i] \in 1..c /\ S[f[i]] = v[i]
  BY <1>1, <1>3 DEF Placed
<1>6. ASSUME NEW i \in 1..Len(v), NEW j \in 1..Len(v), i < j, v[i] # Nul, v[j] # Nul
      PROVE  f[i] < f[j]
  <2>1. h[i] < h[j]
    BY <1>6 DEF PicksFrom
  <2> QED
    BY <1>1, <1>3, <1>6, <2>1 DEF Placed
<1>7. Placed(v, f, S, c)
  BY <1>4, <1>5, <1>6 DEF Placed
<1> QED
  BY <1>7 DEF HasPlaces

LEMMA PlacesWiden ==
  ASSUME NEW w, NEW S, NEW c \in Nat, NEW d \in Nat, c <= d, HasPlaces(w, S, c)
  PROVE  HasPlaces(w, S, d)
<1>1. PICK g : Placed(w, g, S, c)
  BY DEF HasPlaces
<1>2. \A k \in 1..c : k \in 1..d
  OBVIOUS
<1>3. Placed(w, g, S, d)
  BY <1>1, <1>2 DEF Placed
<1> QED
  BY <1>3 DEF HasPlaces

(* p comes in S behind the first c symbols. *)
ComesAt(p, S, c) == \A i \in 1..Len(p) : S[c + i] = p[i]

(* What is written has its places behind those of what was written. *)
LEMMA PlacesWrite ==
  ASSUME NEW w \in Seq(Symbols), NEW S, NEW c \in Nat, HasPlaces(w, S, c),
         NEW p \in Seq(Plain), Len(p) <= BUFFERSIZE, ComesAt(p, S, c)
  PROVE  HasPlaces(w \o Chunk(p), S, c + Len(p))
<1>1. PICK g : Placed(w, g, S, c)
  BY DEF HasPlaces
<1>2. PICK m \in Nat : m = Len(w)
  BY LenProperties
<1>3. PICK b \in Nat : b = BUFFERSIZE
  BY SizeFacts
<1>4. PICK d \in Nat : d = Len(p)
  BY LenProperties
<1>5. PICK u \in Seq(Symbols) : u = Chunk(p)
  BY ChunkIs
<1>6. /\ Len(u) = b
      /\ \A i \in 1..b : u[i] = IF i <= d THEN p[i] ELSE Nul
  BY <1>3, <1>4, <1>5, ChunkIs
<1>7. PICK v : v = w \o u
  OBVIOUS
<1>8. IsJoin(v, w, u, Symbols)
  BY <1>7, Joins
<1>9. /\ Len(v) = m + b
      /\ \A i \in 1..(m + b) : v[i] = IF i <= m THEN w[i] ELSE u[i - m]
  BY <1>2, <1>6, <1>8 DEF IsJoin
<1>10. PICK f : f = [i \in 1..(m + b) |-> IF i <= m THEN g[i] ELSE c + (i - m)]
  OBVIOUS
<1>11. ASSUME NEW i \in 1..(m + b)
       PROVE  /\ f[i] \in Nat
              /\ v[i] # Nul => f[i] \in 1..(c + d) /\ S[f[i]] = v[i]
              /\ i <= m => f[i] = g[i] /\ v[i] = w[i] /\ i \in 1..m
              /\ ~ (i <= m) => f[i] = c + (i - m) /\ (v[i] # Nul => f[i] > c)
  <2>1. CASE i <= m
    <3>1. i \in 1..m /\ f[i] = g[i] /\ v[i] = w[i]
      BY <1>9, <1>10, <2>1
    <3>2. g[i] \in Nat /\ (w[i] # Nul => g[i] \in 1..c /\ S[g[i]] = w[i])
      BY <1>1, <1>2, <3>1 DEF Placed
    <3>3. g[i] \in 1..c => g[i] \in 1..(c + d)
      OBVIOUS
    <3> QED
      BY <2>1, <3>1, <3>2, <3>3
  <2>2. CASE ~ (i <= m)
    <3>1. PICK k \in 1..b : k = i - m
      BY <2>2
    <3>2. f[i] = c + k /\ v[i] = u[k]
      BY <1>9, <1>10, <2>2, <3>1
    <3>3. c + k \in Nat /\ c + k > c
      OBVIOUS
    <3>4. ASSUME v[i] # Nul PROVE c + k \in 1..(c + d) /\ S[c + k] = v[i]
      <4>1. k <= d /\ v[i] = p[k]
        BY <1>6, <3>2, <3>4
      <4>2. k \in 1..d /\ c + k \in 1..(c + d)
        BY <4>1
      <4> QED
        BY <1>4, <4>1, <4>2 DEF ComesAt
    <3> QED
      BY <2>2, <3>1, <3>2, <3>3, <3>4
  <2> QED
    BY <2>1, <2>2
<1>12. ASSUME NEW i \in 1..(m + b), NEW j \in 1..(m + b), i < j, v[i] # Nul, v[j] # Nul
       PROVE  f[i] < f[j]
  <2>1. CASE j <= m
    <3>1. i <= m
      BY <1>12, <2>1
    <3>2. g[i] < g[j]
      BY <1>1, <1>2, <1>11, <1>12, <2>1, <3>1 DEF Placed
    <3> QED
      BY <1>11, <2>1, <3>1, <3>2
  <2>2. CASE ~ (j <= m) /\ i <= m
    <3>1. g[i] \in 1..c
      BY <1>1, <1>2, <1>11, <1>12, <2>2 DEF Placed
    <3>2. f[i] = g[i] /\ f[j] > c /\ f[j] \in Nat
      BY <1>11, <1>12, <2>2
    <3> QED
      BY ONLY <3>1, <3>2, c \in Nat
  <2>3. CASE ~ (j <= m) /\ ~ (i <= m)
    <3>1. f[i] = c + (i - m) /\ f[j] = c + (j - m)
      BY <1>11, <2>3
    <3> QED
      BY <1>12, <3>1
  <2> QED
    BY <2>1, <2>2, <2>3
<1>13. f \in [1..(m + b) -> Nat]
  BY <1>10, <1>11
<1>14. Placed(v, f, S, c + d)
  BY <1>9, <1>11, <1>12, <1>13 DEF Placed
<1> QED
  BY <1>4, <1>5, <1>7, <1>14 DEF HasPlaces

(* What stays of a stream behind what was saved: t, the first of it, is    *)
(* saved, and r, a later part, still to be read.                           *)
LaterPart(r, s, m) ==
  /\ m \in Nat /\ m + Len(r) <= Len(s)
  /\ \A i \in 1..Len(r) : r[i] = s[m + i]

LEMMA PlacesRead ==
  ASSUME NEW a \in Seq(Symbols), NEW s \in Seq(Symbols), NEW S, NEW c,
         HasPlaces(a \o s, S, c), NEW t \in Seq(Symbols), NEW r \in Seq(Symbols),
         NEW m, LaterPart(r, s, m), IsFirst(t, s, Len(t)), Len(t) <= m
  PROVE  HasPlaces((a \o t) \o r, S, c)
<1>1. PICK x \in Nat : x = Len(a)
  BY LenProperties
<1>2. PICK y \in Nat : y = Len(s)
  BY LenProperties
<1>3. PICK z \in Nat : z = Len(t)
  BY LenProperties
<1>4. PICK q \in Nat : q = Len(r)
  BY LenProperties
<1>5. m \in Nat /\ m + q <= y /\ z <= m
  BY <1>2, <1>3, <1>4 DEF LaterPart
<1>6. PICK w : w = a \o s
  OBVIOUS
<1>7. Len(w) = x + y /\ \A i \in 1..(x + y) : w[i] = IF i <= x THEN a[i] ELSE s[i - x]
  <2>1. IsJoin(w, a, s, Symbols)
    BY <1>6, Joins
  <2> QED
    BY <1>1, <1>2, <2>1 DEF IsJoin
<1>8. PICK u : u = a \o t
  OBVIOUS
<1>9. /\ u \in Seq(Symbols) /\ Len(u) = x + z
      /\ \A i \in 1..(x + z) : u[i] = IF i <= x THEN a[i] ELSE t[i - x]
  <2>1. IsJoin(u, a, t, Symbols)
    BY <1>8, Joins
  <2> QED
    BY <1>1, <1>3, <2>1 DEF IsJoin
<1>10. PICK v : v = u \o r
  OBVIOUS
<1>11. /\ Len(v) = (x + z) + q
       /\ \A i \in 1..((x + z) + q) :
            v[i] = IF i <= x + z THEN u[i] ELSE r[i - (x + z)]
  <2>1. IsJoin(v, u, r, Symbols)
    BY <1>9, <1>10, Joins
  <2> QED
    BY <1>4, <1>9, <2>1 DEF IsJoin
<1>12. PICK h : h = [i \in 1..((x + z) + q) |-> IF i <= x + z THEN i ELSE i + (m - z)]
  OBVIOUS
<1>13. ASSUME NEW i \in 1..((x + z) + q)
       PROVE  h[i] \in 1..(x + y) /\ v[i] = w[h[i]]
  <2>1. CASE i <= x
    <3>1. i <= x + z /\ i \in 1..(x + z) /\ i \in 1..(x + y)
      BY <1>5, <2>1
    <3>2. h[i] = i /\ v[i] = u[i]
      BY <1>11, <1>12, <3>1
    <3>3. u[i] = a[i] /\ w[i] = a[i]
      BY <1>7, <1>9, <2>1, <3>1
    <3> QED
      BY <3>1, <3>2, <3>3
  <2>2. CASE ~ (i <= x) /\ i <= x + z
    <3>1. PICK k \in 1..z : k = i - x
      BY <2>2
    <3>2. i \in 1..(x + z) /\ i \in 1..(x + y)
      BY <1>5, <2>2
    <3>3. h[i] = i /\ v[i] = u[i]
      BY <1>11, <1>12, <2>2
    <3>4. u[i] = t[k] /\ w[i] = s[k]
      BY <1>7, <1>9, <2>2, <3>1, <3>2
    <3>5. t[k] = s[k]
      BY <1>3, <3>1 DEF IsFirst
    <3> QED
      BY <3>2, <3>3, <3>4, <3>5
  <2>3. CASE ~ (i <= x + z)
    <3>1. PICK k \in 1..q : k = i - (x + z)
      BY <2>3
    <3>2. PICK j \in Nat : j = i + (m - z)
      BY <1>5
    <3>3. j \in 1..(x + y) /\ ~ (j <= x) /\ j - x = m + k
      BY <1>5, <3>1, <3>2
    <3>4. h[i] = j /\ v[i] = r[k]
      BY <1>11, <1>12, <2>3, <3>1, <3>2
    <3>5. w[j] = s[m + k]
      BY <1>7, <3>3
    <3>6. r[k] = s[m + k]
      BY <1>4, <3>1 DEF LaterPart
    <3> QED
      BY <3>3, <3>4, <3>5, <3>6
  <2> QED
    BY <2>1, <2>2, <2>3
<1>14. ASSUME NEW i \in 1..((x + z) + q), NEW j \in 1..((x + z) + q), i < j
       PROVE  h[i] < h[j]
  <2>1. /\ h[i] = IF i <= x + z THEN i ELSE i + (m - z)
        /\ h[j] = IF j <= x + z THEN j ELSE j + (m - z)
    BY <1>12
  <2>2. CASE j <= x + z
    BY <1>14, <2>1, <2>2
  <2>3. CASE ~ (j <= x + z) /\ i <= x + z
    BY <1>5, <2>1, <2>3
  <2>4. CASE ~ (j <= x + z) /\ ~ (i <= x + z)
    BY <1>5, <1>14, <2>1, <2>4
  <2> QED
    BY <2>2, <2>3, <2>4
<1>15. PicksFrom(v, h, w)
  <2>1. h \in [1..((x + z) + q) -> 1..(x + y)]
    BY <1>12, <1>13
  <2> QED
    BY <1>7, <1>11, <1>13, <1>14, <2>1 DEF PicksFrom
<1>16. HasPlaces(v, S, c)
  BY <1>6, <1>15, PlacesThin
<1> QED
  BY <1>8, <1>10, <1>16

(* What lies between two zeros of w comes in S in one piece. *)
Runs(w, S) ==
  \A i \in 1..Len(w) : \A j \in 1..Len(w) :
    (\A k \in i..j : w[k] # Nul) =>
      \E o \in Int : \A k \in i..j : o + k \in 1..Len(S) /\ S[o + k] = w[k]

LEMMA RunsLater ==
  ASSUME NEW s \in Seq(Symbols), NEW S, Runs(s, S), NEW r \in Seq(Symbols),
         NEW m, LaterPart(r, s, m)
  PROVE  Runs(r, S)
<1>1. PICK q \in Nat : q = Len(r)
  BY LenProperties
<1>2. PICK y \in Nat : y = Len(s)
  BY LenProperties
<1>3. m \in Nat /\ m + q <= y /\ \A i \in 1..q : r[i] = s[m + i]
  BY <1>1, <1>2 DEF LaterPart
<1> SUFFICES ASSUME NEW i \in 1..q, NEW j \in 1..q, \A k \in i..j : r[k] # Nul
             PROVE  \E o \in Int : \A k \in i..j : o + k \in 1..Len(S) /\ S[o + k] = r[k]
  BY <1>1 DEF Runs
<1>4. PICK a \in 1..y : a = m + i
  BY <1>3
<1>5. PICK b \in 1..y : b = m + j
  BY <1>3
<1>6. \A k \in a..b : k - m \in i..j /\ k - m \in 1..q /\ m + (k - m) = k
  BY <1>3, <1>4, <1>5
<1>7. \A k \in a..b : s[k] # Nul
  BY <1>3, <1>6
<1>8. PICK o \in Int : \A k \in a..b : o + k \in 1..Len(S) /\ S[o + k] = s[k]
  BY <1>2, <1>7 DEF Runs
<1>9. PICK d \in Int : d = o + m
  BY <1>3
<1>10. ASSUME NEW k \in i..j PROVE d + k \in 1..Len(S) /\ S[d + k] = r[k]
  <2>1. m + k \in a..b /\ k \in 1..q
    BY <1>3, <1>4, <1>5
  <2>2. o + (m + k) = d + k
    BY <1>3, <1>9
  <2>3. o + (m + k) \in 1..Len(S) /\ S[o + (m + k)] = s[m + k]
    BY <1>8, <2>1
  <2> QED
    BY <1>3, <2>1, <2>2, <2>3
<1> QED
  BY <1>10

LEMMA RunsWrite ==
  ASSUME NEW s \in Seq(Symbols), NEW S \in Seq(Plain), Runs(s, S),
         s # <<>> => s[Len(s)] = Nul,
         NEW p \in Seq(Plain), Len(p) <= BUFFERSIZE, NEW c \in Nat,
         ComesAt(p, S, c), c + Len(p) <= Len(S)
  PROVE  Runs(s \o Chunk(p), S)
<1>1. PICK m \in Nat : m = Len(s)
  BY LenProperties
<1>2. PICK b \in Nat : b = BUFFERSIZE
  BY SizeFacts
<1>3. PICK d \in Nat : d = Len(p)
  BY LenProperties
<1>4. PICK e \in Nat : e = Len(S)
  BY LenProperties
<1>5. PICK u \in Seq(Symbols) : u = Chunk(p)
  BY ChunkIs
<1>6. Len(u) = b /\ \A i \in 1..b : u[i] = IF i <= d THEN p[i] ELSE Nul
  BY <1>2, <1>3, <1>5, ChunkIs
<1>7. PICK v : v = s \o u
  OBVIOUS
<1>8. Len(v) = m + b /\ \A i \in 1..(m + b) : v[i] = IF i <= m THEN s[i] ELSE u[i - m]
  <2>1. IsJoin(v, s, u, Symbols)
    BY <1>7, Joins
  <2> QED
    BY <1>1, <1>6, <2>1 DEF IsJoin
<1>9. m > 0 => s[m] = Nul
  <2>1. Len(<<>>) = 0
    OBVIOUS
  <2> QED
    BY <1>1, <2>1
<1>10. ASSUME NEW i \in 1..(m + b), NEW j \in 1..(m + b), \A k \in i..j : v[k] # Nul
       PROVE  \E o \in Int : \A k \in i..j : o + k \in 1..Len(S) /\ S[o + k] = v[k]
  <2>1. CASE j <= m /\ i <= m
    <3>1. i \in 1..m /\ j \in 1..m
      BY <2>1
    <3>2. \A k \in i..j : k \in 1..(m + b) /\ k <= m
      BY <3>1
    <3>3. \A k \in i..j : v[k] = s[k]
      BY <1>8, <3>2
    <3>4. \E o \in Int : \A k \in i..j : o + k \in 1..Len(S) /\ S[o + k] = s[k]
      BY <1>1, <1>10, <3>1, <3>3 DEF Runs
    <3> QED
      BY <3>3, <3>4
  <2>2. CASE ~ (j <= m) /\ i <= m
    <3>1. m \in i..j /\ m \in 1..(m + b) /\ m > 0
      BY <2>2
    <3>2. v[m] = Nul
      BY <1>8, <1>9, <3>1
    <3> QED
      BY <1>10, <3>1, <3>2
  <2>3. CASE ~ (i <= m)
    <3>1. PICK o \in Int : o = c - m
      OBVIOUS
    <3>2. ASSUME NEW k \in i..j PROVE o + k \in 1..Len(S) /\ S[o + k] = v[k]
      <4>1. PICK l \in 1..b : l = k - m
        BY <2>3
      <4>2. k \in 1..(m + b) /\ ~ (k <= m)
        BY <2>3
      <4>3. v[k] = u[l] /\ v[k] # Nul
        BY <1>8, <1>10, <4>1, <4>2
      <4>4. l <= d /\ v[k] = p[l]
        BY <1>6, <4>3
      <4>5. o + k = c + l /\ c + l \in 1..e /\ l \in 1..d
        BY <1>3, <1>4, <3>1, <4>1, <4>4
      <4>6. S[c + l] = p[l]
        BY <1>3, <4>5 DEF ComesAt
      <4> QED
        BY <1>4, <4>4, <4>5, <4>6
    <3> QED
      BY <3>2
  <2>4. CASE j <= m /\ ~ (i <= m)
    BY <2>3, <2>4
  <2> QED
    BY <2>1, <2>2, <2>3
<1>11. Runs(v, S)
  <2> SUFFICES ASSUME NEW i \in 1..Len(v), NEW j \in 1..Len(v), \A k \in i..j : v[k] # Nul
               PROVE  \E o \in Int : \A k \in i..j :
                        o + k \in 1..Len(S) /\ S[o + k] = v[k]
    BY DEF Runs
  <2>1. i \in 1..(m + b) /\ j \in 1..(m + b)
    BY <1>8
  <2> QED
    BY <1>10, <2>1
<1> QED
  BY <1>5, <1>7, <1>11

(* A text that was read comes in S in one piece, o symbols further. *)
InPiece(t, S, o) ==
  o \in Int /\ \A k \in 1..Len(t) : o + k \in 1..Len(S) /\ S[o + k] = t[k]

LEMMA TextInPiece ==
  ASSUME NEW s \in Seq(Symbols), NEW S, Runs(s, S), NEW n \in Nat, n <= Len(s),
         NEW t, IsText(t, s, n)
  PROVE  \E o : InPiece(t, S, o)
<1>1. PICK k \in 0..n : IsFirst(t, s, k) /\ \A i \in 1..k : s[i] # Nul
  BY DEF IsText
<1>2. Len(t) = k /\ k <= Len(s) /\ (\A i \in 1..k : t[i] = s[i]) /\ Len(s) \in Nat
  BY <1>1, LenProperties DEF IsFirst
<1>3. CASE k = 0
  <2>1. InPiece(t, S, 0)
    BY <1>2, <1>3 DEF InPiece
  <2> QED
    BY <2>1
<1>4. CASE k # 0
  <2>1. 1 \in 1..Len(s) /\ k \in 1..Len(s)
    BY <1>2, <1>4
  <2>2. PICK o \in Int : \A i \in 1..k : o + i \in 1..Len(S) /\ S[o + i] = s[i]
    BY <1>1, <2>1 DEF Runs
  <2>3. InPiece(t, S, o)
    BY <1>2, <2>2 DEF InPiece
  <2> QED
    BY <2>3
<1> QED
  BY <1>3, <1>4

LEMMA PrefixIs ==
  ASSUME NEW X, NEW s \in Seq(X), NEW t \in Seq(X)
  PROVE  IsPrefix(s, t) <=> IsFirst(s, t, Len(s))
<1>1. PICK n \in Nat : n = Len(s)
  BY LenProperties
<1>2. PICK m \in Nat : m = Len(t)
  BY LenProperties
<1>3. SubSeq(s, 1, n) = s
  <2>1. SubSeq(s, 1, n) \in Seq(X) /\ IsFirst(SubSeq(s, 1, n), s, n)
    BY <1>1, Firsts
  <2>2. IsFirst(s, s, n)
    BY <1>1 DEF IsFirst
  <2> QED
    BY <2>1, <2>2, SameFirst
<1>4. n <= m => SubSeq(t, 1, n) \in Seq(X) /\ IsFirst(SubSeq(t, 1, n), t, n)
  <2> SUFFICES ASSUME n <= m
               PROVE  SubSeq(t, 1, n) \in Seq(X) /\ IsFirst(SubSeq(t, 1, n), t, n)
    OBVIOUS
  <2>1. n \in 0..Len(t)
    BY <1>2
  <2> QED
    BY <2>1, Firsts
<1>5. ASSUME IsPrefix(s, t) PROVE IsFirst(s, t, n)
  <2>1. n <= m /\ s = SubSeq(t, 1, n)
    BY <1>1, <1>2, <1>3, <1>5 DEF IsPrefix
  <2> QED
    BY <1>4, <2>1
<1>6. ASSUME IsFirst(s, t, n) PROVE IsPrefix(s, t)
  <2>1. n <= m
    BY <1>2, <1>6 DEF IsFirst
  <2>2. s = SubSeq(t, 1, n)
    BY <1>4, <1>6, <2>1, SameFirst
  <2> QED
    BY <1>1, <1>2, <1>3, <2>1, <2>2 DEF IsPrefix
<1> QED
  BY <1>1, <1>5, <1>6

(* PlaceOfLast by its recursion. *)
Behind(p, x, t) == {j \in (p + 1)..Len(t) : t[j] = x} \cup {Len(t) + 1}
PlacesOf(g, s, t) ==
  g = [k \in 0..Len(s) |-> IF k = 0 THEN 0 ELSE Min(Behind(g[k - 1], s[k], t))]
ThePlaces(s, t) == CHOOSE g : PlacesOf(g, s, t)

Searches(g, s, t) ==
  /\ g \in [0..Len(s) -> Nat] /\ g[0] = 0
  /\ PlaceOfLast(s, t) = g[Len(s)]
  /\ \A k \in 1..Len(s) : g[k] = Min(Behind(g[k - 1], s[k], t))

LEMMA PlaceSteps ==
  ASSUME NEW X, NEW s \in Seq(X), NEW t \in Seq(X)
  PROVE  \E g : Searches(g, s, t)
<1>1. PICK n \in Nat : n = Len(s)
  BY LenProperties
<1>2. PICK m \in Nat : m = Len(t)
  BY LenProperties
<1> DEFINE F == [k \in 0..n |-> [p \in Nat |-> Min(Behind(p, s[k], t))]]
<1>3. ASSUME NEW k \in 0..n, NEW p \in Nat
      PROVE  F[k][p] = Min(Behind(p, s[k], t)) /\ F[k][p] \in Nat
  <2>1. PICK B : B = Behind(p, s[k], t)
    OBVIOUS
  <2>2. B \in SUBSET Nat /\ m + 1 \in B
    BY <1>2, <2>1 DEF Behind
  <2>3. Min(B) \in Nat
    BY <2>2, MinIs
  <2> QED
    BY <2>1, <2>3
<1> HIDE DEF F
<1>4. StaysIn(Nat, F, 0, n)
  BY <1>3 DEF StaysIn
<1>5. PICK g : g \in [0..n -> Nat] /\ Goes(g, 0, F, 0, n)
  BY <1>4, Recursion
<1>6. ASSUME NEW k \in 0..n
      PROVE  g[k] = IF k = 0 THEN 0 ELSE Min(Behind(g[k - 1], s[k], t))
  <2>1. CASE k = 0
    BY <1>5, <2>1 DEF Goes
  <2>2. CASE k # 0
    <3>1. k - 1 \in 0..n
      BY <2>2
    <3>2. g[k] = F[k][g[k - 1]] /\ g[k - 1] \in Nat
      BY <1>5, <2>2, <3>1 DEF Goes
    <3> QED
      BY <1>3, <2>2, <3>2
  <2> QED
    BY <2>1, <2>2
<1>7. PlacesOf(g, s, t)
  BY <1>1, <1>5, <1>6 DEF PlacesOf
<1>8. PICK h : h = ThePlaces(s, t)
  OBVIOUS
<1>9. PlacesOf(h, s, t)
  BY <1>7, <1>8 DEF ThePlaces
<1>10. \A k \in 0..n : h[k] = IF k = 0 THEN 0 ELSE Min(Behind(h[k - 1], s[k], t))
  BY <1>1, <1>9 DEF PlacesOf
<1>11. h \in [0..n -> Nat]
  <2>1. DOMAIN h = 0..n /\ h = [k \in 0..n |-> h[k]]
    BY <1>1, <1>9 DEF PlacesOf
  <2>2. \A k \in 0..n : h[k] \in Nat
    <3> DEFINE T == {k \in Nat : k \in 0..n => h[k] \in Nat}
    <3>1. 0 \in T
      BY <1>10
    <3>2. ASSUME NEW k \in T PROVE k + 1 \in T
      <4> SUFFICES ASSUME k + 1 \in 0..n PROVE h[k + 1] \in Nat
        OBVIOUS
      <4>1. k \in 0..n /\ (k + 1) - 1 = k /\ k + 1 # 0
        OBVIOUS
      <4>2. h[k] \in Nat /\ h[k + 1] = Min(Behind(h[k], s[k + 1], t))
        BY <1>10, <4>1
      <4> QED
        BY <1>3, <4>2
    <3> HIDE DEF T
    <3>3. T \in SUBSET Nat
      BY DEF T
    <3>4. T = Nat
      BY <3>1, <3>2, <3>3, SetInduction
    <3> QED
      BY <3>4 DEF T
  <2> QED
    BY <2>1, <2>2
<1>12. PlaceOfLast(s, t) = h[n]
  BY <1>1, <1>8 DEF PlaceOfLast, ThePlaces, PlacesOf, Behind
<1>13. h[0] = 0 /\ \A k \in 1..n : h[k] = Min(Behind(h[k - 1], s[k], t))
  BY <1>10
<1>14. Searches(h, s, t)
  BY <1>1, <1>11, <1>12, <1>13 DEF Searches
<1> QED
  BY <1>14

(* The search of PlaceOfLast finds no later places than any others. *)
LEMMA PartByPlaces ==
  ASSUME NEW s \in Seq(Plain), NEW t \in Seq(Plain), NEW c \in Nat, c <= Len(t),
         HasPlaces(s, t, c)
  PROVE  IsPartOf(s, t)
<1>1. PICK n \in Nat : n = Len(s)
  BY LenProperties
<1>2. PICK m \in Nat : m = Len(t)
  BY LenProperties
<1>0. PICK g : Searches(g, s, t)
  BY PlaceSteps
<1>3. /\ g \in [0..n -> Nat] /\ g[0] = 0
      /\ PlaceOfLast(s, t) = g[n]
      /\ \A k \in 1..n : g[k] = Min(Behind(g[k - 1], s[k], t))
  BY <1>0, <1>1 DEF Searches
<1>4. PICK f : Placed(s, f, t, c)
  BY DEF HasPlaces
<1>5. \A k \in 1..n : s[k] # Nul
  BY <1>1, ElementOfSeq DEF Plain
<1>6. /\ \A k \in 1..n : f[k] \in 1..m /\ t[f[k]] = s[k]
      /\ \A j \in 1..n : \A k \in 1..n : j < k => f[j] < f[k]
  <2>1. \A k \in 1..c : k \in 1..m
    BY <1>2
  <2> QED
    BY <1>1, <1>4, <1>5, <2>1 DEF Placed
<1>7. ASSUME NEW k \in 1..n, g[k - 1] < f[k] PROVE g[k] <= f[k]
  <2>1. PICK p \in Nat : p = g[k - 1]
    BY <1>3
  <2>2. PICK B : B = Behind(p, s[k], t)
    OBVIOUS
  <2>3. B \in SUBSET Nat
    BY <1>2, <2>1, <2>2 DEF Behind
  <2>4. f[k] \in B
    <3>1. f[k] \in (p + 1)..m /\ t[f[k]] = s[k]
      BY <1>6, <1>7, <2>1
    <3> QED
      BY <1>2, <2>2, <3>1 DEF Behind
  <2>5. Min(B) <= f[k]
    BY <2>3, <2>4, MinIs
  <2> QED
    BY <1>3, <2>1, <2>2, <2>5
<1> DEFINE T == {k \in Nat : k \in 1..n => g[k] <= f[k]}
<1>8. 0 \in T
  OBVIOUS
<1>9. ASSUME NEW k \in T PROVE k + 1 \in T
  <2> SUFFICES ASSUME k + 1 \in 1..n PROVE g[k + 1] <= f[k + 1]
    OBVIOUS
  <2>1. (k + 1) - 1 = k
    OBVIOUS
  <2>2. g[k] < f[k + 1]
    <3>1. CASE k = 0
      BY <1>3, <1>6, <3>1
    <3>2. CASE k # 0
      <4>1. k \in 1..n /\ g[k] <= f[k] /\ k < k + 1 /\ k \in 0..n
        BY <3>2
      <4>2. f[k] \in 1..m /\ f[k + 1] \in 1..m /\ f[k] < f[k + 1]
        BY <1>6, <4>1
      <4>3. g[k] \in Nat
        BY <1>3, <4>1
      <4> QED
        BY <4>1, <4>2, <4>3
    <3> QED
      BY <3>1, <3>2
  <2> QED
    BY <1>7, <2>1, <2>2
<1> HIDE DEF T
<1>10. T = Nat
  <2>1. T \in SUBSET Nat
    BY DEF T
  <2> QED
    BY <1>8, <1>9, <2>1, SetInduction
<1>11. g[n] <= m
  <2>1. CASE n = 0
    BY <1>3, <2>1
  <2>2. CASE n # 0
    <3>1. n \in 1..n
      BY <2>2
    <3>2. g[n] <= f[n] /\ f[n] \in 1..m /\ g[n] \in Nat
      BY <1>3, <1>6, <1>10, <3>1 DEF T
    <3> QED
      BY <3>2
  <2> QED
    BY <2>1, <2>2
<1> QED
  BY <1>2, <1>3, <1>11 DEF IsPartOf

-----------------------------------------------------------------------------
(* Links of a text that is one piece of a page.                            *)

Href == " href=\""

LEMMA PlaceStarts ==
  ASSUME NEW t, NEW i
  PROVE  i \in LinkPlaces(t) <=>
           i \in 1..(Len(t) - 1) /\ t[i] = "<a" /\ t[i + 1] = Href
BY PlaceIs DEF Href

LEMMA TargetInside ==
  ASSUME NEW t \in Seq(Plain), NEW T \in Seq(Plain), NEW q \in Int,
         NEW i \in LinkPlaces(t),
         \A k \in i..Len(t) : q + k \in 1..Len(T) /\ T[q + k] = t[k]
  PROVE  /\ q + i \in LinkPlaces(T)
         /\ IsFirst(Target(t, i), Target(T, q + i), Len(Target(t, i)))
<1>1. PICK n \in Nat : n = Len(t)
  BY LenProperties
<1>2. PICK m \in Nat : m = Len(T)
  BY LenProperties
<1>3. i \in 1..n /\ i + 1 \in 1..n /\ t[i] = "<a" /\ t[i + 1] = Href
  BY <1>1, PlacesIn, PlaceStarts
<1>4. \A k \in i..n : q + k \in 1..m /\ T[q + k] = t[k]
  BY <1>1, <1>2
<1>5. PICK j \in Int : j = q + i
  BY <1>3
<1>6. j \in 1..(m - 1) /\ T[j] = "<a" /\ T[j + 1] = Href
  <2>1. i \in i..n /\ i + 1 \in i..n
    BY <1>3
  <2>2. /\ q + i \in 1..m /\ q + (i + 1) \in 1..m
        /\ T[q + i] = t[i] /\ T[q + (i + 1)] = t[i + 1]
    BY <1>4, <2>1
  <2>3. q + (i + 1) = j + 1 /\ q + i = j
    BY <1>3, <1>5
  <2> QED
    BY <1>3, <2>2, <2>3
<1>7. j \in LinkPlaces(T)
  BY <1>2, <1>6, PlaceStarts
<1>8. PICK u \in Seq(Plain) : u = SubSeq(t, i + 2, Len(t)) /\ IsRest(u, t, i + 2, Plain)
  BY BehindPlace DEF IsRest
<1>9. PICK U \in Seq(Plain) : U = SubSeq(T, j + 2, Len(T)) /\ IsRest(U, T, j + 2, Plain)
  BY <1>7, BehindPlace DEF IsRest
<1>10. /\ Len(u) = n - (i + 2) + 1
       /\ \A k \in 1..(n - (i + 2) + 1) : u[k] = t[(i + 2) - 1 + k]
  BY <1>1, <1>8 DEF IsRest
<1>11. /\ Len(U) = m - (j + 2) + 1
       /\ \A k \in 1..(m - (j + 2) + 1) : U[k] = T[(j + 2) - 1 + k]
  BY <1>2, <1>9 DEF IsRest
<1>12. Len(u) <= Len(U) /\ Len(u) \in Nat /\ Len(U) \in Nat
  <2>1. n \in i..n
    BY <1>3
  <2>2. q + n \in 1..m
    BY <1>4, <2>1
  <2>3. n - (i + 2) + 1 <= m - (j + 2) + 1
    BY <1>3, <1>5, <2>2
  <2> QED
    BY <1>10, <1>11, <2>3, LenProperties
<1>13. ASSUME NEW k \in 1..Len(u) PROVE k \in 1..Len(U) /\ u[k] = U[k]
  <2>1. PICK l \in i..n : l = (i + 2) - 1 + k
    BY <1>3, <1>10
  <2>2. q + l = (j + 2) - 1 + k
    BY <1>3, <1>5, <2>1
  <2>3. u[k] = t[l] /\ T[q + l] = t[l]
    BY <1>4, <1>10, <2>1
  <2>4. k \in 1..Len(U)
    BY <1>12
  <2> QED
    BY <1>11, <2>2, <2>3, <2>4
<1>14. PICK a : FirstAt(u, Quote, a) /\ IsFirst(Before(u, Quote), u, a)
  BY BeforeIs
<1>15. PICK b : FirstAt(U, Quote, b) /\ IsFirst(Before(U, Quote), U, b)
  BY BeforeIs
<1>16. a \in 0..Len(u) /\ b \in 0..Len(U)
  BY <1>14, <1>15 DEF FirstAt
<1>17. a <= b
  <2> SUFFICES ASSUME b < a PROVE FALSE
    BY <1>12, <1>16
  <2>1. b + 1 \in 1..a /\ b + 1 \in 1..Len(u) /\ b < Len(U)
    BY <1>12, <1>16
  <2>2. U[b + 1] = Quote /\ u[b + 1] # Quote
    BY <1>14, <1>15, <2>1 DEF FirstAt
  <2> QED
    BY <1>13, <2>1, <2>2
<1>18. PICK x : x = Before(u, Quote)
  OBVIOUS
<1>19. PICK y : y = Before(U, Quote)
  OBVIOUS
<1>20. /\ Len(x) = a /\ Len(y) = b
       /\ (\A k \in 1..a : x[k] = u[k]) /\ (\A k \in 1..b : y[k] = U[k])
  BY <1>14, <1>15, <1>18, <1>19 DEF IsFirst
<1>21. \A k \in 1..a : x[k] = y[k]
  <2>1. \A k \in 1..a : k \in 1..b /\ k \in 1..Len(u)
    BY <1>12, <1>16, <1>17
  <2> QED
    BY <1>13, <1>20, <2>1
<1>22. IsFirst(x, y, Len(x))
  BY <1>17, <1>20, <1>21 DEF IsFirst
<1>23. x = Target(t, i) /\ y = Target(T, j)
  BY <1>8, <1>9, <1>18, <1>19 DEF Target
<1> QED
  BY <1>5, <1>7, <1>22, <1>23

LEMMA UpIs ==
  Up \in Seq(Plain) /\ Len(Up) = 2 /\ Up[1] = ".." /\ Up[2] = "/"
<1>1. \A s \in {"..", "/"} : s \in Plain
  <2>1. \A s \in {"..", "/"} : s \in Reserved /\ s # Nul
    BY DEF Reserved, Nul
  <2> QED
    BY <2>1, ReservedFacts
<1> QED
  BY <1>1 DEF Up

(* The beginning of a target, without its "../", is the beginning of the   *)
(* target without its own, or of "../".                                    *)
LEMMA StrippedInside ==
  ASSUME NEW x \in Seq(Plain), NEW y \in Seq(Plain), IsFirst(x, y, Len(x))
  PROVE  IsPrefix(Stripped(x), Up) \/ IsPrefix(Stripped(x), Stripped(y))
<1>1. PICK n \in Nat : n = Len(x)
  BY LenProperties
<1>2. PICK m \in Nat : m = Len(y)
  BY LenProperties
<1>3. n <= m /\ \A i \in 1..n : x[i] = y[i]
  BY <1>1, <1>2 DEF IsFirst
<1>4. PICK u \in Seq(Plain) : u = Up /\ Len(u) = 2 /\ u[1] = ".." /\ u[2] = "/"
  BY UpIs
<1>5. \A s \in Seq(Plain) : IsPrefix(u, s) <=> Len(s) >= 2 /\ s[1] = ".." /\ s[2] = "/"
  <2> SUFFICES ASSUME NEW s \in Seq(Plain)
               PROVE  IsPrefix(u, s) <=> Len(s) >= 2 /\ s[1] = ".." /\ s[2] = "/"
    OBVIOUS
  <2>1. IsPrefix(u, s) <=> IsFirst(u, s, 2)
    BY <1>4, PrefixIs
  <2>2. IsFirst(u, s, 2) <=> 2 <= Len(s) /\ \A i \in 1..2 : u[i] = s[i]
    BY <1>4 DEF IsFirst
  <2>3. Len(s) \in Nat /\ 1..2 = {1, 2}
    BY LenProperties
  <2> QED
    BY <1>4, <2>1, <2>2, <2>3
<1>6. CASE IsPrefix(u, x)
  <2>1. n >= 2 /\ x[1] = ".." /\ x[2] = "/"
    BY <1>1, <1>5, <1>6
  <2>2. 1 \in 1..n /\ 2 \in 1..n /\ m >= 2
    BY <1>3, <2>1
  <2>3. IsPrefix(u, y)
    BY <1>2, <1>3, <1>5, <2>1, <2>2
  <2>4. PICK a \in Seq(Plain) : a = Stripped(x) /\ IsRest(a, x, 3, Plain)
    BY <1>4, <1>6, StrippedType
  <2>5. PICK b \in Seq(Plain) : b = Stripped(y) /\ IsRest(b, y, 3, Plain)
    BY <1>4, <2>3, StrippedType
  <2>6. Len(a) = n - 3 + 1 /\ \A k \in 1..(n - 3 + 1) : a[k] = x[3 - 1 + k]
    BY <1>1, <2>4 DEF IsRest
  <2>7. Len(b) = m - 3 + 1 /\ \A k \in 1..(m - 3 + 1) : b[k] = y[3 - 1 + k]
    BY <1>2, <2>5 DEF IsRest
  <2>8. ASSUME NEW k \in 1..(n - 3 + 1) PROVE a[k] = b[k]
    <3>1. k \in 1..(m - 3 + 1) /\ 3 - 1 + k \in 1..n
      BY <1>3, <2>1
    <3> QED
      BY <1>3, <2>6, <2>7, <3>1
  <2>9. n - 3 + 1 <= m - 3 + 1
    BY <1>3
  <2>10. IsFirst(a, b, Len(a))
    BY <2>6, <2>7, <2>8, <2>9 DEF IsFirst
  <2>11. IsPrefix(a, b)
    BY <2>10, PrefixIs
  <2> QED
    BY <2>4, <2>5, <2>11
<1>7. CASE ~ IsPrefix(u, x) /\ ~ IsPrefix(u, y)
  <2>1. Stripped(x) = x /\ Stripped(y) = y
    BY <1>4, <1>7 DEF Stripped
  <2> QED
    BY <2>1, PrefixIs
<1>8. CASE ~ IsPrefix(u, x) /\ IsPrefix(u, y)
  <2>1. Stripped(x) = x
    BY <1>4, <1>8 DEF Stripped
  <2>2. y[1] = ".." /\ y[2] = "/"
    BY <1>5, <1>8
  <2>3. n < 2
    <3> SUFFICES ASSUME n >= 2 PROVE FALSE
      BY <1>1
    <3>1. 1 \in 1..n /\ 2 \in 1..n
      OBVIOUS
    <3> QED
      BY <1>1, <1>3, <1>5, <1>8, <2>2, <3>1
  <2>4. \A i \in 1..n : i = 1
    BY <2>3
  <2>5. n <= 2 /\ \A i \in 1..n : x[i] = u[i]
    BY <1>3, <1>4, <2>2, <2>3, <2>4
  <2>6. IsFirst(x, u, Len(x))
    BY <1>1, <1>4, <2>5 DEF IsFirst
  <2>7. IsPrefix(x, u)
    BY <2>6, PrefixIs
  <2> QED
    BY <1>4, <2>1, <2>7
<1> QED
  BY <1>6, <1>7, <1>8

(* The page that is sent. *)
Page == IF Served = {} THEN <<>> ELSE WholeText[CHOOSE n \in Served : TRUE]

LEMMA SentIs ==
  /\ Page \in Seq(Plain) /\ Sent \in Seq(Plain)
  /\ IsJoin(Sent, Header, Page, Plain)
  /\ \A n \in Served : n \in DOMAIN Text /\ Page = WholeText[n]
<1>1. \A n \in Served : n \in DOMAIN Text /\ Page = WholeText[n]
  BY ServedIs DEF Page
<1>2. Page \in Seq(Plain)
  <2>1. CASE Served = {}
    BY <2>1 DEF Page
  <2>2. CASE Served # {}
    <3>1. PICK n : n \in Served
      BY <2>2
    <3>2. Page = Flattened(Text[n])
      BY <1>1, <3>1, WholeIs
    <3> QED
      BY <1>1, <3>1, <3>2, TextFacts, FlatType
  <2> QED
    BY <2>1, <2>2
<1>3. PICK p \in Seq(Plain) : p = Page
  BY <1>2
<1>4. PICK h \in Seq(Plain) : h = Header
  BY ReservedFacts
<1>5. Sent = h \o p
  BY <1>3, <1>4 DEF Sent, Page
<1>6. IsJoin(h \o p, h, p, Plain)
  BY Joins
<1>7. h \o p \in Seq(Plain)
  BY <1>6 DEF IsJoin
<1> QED
  BY <1>1, <1>3, <1>4, <1>5, <1>6, <1>7

(* What may be followed. *)
Known(x) ==
  \/ IsPrefix(x, Up)
  \/ \E n \in Served : \E link \in ToSet(LinksOf[n]) : IsPrefix(x, link)

LEMMA LinkKnown ==
  ASSUME NEW t \in Seq(Plain), NEW o, InPiece(t, Sent, o), NEW i \in LinkPlaces(t)
  PROVE  Known(Stripped(Target(t, i)))
<1>1. PICK n \in Nat : n = Len(t)
  BY LenProperties
<1>2. i \in 1..n /\ t[i] = "<a"
  BY <1>1, PlacesIn, PlaceStarts
<1>3. PICK T \in Seq(Plain) : T = Page
  BY SentIs
<1>4. PICK m \in Nat : m = Len(T)
  BY LenProperties
<1>5. PICK S : S = Sent
  OBVIOUS
<1>6. /\ Len(S) = 6 + m
      /\ \A k \in 1..(6 + m) : S[k] = IF k <= 6 THEN Header[k] ELSE T[k - 6]
  <2>1. IsJoin(S, Header, T, Plain) /\ Len(Header) = 6
    BY <1>3, <1>5, SentIs, ReservedFacts
  <2> QED
    BY <1>4, <2>1 DEF IsJoin
<1>7. o \in Int /\ \A k \in 1..n : o + k \in 1..(6 + m) /\ S[o + k] = t[k]
  BY <1>1, <1>5, <1>6 DEF InPiece
<1>8. \A k \in 1..6 : Header[k] # "<a"
  BY DEF Header
<1>9. o + i > 6
  <2> SUFFICES ASSUME o + i <= 6 PROVE FALSE
    BY <1>2, <1>7
  <2>1. o + i \in 1..6 /\ o + i \in 1..(6 + m)
    BY <1>2, <1>7
  <2>2. S[o + i] = Header[o + i] /\ S[o + i] = "<a"
    BY <1>2, <1>6, <1>7, <2>1
  <2> QED
    BY <1>8, <2>1, <2>2
<1>10. PICK q \in Int : q = o - 6
  BY <1>7
<1>11. ASSUME NEW k \in i..Len(t) PROVE q + k \in 1..Len(T) /\ T[q + k] = t[k]
  <2>1. k \in 1..n
    BY <1>1, <1>2
  <2>2. PICK l \in 1..(6 + m) : l = o + k
    BY <1>7, <2>1
  <2>3. ~ (l <= 6) /\ l - 6 = q + k
    BY <1>2, <1>7, <1>9, <1>10, <2>2
  <2>4. S[l] = T[q + k] /\ S[l] = t[k]
    BY <1>6, <1>7, <2>1, <2>2, <2>3
  <2>5. q + k \in 1..m
    BY <2>2, <2>3
  <2> QED
    BY <1>4, <2>4, <2>5
<1>12. q + i \in LinkPlaces(T) /\ IsFirst(Target(t, i), Target(T, q + i), Len(Target(t, i)))
  BY <1>11, TargetInside
<1>13. PICK x \in Seq(Plain) : x = Target(t, i)
  BY TargetType
<1>14. PICK y \in Seq(Plain) : y = Target(T, q + i)
  BY <1>12, TargetType
<1>15. IsPrefix(Stripped(x), Up) \/ IsPrefix(Stripped(x), Stripped(y))
  BY <1>12, <1>13, <1>14, StrippedInside
<1>16. PICK p : p \in Served
  <2>1. ASSUME Served = {} PROVE FALSE
    <3>1. T = <<>>
      BY <1>3, <2>1 DEF Page
    <3> QED
      BY <1>12, <3>1, EmptyHasNoPlace
  <2> QED
    BY <2>1
<1>17. p \in DOMAIN Text /\ T = WholeText[p]
  BY <1>3, <1>16, SentIs
<1>18. PICK L \in Seq(Seq(Plain)) : L = Targets(T)
  BY TargetsAre
<1>19. LinksOf[p] = Handed(L)
  BY <1>17, <1>18 DEF LinksOf, Handed
<1>20. PICK k \in 1..Len(L) : L[k] = y
  BY <1>12, <1>14, <1>18, TargetsAre
<1>21. PICK H \in Seq(Seq(Plain)) : H = Handed(L)
  BY HandedType
<1>22. Len(H) = Len(L) /\ H[k] = Stripped(y)
  BY <1>20, <1>21, HandedType
<1>23. Stripped(y) \in ToSet(H)
  BY <1>20, <1>22 DEF ToSet
<1> QED
  BY <1>13, <1>15, <1>16, <1>19, <1>21, <1>23 DEF Known

-----------------------------------------------------------------------------
(* What holds of an exchange however it is cut: with S for what is sent,   *)
(* the lines r are the end of S, what was saved and what is in the stream  *)
(* have their places before that, and the stream has no seams but zeros.   *)
Traced(S, r, v, s) ==
  /\ \E c \in Nat : /\ c + Len(Flattened(r)) = Len(S) /\ ComesAt(Flattened(r), S, c)
                    /\ HasPlaces(v \o s, S, c)
  /\ Runs(s, S)
EndsInZero(s) == s # <<>> => s[Len(s)] = Nul

LEMMA TracedParts ==
  ASSUME NEW S \in Seq(Plain), NEW r \in Seq(Seq(Plain)), NEW v \in Seq(Plain),
         NEW s \in Seq(Symbols), Traced(S, r, v, s)
  PROVE  Runs(s, S) /\ HasPlaces(v \o s, S, Len(S))
<1>1. PICK c \in Nat : /\ c + Len(Flattened(r)) = Len(S)
                       /\ HasPlaces(v \o s, S, c)
  BY DEF Traced
<1>2. PICK f \in Seq(Plain) : f = Flattened(r)
  BY FlatType
<1>3. c <= Len(S) /\ Len(S) \in Nat
  BY <1>1, <1>2, LenProperties
<1> QED
  BY <1>1, <1>3, PlacesWiden DEF Traced

LEMMA PlainIsSymbols == \A s \in Seq(Plain) : s \in Seq(Symbols)
<1>1. Plain \subseteq Symbols
  BY DEF Plain
<1> QED
  BY <1>1

LEMMA TracedRead ==
  ASSUME NEW S, NEW r, NEW v \in Seq(Plain), NEW s \in Seq(Symbols),
         Traced(S, r, v, s), NEW t \in Seq(Plain), NEW q \in Seq(Symbols), NEW m,
         LaterPart(q, s, m), IsFirst(t, s, Len(t)), Len(t) <= m
  PROVE  Traced(S, r, v \o t, q)
<1>1. PICK c \in Nat : /\ c + Len(Flattened(r)) = Len(S) /\ ComesAt(Flattened(r), S, c)
                       /\ HasPlaces(v \o s, S, c)
  BY DEF Traced
<1>2. v \in Seq(Symbols) /\ t \in Seq(Symbols)
  BY PlainIsSymbols
<1>3. HasPlaces((v \o t) \o q, S, c)
  BY <1>1, <1>2, PlacesRead
<1>4. Runs(q, S)
  BY RunsLater DEF Traced
<1> QED
  BY <1>1, <1>3, <1>4 DEF Traced

(* The same if the text that was read is dropped. *)
LEMMA TracedDrop ==
  ASSUME NEW S, NEW r, NEW v \in Seq(Plain), NEW s \in Seq(Symbols),
         Traced(S, r, v, s), NEW q \in Seq(Symbols), NEW m, LaterPart(q, s, m)
  PROVE  Traced(S, r, v, q)
<1>0. PICK e : e = <<>>
  OBVIOUS
<1>1. e \in Seq(Plain) /\ e = <<>> /\ Len(e) = 0
  BY <1>0
<1>2. PICK k \in Nat : k = m
  BY DEF LaterPart
<1>3. IsFirst(e, s, Len(e)) /\ Len(e) <= m
  BY <1>1, <1>2, LenProperties DEF IsFirst
<1>4. Traced(S, r, v \o e, q)
  BY <1>1, <1>3, TracedRead
<1>5. v \o e = v
  BY <1>1, ConcatEmptySeq
<1> QED
  BY <1>4, <1>5

(* A chunk ends in zeros, as its text is shorter. *)
LEMMA ChunkEnds ==
  ASSUME NEW s \in Seq(Symbols), NEW p \in Seq(Plain), Len(p) < BUFFERSIZE
  PROVE  EndsInZero(s \o Chunk(p)) /\ Len(p) <= BUFFERSIZE
<1>1. PICK m \in Nat : m = Len(s)
  BY LenProperties
<1>2. PICK b \in Nat : b = BUFFERSIZE
  BY SizeFacts
<1>3. PICK d \in Nat : d = Len(p)
  BY LenProperties
<1>4. d < b /\ Len(p) <= BUFFERSIZE
  BY <1>2, <1>3
<1>5. PICK u \in Seq(Symbols) : u = Chunk(p)
  BY <1>4, ChunkIs
<1>6. Len(u) = b /\ \A i \in 1..b : u[i] = IF i <= d THEN p[i] ELSE Nul
  BY <1>2, <1>3, <1>4, <1>5, ChunkIs
<1>7. PICK v : v = s \o u
  OBVIOUS
<1>8. Len(v) = m + b /\ \A i \in 1..(m + b) : v[i] = IF i <= m THEN s[i] ELSE u[i - m]
  <2>1. IsJoin(v, s, u, Symbols)
    BY <1>7, Joins
  <2> QED
    BY <1>1, <1>6, <2>1 DEF IsJoin
<1>9. m + b \in 1..(m + b) /\ ~ (m + b <= m) /\ (m + b) - m = b /\ b \in 1..b
  BY <1>4
<1>10. v[m + b] = u[b] /\ u[b] = Nul
  BY <1>4, <1>6, <1>8, <1>9
<1> QED
  BY <1>4, <1>5, <1>7, <1>8, <1>10 DEF EndsInZero

(* The header, and the page behind it. *)
LEMMA TracedHeader ==
  ASSUME NEW S \in Seq(Plain), NEW r \in Seq(Seq(Plain)), NEW p \in Seq(Plain),
         p = Flattened(r), IsJoin(S, Header, p, Plain)
  PROVE  Traced(S, r, <<>>, Chunk(Header)) /\ EndsInZero(Chunk(Header))
<1>1. PICK h \in Seq(Plain) : h = Header /\ Len(h) = 6
  BY ReservedFacts
<1>2. Len(h) < BUFFERSIZE
  BY <1>1, SizeFacts
<1>0. PICK e : e = <<>>
  OBVIOUS
<1>3. e \in Seq(Symbols) /\ e = <<>> /\ Len(e) = 0
  BY <1>0
<1>4. EndsInZero(e \o Chunk(h)) /\ Len(h) <= BUFFERSIZE
  BY <1>2, <1>3, ChunkEnds
<1>5. PICK u \in Seq(Symbols) : u = Chunk(h)
  BY <1>4, ChunkIs
<1>6. PICK n \in Nat : n = Len(p)
  BY LenProperties
<1>7. /\ Len(S) = 6 + n
      /\ \A i \in 1..(6 + n) : S[i] = IF i <= 6 THEN h[i] ELSE p[i - 6]
  BY <1>1, <1>6 DEF IsJoin
<1>8. ComesAt(h, S, 0) /\ 0 + Len(h) <= Len(S)
  <2>1. \A i \in 1..6 : i \in 1..(6 + n) /\ 0 + i = i
    OBVIOUS
  <2> QED
    BY <1>1, <1>7, <2>1 DEF ComesAt
<1>9. ComesAt(p, S, 6)
  <2>1. \A i \in 1..n : 6 + i \in 1..(6 + n) /\ ~ (6 + i <= 6) /\ (6 + i) - 6 = i
    OBVIOUS
  <2> QED
    BY <1>6, <1>7, <2>1 DEF ComesAt
<1>10. HasPlaces(e, S, 0) /\ Runs(e, S) /\ EndsInZero(e)
  <2>1. PICK g : g = [i \in 1..0 |-> 0]
    OBVIOUS
  <2>2. 1..Len(e) = {} /\ 1..0 = {}
    BY <1>3
  <2>3. g \in [1..Len(e) -> Nat]
    BY <2>1, <2>2
  <2>4. Placed(e, g, S, 0)
    BY <2>2, <2>3 DEF Placed
  <2>5. Runs(e, S)
    BY <2>2 DEF Runs
  <2> QED
    BY <1>3, <2>4, <2>5 DEF HasPlaces, EndsInZero
<1>11. e \o u = u
  BY <1>3, ConcatEmptySeq
<1>12. HasPlaces(e \o u, S, 6)
  <2>1. HasPlaces(e \o Chunk(h), S, 0 + Len(h))
    BY <1>3, <1>4, <1>8, <1>10, PlacesWrite
  <2>2. 0 + Len(h) = 6
    BY <1>1
  <2> QED
    BY <1>5, <2>1, <2>2
<1>13. Runs(e \o u, S)
  <2>1. e # <<>> => e[Len(e)] = Nul
    BY <1>3
  <2>2. Runs(e \o Chunk(h), S)
    BY <1>3, <1>4, <1>8, <1>10, <2>1, RunsWrite
  <2> QED
    BY <1>5, <2>2
<1>14. Traced(S, r, e, u)
  BY <1>6, <1>7, <1>9, <1>11, <1>12, <1>13 DEF Traced
<1> QED
  BY <1>1, <1>3, <1>4, <1>5, <1>11, <1>14

(* Another line of it, written or lost. *)
LEMMA TracedSend ==
  ASSUME NEW S \in Seq(Plain), NEW r \in Seq(Seq(Plain)), r # <<>>,
         NEW v \in Seq(Plain), NEW s \in Seq(Symbols), Traced(S, r, v, s),
         NEW p, p = Piece(Head(r)), NEW l, l = LinesLeft(r)
  PROVE  /\ Traced(S, l, v, s)
         /\ EndsInZero(s) => Traced(S, l, v, s \o Chunk(p)) /\ EndsInZero(s \o Chunk(p))
<1>1. /\ p \in Seq(Plain) /\ l \in Seq(Seq(Plain))
      /\ Flattened(r) = p \o Flattened(l)
  BY Sending
<1>2. Len(p) < BUFFERSIZE
  BY LinesLeftType, PieceIs
<1>3. PICK c \in Nat : /\ c + Len(Flattened(r)) = Len(S) /\ ComesAt(Flattened(r), S, c)
                       /\ HasPlaces(v \o s, S, c)
  BY DEF Traced
<1>4. PICK f \in Seq(Plain) : f = Flattened(r)
  BY FlatType
<1>5. PICK g \in Seq(Plain) : g = Flattened(l)
  BY <1>1, FlatType
<1>6. PICK d \in Nat : d = Len(p)
  BY <1>1, LenProperties
<1>7. PICK n \in Nat : n = Len(g)
  BY LenProperties
<1>8. Len(f) = d + n /\ \A i \in 1..(d + n) : f[i] = IF i <= d THEN p[i] ELSE g[i - d]
  <2>1. IsJoin(f, p, g, Plain)
    BY <1>1, <1>4, <1>5, Joins
  <2> QED
    BY <1>6, <1>7, <2>1 DEF IsJoin
<1>9. \A i \in 1..(d + n) : S[c + i] = f[i]
  BY <1>3, <1>4, <1>8 DEF ComesAt
<1>10. ComesAt(p, S, c)
  <2>1. \A i \in 1..d : i \in 1..(d + n)
    OBVIOUS
  <2> QED
    BY <1>6, <1>8, <1>9, <2>1 DEF ComesAt
<1>11. ComesAt(g, S, c + d)
  <2> SUFFICES ASSUME NEW i \in 1..n PROVE S[(c + d) + i] = g[i]
    BY <1>7 DEF ComesAt
  <2>1. PICK k \in 1..(d + n) : k = d + i
    OBVIOUS
  <2>2. (c + d) + i = c + k /\ ~ (k <= d) /\ k - d = i
    BY <2>1
  <2> QED
    BY <1>8, <1>9, <2>2
<1>12. (c + d) + n = Len(S) /\ c + d \in Nat /\ c <= c + d /\ c + d <= Len(S)
  BY <1>3, <1>4, <1>8
<1>13. HasPlaces(v \o s, S, c + d)
  BY <1>3, <1>12, PlacesWiden
<1>14. Traced(S, l, v, s)
  BY <1>5, <1>7, <1>11, <1>12, <1>13 DEF Traced
<1>15. ASSUME EndsInZero(s)
       PROVE  Traced(S, l, v, s \o Chunk(p)) /\ EndsInZero(s \o Chunk(p))
  <2>1. EndsInZero(s \o Chunk(p)) /\ Len(p) <= BUFFERSIZE
    BY <1>1, <1>2, ChunkEnds
  <2>2. Runs(s \o Chunk(p), S)
    BY <1>1, <1>6, <1>10, <1>12, <1>15, <2>1, RunsWrite DEF Traced, EndsInZero
  <2>3. PICK w \in Seq(Symbols) : w = v \o s
    BY PlainIsSymbols, ConcatProperties
  <2>4. HasPlaces(w \o Chunk(p), S, c + Len(p))
    BY <1>1, <1>3, <1>10, <2>1, <2>3, PlacesWrite
  <2>5. PICK u \in Seq(Symbols) : u = Chunk(p)
    BY <1>1, <2>1, ChunkIs
  <2>6. Together(v, s, u)
    BY PlainIsSymbols, PutTogether
  <2>7. w \o u = v \o (s \o u)
    BY <2>3, <2>6 DEF Together
  <2>8. HasPlaces(v \o (s \o Chunk(p)), S, c + d)
    BY <1>6, <2>4, <2>5, <2>7
  <2>9. Traced(S, l, v, s \o Chunk(p))
    BY <1>5, <1>7, <1>11, <1>12, <2>2, <2>8 DEF Traced
  <2> QED
    BY <2>1, <2>9
<1> QED
  BY <1>14, <1>15

-----------------------------------------------------------------------------
(* Where an exchange is, however it is cut: nothing is sent yet; the page  *)
(* was refused; or it is sent.                                             *)
Unanswered ==
  /\ spc \in {"read", "respond", "crashed", "nofile"}
  /\ stream["crawler"] = <<>> /\ Untouched

NoLinkIn(s) == \A i \in 1..Len(s) : s[i] # "<a"
StatusOf(s) == Len(s) >= 2 => s[2] = "40"
TurnedDown ==
  /\ spc \in {"close", "closed"} /\ Untouched
  /\ NoLinkIn(stream["crawler"])
  /\ cpc \in {"get", "header"} => StatusOf(stream["crawler"])

AllKnown(f) == \A k \in 1..Len(f) : Known(f[k])
Answering ==
  /\ spc \in {"send", "closed", "killed"}
  /\ Traced(Sent, rest, saved, stream["crawler"])
  /\ spc = "send" => EndsInZero(stream["crawler"])
  /\ AllKnown(found)

Located == Unanswered \/ TurnedDown \/ Answering

LEMMA LocatedInit ==
  ASSUME Init PROVE Located
BY DEF Init, Located, Unanswered, Untouched, Ends

(* What is sent depends on the name that was asked for only. *)
LEMMA SentStays ==
  ASSUME file' = file
  PROVE  Sent' = Sent /\ Page' = Page /\ Served' = Served
         /\ \A x : Known(x)' <=> Known(x)
BY DEF Sent, Page, Served, Known

LEMMA LocatedStays ==
  ASSUME Located, file' = file, stream'["crawler"] = stream["crawler"],
         spc' = spc, rest' = rest, fp' = fp, saved' = saved, found' = found,
         cpc' \in {"get", "header"} => cpc \in {"get", "header"}
  PROVE  Located'
<1>1. CASE Unanswered
  BY <1>1 DEF Located, Unanswered, Untouched
<1>2. CASE TurnedDown
  BY <1>2 DEF Located, TurnedDown, Untouched
<1>3. CASE Answering
  <2>1. Sent' = Sent /\ (AllKnown(found) => AllKnown(found)')
    BY SentStays DEF AllKnown, Known, Served
  <2>2. Answering'
    BY <1>3, <2>1 DEF Answering
  <2> QED
    BY <2>2 DEF Located
<1> QED
  BY <1>1, <1>2, <1>3 DEF Located

LEMMA LocatedGET ==
  ASSUME Base, Located, GET PROVE Located'
<1>1. stream'["crawler"] = stream["crawler"]
  <2>1. asked \in Names /\ Write("server", Request(asked)) /\ "crawler" # "server"
    BY BaseParts DEF StreamTypes, GET
  <2> QED
    BY <2>1, RequestIs, EndsAre, WriteEffect
<1> QED
  BY <1>1, LocatedStays DEF GET, serverVars

LEMMA LocatedReadEnd ==
  ASSUME Base, Located, ReadEnd PROVE Located'
BY LocatedStays DEF ReadEnd, serverVars

LEMMA LocatedReadRequest ==
  ASSUME Base, Located, NEW n \in 1..BUFFERSIZE, ReadRequest(n) PROVE Located'
<1>1. Unanswered
  BY DEF ReadRequest, Located, TurnedDown, Answering
<1>2. stream'["crawler"] = stream["crawler"]
  <2>1. Read("server", n) /\ "crawler" # "server"
    BY DEF ReadRequest
  <2> QED
    BY <2>1, EndsAre, ReadEffect
<1>3. spc' \in {"crashed", "respond", "read"}
  BY DEF ReadRequest
<1>4. UNCHANGED crawlerVars
  BY DEF ReadRequest
<1> QED
  BY <1>1, <1>2, <1>3, <1>4 DEF Located, Unanswered, Untouched, crawlerVars

LEMMA LocatedReuseMemory ==
  ASSUME Base, Located, ReuseMemory PROVE Located'
<1>1. Unanswered
  BY DEF ReuseMemory, Located, TurnedDown, Answering
<1> QED
  BY <1>1 DEF ReuseMemory, Located, Unanswered, Untouched, crawlerVars

LEMMA LocatedSigpipe ==
  ASSUME Base, Located, Sigpipe PROVE Located'
<1>1. Answering
  BY DEF Sigpipe, Located, Unanswered, TurnedDown
<1>2. /\ file' = file /\ stream' = stream /\ rest' = rest /\ saved' = saved
      /\ found' = found /\ spc' = "killed"
  BY DEF Sigpipe, crawlerVars
<1>3. Sent' = Sent /\ (AllKnown(found) => AllKnown(found)')
  BY <1>2, SentStays DEF AllKnown, Known, Served
<1>4. Answering'
  BY <1>1, <1>2, <1>3 DEF Answering
<1> QED
  BY <1>4 DEF Located

LEMMA LocatedSendOk ==
  ASSUME Base, Located, SendOk PROVE Located'
<1>1. Unanswered
  BY DEF SendOk, Located, TurnedDown, Answering
<1>2. PICK c \in Seq(Symbols) : c = Chunk(Header)
  BY HeaderIs
<1>3. stream'["crawler"] = c
  <2>1. Write("crawler", c)
    BY <1>2 DEF SendOk
  <2>2. stream'["crawler"] = stream["crawler"] \o c
    BY <2>1, EndsAre, WriteEffect
  <2>3. <<>> \o c = c
    BY ConcatEmptySeq
  <2> QED
    BY <1>1, <2>2, <2>3 DEF Unanswered
<1>4. /\ file' = file /\ saved' = <<>> /\ found' = <<>> /\ spc' = "send"
      /\ rest' = IF file = <<>> THEN <<>> ELSE Text[CHOOSE n \in Served : TRUE]
      /\ Served # {} \/ file = <<>>
  BY <1>1 DEF SendOk, Unanswered, Untouched, crawlerVars
<1>5. rest' \in Seq(Seq(Plain)) /\ Page = Flattened(rest')
  <2>1. CASE Served = {}
    <3>1. rest' = <<>> /\ Page = <<>>
      BY <1>4, <2>1 DEF Page
    <3> QED
      BY <3>1, FlatStart
  <2>2. CASE Served # {}
    <3>1. PICK n : n \in Served
      BY <2>2
    <3>2. /\ n \in DOMAIN Text /\ n \in Names /\ file = Spelling[n]
          /\ (CHOOSE m \in Served : TRUE) = n
      BY <3>1, ServedIs
    <3>3. file # <<>>
      <4> SUFFICES ASSUME file = <<>> PROVE FALSE
        OBVIOUS
      <4>1. PICK k : k = Len(Spelling[n])
        OBVIOUS
      <4>2. k = 2
        BY <3>2, <4>1, SpellingFacts
      <4>3. k = Len(file)
        BY <3>2, <4>1
      <4>4. Len(file) = 0
        OBVIOUS
      <4> QED
        BY <4>2, <4>3, <4>4
    <3>4. rest' = Text[n]
      BY <1>4, <3>2, <3>3
    <3>5. Page = WholeText[n]
      BY <3>1, SentIs
    <3> QED
      BY <3>2, <3>4, <3>5, TextFacts, WholeIs
  <2> QED
    BY <2>1, <2>2
<1>6. PICK r \in Seq(Seq(Plain)) : r = rest'
  BY <1>5
<1>7. PICK p \in Seq(Plain) : p = Page
  BY SentIs
<1>8. PICK S \in Seq(Plain) : S = Sent
  BY SentIs
<1>9. IsJoin(S, Header, p, Plain)
  BY <1>7, <1>8, SentIs
<1>10. Traced(S, r, <<>>, Chunk(Header)) /\ EndsInZero(Chunk(Header))
  BY <1>5, <1>6, <1>7, <1>9, TracedHeader
<1>11. Sent' = S
  BY <1>4, <1>8, SentStays
<1>12. AllKnown(found)'
  <2>1. Len(found') = 0
    BY <1>4
  <2> QED
    BY <2>1 DEF AllKnown
<1>13. Answering'
  BY <1>2, <1>3, <1>4, <1>6, <1>10, <1>11, <1>12 DEF Answering
<1> QED
  BY <1>13 DEF Located

LEMMA LocatedOpenFails ==
  ASSUME Base, Located, OpenFails PROVE Located'
<1>1. Unanswered
  BY DEF OpenFails, Located, TurnedDown, Answering
<1> QED
  BY <1>1 DEF OpenFails, Located, Unanswered, Untouched, crawlerVars

LEMMA LocatedSendError ==
  ASSUME Base, Located, SendError PROVE Located'
<1>1. Unanswered
  BY DEF SendError, Located, TurnedDown, Answering
<1>2. PICK x \in {"3", "4"} : Write("crawler", Chunk(Refusal(x)))
  BY SendErrorIs
<1>3. PICK p \in Seq(Plain) : p = Refusal(x) /\ Len(p) = 4
  BY RefusalIs
<1>4. Len(p) <= BUFFERSIZE /\ BUFFERSIZE \in Nat /\ BUFFERSIZE >= 8
  BY <1>3, SizeFacts
<1>5. PICK c \in Seq(Symbols) : c = Chunk(p)
  BY <1>4, ChunkIs
<1>6. stream'["crawler"] = c
  <2>1. stream'["crawler"] = stream["crawler"] \o c
    BY <1>2, <1>3, <1>5, EndsAre, WriteEffect
  <2>2. <<>> \o c = c
    BY ConcatEmptySeq
  <2> QED
    BY <1>1, <2>1, <2>2 DEF Unanswered
<1>7. p[1] = "HTTP/1.1" /\ p[2] = "40" /\ p[3] = x /\ p[4] = "html"
  BY <1>3 DEF Refusal
<1>8. Len(c) = BUFFERSIZE /\ \A i \in 1..BUFFERSIZE : c[i] = IF i <= 4 THEN p[i] ELSE Nul
  BY <1>3, <1>4, <1>5, ChunkIs
<1>9. NoLinkIn(c)
  <2> SUFFICES ASSUME NEW i \in 1..BUFFERSIZE PROVE c[i] # "<a"
    BY <1>8 DEF NoLinkIn
  <2>1. CASE i <= 4
    <3>1. i = 1 \/ i = 2 \/ i = 3 \/ i = 4
      BY <1>4, <2>1
    <3>2. c[i] \in {"HTTP/1.1", "40", x, "html"}
      BY <1>7, <1>8, <2>1, <3>1
    <3> QED
      BY <3>2
  <2>2. CASE ~ (i <= 4)
    BY <1>8, <2>2 DEF Nul
  <2> QED
    BY <2>1, <2>2
<1>10. StatusOf(c)
  <2>1. 2 \in 1..BUFFERSIZE
    BY <1>4
  <2> QED
    BY <1>7, <1>8, <2>1 DEF StatusOf
<1>11. spc' = "close" /\ UNCHANGED crawlerVars
  BY DEF SendError
<1>12. TurnedDown'
  BY <1>1, <1>6, <1>9, <1>10, <1>11 DEF TurnedDown, Unanswered, Untouched, crawlerVars
<1> QED
  BY <1>12 DEF Located

LEMMA LocatedSendLine ==
  ASSUME Base, Located, SendLine PROVE Located'
<1>1. /\ spc = "send" /\ rest # <<>> /\ rest' = LinesLeft(rest)
      /\ cpc = "crashed" => UNCHANGED stream
      /\ cpc # "crashed" => Write("crawler", Chunk(Piece(Head(rest))))
      /\ UNCHANGED <<asked, buffer, crawlerVars, spc, file, short>>
  BY SendLineIs
<1>2. Answering
  BY <1>1 DEF Located, Unanswered, TurnedDown
<1>3. file' = file /\ saved' = saved /\ found' = found /\ spc' = spc
  BY <1>1 DEF crawlerVars
<1>4. PICK r \in Seq(Seq(Plain)) : r = rest
  BY BaseParts DEF ServerTypes
<1>5. PICK v \in Seq(Plain) : v = saved
  BY BaseParts DEF CrawlerTypes
<1>6. PICK s \in Seq(Symbols) : s = stream["crawler"]
  BY BaseParts, EndsAre DEF StreamTypes
<1>7. PICK S \in Seq(Plain) : S = Sent
  BY SentIs
<1>8. Traced(S, r, v, s) /\ EndsInZero(s)
  BY <1>1, <1>2, <1>4, <1>5, <1>6, <1>7 DEF Answering
<1>9. PICK p : p = Piece(Head(r))
  OBVIOUS
<1>10. PICK l : l = LinesLeft(r)
  OBVIOUS
<1>11. /\ Traced(S, l, v, s)
       /\ Traced(S, l, v, s \o Chunk(p)) /\ EndsInZero(s \o Chunk(p))
  BY <1>1, <1>4, <1>8, <1>9, <1>10, TracedSend
<1>12. PICK q : q = stream'["crawler"]
  OBVIOUS
<1>13. q = s \/ q = s \o Chunk(p)
  <2>1. CASE cpc = "crashed"
    BY <1>1, <1>6, <1>12, <2>1
  <2>2. CASE cpc # "crashed"
    <3>1. Write("crawler", Chunk(p))
      BY <1>1, <1>4, <1>9, <2>2
    <3>2. Chunk(p) \in Seq(Symbols)
      BY <1>1, <1>4, <1>9, LinesLeftType, PieceChunk
    <3> QED
      BY <1>6, <1>12, <3>1, <3>2, EndsAre, WriteEffect
  <2> QED
    BY <2>1, <2>2
<1>14. Traced(S, l, v, q) /\ EndsInZero(q)
  BY <1>8, <1>11, <1>13
<1>15. Sent' = Sent /\ (AllKnown(found) => AllKnown(found)')
  BY <1>3, SentStays DEF AllKnown, Known, Served
<1>16. Traced(Sent', rest', saved', stream'["crawler"])
  BY <1>1, <1>3, <1>4, <1>5, <1>7, <1>10, <1>12, <1>14, <1>15
<1>17. EndsInZero(stream'["crawler"])
  BY <1>12, <1>14
<1>18. AllKnown(found)'
  BY <1>2, <1>15 DEF Answering
<1>19. Answering'
  BY <1>1, <1>3, <1>16, <1>17, <1>18 DEF Answering
<1> QED
  BY <1>19 DEF Located

LEMMA LocatedCloseServer ==
  ASSUME Base, Located, CloseServer PROVE Located'
<1>1. PICK s \in Seq(Symbols) : s = stream["crawler"]
  BY BaseParts, EndsAre DEF StreamTypes
<1>2. PICK q \in Seq(Symbols) : q = stream'["crawler"]
  BY CloseEffect, EndsAre
<1>3. PICK k \in 0..Len(s) : IsFirst(q, s, k)
  BY <1>1, <1>2, CloseEffect
<1>4. Len(q) = k /\ k <= Len(s) /\ \A i \in 1..k : q[i] = s[i]
  BY <1>3 DEF IsFirst
<1>5. /\ spc \in {"close", "send"} /\ spc' = "closed"
      /\ file' = file /\ rest' = rest /\ UNCHANGED crawlerVars
  BY DEF CloseServer
<1>6. CASE TurnedDown
  <2>1. NoLinkIn(s) /\ (cpc \in {"get", "header"} => StatusOf(s))
    BY <1>1, <1>6 DEF TurnedDown
  <2>2. Len(s) \in Nat
    BY LenProperties
  <2>3. NoLinkIn(q)
    BY <1>3, <1>4, <2>1, <2>2 DEF NoLinkIn
  <2>4. cpc \in {"get", "header"} => StatusOf(q)
    BY <1>3, <1>4, <2>1, <2>2 DEF StatusOf
  <2>5. TurnedDown'
    BY <1>2, <1>5, <1>6, <2>3, <2>4 DEF TurnedDown, Untouched, crawlerVars
  <2> QED
    BY <2>5 DEF Located
<1>7. CASE Answering
  <2>1. PICK r \in Seq(Seq(Plain)) : r = rest
    BY BaseParts DEF ServerTypes
  <2>2. PICK v \in Seq(Plain) : v = saved
    BY BaseParts DEF CrawlerTypes
  <2>3. PICK S \in Seq(Plain) : S = Sent
    BY SentIs
  <2>4. LaterPart(q, s, 0)
    <3>1. \A i \in 1..k : 0 + i = i
      BY <1>3
    <3> QED
      BY <1>3, <1>4, <3>1 DEF LaterPart
  <2>5. Traced(S, r, v, q)
    BY <1>1, <1>7, <2>1, <2>2, <2>3, <2>4, TracedDrop DEF Answering
  <2>6. Sent' = Sent /\ (AllKnown(found) => AllKnown(found)')
    BY <1>5, SentStays DEF AllKnown, Known, Served, crawlerVars
  <2>7. Traced(Sent', rest', saved', stream'["crawler"])
    BY <1>2, <1>5, <2>1, <2>2, <2>3, <2>5, <2>6 DEF crawlerVars
  <2>8. Answering'
    BY <1>5, <1>7, <2>6, <2>7 DEF Answering
  <2> QED
    BY <2>8 DEF Located
<1> QED
  BY <1>5, <1>6, <1>7 DEF Located, Unanswered

(* A read takes the text t off the stream s, among n symbols, and leaves q. *)
TakesText(s, q, t, n) ==
  /\ n <= Len(s) /\ LaterPart(q, s, n) /\ IsText(t, s, n)
  /\ IsFirst(t, s, Len(t)) /\ Len(t) <= n
  /\ EndsInZero(s) => EndsInZero(q)

LEMMA CrawlerTakes ==
  ASSUME Base, NEW n \in 1..BUFFERSIZE, Read("crawler", n),
         NEW t, t = Visible(Received("crawler", n))
  PROVE  /\ t \in Seq(Plain)
         /\ \E s \in Seq(Symbols) : \E q \in Seq(Symbols) :
              /\ s = stream["crawler"] /\ q = stream'["crawler"]
              /\ TakesText(s, q, t, n)
<1>1. PICK s \in Seq(Symbols) : s = stream["crawler"]
  BY BaseParts, EndsAre DEF StreamTypes
<1>2. PICK q \in Seq(Symbols) : q = stream'["crawler"]
  BY ReadEffect, EndsAre
<1>3. n <= Len(s) /\ IsRest(q, s, n + 1, Symbols) /\ IsText(t, s, n)
  BY <1>1, <1>2, ReadEffect, EndsAre
<1>4. PICK b \in Nat : b = Len(s)
  BY LenProperties
<1>5. n \in Nat /\ n >= 1 /\ n <= b
  BY <1>3, <1>4, SizeFacts
<1>6. Len(q) = b - n /\ \A i \in 1..(b - n) : q[i] = s[n + i]
  <2>1. b - (n + 1) + 1 = b - n /\ \A i \in 1..(b - n) : (n + 1) - 1 + i = n + i
    BY <1>5
  <2> QED
    BY <1>3, <1>4, <2>1 DEF IsRest
<1>7. LaterPart(q, s, n)
  BY <1>4, <1>5, <1>6 DEF LaterPart
<1>8. t \in Seq(Plain)
  BY <1>3, TextType
<1>9. IsFirst(t, s, Len(t)) /\ Len(t) <= n
  BY <1>3, <1>5 DEF IsText, IsFirst
<1>10. EndsInZero(s) => EndsInZero(q)
  <2> SUFFICES ASSUME EndsInZero(s), q # <<>> PROVE q[Len(q)] = Nul
    BY DEF EndsInZero
  <2>1. Len(q) > 0
    OBVIOUS
  <2>2. b - n \in 1..(b - n) /\ n + (b - n) = b
    BY <1>5, <1>6, <2>1
  <2>3. q[Len(q)] = s[b]
    BY <1>6, <2>2
  <2>4. s # <<>>
    BY <1>4, <1>5
  <2> QED
    BY <1>4, <2>3, <2>4 DEF EndsInZero
<1> QED
  BY <1>1, <1>2, <1>3, <1>7, <1>8, <1>9, <1>10 DEF TakesText

(* What a read that saves nothing leaves of a page on its way. *)
LEMMA AnsweringDrop ==
  ASSUME Base, Answering, file' = file, rest' = rest, spc' = spc,
         saved' = saved, NEW n, NEW t, NEW s \in Seq(Symbols),
         NEW q \in Seq(Symbols), s = stream["crawler"], q = stream'["crawler"],
         TakesText(s, q, t, n)
  PROVE  /\ Traced(Sent', rest', saved', stream'["crawler"])
         /\ spc' = "send" => EndsInZero(stream'["crawler"])
         /\ spc' \in {"send", "closed", "killed"}
<1>1. PICK r \in Seq(Seq(Plain)) : r = rest
  BY BaseParts DEF ServerTypes
<1>2. PICK v \in Seq(Plain) : v = saved
  BY BaseParts DEF CrawlerTypes
<1>3. PICK S \in Seq(Plain) : S = Sent
  BY SentIs
<1>4. Traced(S, r, v, s)
  BY <1>1, <1>2, <1>3 DEF Answering
<1>5. LaterPart(q, s, n)
  BY DEF TakesText
<1>6. Traced(S, r, v, q)
  BY <1>4, <1>5, TracedDrop
<1>7. Sent' = Sent
  BY SentStays
<1> QED
  BY <1>1, <1>2, <1>3, <1>6, <1>7 DEF Answering, TakesText

LEMMA LocatedReadHeader ==
  ASSUME Base, Located, NEW n \in 1..BUFFERSIZE, ReadHeader(n) PROVE Located'
<1>1. PICK t : /\ t = Visible(Received("crawler", n))
               /\ cpc = "header" /\ Read("crawler", n)
               /\ UNCHANGED <<asked, saved, found, serverVars>>
               /\ Len(t) = 1 \/ (Opened(Words(t, 3)) /\ Len(t) = 4) =>
                    cpc' = "crashed" /\ fp' = fp
               /\ ~ (Len(t) = 1 \/ (Opened(Words(t, 3)) /\ Len(t) = 4)) =>
                    /\ fp' = (Opened(Words(t, 3)) /\ asked \in Storable)
                    /\ cpc' = IF Refused(Words(t, 3)) THEN "done" ELSE "data"
  BY ReadHeaderIs
<1>2. PICK s \in Seq(Symbols), q \in Seq(Symbols) :
        s = stream["crawler"] /\ q = stream'["crawler"] /\ TakesText(s, q, t, n)
  BY <1>1, CrawlerTakes
<1>3. t \in Seq(Plain)
  BY <1>1, CrawlerTakes
<1>4. /\ saved' = saved /\ found' = found /\ spc' = spc /\ file' = file /\ rest' = rest
      /\ cpc' \in {"crashed", "done", "data"}
  BY <1>1 DEF serverVars
<1>5. PICK b \in Nat : b = Len(s)
  BY LenProperties
<1>6. n \in Nat /\ 1 <= n /\ n <= b
  BY <1>2, <1>5, SizeFacts DEF TakesText
<1>7. CASE Unanswered
  <2>1. b = 0
    BY <1>2, <1>5, <1>7 DEF Unanswered
  <2> QED
    BY <1>6, <2>1
<1>8. CASE TurnedDown
  <2>1. fp = FALSE /\ spc \in {"close", "closed"} /\ saved = <<>> /\ found = <<>>
        /\ NoLinkIn(s) /\ StatusOf(s)
    BY <1>1, <1>2, <1>8 DEF TurnedDown, Untouched
  <2>2. NoLinkIn(q)
    <3>1. PICK p \in Nat : p = Len(q)
      BY LenProperties
    <3>2. n + p <= b /\ \A i \in 1..p : q[i] = s[n + i]
      BY <1>2, <1>5, <3>1 DEF TakesText, LaterPart
    <3>3. \A i \in 1..p : n + i \in 1..b
      BY <1>6, <3>2
    <3>4. \A i \in 1..b : s[i] # "<a"
      BY <1>5, <2>1 DEF NoLinkIn
    <3> QED
      BY <3>1, <3>2, <3>3, <3>4 DEF NoLinkIn
  <2>3. ~ Opened(Words(t, 3))
    <3>1. PICK w \in Seq(Plain) : w = Words(t, 3)
      BY <1>3, WordsAre
    <3>2. CASE Len(t) >= 3
      <4>1. w = <<t[2], t[3]>>
        <5>1. PICK c \in 2..4 : c = 3 /\ c - 1 = 2
          OBVIOUS
        <5>2. Words(t, c) = <<t[c - 1], t[c]>>
          BY <1>3, <3>2, <5>1, WordsAre
        <5> QED
          BY <3>1, <5>1, <5>2
      <4>2. t[2] = s[2] /\ Len(s) >= 2
        BY <1>2, <1>3, <1>5, <1>6, <3>2, LenProperties DEF TakesText, IsFirst
      <4>3. t[2] = "40"
        BY <2>1, <4>2 DEF StatusOf
      <4>4. w[1] = "40"
        BY <4>1, <4>3
      <4> QED
        BY <3>1, <4>4 DEF Opened
    <3>3. CASE Len(t) < 3
      <4>1. Len(w) < 2
        BY <1>3, <3>1, <3>3, WordsAre
      <4>2. w # <<"20", "0">>
        <5> SUFFICES ASSUME w = <<"20", "0">> PROVE FALSE
          OBVIOUS
        <5>1. PICK k : k = Len(w)
          OBVIOUS
        <5>2. k = 2
          BY <5>1
        <5> QED
          BY <4>1, <5>1, <5>2
      <4> QED
        BY <3>1, <4>2 DEF Opened
    <3> QED
      BY <1>3, <3>2, <3>3, LenProperties
  <2>4. fp' = FALSE
    BY <1>1, <2>1, <2>3
  <2>5. TurnedDown'
    BY <1>2, <1>4, <2>1, <2>2, <2>4 DEF TurnedDown, Untouched
  <2> QED
    BY <2>5 DEF Located
<1>9. CASE Answering
  <2>1. AllKnown(found)'
    BY <1>4, <1>9, SentStays DEF Answering, AllKnown, Known, Served
  <2>2. Answering'
    BY <1>2, <1>4, <1>9, <2>1, AnsweringDrop DEF Answering
  <2> QED
    BY <2>2 DEF Located
<1> QED
  BY <1>7, <1>8, <1>9 DEF Located

(* What check_links hands on of a text that is one piece of what is sent,  *)
(* and of a text without a link.                                           *)
LEMMA HandedKnown ==
  ASSUME NEW t \in Seq(Plain), NEW o, InPiece(t, Sent, o),
         NEW g, g = Handed(check_links(t))
  PROVE  g \in Seq(Seq(Plain)) /\ AllKnown(g)
<1>1. PICK c \in Seq(Seq(Plain)) : c = check_links(t)
  BY SeenIs
<1>2. PICK T \in Seq(Seq(Plain)) : T = Targets(t)
  BY TargetsAre
<1>3. PICK k \in 0..Len(T) : IsFirst(c, T, k)
  BY <1>1, <1>2, SeenIs
<1>4. /\ g \in Seq(Seq(Plain)) /\ Len(g) = Len(c)
      /\ \A i \in 1..Len(c) : g[i] = Stripped(c[i])
  BY <1>1, HandedType
<1>5. \A i \in 1..Len(c) : Known(g[i])
  <2> SUFFICES ASSUME NEW i \in 1..Len(c) PROVE Known(g[i])
    OBVIOUS
  <2>1. i \in 1..Len(T) /\ c[i] = T[i]
    BY <1>3, LenProperties DEF IsFirst
  <2>2. PICK j \in LinkPlaces(t) : Target(t, j) = c[i]
    BY <1>2, <2>1, TargetsAre
  <2>3. Known(Stripped(Target(t, j)))
    BY LinkKnown
  <2> QED
    BY <1>4, <2>2, <2>3
<1> QED
  BY <1>4, <1>5 DEF AllKnown

LEMMA NothingHanded ==
  ASSUME NEW t \in Seq(Plain), NoLinkIn(t)
  PROVE  Handed(check_links(t)) = <<>>
<1>1. LinkPlaces(t) = {}
  <2> SUFFICES ASSUME NEW i \in LinkPlaces(t) PROVE FALSE
    OBVIOUS
  <2>1. i \in 1..Len(t) /\ t[i] = "<a"
    BY PlacesIn, PlaceStarts
  <2> QED
    BY <2>1 DEF NoLinkIn
<1>2. PICK c \in Seq(Seq(Plain)) : c = check_links(t)
  BY SeenIs
<1>3. PICK T : T = Targets(t)
  OBVIOUS
<1>4. T = <<>>
  BY <1>1, <1>3, NoPlaces
<1>5. PICK k \in 0..Len(T) : IsFirst(c, T, k)
  BY <1>2, <1>3, SeenIs
<1>6. Len(c) = 0
  BY <1>4, <1>5 DEF IsFirst
<1>7. PICK g \in Seq(Seq(Plain)) : g = Handed(c) /\ Len(g) = 0
  BY <1>6, HandedType
<1>8. g = <<>>
  BY <1>7
<1> QED
  BY <1>2, <1>7, <1>8

LEMMA KnownJoin ==
  ASSUME NEW f \in Seq(Seq(Plain)), NEW g \in Seq(Seq(Plain)),
         AllKnown(f), AllKnown(g), NEW h, h = f \o g
  PROVE  AllKnown(h)
<1>1. PICK m \in Nat : m = Len(f)
  BY LenProperties
<1>2. PICK n \in Nat : n = Len(g)
  BY LenProperties
<1>3. Len(h) = m + n /\ \A i \in 1..(m + n) : h[i] = IF i <= m THEN f[i] ELSE g[i - m]
  <2>1. IsJoin(h, f, g, Seq(Plain))
    BY Joins
  <2> QED
    BY <1>1, <1>2, <2>1 DEF IsJoin
<1>4. \A i \in 1..(m + n) : Known(h[i])
  <2> SUFFICES ASSUME NEW i \in 1..(m + n) PROVE Known(h[i])
    OBVIOUS
  <2>1. CASE i <= m
    <3>1. i \in 1..m
      BY <2>1
    <3> QED
      BY <1>1, <1>3, <2>1, <3>1 DEF AllKnown
  <2>2. CASE ~ (i <= m)
    <3>1. i - m \in 1..n
      BY <2>2
    <3> QED
      BY <1>2, <1>3, <2>2, <3>1 DEF AllKnown
  <2> QED
    BY <2>1, <2>2
<1> QED
  BY <1>3, <1>4 DEF AllKnown

LEMMA LocatedReadData ==
  ASSUME Base, Located, NEW n \in 1..BUFFERSIZE, ReadData(n) PROVE Located'
<1>1. PICK t : /\ t = Visible(Received("crawler", n))
               /\ cpc = "data" /\ Read("crawler", n)
               /\ UNCHANGED <<asked, fp, length, serverVars>>
               /\ found' = found \o Handed(check_links(t))
               /\ cpc' \in {"looping", "crashed", "data"}
               /\ saved' = saved \/ (fp /\ saved' = saved \o t)
  BY ReadDataIs DEF CrawlerTypes
<1>2. PICK s \in Seq(Symbols), q \in Seq(Symbols) :
        s = stream["crawler"] /\ q = stream'["crawler"] /\ TakesText(s, q, t, n)
  BY <1>1, CrawlerTakes
<1>3. t \in Seq(Plain)
  BY <1>1, CrawlerTakes
<1>4. fp' = fp /\ spc' = spc /\ file' = file /\ rest' = rest
  BY <1>1 DEF serverVars
<1>5. PICK b \in Nat : b = Len(s)
  BY LenProperties
<1>6. n \in Nat /\ 1 <= n /\ n <= b
  BY <1>2, <1>5, SizeFacts DEF TakesText
<1>7. CASE Unanswered
  <2>1. b = 0
    BY <1>2, <1>5, <1>7 DEF Unanswered
  <2> QED
    BY <1>6, <2>1
<1>8. CASE TurnedDown
  <2>1. fp = FALSE /\ spc \in {"close", "closed"} /\ saved = <<>> /\ found = <<>>
        /\ NoLinkIn(s)
    BY <1>2, <1>8 DEF TurnedDown, Untouched
  <2>2. \A i \in 1..b : s[i] # "<a"
    BY <1>5, <2>1 DEF NoLinkIn
  <2>3. NoLinkIn(q)
    <3>1. PICK p \in Nat : p = Len(q)
      BY LenProperties
    <3>2. n + p <= b /\ \A i \in 1..p : q[i] = s[n + i]
      BY <1>2, <1>5, <3>1 DEF TakesText, LaterPart
    <3>3. \A i \in 1..p : n + i \in 1..b
      BY <1>6, <3>2
    <3> QED
      BY <2>2, <3>1, <3>2, <3>3 DEF NoLinkIn
  <2>4. NoLinkIn(t)
    <3>1. PICK p \in Nat : p = Len(t)
      BY <1>3, LenProperties
    <3>2. p <= b /\ \A i \in 1..p : t[i] = s[i]
      BY <1>2, <1>5, <3>1 DEF TakesText, IsFirst
    <3> QED
      BY <2>2, <3>1, <3>2 DEF NoLinkIn
  <2>5. saved' = <<>>
    BY <1>1, <2>1
  <2>6. found' = <<>>
    <3>1. PICK e : e = <<>>
      OBVIOUS
    <3>2. e \o e = e
      BY <3>1, ConcatEmptySeq
    <3> QED
      BY <1>1, <1>3, <2>1, <2>4, <3>1, <3>2, NothingHanded
  <2>7. TurnedDown'
    BY <1>1, <1>2, <1>4, <2>1, <2>3, <2>5, <2>6 DEF TurnedDown, Untouched
  <2> QED
    BY <2>7 DEF Located
<1>9. CASE Answering
  <2>1. PICK r \in Seq(Seq(Plain)) : r = rest
    BY BaseParts DEF ServerTypes
  <2>2. PICK v \in Seq(Plain) : v = saved
    BY BaseParts DEF CrawlerTypes
  <2>3. PICK S \in Seq(Plain) : S = Sent
    BY SentIs
  <2>4. Traced(S, r, v, s)
    BY <1>2, <1>9, <2>1, <2>2, <2>3 DEF Answering
  <2>5. LaterPart(q, s, n) /\ IsFirst(t, s, Len(t)) /\ Len(t) <= n /\ IsText(t, s, n)
        /\ n <= Len(s) /\ (EndsInZero(s) => EndsInZero(q))
    BY <1>2 DEF TakesText
  <2>6. PICK w : w = saved'
    OBVIOUS
  <2>7. Traced(S, r, w, q)
    <3>1. Traced(S, r, v, q)
      BY <2>4, <2>5, TracedDrop
    <3>2. Traced(S, r, v \o t, q)
      BY <1>3, <2>4, <2>5, TracedRead
    <3> QED
      BY <1>1, <2>2, <2>6, <3>1, <3>2
  <2>8. Sent' = S
    BY <1>4, <2>3, SentStays
  <2>9. Traced(Sent', rest', saved', stream'["crawler"])
    BY <1>2, <1>4, <2>1, <2>6, <2>7, <2>8
  <2>10. PICK o : InPiece(t, S, o)
    <3>1. Runs(s, S)
      BY <2>4, TracedParts
    <3> QED
      BY <1>6, <2>5, <3>1, TextInPiece
  <2>11. PICK g : g = Handed(check_links(t))
    OBVIOUS
  <2>12. g \in Seq(Seq(Plain)) /\ AllKnown(g)
    BY <1>3, <2>3, <2>10, <2>11, HandedKnown
  <2>13. PICK f \in Seq(Seq(Plain)) : f = found
    BY BaseParts DEF CrawlerTypes
  <2>14. PICK h : h = found'
    OBVIOUS
  <2>15. h = f \o g
    BY <1>1, <2>11, <2>13, <2>14
  <2>16. AllKnown(h)
    BY <1>9, <2>12, <2>13, <2>15, KnownJoin DEF Answering
  <2>17. AllKnown(found)'
    BY <1>4, <2>14, <2>16, SentStays DEF AllKnown, Known, Served
  <2>18. spc' = "send" => EndsInZero(stream'["crawler"])
    BY <1>2, <1>4, <1>9, <2>5 DEF Answering
  <2>19. Answering'
    BY <1>4, <1>9, <2>9, <2>17, <2>18 DEF Answering
  <2> QED
    BY <2>19 DEF Located
<1> QED
  BY <1>7, <1>8, <1>9 DEF Located

LEMMA LocatedStep ==
  ASSUME Base, Located, [Next]_vars PROVE Located'
<1>1. CASE Next
  BY <1>1, LocatedGET, LocatedReadEnd, LocatedReadHeader, LocatedReadData,
     LocatedReadRequest, LocatedReuseMemory, LocatedSendOk, LocatedOpenFails,
     LocatedSendError, LocatedSendLine, LocatedSigpipe, LocatedCloseServer
     DEF Next, CrawlerStep, ServerStep
<1>2. CASE UNCHANGED vars
  BY <1>2, LocatedStays DEF vars, crawlerVars, serverVars
<1> QED
  BY <1>1, <1>2

LInv == Base /\ Located

LEMMA LocatedHolds == Spec => []LInv
<1>1. Init => LInv
  BY BaseInit, LocatedInit DEF LInv
<1>2. LInv /\ [Next]_vars => LInv'
  BY BaseStep, LocatedStep DEF LInv
<1> QED
  BY <1>1, <1>2, PTL DEF Spec

(* Reads of any length: what is saved has its places, one behind the       *)
(* other, in what is sent.                                                 *)
LEMMA SavedIsPart ==
  ASSUME Base, Located PROVE IsPartOf(saved, Sent)
<1>1. PICK S \in Seq(Plain) : S = Sent
  BY SentIs
<1>2. PICK v \in Seq(Plain) : v = saved
  BY BaseParts DEF CrawlerTypes
<1>3. PICK c \in Nat : c = Len(S)
  BY LenProperties
<1>4. CASE saved = <<>>
  <2>1. Len(v) = 0
    BY <1>2, <1>4
  <2>2. 1..Len(v) = {}
    BY <2>1
  <2>3. PICK g : g = [i \in 1..Len(v) |-> 0]
    OBVIOUS
  <2>4. Placed(v, g, S, c)
    BY <2>2, <2>3 DEF Placed
  <2>5. HasPlaces(v, S, c)
    BY <2>4 DEF HasPlaces
  <2> QED
    BY <1>1, <1>2, <1>3, <2>5, PartByPlaces
<1>5. CASE Answering
  <2>1. PICK r \in Seq(Seq(Plain)) : r = rest
    BY BaseParts DEF ServerTypes
  <2>2. PICK s \in Seq(Symbols) : s = stream["crawler"]
    BY BaseParts, EndsAre DEF StreamTypes
  <2>3. Traced(S, r, v, s)
    BY <1>1, <1>2, <1>5, <2>1, <2>2 DEF Answering
  <2>4. PICK w : w = v \o s
    OBVIOUS
  <2>5. HasPlaces(w, S, c)
    BY <1>3, <2>3, <2>4, TracedParts
  <2>6. PICK m \in Nat : m = Len(v)
    BY LenProperties
  <2>7. PICK k \in Nat : k = Len(s)
    BY LenProperties
  <2>8. Len(w) = m + k /\ \A i \in 1..m : i \in 1..(m + k) /\ w[i] = v[i]
    <3>1. v \in Seq(Symbols)
      BY PlainIsSymbols
    <3>2. IsJoin(w, v, s, Symbols)
      BY <2>4, <3>1, Joins
    <3>3. \A i \in 1..m : i \in 1..(m + k) /\ i <= m
      OBVIOUS
    <3> QED
      BY <2>6, <2>7, <3>2, <3>3 DEF IsJoin
  <2>9. PICK h : h = [i \in 1..m |-> i]
    OBVIOUS
  <2>10. PicksFrom(v, h, w)
    BY <2>6, <2>8, <2>9 DEF PicksFrom
  <2>11. HasPlaces(v, S, c)
    BY <2>5, <2>10, PlacesThin
  <2> QED
    BY <1>1, <1>2, <1>3, <2>11, PartByPlaces
<1> QED
  BY <1>4, <1>5 DEF Located, Unanswered, TurnedDown, Untouched

(* However reads cut the response: nothing is saved twice, out of order or *)
(* from elsewhere, and each link followed is the beginning of one of that  *)
(* page's, or of its "../" (crawler_functions.c:19-37, 57-102).            *)
THEOREM NothingIsInvented == Spec => []NothingInvented
<1>1. LInv => NothingInvented
  <2> SUFFICES ASSUME Base, Located PROVE NothingInvented
    BY DEF LInv
  <2>1. IsPartOf(saved, Sent)
    BY SavedIsPart
  <2>2. PICK f \in Seq(Seq(Plain)) : f = found
    BY BaseParts DEF CrawlerTypes
  <2>3. AllKnown(f)
    <3>1. CASE found = <<>>
      <4>1. Len(f) = 0
        BY <2>2, <3>1
      <4> QED
        BY <4>1 DEF AllKnown
    <3>2. CASE Answering
      BY <2>2, <3>2 DEF Answering
    <3> QED
      BY <3>1, <3>2 DEF Located, Unanswered, TurnedDown, Untouched
  <2>4. DOMAIN f = 1..Len(f)
    BY LenProperties
  <2>5. \A k \in DOMAIN f : Known(f[k])
    BY <2>3, <2>4 DEF AllKnown
  <2> QED
    BY <2>1, <2>2, <2>5 DEF NothingInvented, Known
<1> QED
  BY <1>1, LocatedHolds, PTL
=============================================================================
