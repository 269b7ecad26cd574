----------------------------- MODULE DataLemmas -----------------------------
(***************************************************************************)
(* Facts about data that the proofs of several components need: queues     *)
(* without repetitions, induction over the natural numbers and over the    *)
(* subsets of a finite set, and sums over finite sets.                     *)
(***************************************************************************)
EXTENDS SequenceTheorems, FiniteSetTheorems, TLAPS

(* A sequence has at least the elements of its positions. *)
LEMMA InRange ==
  ASSUME NEW S, NEW s \in Seq(S), NEW x
  PROVE  x \in Range(s) <=> \E i \in 1..Len(s) : s[i] = x
BY RangeEquality

(* Adding an element at the rear adds it to the range, and to a sequence   *)
(* that did not have it no repetition.                                     *)
LEMMA AppendRange ==
  ASSUME NEW S, NEW s \in Seq(S), NEW e \in S
  PROVE  /\ Range(Append(s, e)) = Range(s) \cup {e}
         /\ IsInjective(s) /\ e \notin Range(s) => IsInjective(Append(s, e))
<1> DEFINE a == Append(s, e)
<1>1. a \in Seq(S) /\ Len(s) \in Nat /\ Len(a) = Len(s) + 1
      /\ (\A i \in 1..Len(s) : a[i] = s[i]) /\ a[Len(s) + 1] = e
  BY AppendProperties, LenProperties
<1>2. DOMAIN a = 1..Len(s) + 1 /\ DOMAIN s = 1..Len(s)
  BY <1>1, LenProperties
<1>3. Range(a) = Range(s) \cup {e}
  <2>1. ASSUME NEW x \in Range(a) PROVE x \in Range(s) \cup {e}
    <3>1. PICK i \in 1..Len(s) + 1 : a[i] = x
      BY <1>2, <2>1 DEF Range
    <3> QED
      BY <1>1, <1>2, <3>1 DEF Range
  <2>2. ASSUME NEW x \in Range(s) PROVE x \in Range(a)
    <3>1. PICK i \in 1..Len(s) : s[i] = x
      BY <1>2, <2>2 DEF Range
    <3> QED
      BY <1>1, <1>2, <3>1 DEF Range
  <2>3. e \in Range(a)
    BY <1>1, <1>2 DEF Range
  <2> QED
    BY <2>1, <2>2, <2>3
<1>4. ASSUME IsInjective(s), e \notin Range(s) PROVE IsInjective(a)
  <2>1. \A i \in 1..Len(s) : a[i] # e
    BY <1>1, <1>2, <1>4 DEF Range
  <2> QED
    BY <1>1, <1>2, <1>4, <2>1 DEF IsInjective
<1> QED
  BY <1>3, <1>4

(* Removing the front of a sequence without repetitions removes it from    *)
(* the range.                                                              *)
LEMMA TailRange ==
  ASSUME NEW S, NEW s \in Seq(S), s # <<>>, IsInjective(s)
  PROVE  /\ Head(s) \in Range(s)
         /\ Range(Tail(s)) = Range(s) \ {Head(s)}
         /\ IsInjective(Tail(s))
<1> DEFINE t == Tail(s)
<1>1. /\ t \in Seq(S) /\ Len(s) \in Nat \ {0} /\ Len(t) = Len(s) - 1
      /\ \A i \in 1..Len(t) : t[i] = s[i + 1]
  BY HeadTailProperties, EmptySeq
<1>2. DOMAIN t = 1..Len(s) - 1 /\ DOMAIN s = 1..Len(s)
  BY <1>1, LenProperties
<1>3. Head(s) = s[1]
  OBVIOUS
<1>4. Head(s) \in Range(s)
  BY <1>1, <1>2, <1>3 DEF Range
<1>5. ASSUME NEW x \in Range(t) PROVE x \in Range(s) \ {Head(s)}
  <2>1. PICK i \in 1..Len(s) - 1 : t[i] = x
    BY <1>2, <1>5 DEF Range
  <2>2. x = s[i + 1] /\ i + 1 \in 1..Len(s) /\ i + 1 # 1 /\ 1 \in 1..Len(s)
    BY <1>1, <2>1
  <2> QED
    BY <1>2, <1>3, <2>2 DEF Range, IsInjective
<1>6. ASSUME NEW x \in Range(s), x # Head(s) PROVE x \in Range(t)
  <2>1. PICK i \in 1..Len(s) : s[i] = x
    BY <1>2, <1>6 DEF Range
  <2>2. i - 1 \in 1..Len(s) - 1 /\ t[i - 1] = s[(i - 1) + 1]
    BY <1>1, <1>3, <1>6, <2>1
  <2>3. t[i - 1] = x
    BY <2>1, <2>2
  <2> QED
    BY <1>2, <2>2, <2>3 DEF Range
<1>7. IsInjective(t)
  <2>1. SUFFICES ASSUME NEW i \in 1..Len(s) - 1, NEW j \in 1..Len(s) - 1,
                        t[i] = t[j]
                 PROVE  i = j
    BY <1>2 DEF IsInjective
  <2>2. s[i + 1] = s[j + 1] /\ i + 1 \in 1..Len(s) /\ j + 1 \in 1..Len(s)
    BY <1>1, <2>1
  <2>3. i + 1 = j + 1
    BY <1>2, <2>2 DEF IsInjective
  <2> QED
    BY <2>3
<1> QED
  BY <1>4, <1>5, <1>6, <1>7

(* An element in front of a sequence, and the head and tail of one. *)
LEMMA PrependRange ==
  ASSUME NEW S, NEW s \in Seq(S), NEW e \in S
  PROVE  /\ <<e>> \o s \in Seq(S)
         /\ Range(<<e>> \o s) = {e} \cup Range(s)
<1> DEFINE f == <<e>>
<1>1. f \in Seq(S) /\ DOMAIN f = {1} /\ f[1] = e
  OBVIOUS
<1>2. Range(f) = {e}
  BY <1>1 DEF Range
<1> HIDE DEF f
<1>3. f \o s \in Seq(S) /\ Range(f \o s) = Range(f) \cup Range(s)
  BY <1>1, ConcatProperties, RangeConcatenation
<1> QED
  BY <1>2, <1>3 DEF f

LEMMA HeadTailRange ==
  ASSUME NEW S, NEW s \in Seq(S), s # <<>>
  PROVE  /\ Head(s) \in S /\ Tail(s) \in Seq(S)
         /\ Range(s) = {Head(s)} \cup Range(Tail(s))
<1> DEFINE t == Tail(s)
<1>1. /\ Head(s) = s[1] /\ Head(s) \in S
      /\ t \in Seq(S) /\ Len(s) \in Nat \ {0} /\ Len(t) = Len(s) - 1
      /\ \A i \in 1..Len(t) : t[i] = s[i + 1]
  BY HeadTailProperties, EmptySeq
<1>2. DOMAIN t = 1..Len(t) /\ DOMAIN s = 1..Len(s)
  BY <1>1, LenProperties
<1>3. Range(s) \subseteq {Head(s)} \cup Range(t)
  <2> SUFFICES ASSUME NEW i \in 1..Len(s) PROVE s[i] \in {Head(s)} \cup Range(t)
    BY <1>2 DEF Range
  <2>1. CASE i = 1
    BY <1>1, <2>1
  <2>2. CASE i # 1
    <3>1. i - 1 \in 1..Len(t) /\ (i - 1) + 1 = i
      BY <1>1, <2>2
    <3>2. t[i - 1] = s[i]
      BY <1>1, <3>1
    <3> QED
      BY <1>2, <3>1, <3>2 DEF Range
  <2> QED
    BY <2>1, <2>2
<1>4. Range(t) \subseteq Range(s)
  <2>1. \A i \in 1..Len(t) : t[i] = s[i + 1] /\ i + 1 \in 1..Len(s)
    BY <1>1
  <2> QED
    BY <1>2, <2>1 DEF Range
<1>5. Head(s) \in Range(s)
  BY <1>1, <1>2 DEF Range
<1> QED
  BY <1>1, <1>3, <1>4, <1>5

-----------------------------------------------------------------------------
(* Induction over the natural numbers, for a set of numbers instead of a   *)
(* predicate: the form that needs no operator as a parameter.              *)

Less == OpToRel(<, Nat)

LEMMA LessPairs == \A m \in Nat, n \in Nat : m < n => <<m, n>> \in Less
BY DEF Less, OpToRel

LEMMA LessWellFounded == IsWellFoundedOn(Less, Nat)
BY NatLessThanWellFounded DEF Less

LEMMA SetInduction ==
  ASSUME NEW T \in SUBSET Nat, 0 \in T, \A n \in T : n + 1 \in T
  PROVE  T = Nat
<1> SUFFICES ASSUME Nat \ T # {} PROVE FALSE
  OBVIOUS
<1>1. PICK n \in Nat \ T : \A m \in Nat \ T : ~ (<<m, n>> \in Less)
  BY LessWellFounded, WFMin
<1>2. n - 1 \in Nat /\ n - 1 < n
  OBVIOUS
<1>3. <<n - 1, n>> \in Less
  BY <1>2, LessPairs
<1>4. n - 1 \in T
  BY <1>1, <1>2, <1>3
<1> QED
  BY <1>2, <1>4

LEMMA LeastNumber ==
  ASSUME NEW S \in SUBSET Nat, S # {}
  PROVE  \E n \in S : \A m \in S : n <= m
<1>1. PICK n \in S : \A m \in S : ~ (<<m, n>> \in Less)
  BY LessWellFounded, WFMin
<1>2. \A m \in S : ~ (m < n)
  BY <1>1, LessPairs
<1> QED
  BY <1>2

(* A function on an interval may be defined from each value to the next:   *)
(* F[k] gives the value at k from that at k - 1.                           *)
Goes(g, a, F, lo, hi) ==
  \A k \in lo..hi : g[k] = IF k = lo THEN a ELSE F[k][g[k - 1]]
StaysIn(S, F, lo, hi) == \A k \in lo..hi : \A s \in S : F[k][s] \in S

LEMMA Recursion ==
  ASSUME NEW lo \in Nat, NEW hi \in Nat, NEW S, NEW a \in S, NEW F,
         StaysIn(S, F, lo, hi)
  PROVE  \E g : g \in [lo..hi -> S] /\ Goes(g, a, F, lo, hi)
<1>0. \A k \in lo..hi : \A s \in S : F[k][s] \in S
  BY DEF StaysIn
<1> DEFINE K == lo..hi
           Upto(g, q) == \A k \in K : k <= lo + q =>
                           g[k] = IF k = lo THEN a ELSE F[k][g[k - 1]]
           T == {q \in Nat : \E g \in [K -> S] : Upto(g, q)}
<1>1. \A k \in K : k \in Nat /\ k >= lo /\ (k # lo => k - 1 \in K)
  OBVIOUS
<1>2. 0 \in T
  <2> DEFINE g == [k \in K |-> a]
  <2>1. g \in [K -> S] /\ Upto(g, 0)
    OBVIOUS
  <2> HIDE DEF g
  <2> QED
    BY <2>1
<1>3. ASSUME NEW q \in T PROVE q + 1 \in T
  <2>1. PICK g \in [K -> S] : Upto(g, q)
    OBVIOUS
  <2> DEFINE h == [k \in K |-> IF k = lo THEN a ELSE F[k][g[k - 1]]]
  <2>2. /\ h \in [K -> S]
        /\ \A k \in K : h[k] = IF k = lo THEN a ELSE F[k][g[k - 1]]
    BY <1>0, <1>1
  <2> HIDE DEF h
  <2>3. \A k \in K : k <= lo + q => h[k] = g[k]
    BY <2>1, <2>2
  <2>4. Upto(h, q + 1)
    <3> SUFFICES ASSUME NEW k \in K, k <= lo + (q + 1), k # lo
                 PROVE  h[k] = F[k][h[k - 1]]
      BY <2>2
    <3>1. k - 1 \in K /\ k - 1 <= lo + q
      BY <1>1
    <3> QED
      BY <2>2, <2>3, <3>1
  <2> HIDE DEF Upto
  <2> QED
    BY <2>2, <2>4
<1>4. T = Nat
  <2> HIDE DEF T
  <2>1. T \in SUBSET Nat
    BY DEF T
  <2> QED
    BY <1>2, <1>3, <2>1, SetInduction
<1>5. PICK g \in [K -> S] : Upto(g, hi)
  BY <1>4
<1>6. \A k \in K : k <= lo + hi
  OBVIOUS
<1> QED
  BY <1>5, <1>6 DEF Goes

-----------------------------------------------------------------------------
(* The sum of the values of a function over a finite set, as Functions     *)
(* defines it: a recursion that picks the elements in an order of its own. *)

PickOf(s) == CHOOSE x \in s : TRUE
SumsOf(g, f, U) ==
  g = [s \in SUBSET U |->
         IF s = {} THEN 0 ELSE f[PickOf(s)] + g[s \ {PickOf(s)}]]
TheSums(f, U) == CHOOSE g : SumsOf(g, f, U)
IntOn(f, U) == \A x \in U : f[x] \in Int

LEMMA SumByRecursion ==
  ASSUME NEW f, NEW U
  PROVE  SumFunctionOnSet(f, U) = TheSums(f, U)[U]
BY DEF SumFunctionOnSet, FoldFunctionOnSet, MapThenFoldSet, TheSums, SumsOf,
       PickOf

LEMMA PickIsElement ==
  ASSUME NEW s, s # {}
  PROVE  PickOf(s) \in s
BY DEF PickOf

(* Induction over the size of the subsets of a finite set. *)
LEMMA SubsetInduction ==
  ASSUME NEW U, IsFiniteSet(U), NEW Good \in SUBSET (SUBSET U),
         ASSUME NEW s \in SUBSET U, \A x \in s : s \ {x} \in Good
         PROVE  s \in Good
  PROVE  \A s \in SUBSET U : s \in Good
<1> DEFINE T == {n \in Nat : \A s \in SUBSET U :
                                Cardinality(s) <= n => s \in Good}
<1>1. \A s \in SUBSET U : IsFiniteSet(s) /\ Cardinality(s) \in Nat
  BY FS_Subset, FS_CardinalityType
<1>2. \A s \in SUBSET U : \A x \in s :
        s \ {x} \in SUBSET U /\ Cardinality(s \ {x}) = Cardinality(s) - 1
  BY <1>1, FS_RemoveElement
<1>3. 0 \in T
  <2> SUFFICES ASSUME NEW s \in SUBSET U, Cardinality(s) <= 0
               PROVE  s \in Good
    OBVIOUS
  <2>1. s = {}
    BY <1>1, FS_EmptySet
  <2> QED
    BY <2>1
<1>4. ASSUME NEW n \in T PROVE n + 1 \in T
  <2> SUFFICES ASSUME NEW s \in SUBSET U, Cardinality(s) <= n + 1
               PROVE  s \in Good
    OBVIOUS
  <2>1. \A x \in s : s \ {x} \in Good
    BY <1>1, <1>2
  <2> QED
    BY <2>1
<1>5. T = Nat
  <2> HIDE DEF T
  <2>1. T \in SUBSET Nat
    BY DEF T
  <2> QED
    BY <1>3, <1>4, <2>1, SetInduction
<1> QED
  BY <1>1, <1>5

LEMMA SumsExist ==
  ASSUME NEW U, IsFiniteSet(U), NEW f, IntOn(f, U)
  PROVE  \E g : g \in [SUBSET U -> Int] /\ SumsOf(g, f, U)
<1> DEFINE Val(g, s) == IF s = {} THEN 0 ELSE f[PickOf(s)] + g[s \ {PickOf(s)}]
           T == {n \in Nat : \E g \in [SUBSET U -> Int] :
                   \A s \in SUBSET U : Cardinality(s) <= n => g[s] = Val(g, s)}
<1>1. \A s \in SUBSET U : IsFiniteSet(s) /\ Cardinality(s) \in Nat
  BY FS_Subset, FS_CardinalityType
<1>2. \A s \in SUBSET U : s # {} =>
        /\ PickOf(s) \in U /\ f[PickOf(s)] \in Int
        /\ s \ {PickOf(s)} \in SUBSET U
        /\ Cardinality(s \ {PickOf(s)}) = Cardinality(s) - 1
  BY <1>1, PickIsElement, FS_RemoveElement DEF IntOn
<1>3. 0 \in T
  <2> DEFINE g == [s \in SUBSET U |-> 0]
  <2>1. g \in [SUBSET U -> Int]
    OBVIOUS
  <2>2. \A s \in SUBSET U : Cardinality(s) <= 0 => s = {}
    BY <1>1, FS_EmptySet
  <2>3. \A s \in SUBSET U : Cardinality(s) <= 0 => g[s] = Val(g, s)
    BY <2>2
  <2> QED
    BY <2>1, <2>3
<1>4. ASSUME NEW n \in T PROVE n + 1 \in T
  <2>1. PICK g \in [SUBSET U -> Int] :
          \A s \in SUBSET U : Cardinality(s) <= n => g[s] = Val(g, s)
    OBVIOUS
  <2> DEFINE h == [s \in SUBSET U |-> Val(g, s)]
  <2>2. h \in [SUBSET U -> Int]
    <3>1. ASSUME NEW s \in SUBSET U PROVE Val(g, s) \in Int
      <4>1. CASE s = {}
        BY <4>1
      <4>2. CASE s # {}
        <5>1. f[PickOf(s)] \in Int /\ g[s \ {PickOf(s)}] \in Int
          BY <1>2, <4>2
        <5> QED
          BY <4>2, <5>1
      <4> QED
        BY <4>1, <4>2
    <3> QED
      BY <3>1
  <2>3. \A s \in SUBSET U : Cardinality(s) <= n => h[s] = g[s]
    BY <2>1
  <2>4. ASSUME NEW s \in SUBSET U, Cardinality(s) <= n + 1, s # {}
        PROVE  h[s] = Val(h, s)
    <3>1. Cardinality(s \ {PickOf(s)}) <= n /\ s \ {PickOf(s)} \in SUBSET U
      BY <1>1, <1>2, <2>4
    <3>2. h[s \ {PickOf(s)}] = g[s \ {PickOf(s)}]
      BY <2>3, <3>1
    <3> QED
      BY <2>4, <3>2
  <2>5. h[{}] = Val(h, {})
    OBVIOUS
  <2>6. \A s \in SUBSET U : Cardinality(s) <= n + 1 => h[s] = Val(h, s)
    BY <2>4, <2>5
  <2>7. \E k \in [SUBSET U -> Int] :
          \A s \in SUBSET U : Cardinality(s) <= n + 1 => k[s] = Val(k, s)
    <3> HIDE DEF h, Val
    <3> QED
      BY <2>2, <2>6
  <2> HIDE DEF Val
  <2> QED
    BY <2>7
<1>5. T = Nat
  <2> HIDE DEF T
  <2>1. T \in SUBSET Nat
    BY DEF T
  <2> QED
    BY <1>3, <1>4, <2>1, SetInduction
<1>6. PICK g \in [SUBSET U -> Int] :
        \A s \in SUBSET U : Cardinality(s) <= Cardinality(U) => g[s] = Val(g, s)
  BY <1>1, <1>5
<1>7. \A s \in SUBSET U : Cardinality(s) <= Cardinality(U)
  BY FS_Subset
<1>8. g = [s \in SUBSET U |-> Val(g, s)]
  BY <1>6, <1>7
<1> QED
  BY <1>8 DEF SumsOf

(* Two functions of sums agree where both are defined. *)
LEMMA SumsAgree ==
  ASSUME NEW U, IsFiniteSet(U), NEW V, U \subseteq V, NEW f,
         NEW g, SumsOf(g, f, U), NEW h, SumsOf(h, f, V)
  PROVE  \A s \in SUBSET U : g[s] = h[s]
<1> DEFINE Good == {s \in SUBSET U : g[s] = h[s]}
<1>1. ASSUME NEW s \in SUBSET U, \A x \in s : s \ {x} \in Good
      PROVE  s \in Good
  <2>1. s \in SUBSET V
    OBVIOUS
  <2>2. /\ g[s] = IF s = {} THEN 0 ELSE f[PickOf(s)] + g[s \ {PickOf(s)}]
        /\ h[s] = IF s = {} THEN 0 ELSE f[PickOf(s)] + h[s \ {PickOf(s)}]
    BY <2>1 DEF SumsOf
  <2>3. s # {} => g[s \ {PickOf(s)}] = h[s \ {PickOf(s)}]
    BY <1>1, PickIsElement
  <2> QED
    BY <2>2, <2>3
<1>2. \A s \in SUBSET U : s \in Good
  <2> HIDE DEF Good
  <2>1. Good \in SUBSET (SUBSET U)
    BY DEF Good
  <2> QED
    BY <1>1, <2>1, SubsetInduction
<1> QED
  BY <1>2

(* The order in which the recursion picks does not matter. *)
AnyOrder(g, f, U) ==
  \A s \in SUBSET U : \A x \in s : g[s] = f[x] + g[s \ {x}]

LEMMA SumAnyOrder ==
  ASSUME NEW U, IsFiniteSet(U), NEW f, IntOn(f, U),
         NEW g, g \in [SUBSET U -> Int], SumsOf(g, f, U)
  PROVE  AnyOrder(g, f, U)
<1> DEFINE Good == {s \in SUBSET U : \A x \in s : g[s] = f[x] + g[s \ {x}]}
<1>1. ASSUME NEW s \in SUBSET U, \A x \in s : s \ {x} \in Good
      PROVE  s \in Good
  <2> SUFFICES ASSUME NEW x \in s PROVE g[s] = f[x] + g[s \ {x}]
    OBVIOUS
  <2> DEFINE p == PickOf(s)
  <2>1. p \in s
    BY PickIsElement
  <2>2. g[s] = f[p] + g[s \ {p}]
    BY DEF SumsOf
  <2>3. CASE x # p
    <3>1. g[s \ {p}] = f[x] + g[(s \ {p}) \ {x}]
      BY <1>1, <2>1, <2>3
    <3>2. g[s \ {x}] = f[p] + g[(s \ {x}) \ {p}]
      BY <1>1, <2>1, <2>3
    <3>3. (s \ {p}) \ {x} = (s \ {x}) \ {p}
      OBVIOUS
    <3>4. f[x] \in Int /\ f[p] \in Int /\ g[(s \ {x}) \ {p}] \in Int
      BY <2>1 DEF IntOn
    <3>5. \A a, b, c \in Int : b + (a + c) = a + (b + c)
      OBVIOUS
    <3>6. g[s] = f[p] + (f[x] + g[(s \ {x}) \ {p}])
      BY <2>2, <3>1, <3>3
    <3> HIDE DEF p
    <3> QED
      BY <3>2, <3>4, <3>5, <3>6
  <2> QED
    BY <2>2, <2>3
<1>2. \A s \in SUBSET U : s \in Good
  <2> HIDE DEF Good
  <2>1. Good \in SUBSET (SUBSET U)
    BY DEF Good
  <2> QED
    BY <1>1, <2>1, SubsetInduction
<1> QED
  BY <1>2 DEF AnyOrder

(* What the recursion computes for the subsets of a finite set. *)
SumsIn(g, f, U) ==
  /\ g \in [SUBSET U -> Int]
  /\ g[{}] = 0
  /\ \A s \in SUBSET U : SumFunctionOnSet(f, s) = g[s]
  /\ AnyOrder(g, f, U)

LEMMA SumsAreSums ==
  ASSUME NEW U, IsFiniteSet(U), NEW f, IntOn(f, U)
  PROVE  \E g : SumsIn(g, f, U)
<1>1. PICK g : g \in [SUBSET U -> Int] /\ SumsOf(g, f, U)
  BY SumsExist
<1>2. ASSUME NEW s \in SUBSET U PROVE SumFunctionOnSet(f, s) = g[s]
  <2>1. IsFiniteSet(s) /\ IntOn(f, s)
    BY FS_Subset DEF IntOn
  <2>2. SumsOf(TheSums(f, s), f, s)
    BY <2>1, SumsExist DEF TheSums
  <2>3. TheSums(f, s)[s] = g[s]
    BY <1>1, <2>1, <2>2, SumsAgree
  <2> QED
    BY <2>3, SumByRecursion
<1>3. g[{}] = 0
  BY <1>1 DEF SumsOf
<1>4. AnyOrder(g, f, U)
  BY <1>1, SumAnyOrder
<1>5. SumsIn(g, f, U)
  BY <1>1, <1>2, <1>3, <1>4 DEF SumsIn
<1> QED
  BY <1>5

(* The sum over no element, and over one element more. *)
LEMMA SumEmpty ==
  ASSUME NEW f PROVE SumFunctionOnSet(f, {}) = 0
<1>1. IntOn(f, {})
  BY DEF IntOn
<1>2. PICK g : SumsIn(g, f, {})
  BY <1>1, SumsAreSums, FS_EmptySet
<1> QED
  BY <1>2 DEF SumsIn

LEMMA SumAddElement ==
  ASSUME NEW S, IsFiniteSet(S), NEW x, x \notin S,
         NEW f, IntOn(f, S \cup {x})
  PROVE  /\ SumFunctionOnSet(f, S) \in Int
         /\ SumFunctionOnSet(f, S \cup {x}) = SumFunctionOnSet(f, S) + f[x]
<1> DEFINE U == S \cup {x}
<1>1. IsFiniteSet(U)
  BY FS_AddElement
<1>2. PICK g : SumsIn(g, f, U)
  BY <1>1, SumsAreSums
<1>3. g[U] = f[x] + g[U \ {x}] /\ U \ {x} = S
  BY <1>2 DEF SumsIn, AnyOrder
<1>4. g[S] \in Int /\ f[x] \in Int
  BY <1>2 DEF SumsIn, IntOn
<1>5. SumFunctionOnSet(f, S) = g[S] /\ SumFunctionOnSet(f, U) = g[U]
  BY <1>2 DEF SumsIn
<1>6. SumFunctionOnSet(f, U) = SumFunctionOnSet(f, S) + f[x]
  <2>1. g[U] = f[x] + g[S]
    BY <1>3
  <2>2. f[x] + g[S] = g[S] + f[x]
    BY <1>4
  <2> HIDE DEF U
  <2> QED
    BY <1>5, <2>1, <2>2
<1> QED
  BY <1>4, <1>5, <1>6

(* Adding elements that count nothing or more does not make a sum less.    *)
LEMMA SumMonotone ==
  ASSUME NEW U, IsFiniteSet(U), NEW S \in SUBSET U, NEW f,
         IntOn(f, U), \A x \in U \ S : f[x] >= 0
  PROVE  /\ SumFunctionOnSet(f, U) \in Int /\ SumFunctionOnSet(f, S) \in Int
         /\ SumFunctionOnSet(f, S) <= SumFunctionOnSet(f, U)
<1>1. PICK g : SumsIn(g, f, U)
  BY SumsAreSums
<1>2. /\ g \in [SUBSET U -> Int]
      /\ \A s \in SUBSET U : \A x \in s : g[s] = f[x] + g[s \ {x}]
  BY <1>1 DEF SumsIn, AnyOrder
<1> DEFINE Good == {s \in SUBSET U : S \subseteq s => g[S] <= g[s]}
<1>3. ASSUME NEW s \in SUBSET U, \A x \in s : s \ {x} \in Good
      PROVE  s \in Good
  <2>1. CASE s = S
    <3>1. g[S] \in Int
      BY <1>2
    <3> QED
      BY <2>1, <3>1
  <2>2. CASE S \subseteq s /\ s # S
    <3>1. PICK x \in s : x \notin S
      BY <2>2
    <3>2. g[S] <= g[s \ {x}] /\ g[s] = f[x] + g[s \ {x}] /\ f[x] >= 0
      BY <1>2, <1>3, <2>2, <3>1
    <3>3. g[S] \in Int /\ g[s \ {x}] \in Int /\ f[x] \in Int
      BY <1>2 DEF IntOn
    <3>4. g[S] <= g[s]
      BY <3>2, <3>3
    <3> QED
      BY <3>4
  <2> QED
    BY <2>1, <2>2
<1>4. \A s \in SUBSET U : s \in Good
  <2> HIDE DEF Good
  <2>1. Good \in SUBSET (SUBSET U)
    BY DEF Good
  <2> QED
    BY <1>3, <2>1, SubsetInduction
<1> QED
  BY <1>1, <1>4 DEF SumsIn

-----------------------------------------------------------------------------
(* Sequences one behind the other, as SequencesExt defines FlattenSeq: by  *)
(* a recursive function whose value at k is the first k of them.           *)

FlatOf(g, seqs) ==
  g = [i \in 1..Len(seqs) |-> IF i = 1 THEN seqs[i] ELSE g[i - 1] \o seqs[i]]
TheFlat(seqs) == CHOOSE g : FlatOf(g, seqs)
Flattened(seqs) == IF Len(seqs) = 0 THEN seqs ELSE TheFlat(seqs)[Len(seqs)]

LEMMA FlatSteps ==
  ASSUME NEW X, NEW seqs \in Seq(Seq(X)), NEW k \in 1..Len(seqs)
  PROVE  TheFlat(seqs)[k] =
           IF k = 1 THEN seqs[1] ELSE TheFlat(seqs)[k - 1] \o seqs[k]
<1>0. Len(seqs) \in Nat /\ \A i \in 1..Len(seqs) : seqs[i] \in Seq(X)
  BY ElementOfSeq, LenProperties
<1> DEFINE K == 1..Len(seqs)
           F == [i \in K |-> [s \in Seq(X) |-> s \o seqs[i]]]
<1>1. ASSUME NEW i \in K, NEW s \in Seq(X)
      PROVE  F[i][s] = s \o seqs[i] /\ F[i][s] \in Seq(X)
  <2>1. s \o seqs[i] \in Seq(X)
    BY <1>0, ConcatProperties
  <2> QED
    BY <2>1
<1> HIDE DEF F
<1>2. StaysIn(Seq(X), F, 1, Len(seqs))
  BY <1>1 DEF StaysIn
<1>3. seqs[1] \in Seq(X)
  BY <1>0
<1>4. PICK g : g \in [K -> Seq(X)] /\ Goes(g, seqs[1], F, 1, Len(seqs))
  BY <1>0, <1>2, <1>3, Recursion
<1>5. \A i \in K : g[i] = IF i = 1 THEN seqs[i] ELSE g[i - 1] \o seqs[i]
  <2> SUFFICES ASSUME NEW i \in K, i # 1
               PROVE  g[i] = g[i - 1] \o seqs[i]
    BY <1>0, <1>4 DEF Goes
  <2>1. i - 1 \in K
    BY <1>0
  <2>2. g[i] = F[i][g[i - 1]] /\ g[i - 1] \in Seq(X)
    BY <1>4, <2>1 DEF Goes
  <2> QED
    BY <1>1, <2>2
<1>6. FlatOf(g, seqs)
  BY <1>4, <1>5 DEF FlatOf
<1>7. PICK h : h = TheFlat(seqs)
  OBVIOUS
<1>8. FlatOf(h, seqs)
  BY <1>6, <1>7 DEF TheFlat
<1>9. \A i \in K : h[i] = IF i = 1 THEN seqs[i] ELSE h[i - 1] \o seqs[i]
  BY <1>8 DEF FlatOf
<1> QED
  BY <1>7, <1>9

LEMMA FlatStart ==
  /\ Flattened(<<>>) = <<>>
  /\ \A X, x : x \in Seq(X) => Flattened(<<x>>) = x
<1>1. Flattened(<<>>) = <<>>
  <2>1. PICK e : e = <<>>
    OBVIOUS
  <2>2. Len(e) = 0
    BY <2>1
  <2> QED
    BY <2>1, <2>2 DEF Flattened
<1>2. ASSUME NEW X, NEW x \in Seq(X) PROVE Flattened(<<x>>) = x
  <2>1. PICK s : s = <<x>>
    OBVIOUS
  <2>2. s \in Seq(Seq(X)) /\ Len(s) = 1 /\ s[1] = x /\ 1 \in 1..Len(s)
    BY <2>1
  <2>3. TheFlat(s)[1] = s[1]
    BY <2>2, FlatSteps
  <2> QED
    BY <2>1, <2>2, <2>3 DEF Flattened
<1> QED
  BY <1>1, <1>2

LEMMA FlatAppend ==
  ASSUME NEW X, NEW s \in Seq(Seq(X)), NEW x \in Seq(X)
  PROVE  Flattened(s) \in Seq(X) /\ Flattened(Append(s, x)) = Flattened(s) \o x
<1>0. PICK N \in Nat : N = Len(s)
  BY LenProperties
<1>1. PICK t : t = Append(s, x)
  OBVIOUS
<1>2. /\ t \in Seq(Seq(X)) /\ Len(t) = N + 1 /\ t[N + 1] = x
      /\ \A k \in 1..N : t[k] = s[k] /\ s[k] \in Seq(X)
      /\ \A k \in 1..N : k \in 1..Len(t)
      /\ N + 1 \in 1..Len(t)
  BY <1>0, <1>1, AppendProperties, ElementOfSeq
<1>3. PICK g : g = TheFlat(s)
  OBVIOUS
<1>4. PICK h : h = TheFlat(t)
  OBVIOUS
<1>5. \A k \in 1..N : g[k] = IF k = 1 THEN s[1] ELSE g[k - 1] \o s[k]
  BY <1>0, <1>3, FlatSteps
<1>6. \A k \in 1..Len(t) : h[k] = IF k = 1 THEN t[1] ELSE h[k - 1] \o t[k]
  BY <1>2, <1>4, FlatSteps
<1> DEFINE Good(k) == h[k] = g[k] /\ g[k] \in Seq(X)
           T == {k \in Nat : k + 1 <= N => Good(k + 1)}
<1>7. 0 \in T
  <2> SUFFICES ASSUME 1 <= N PROVE Good(1)
    OBVIOUS
  <2>1. 1 \in 1..N
    BY <1>0
  <2> QED
    BY <1>2, <1>5, <1>6, <2>1
<1>8. ASSUME NEW k \in T PROVE k + 1 \in T
  <2> SUFFICES ASSUME k + 2 <= N PROVE Good(k + 2)
    BY (k + 1) + 1 = k + 2
  <2>1. /\ k + 1 \in 1..N /\ k + 2 \in 1..N /\ k + 2 \in 1..Len(t)
        /\ k + 2 # 1 /\ (k + 2) - 1 = k + 1
    BY <1>0, <1>2
  <2>2. Good(k + 1)
    BY <2>1
  <2>3. h[k + 2] = h[k + 1] \o t[k + 2] /\ g[k + 2] = g[k + 1] \o s[k + 2]
    BY <1>5, <1>6, <2>1
  <2>4. t[k + 2] = s[k + 2] /\ s[k + 2] \in Seq(X)
    BY <1>2, <2>1
  <2>5. g[k + 1] \o s[k + 2] \in Seq(X)
    BY <2>2, <2>4, ConcatProperties
  <2> QED
    BY <2>2, <2>3, <2>4, <2>5
<1>9. T = Nat
  <2> HIDE DEF T
  <2>1. T \in SUBSET Nat
    BY DEF T
  <2> QED
    BY <1>7, <1>8, <2>1, SetInduction
<1>10. CASE N = 0
  <2>1. s = <<>>
    BY <1>0, <1>10, EmptySeq
  <2>2. Append(s, x) = <<x>>
    BY <2>1
  <2>3. <<>> \o x = x /\ <<>> \in Seq(X)
    BY ConcatEmptySeq
  <2> QED
    BY <2>1, <2>2, <2>3, FlatStart
<1>11. CASE N # 0
  <2>1. PICK k \in Nat : k + 1 = N
    <3>1. N - 1 \in Nat /\ (N - 1) + 1 = N
      BY <1>0, <1>11
    <3> QED
      BY <3>1
  <2>2. Good(N)
    <3>1. k \in T /\ k + 1 <= N
      <4> HIDE DEF T
      <4> QED
        BY <1>9, <2>1
    <3> QED
      BY <2>1, <3>1
  <2>3. h[N + 1] = h[N] \o x
    <3>1. N + 1 # 1 /\ (N + 1) - 1 = N
      BY <1>11
    <3> QED
      BY <1>2, <1>6, <3>1
  <2>4. Flattened(s) = g[N] /\ Flattened(t) = h[N + 1]
    BY <1>0, <1>2, <1>3, <1>4, <1>11 DEF Flattened
  <2> QED
    BY <1>1, <2>2, <2>3, <2>4
<1> QED
  BY <1>10, <1>11

(* A sequence with an element is one less that element, and the element.   *)
LEMMA LastApart ==
  ASSUME NEW S, NEW s \in Seq(S), NEW n \in Nat, Len(s) = n + 1
  PROVE  \E f \in Seq(S), x \in S : s = Append(f, x) /\ Len(f) = n
<1>1. n + 1 \in 1..Len(s) /\ s[n + 1] \in S /\ \A i \in 1..n : s[i] \in S
  BY ElementOfSeq
<1>2. PICK f : f = SubSeq(s, 1, n)
  OBVIOUS
<1>3. f \in Seq(S) /\ Len(f) = n /\ \A i \in 1..n : f[i] = s[i]
  <2>1. \A i \in 1..n : i \in 1..Len(s)
    BY <1>1
  <2>2. f \in Seq(S)
    BY <1>1, <1>2, SubSeqProperties
  <2>3. CASE n = 0
    <3>1. f = <<>>
      BY <1>2, <2>3, SubSeqEmpty
    <3> QED
      BY <2>2, <2>3, <3>1
  <2>4. CASE n # 0
    BY <1>1, <1>2, <2>1, <2>2, <2>4, SubSeqProperties
  <2> QED
    BY <2>3, <2>4
<1>4. PICK t : t = Append(f, s[n + 1])
  OBVIOUS
<1>5. /\ t \in Seq(S) /\ Len(t) = n + 1 /\ t[n + 1] = s[n + 1]
      /\ \A i \in 1..n : t[i] = s[i]
  BY <1>1, <1>3, <1>4, AppendProperties
<1>6. \A i \in 1..Len(s) : t[i] = s[i]
  BY <1>5
<1>7. t = s
  BY <1>5, <1>6, SeqEqual
<1> QED
  BY <1>1, <1>3, <1>4, <1>7

LEMMA FlatRange ==
  ASSUME NEW X, NEW seqs \in Seq(Seq(X))
  PROVE  \A x : x \in Range(Flattened(seqs)) <=>
                  \E i \in 1..Len(seqs) : x \in Range(seqs[i])
<1> DEFINE Good(s) == \A x : x \in Range(Flattened(s)) <=>
                               \E i \in 1..Len(s) : x \in Range(s[i])
           T == {n \in Nat : \A s \in Seq(Seq(X)) : Len(s) = n => Good(s)}
<1>1. 0 \in T
  <2> SUFFICES ASSUME NEW s \in Seq(Seq(X)), Len(s) = 0 PROVE Good(s)
    OBVIOUS
  <2>1. s = <<>> /\ Flattened(s) = s
    BY EmptySeq, FlatStart
  <2>2. \A x : ~ (x \in Range(s))
    <3>1. \A i : ~ (i \in 1..Len(s))
      OBVIOUS
    <3> QED
      BY <3>1, InRange
  <2> QED
    BY <2>1, <2>2
<1>2. ASSUME NEW n \in T PROVE n + 1 \in T
  <2> SUFFICES ASSUME NEW s \in Seq(Seq(X)), Len(s) = n + 1 PROVE Good(s)
    OBVIOUS
  <2>1. PICK f \in Seq(Seq(X)), e \in Seq(X) : s = Append(f, e) /\ Len(f) = n
    BY LastApart
  <2>2. Good(f)
    BY <2>1
  <2>3. Flattened(s) = Flattened(f) \o e /\ Flattened(f) \in Seq(X)
    BY <2>1, FlatAppend
  <2>4. Range(Flattened(s)) = Range(Flattened(f)) \cup Range(e)
    BY <2>3, RangeConcatenation
  <2>5. s[n + 1] = e /\ \A i \in 1..n : s[i] = f[i]
    BY <2>1, AppendProperties
  <2>6. 1..(n + 1) = (1..n) \cup {n + 1}
    OBVIOUS
  <2> QED
    BY <2>1, <2>2, <2>4, <2>5, <2>6
<1>3. T = Nat
  <2> HIDE DEF T
  <2>1. T \in SUBSET Nat
    BY DEF T
  <2> QED
    BY <1>1, <1>2, <2>1, SetInduction
<1>4. Len(seqs) \in T
  <2> HIDE DEF T
  <2> QED
    BY <1>3, LenProperties
<1> QED
  BY <1>4

LEMMA Joining ==
  \A X : \A s, t, u \in Seq(X) : (s \o t) \o u = s \o (t \o u)
<1> SUFFICES ASSUME NEW X, NEW s \in Seq(X), NEW t \in Seq(X), NEW u \in Seq(X)
             PROVE  (s \o t) \o u = s \o (t \o u)
  OBVIOUS
<1> QED
  BY ConcatAssociative

LEMMA FlatConcat ==
  ASSUME NEW X, NEW s \in Seq(Seq(X)), NEW t \in Seq(Seq(X))
  PROVE  Flattened(s \o t) = Flattened(s) \o Flattened(t)
<1> DEFINE Good(u) == Flattened(s \o u) = Flattened(s) \o Flattened(u)
           T == {n \in Nat : \A u \in Seq(Seq(X)) : Len(u) = n => Good(u)}
<1>0. Flattened(s) \in Seq(X)
  BY FlatAppend, ConcatEmptySeq
<1>1. 0 \in T
  <2> SUFFICES ASSUME NEW u \in Seq(Seq(X)), Len(u) = 0 PROVE Good(u)
    OBVIOUS
  <2>1. u = <<>> /\ Flattened(u) = <<>>
    BY EmptySeq, FlatStart
  <2>2. s \o <<>> = s /\ Flattened(s) \o <<>> = Flattened(s)
    BY <1>0, ConcatEmptySeq
  <2> QED
    BY <2>1, <2>2
<1>2. ASSUME NEW n \in T PROVE n + 1 \in T
  <2> SUFFICES ASSUME NEW u \in Seq(Seq(X)), Len(u) = n + 1 PROVE Good(u)
    OBVIOUS
  <2>1. PICK f \in Seq(Seq(X)), e \in Seq(X) : u = Append(f, e) /\ Len(f) = n
    BY LastApart
  <2>2. Good(f)
    BY <2>1
  <2>3. Flattened(u) = Flattened(f) \o e /\ Flattened(f) \in Seq(X)
    BY <2>1, FlatAppend
  <2>4. s \o f \in Seq(Seq(X)) /\ <<e>> \in Seq(Seq(X))
    BY ConcatProperties
  <2>5. s \o u = Append(s \o f, e)
    <3>1. u = f \o <<e>>
      BY <2>1, AppendIsConcat
    <3>2. s \o (f \o <<e>>) = (s \o f) \o <<e>>
      BY <2>4, Joining
    <3>3. (s \o f) \o <<e>> = Append(s \o f, e)
      BY <2>4, AppendIsConcat
    <3> QED
      BY <3>1, <3>2, <3>3
  <2>6. Flattened(s \o u) = Flattened(s \o f) \o e
    BY <2>4, <2>5, FlatAppend
  <2>7. (Flattened(s) \o Flattened(f)) \o e = Flattened(s) \o (Flattened(f) \o e)
    <3>1. \A a, b \in Seq(X) : (a \o b) \o e = a \o (b \o e)
      BY ONLY Joining, X = X, e \in Seq(X), SMTT(60)
    <3> QED
      BY ONLY <1>0, <2>3, <3>1
  <2> QED
    BY <2>2, <2>3, <2>6, <2>7
<1>3. T = Nat
  <2> HIDE DEF T
  <2>1. T \in SUBSET Nat
    BY DEF T
  <2> QED
    BY <1>1, <1>2, <2>1, SetInduction
<1>4. Len(t) \in T
  <2> HIDE DEF T
  <2> QED
    BY <1>3, LenProperties
<1> QED
  BY <1>4
=============================================================================
