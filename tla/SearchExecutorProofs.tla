------------------------ MODULE SearchExecutorProofs ------------------------
(***************************************************************************)
(* Proofs about SearchExecutor for any number of workers, directories,     *)
(* queries and sessions, any results, and pipes of any size.               *)
(***************************************************************************)
EXTENDS SearchExecutor, DataLemmas

(* From here on the executor may lose its place in a stream, or is gone.   *)
Alive == epc \notin {"garbled", "killed"}

(* The items of an answer, each with a number: how many of the files that  *)
(* the answer announced are not over before it.                            *)
AnswerTypes == {"READY", "NORES", "RES_EXIST", "file", "row", "-1"}

IsFirst(x, m, q) ==
  /\ x.query = q
  /\ x.type = "NORES" \/ (x.type = "RES_EXIST" /\ m = x.n /\ m >= 1)

IsLast(x, m) == x.type \in {"READY", "NORES"} \/ (x.type = "-1" /\ m = 1)

Joined(x, m, y, n) ==
  IF IsLast(x, m) THEN IsFirst(y, n, x.query + 1)
  ELSE /\ y.query = x.query
       /\ \/ x.type = "RES_EXIST" /\ y.type = "file" /\ n = m
          \/ x.type \in {"file", "row"} /\ y.type \in {"row", "-1"} /\ n = m
          \/ x.type = "-1" /\ y.type = "file" /\ n = m - 1

(* Item x with number m may be part of an answer. *)
Fits(x, m) ==
  x.type \in AnswerTypes /\ (x.type \notin {"READY", "NORES"} => m >= 1)

Walk(s, rem) ==
  /\ s \in Seq(Items) /\ rem \in Seq(Nat) /\ Len(rem) = Len(s)
  /\ \A k \in 1..Len(s) : Fits(s[k], rem[k])
  /\ \A k \in 1..(Len(s) - 1) : Joined(s[k], rem[k], s[k + 1], rem[k + 1])

-----------------------------------------------------------------------------
(* The way of a worker: no directories yet, the directories in its pipe,   *)
(* or the directories indexed.                                             *)
Starting == {"off", "openCrawler", "openWrite", "openRead", "deal"}
Block(w) == <<Item("DIRNAMES", 0, DirCount(w))>> \o DirsOf(w)
DirSet(w) == {d \in 0..NoDirs - 1 : d % NumWorkers = w}

HasNone(w) ==
  /\ \/ epc \in Starting /\ e2w[w] = <<>>
     \/ epc = "ready" /\ w >= ei /\ e2w[w] = Block(w)
  /\ w2e[w] = <<>> /\ sending[w] = <<>> /\ indexed[w] = {}

HasDirs(w) ==
  /\ epc \notin Starting /\ indexed[w] = DirSet(w)
  /\ \A k \in 1..Len(e2w[w]) : /\ e2w[w][k].type = "search"
                               /\ e2w[w][k].query \in Queries

Stage(w) == HasNone(w) \/ HasDirs(w)

(* What a worker has been asked, has answered and still has to answer are  *)
(* consecutive queries, and the executor is at the place in the stream of  *)
(* answers where it believes to be.                                        *)
Sent == IF epc = "send" THEN query - 1 ELSE query
Answered(w) == Sent - Len(e2w[w])
Stream(w) == w2e[w] \o sending[w]

Readied(w) == epc \notin StartLabels \/ (epc = "ready" /\ w < ei)
Reading(w) == epc \in {"file", "first", "rows"} /\ w = ei

Expected(w, x, m) ==
  IF ~ Readied(w) THEN x.type = "READY" /\ x.query = 0
  ELSE IF Reading(w)
       THEN /\ x.query = got[w] /\ m = left
            /\ x.type \in IF epc = "file" THEN {"file"} ELSE {"row", "-1"}
       ELSE IsFirst(x, m, got[w] + 1)

Flowing(w, s, rem) ==
  /\ Walk(s, rem)
  /\ IF s = <<>> THEN Readied(w) /\ ~ Reading(w) /\ got[w] = Answered(w)
     ELSE /\ Expected(w, s[1], rem[1])
          /\ IsLast(s[Len(s)], rem[Len(s)]) /\ s[Len(s)].query = Answered(w)

Asked(w) ==
  \A k \in 1..Len(e2w[w]) : e2w[w][k].query = Answered(w) + k

Chain(w) ==
  Alive /\ HasDirs(w) => Asked(w) /\ \E rem : Flowing(w, Stream(w), rem)

(* So are the queries between the crawler and the executor. *)
Posted == Len(asker) - (IF phase = "opening" THEN 1 ELSE 0)

FollowedBy(x, y) ==
  \/ x.type = "fd" /\ y.type = "search" /\ y.query = x.query
  \/ x.type = "search" /\ y.type = "fd" /\ y.query = x.query + 1
  \/ x.type = "search" /\ y.type = "shutdown"

Ordered(s) == \A k \in 1..(Len(s) - 1) : FollowedBy(s[k], s[k + 1])

CommandNext ==
  IF epc = "readCommand"
  THEN /\ c2e # <<>>
       /\ \/ c2e[1].type = "search" /\ c2e[1].query = query + 1
          \/ c2e[1].type = "tail of a command" /\ Len(c2e) = 1
  ELSE c2e # <<>> => \/ c2e[1].type = "fd" /\ c2e[1].query = query + 1
                     \/ c2e[1].type = "shutdown"

CommandLast ==
  /\ c2e # <<>> => c2e[Len(c2e)].type # "fd"
  /\ phase \in {"up", "opening"} =>
       IF c2e = <<>> THEN query = Posted
       ELSE c2e[Len(c2e)].type = "search" /\ c2e[Len(c2e)].query = Posted

Commands == Alive => Ordered(c2e) /\ CommandNext /\ CommandLast

Bounds ==
  /\ \A k \in 1..Len(c2e) : c2e[k].type = "search" => c2e[k].query \in Queries
  /\ query \in 0..MaxQueries
  /\ epc = "send" => query \in Queries
  /\ Len(asker) <= MaxQueries
  /\ phase = "opening" => Len(asker) >= 1

LoopLabels == {"openWrite", "openRead", "ready", "collect", "file", "first",
               "rows", "garbled", "killed"}
Loops ==
  /\ epc \notin LoopLabels => ei = 0
  /\ epc \in StartLabels => query = 0

Inv ==
  /\ TypeOK /\ Bounds /\ Loops /\ Commands /\ LagIsMissedDeadlines
  /\ \A w \in Workers : Stage(w) /\ Chain(w)

-----------------------------------------------------------------------------
(* The workers and their directories.                                      *)

LEMMA WorkerNumbers ==
  /\ NumWorkers \in Nat /\ NumWorkers >= 1 /\ NumWorkers <= NoDirs
  /\ NoDirs \in Nat /\ 0 \in Workers
  /\ \A w \in Workers : w \in Nat /\ w < NumWorkers
BY SizesAssumption DEF NumWorkers, Workers

LEMMA Dealing ==
  ASSUME NEW d \in Nat, NEW m \in Nat \ {0}
  PROVE  /\ d \div m \in Nat /\ d % m \in 0..(m - 1)
         /\ IF d % m = m - 1
            THEN (d + 1) % m = 0 /\ (d + 1) \div m = (d \div m) + 1
            ELSE (d + 1) % m = (d % m) + 1 /\ (d + 1) \div m = d \div m
<1>1. d \div m \in Nat
  OBVIOUS
<1>2. d % m \in 0..(m - 1)
  OBVIOUS
<1>3. IF d % m = m - 1
      THEN (d + 1) % m = 0 /\ (d + 1) \div m = (d \div m) + 1
      ELSE (d + 1) % m = (d % m) + 1 /\ (d + 1) \div m = d \div m
  OBVIOUS
<1> QED
  BY <1>1, <1>2, <1>3

(* Directories dealt to worker w of the first d. *)
Share(d, w) ==
  (d \div NumWorkers) + (IF w < d % NumWorkers THEN 1 ELSE 0)

LEMMA Shares ==
  ASSUME NEW w \in Workers, NEW d \in Nat
  PROVE  /\ Share(d, w) \in Nat
         /\ Share(0, w) = 0
         /\ Share(d + 1, w) = IF d % NumWorkers = w THEN Share(d, w) + 1
                              ELSE Share(d, w)
<1>1. NumWorkers \in Nat \ {0} /\ w \in Nat /\ w < NumWorkers
  BY WorkerNumbers
<1>2. /\ d \div NumWorkers \in Nat /\ d % NumWorkers \in 0..(NumWorkers - 1)
      /\ IF d % NumWorkers = NumWorkers - 1
         THEN /\ (d + 1) % NumWorkers = 0
              /\ (d + 1) \div NumWorkers = (d \div NumWorkers) + 1
         ELSE /\ (d + 1) % NumWorkers = (d % NumWorkers) + 1
              /\ (d + 1) \div NumWorkers = d \div NumWorkers
  BY <1>1, Dealing
<1>3. 0 \div NumWorkers = 0 /\ 0 % NumWorkers = 0
  BY <1>1
<1>4. Share(0, w) = 0
  BY <1>1, <1>3 DEF Share
<1>5. PICK q \in Nat, r \in 0..(NumWorkers - 1) :
        q = d \div NumWorkers /\ r = d % NumWorkers
  BY <1>2
<1>6. Share(d, w) = q + (IF w < r THEN 1 ELSE 0)
  BY <1>5 DEF Share
<1>7. Share(d + 1, w) = IF r = NumWorkers - 1
                        THEN (q + 1) + (IF w < 0 THEN 1 ELSE 0)
                        ELSE q + (IF w < r + 1 THEN 1 ELSE 0)
  BY <1>2, <1>5 DEF Share
<1> QED
  BY <1>1, <1>4, <1>5, <1>6, <1>7

LEMMA ItemTypes ==
  /\ \A q \in Nat, n \in Int :
       \A t \in {"fd", "search", "shutdown", "DIRNAMES", "name", "exit",
                 "READY", "NORES", "RES_EXIST", "file", "row", "-1"} :
         /\ Item(t, q, n) \in Items /\ Item(t, q, n).type = t
         /\ Item(t, q, n).query = q /\ Item(t, q, n).n = n
BY DEF Item, Items

(* What is dealt to worker w until directory d. *)
DealtUntil(g, w) ==
  g = [d \in 0..NoDirs |->
         IF d = 0 THEN <<>>
         ELSE IF (d - 1) % NumWorkers = w
              THEN Append(g[d - 1], Item("name", 0, d - 1))
              ELSE g[d - 1]]

DealtTo(w) == CHOOSE g : DealtUntil(g, w)

LEMMA DealtExists ==
  ASSUME NEW w \in Workers
  PROVE  \E g : DealtUntil(g, w)
<1> DEFINE Step(d) == [s \in Seq(Items) |->
                         IF (d - 1) % NumWorkers = w
                         THEN Append(s, Item("name", 0, d - 1)) ELSE s]
           F == [d \in 0..NoDirs |-> Step(d)]
<1>1. NoDirs \in Nat /\ 0 \in Nat /\ <<>> \in Seq(Items)
  BY WorkerNumbers
<1>2. \A d \in 0..NoDirs : \A s \in Seq(Items) :
        /\ F[d][s] = IF (d - 1) % NumWorkers = w
                     THEN Append(s, Item("name", 0, d - 1)) ELSE s
        /\ F[d][s] \in Seq(Items)
  <2> SUFFICES ASSUME NEW d \in 0..NoDirs, NEW s \in Seq(Items)
               PROVE  /\ F[d][s] = IF (d - 1) % NumWorkers = w
                                   THEN Append(s, Item("name", 0, d - 1))
                                   ELSE s
                      /\ F[d][s] \in Seq(Items)
    OBVIOUS
  <2>1. d - 1 \in Int
    BY <1>1
  <2>2. Append(s, Item("name", 0, d - 1)) \in Seq(Items)
    BY <2>1, ItemTypes, AppendProperties
  <2>3. F[d] = Step(d)
    OBVIOUS
  <2>4. F[d][s] = IF (d - 1) % NumWorkers = w
                  THEN Append(s, Item("name", 0, d - 1)) ELSE s
    BY <2>3
  <2> HIDE DEF F
  <2> QED
    BY <2>2, <2>4
<1> HIDE DEF F
<1>3. StaysIn(Seq(Items), F, 0, NoDirs)
  BY <1>2 DEF StaysIn
<1>4. PICK g : g \in [0..NoDirs -> Seq(Items)] /\ Goes(g, <<>>, F, 0, NoDirs)
  BY <1>1, <1>3, Recursion
<1>5. ASSUME NEW d \in 0..NoDirs
      PROVE  g[d] = IF d = 0 THEN <<>>
                    ELSE IF (d - 1) % NumWorkers = w
                         THEN Append(g[d - 1], Item("name", 0, d - 1))
                         ELSE g[d - 1]
  <2>1. g[d] = IF d = 0 THEN <<>> ELSE F[d][g[d - 1]]
    BY <1>4 DEF Goes
  <2>2. d # 0 => d - 1 \in 0..NoDirs
    BY <1>1
  <2> QED
    BY <1>2, <1>4, <2>1, <2>2
<1>6. g = [d \in 0..NoDirs |-> g[d]]
  BY <1>4
<1>7. DealtUntil(g, w)
  BY <1>5, <1>6 DEF DealtUntil
<1> QED
  BY <1>7

LEMMA DirsOfDealt ==
  ASSUME NEW w \in Workers
  PROVE  DirsOf(w) = DealtTo(w)[NoDirs]
BY DEF DirsOf, DealtTo, DealtUntil

(* The count that precedes the directories is their number, and they are   *)
(* those whose remainder is the worker's number.                           *)
LEMMA DirsOfExact ==
  ASSUME NEW w \in Workers
  PROVE  /\ DirsOf(w) \in Seq(Items) /\ Len(DirsOf(w)) = DirCount(w)
         /\ DirCount(w) \in Nat
         /\ \A k \in 1..DirCount(w) : DirsOf(w)[k].n \in DirSet(w)
         /\ \A d \in DirSet(w) : \E k \in 1..DirCount(w) : DirsOf(w)[k].n = d
<1>1. PICK g : DealtUntil(g, w) /\ g = DealtTo(w)
  BY DealtExists DEF DealtTo
<1>2. /\ NoDirs \in Nat /\ NumWorkers \in Nat \ {0} /\ w \in Nat
  BY WorkerNumbers
<1>3. ASSUME NEW d \in Nat, d <= NoDirs
      PROVE  g[d] = IF d = 0 THEN <<>>
                    ELSE IF (d - 1) % NumWorkers = w
                         THEN Append(g[d - 1], Item("name", 0, d - 1))
                         ELSE g[d - 1]
  <2> DEFINE P(e) == IF e = 0 THEN <<>>
                     ELSE IF (e - 1) % NumWorkers = w
                          THEN Append(g[e - 1], Item("name", 0, e - 1))
                          ELSE g[e - 1]
  <2>1. g = [e \in 0..NoDirs |-> P(e)]
    BY <1>1 DEF DealtUntil
  <2>2. d \in 0..NoDirs
    BY <1>2, <1>3
  <2> HIDE DEF P
  <2>3. g[d] = P(d)
    BY <2>1, <2>2
  <2> QED
    BY <2>3 DEF P
<1> DEFINE Right(d, s) ==
             /\ s \in Seq(Items) /\ Len(s) = Share(d, w)
             /\ \A k \in 1..Len(s) : s[k].n \in 0..d - 1
                                     /\ s[k].n % NumWorkers = w
             /\ \A e \in 0..d - 1 : e % NumWorkers = w =>
                  \E k \in 1..Len(s) : s[k].n = e
           T == {d \in Nat : d <= NoDirs => Right(d, g[d])}
<1>4. 0 \in T
  <2>1. g[0] = <<>>
    BY <1>2, <1>3
  <2>2. Right(0, <<>>)
    BY Shares
  <2> QED
    BY <2>1, <2>2
<1>5. ASSUME NEW d \in T PROVE d + 1 \in T
  <2> HIDE DEF Right
  <2> SUFFICES ASSUME d + 1 <= NoDirs PROVE Right(d + 1, g[d + 1])
    OBVIOUS
  <2> USE DEF Right
  <2>1. d \in Nat /\ d + 1 \in Nat /\ d + 1 # 0 /\ (d + 1) - 1 = d
    OBVIOUS
  <2>2. Right(d, g[d])
    BY <1>2, <2>1
  <2>3. PICK s : s = g[d]
    OBVIOUS
  <2>4. g[d + 1] = IF d % NumWorkers = w THEN Append(s, Item("name", 0, d))
                   ELSE s
    BY <1>3, <2>1, <2>3
  <2>5. Share(d + 1, w) = IF d % NumWorkers = w THEN Share(d, w) + 1
                          ELSE Share(d, w)
    BY <2>1, Shares
  <2>6. CASE d % NumWorkers = w
    <3> DEFINE a == Append(s, Item("name", 0, d))
    <3>1. Item("name", 0, d) \in Items /\ Item("name", 0, d).n = d
      BY <2>1, ItemTypes
    <3>2. /\ a \in Seq(Items) /\ Len(s) \in Nat /\ Len(a) = Len(s) + 1
          /\ a[Len(s) + 1].n = d
          /\ \A k \in 1..Len(s) : a[k] = s[k]
      BY <2>2, <2>3, <3>1, AppendProperties, LenProperties
    <3> HIDE DEF a
    <3>3. Len(a) = Share(d + 1, w)
      BY <2>2, <2>3, <2>5, <2>6, <3>2
    <3>4. \A k \in 1..Len(a) : a[k].n \in 0..(d + 1) - 1
                               /\ a[k].n % NumWorkers = w
      <4> SUFFICES ASSUME NEW k \in 1..Len(a)
                   PROVE  a[k].n \in 0..(d + 1) - 1 /\ a[k].n % NumWorkers = w
        OBVIOUS
      <4>1. CASE k = Len(s) + 1
        BY <2>1, <2>6, <3>2, <4>1
      <4>2. CASE k \in 1..Len(s)
        <5>1. a[k].n \in 0..d - 1 /\ a[k].n % NumWorkers = w
          BY <2>2, <2>3, <3>2, <4>2
        <5> QED
          BY <2>1, <5>1
      <4> QED
        BY <3>2, <4>1, <4>2
    <3>5. ASSUME NEW e \in 0..(d + 1) - 1, e % NumWorkers = w
          PROVE  \E k \in 1..Len(a) : a[k].n = e
      <4>1. CASE e = d
        BY <3>2, <4>1
      <4>2. CASE e # d
        <5>1. e \in 0..d - 1
          BY <2>1, <4>2
        <5>2. PICK k \in 1..Len(s) : s[k].n = e
          BY <2>2, <2>3, <3>5, <5>1
        <5> QED
          BY <3>2, <5>2
      <4> QED
        BY <4>1, <4>2
    <3> QED
      BY <2>4, <2>6, <3>2, <3>3, <3>4, <3>5, SMTT(60) DEF a
  <2>7. CASE d % NumWorkers # w
    <3>1. \A e \in 0..(d + 1) - 1 : e % NumWorkers = w => e \in 0..d - 1
      BY <2>1, <2>7
    <3>2. \A n \in 0..d - 1 : n \in 0..(d + 1) - 1
      BY <2>1
    <3> QED
      BY <2>2, <2>3, <2>4, <2>5, <2>7, <3>1, <3>2
  <2> QED
    BY <2>6, <2>7
<1>6. T = Nat
  <2> HIDE DEF T
  <2>1. T \in SUBSET Nat
    BY DEF T
  <2> QED
    BY <1>4, <1>5, <2>1, SetInduction
<1>7. Right(NoDirs, g[NoDirs])
  <2>1. NoDirs \in T
    <3> HIDE DEF T
    <3> QED
      BY <1>2, <1>6
  <2> QED
    BY <1>2, <2>1
<1>8. DirsOf(w) = g[NoDirs] /\ Share(NoDirs, w) = DirCount(w)
  BY <1>1, DirsOfDealt DEF Share, DirCount
<1>9. DirCount(w) \in Nat
  BY <1>2, <1>8, Shares
<1> QED
  BY <1>7, <1>8, <1>9 DEF DirSet

-----------------------------------------------------------------------------
(* Streams: taking the first item, adding an answer.                       *)

LEMMA TakeFirst ==
  ASSUME NEW S, NEW a \in Seq(S), NEW b \in Seq(S), a # <<>>
  PROVE  /\ a \o b \in Seq(S) /\ a \o b # <<>>
         /\ Tail(a) \in Seq(S) /\ Tail(a) \o b = Tail(a \o b)
         /\ Head(a) = a[1] /\ (a \o b)[1] = a[1] /\ a[1] \in S
<1>1. Head(a) \in S /\ Tail(a) \in Seq(S) /\ a = <<Head(a)>> \o Tail(a)
      /\ Head(a) = a[1] /\ Len(a) \in Nat \ {0}
  BY HeadTailProperties, EmptySeq, LenProperties
<1>2. /\ a \o b \in Seq(S) /\ Len(a \o b) = Len(a) + Len(b)
      /\ \A k \in 1..Len(a) + Len(b) :
           (a \o b)[k] = IF k <= Len(a) THEN a[k] ELSE b[k - Len(a)]
  BY ConcatProperties
<1>3. Len(b) \in Nat
  BY LenProperties
<1>4. a \o b # <<>> /\ (a \o b)[1] = a[1]
  BY <1>1, <1>2, <1>3, EmptySeq
<1> DEFINE t == Tail(a) \o b
           u == Tail(a \o b)
<1>5. /\ u \in Seq(S) /\ Len(u) = Len(a) + Len(b) - 1
      /\ \A k \in 1..Len(u) : u[k] = (a \o b)[k + 1]
  BY <1>2, <1>4, HeadTailProperties
<1>6. /\ Len(Tail(a)) = Len(a) - 1
      /\ \A k \in 1..Len(Tail(a)) : Tail(a)[k] = a[k + 1]
  BY HeadTailProperties
<1>7. /\ t \in Seq(S) /\ Len(t) = Len(a) - 1 + Len(b)
      /\ \A k \in 1..Len(t) : t[k] = IF k <= Len(a) - 1 THEN Tail(a)[k]
                                     ELSE b[k - (Len(a) - 1)]
  BY <1>1, <1>6, ConcatProperties
<1> HIDE DEF t, u
<1>8. Len(t) = Len(u)
  BY <1>1, <1>3, <1>5, <1>7
<1>9. ASSUME NEW k \in 1..Len(t) PROVE t[k] = u[k]
  <2>1. k \in 1..Len(u) /\ k + 1 \in 1..Len(a) + Len(b)
    BY <1>1, <1>3, <1>7, <1>8, <1>9
  <2>2. u[k] = IF k + 1 <= Len(a) THEN a[k + 1] ELSE b[k + 1 - Len(a)]
    BY <1>2, <1>5, <2>1
  <2>3. CASE k <= Len(a) - 1
    BY <1>1, <1>3, <1>6, <1>7, <1>9, <2>2, <2>3
  <2>4. CASE ~ (k <= Len(a) - 1)
    <3>1. ~ (k + 1 <= Len(a)) /\ k - (Len(a) - 1) = k + 1 - Len(a)
      BY <1>1, <2>4, <1>3, <1>7
    <3> QED
      BY <1>7, <2>2, <2>4, <3>1
  <2> QED
    BY <2>3, <2>4
<1>10. t = u
  BY <1>5, <1>7, <1>8, <1>9, SeqEqual
<1> QED
  BY <1>1, <1>2, <1>4, <1>10 DEF t, u

LEMMA MoveFirst ==
  ASSUME NEW S, NEW a \in Seq(S), NEW b \in Seq(S), b # <<>>
  PROVE  /\ Append(a, Head(b)) \in Seq(S) /\ Tail(b) \in Seq(S)
         /\ Append(a, Head(b)) \o Tail(b) = a \o b
<1>1. Head(b) \in S /\ Tail(b) \in Seq(S) /\ b = <<Head(b)>> \o Tail(b)
  BY HeadTailProperties
<1> DEFINE h == <<Head(b)>>
<1>2. h \in Seq(S) /\ Append(a, Head(b)) = a \o h
  BY <1>1, AppendIsConcat
<1>3. (a \o h) \o Tail(b) = a \o (h \o Tail(b))
  BY <1>1, <1>2, ConcatAssociative
<1>4. Append(a, Head(b)) \in Seq(S)
  BY <1>1, AppendProperties
<1> QED
  BY <1>1, <1>2, <1>3, <1>4

LEMMA WalkTail ==
  ASSUME NEW s, NEW m, Walk(s, m), s # <<>>
  PROVE  /\ Walk(Tail(s), Tail(m))
         /\ Len(s) \in Nat \ {0}
         /\ Fits(s[1], m[1]) /\ m[1] \in Nat /\ s[1] \in Items
         /\ Tail(s) = <<>> <=> Len(s) = 1
         /\ Tail(s) # <<>> =>
              /\ Joined(s[1], m[1], Tail(s)[1], Tail(m)[1])
              /\ Tail(m)[1] \in Nat
              /\ Tail(s)[Len(Tail(s))] = s[Len(s)]
              /\ Tail(m)[Len(Tail(s))] = m[Len(s)]
<1>1. s \in Seq(Items) /\ m \in Seq(Nat) /\ Len(m) = Len(s)
  BY DEF Walk
<1>2. Len(s) \in Nat \ {0}
  BY <1>1, EmptySeq, LenProperties
<1>3. m # <<>>
  BY <1>1, <1>2, EmptySeq
<1> DEFINE t == Tail(s)
           n == Tail(m)
<1>4. /\ t \in Seq(Items) /\ Len(t) = Len(s) - 1
      /\ \A k \in 1..Len(t) : t[k] = s[k + 1]
  BY <1>1, HeadTailProperties
<1>5. /\ n \in Seq(Nat) /\ Len(n) = Len(s) - 1
      /\ \A k \in 1..Len(t) : n[k] = m[k + 1]
  BY <1>1, <1>3, <1>4, HeadTailProperties
<1>6. t = <<>> <=> Len(s) = 1
  <2> HIDE DEF t
  <2>1. t # <<>> => Len(t) \in Nat \ {0}
    BY <1>4, EmptySeq
  <2>2. t = <<>> => Len(t) = 0
    BY EmptySeq
  <2> QED
    BY <1>2, <1>4, <2>1, <2>2
<1>7. \A k \in 1..Len(s) : Fits(s[k], m[k]) /\ m[k] \in Nat /\ s[k] \in Items
  BY <1>1, ElementOfSeq DEF Walk
<1>8. \A k \in 1..Len(s) - 1 : Joined(s[k], m[k], s[k + 1], m[k + 1])
  BY DEF Walk
<1> HIDE DEF t, n
<1>9. ASSUME NEW k \in 1..Len(t) PROVE Fits(t[k], n[k])
  <2>1. k + 1 \in 1..Len(s)
    BY <1>2, <1>4
  <2> QED
    BY <1>4, <1>5, <1>7, <2>1
<1>10. ASSUME NEW k \in 1..Len(t) - 1
       PROVE  Joined(t[k], n[k], t[k + 1], n[k + 1])
  <2>1. /\ k \in 1..Len(t) /\ k + 1 \in 1..Len(t) /\ k + 1 \in 1..Len(s) - 1
    BY <1>2, <1>4
  <2> QED
    BY <1>4, <1>5, <1>8, <2>1
<1>11. Walk(t, n)
  BY <1>4, <1>5, <1>9, <1>10 DEF Walk
<1>12. ASSUME t # <<>>
       PROVE  /\ Joined(s[1], m[1], t[1], n[1]) /\ n[1] \in Nat
              /\ t[Len(t)] = s[Len(s)] /\ n[Len(t)] = m[Len(s)]
  <2>1. /\ 1 \in 1..Len(t) /\ Len(t) \in 1..Len(t) /\ Len(t) + 1 = Len(s)
        /\ 1 \in 1..Len(s) - 1 /\ 1 + 1 = 2 /\ 2 \in 1..Len(s)
    BY <1>2, <1>4, <1>6, <1>12
  <2>2. t[1] = s[2] /\ n[1] = m[2] /\ t[Len(t)] = s[Len(s)]
        /\ n[Len(t)] = m[Len(s)]
    BY <1>4, <1>5, <2>1
  <2> QED
    BY <1>7, <1>8, <2>1, <2>2
<1>13. Fits(s[1], m[1]) /\ m[1] \in Nat /\ s[1] \in Items
  <2>1. 1 \in 1..Len(s)
    BY <1>2
  <2> QED
    BY <1>7, <2>1
<1> QED
  BY <1>2, <1>6, <1>11, <1>12, <1>13 DEF t, n

Joins(s, m, t, n) ==
  /\ Walk(s, m) /\ s # <<>> /\ Walk(t, n) /\ t # <<>>
  /\ Joined(s[Len(s)], m[Len(s)], t[1], n[1])

IsJoint(u, v, s, m, t, n) ==
  /\ Walk(u, v) /\ u # <<>> /\ u[1] = s[1] /\ v[1] = m[1]
  /\ u[Len(u)] = t[Len(t)] /\ v[Len(u)] = n[Len(t)]

LEMMA WalkJoin ==
  ASSUME NEW s, NEW m, NEW t, NEW n, Joins(s, m, t, n)
  PROVE  IsJoint(s \o t, m \o n, s, m, t, n)
<1>0. /\ Walk(s, m) /\ s # <<>> /\ Walk(t, n) /\ t # <<>>
      /\ Joined(s[Len(s)], m[Len(s)], t[1], n[1])
  BY DEF Joins
<1>1. /\ s \in Seq(Items) /\ m \in Seq(Nat) /\ Len(m) = Len(s)
      /\ t \in Seq(Items) /\ n \in Seq(Nat) /\ Len(n) = Len(t)
  BY <1>0 DEF Walk
<1>2. Len(s) \in Nat \ {0} /\ Len(t) \in Nat \ {0}
  BY <1>0, <1>1, EmptySeq, LenProperties
<1>3. PICK a, b : a = Len(s) /\ b = Len(t)
  OBVIOUS
<1> DEFINE u == s \o t
           v == m \o n
<1>4. /\ u \in Seq(Items) /\ Len(u) = a + b
      /\ \A k \in 1..a + b : u[k] = IF k <= a THEN s[k] ELSE t[k - a]
  BY <1>1, <1>3, ConcatProperties
<1>5. /\ v \in Seq(Nat) /\ Len(v) = a + b
      /\ \A k \in 1..a + b : v[k] = IF k <= a THEN m[k] ELSE n[k - a]
  <2>1. Len(m) = a /\ Len(n) = b
    BY <1>1, <1>3
  <2>2. PICK N : N = Nat
    OBVIOUS
  <2>3. m \in Seq(N) /\ n \in Seq(N)
    BY <1>1, <2>2
  <2>4. /\ v \in Seq(N) /\ Len(v) = Len(m) + Len(n)
        /\ \A k \in 1..Len(m) + Len(n) :
             v[k] = IF k <= Len(m) THEN m[k] ELSE n[k - Len(m)]
    BY ONLY <2>3, ConcatProperties
  <2> QED
    BY <2>1, <2>2, <2>4
<1> HIDE DEF u, v
<1>6. \A k \in 1..a : k \in 1..a + b /\ u[k] = s[k] /\ v[k] = m[k]
  BY <1>2, <1>3, <1>4, <1>5
<1>7. \A k \in 1..b : a + k \in 1..a + b /\ u[a + k] = t[k] /\ v[a + k] = n[k]
  <2> SUFFICES ASSUME NEW k \in 1..b
               PROVE  a + k \in 1..a + b /\ u[a + k] = t[k] /\ v[a + k] = n[k]
    OBVIOUS
  <2>1. a + k \in 1..a + b /\ ~ (a + k <= a) /\ (a + k) - a = k
    BY <1>2, <1>3
  <2> QED
    BY <1>4, <1>5, <2>1
<1>8. ASSUME NEW k \in 1..Len(u) PROVE Fits(u[k], v[k])
  <2>1. CASE k <= a
    BY <1>0, <1>2, <1>3, <1>4, <1>6, <2>1 DEF Walk
  <2>2. CASE ~ (k <= a)
    <3>1. k - a \in 1..b /\ a + (k - a) = k
      BY <1>2, <1>3, <1>4, <2>2
    <3>2. u[k] = t[k - a] /\ v[k] = n[k - a]
      BY <1>7, <3>1
    <3> QED
      BY <1>0, <1>3, <3>1, <3>2 DEF Walk
  <2> QED
    BY <2>1, <2>2
<1>9. ASSUME NEW k \in 1..Len(u) - 1
      PROVE  Joined(u[k], v[k], u[k + 1], v[k + 1])
  <2>1. CASE k < a
    <3>1. k \in 1..a - 1 /\ k \in 1..a /\ k + 1 \in 1..a
      BY <1>2, <1>3, <2>1
    <3>2. Joined(s[k], m[k], s[k + 1], m[k + 1])
      BY <1>0, <1>3, <3>1 DEF Walk
    <3> QED
      BY <1>6, <3>1, <3>2
  <2>2. CASE k = a
    <3>1. a \in 1..a /\ 1 \in 1..b
      BY <1>2, <1>3
    <3>2. u[a] = s[a] /\ v[a] = m[a] /\ u[a + 1] = t[1] /\ v[a + 1] = n[1]
      BY <1>6, <1>7, <3>1
    <3> QED
      BY <1>0, <1>3, <2>2, <3>2
  <2>3. CASE k > a
    <3>1. /\ k - a \in 1..b - 1 /\ k - a \in 1..b /\ (k - a) + 1 \in 1..b
          /\ a + (k - a) = k /\ a + ((k - a) + 1) = k + 1
      BY <1>2, <1>3, <1>4, <2>3
    <3>2. Joined(t[k - a], n[k - a], t[(k - a) + 1], n[(k - a) + 1])
      BY <1>0, <1>3, <3>1 DEF Walk
    <3>3. /\ u[k] = t[k - a] /\ v[k] = n[k - a]
          /\ u[k + 1] = t[(k - a) + 1] /\ v[k + 1] = n[(k - a) + 1]
      BY <1>7, <3>1
    <3> QED
      BY <3>2, <3>3
  <2> QED
    BY <1>2, <1>3, <1>4, <2>1, <2>2, <2>3
<1>10. Walk(u, v)
  BY <1>4, <1>5, <1>8, <1>9 DEF Walk
<1>11. 1 \in 1..a /\ b \in 1..b /\ a + b >= 1
  BY <1>2, <1>3
<1>12. u # <<>>
  BY <1>2, <1>3, <1>4, EmptySeq
<1>13. u[1] = s[1] /\ v[1] = m[1] /\ u[Len(u)] = t[b] /\ v[Len(u)] = n[b]
  BY <1>4, <1>6, <1>7, <1>11
<1> QED
  BY <1>3, <1>10, <1>12, <1>13 DEF u, v, IsJoint

-----------------------------------------------------------------------------
(* Answers are walks.                                                      *)

IsFile(s, n, q, m) ==
  /\ Walk(s, n) /\ s # <<>>
  /\ s[1].type = "file" /\ s[1].query = q /\ n[1] = m
  /\ s[Len(s)].type = "-1" /\ s[Len(s)].query = q /\ n[Len(s)] = m

LEMMA FileWalk ==
  ASSUME NEW q \in Nat, NEW rows \in Nat, rows # 0, NEW m \in Nat, m >= 1
  PROVE  \E n : IsFile(File(q, rows), n, q, m)
<1> DEFINE a == <<Item("file", q, rows)>>
           b == [r \in 1..rows |-> Item("row", q, r)]
           c == <<Item("-1", q, 0)>>
           L == rows + 2
           n == [k \in 1..L |-> m]
<1>1. /\ a \in Seq(Items) /\ Len(a) = 1 /\ a[1].type = "file"
      /\ a[1].query = q
  <2>1. Item("file", q, rows) \in Items
    BY ItemTypes
  <2> QED
    BY <2>1 DEF Item
<1>2. /\ c \in Seq(Items) /\ Len(c) = 1 /\ c[1].type = "-1"
      /\ c[1].query = q
  <2>1. Item("-1", q, 0) \in Items
    BY ItemTypes
  <2> QED
    BY <2>1 DEF Item
<1>3. /\ b \in Seq(Items) /\ Len(b) = rows
      /\ \A r \in 1..rows : b[r].type = "row" /\ b[r].query = q
  <2>1. \A r \in 1..rows : /\ Item("row", q, r) \in Items
                           /\ Item("row", q, r).type = "row"
                           /\ Item("row", q, r).query = q
    BY ItemTypes
  <2>2. b \in Seq(Items) /\ Len(b) = rows
    BY <2>1
  <2>3. \A r \in 1..rows : b[r] = Item("row", q, r)
    OBVIOUS
  <2> QED
    BY <2>1, <2>2, <2>3
<1> HIDE DEF a, b, c
<1> DEFINE d == a \o b
<1>4. /\ d \in Seq(Items) /\ Len(d) = rows + 1
      /\ \A k \in 1..rows + 1 : d[k] = IF k <= 1 THEN a[k] ELSE b[k - 1]
  <2>1. /\ d \in Seq(Items) /\ Len(d) = Len(a) + Len(b)
        /\ \A k \in 1..Len(a) + Len(b) :
             d[k] = IF k <= Len(a) THEN a[k] ELSE b[k - Len(a)]
    <3>1. a \in Seq(Items) /\ b \in Seq(Items)
      BY <1>1, <1>3
    <3> QED
      BY ONLY <3>1, ConcatProperties
  <2>2. Len(a) + Len(b) = rows + 1
    BY <1>1, <1>3
  <2> HIDE DEF d
  <2> QED
    BY <1>1, <2>1, <2>2
<1> HIDE DEF d
<1> DEFINE s == d \o c
<1>5. /\ s \in Seq(Items) /\ Len(s) = L
      /\ \A k \in 1..L : s[k] = IF k <= rows + 1 THEN d[k]
                                ELSE c[k - (rows + 1)]
  <2>1. /\ s \in Seq(Items) /\ Len(s) = Len(d) + Len(c)
        /\ \A k \in 1..Len(d) + Len(c) :
             s[k] = IF k <= Len(d) THEN d[k] ELSE c[k - Len(d)]
    BY <1>2, <1>4, ConcatProperties
  <2>2. Len(d) + Len(c) = L
    BY <1>2, <1>4
  <2> HIDE DEF s
  <2> QED
    BY <1>4, <2>1, <2>2
<1>6. s = File(q, rows)
  BY DEF File, a, b, c, d
<1> HIDE DEF s
<1>7. n \in Seq(Nat) /\ Len(n) = L /\ \A k \in 1..L : n[k] = m
  OBVIOUS
<1> HIDE DEF n
<1>8. \A k \in 1..L : s[k].query = q
                      /\ s[k].type = IF k = 1 THEN "file"
                                     ELSE IF k = L THEN "-1" ELSE "row"
  <2> SUFFICES ASSUME NEW k \in 1..L
               PROVE  s[k].query = q
                      /\ s[k].type = IF k = 1 THEN "file"
                                     ELSE IF k = L THEN "-1" ELSE "row"
    OBVIOUS
  <2>1. CASE k = 1
    <3>1. s[1] = a[1]
      BY <1>4, <1>5
    <3> QED
      BY <1>1, <2>1, <3>1
  <2>2. CASE k = L
    <3>1. k # 1 /\ ~ (k <= rows + 1) /\ k - (rows + 1) = 1
      BY <2>2
    <3>2. s[k] = c[1]
      BY <1>5, <3>1
    <3> QED
      BY <1>2, <2>2, <3>1, <3>2
  <2>3. CASE k # 1 /\ k # L
    <3>1. k <= rows + 1 /\ ~ (k <= 1) /\ k \in 1..rows + 1 /\ k - 1 \in 1..rows
      BY <2>3
    <3>2. s[k] = b[k - 1]
      BY <1>4, <1>5, <3>1
    <3> QED
      BY <1>3, <2>3, <3>1, <3>2
  <2> QED
    BY <2>1, <2>2, <2>3
<1>9. \A k \in 1..Len(s) : Fits(s[k], n[k])
  BY <1>5, <1>7, <1>8 DEF Fits, AnswerTypes
<1>10. ASSUME NEW k \in 1..Len(s) - 1
       PROVE  Joined(s[k], n[k], s[k + 1], n[k + 1])
  <2>1. k \in 1..L /\ k + 1 \in 1..L /\ k # L /\ k + 1 # 1
    BY <1>5
  <2>2. s[k].type \in {"file", "row"} /\ s[k + 1].type \in {"row", "-1"}
    BY <1>8, <2>1
  <2>3. s[k].query = q /\ s[k + 1].query = q /\ n[k] = m /\ n[k + 1] = m
    BY <1>7, <1>8, <2>1
  <2> QED
    BY <2>2, <2>3 DEF Joined, IsLast
<1>11. Walk(s, n)
  BY <1>5, <1>7, <1>9, <1>10 DEF Walk
<1>12. 1 \in 1..L /\ L \in 1..L /\ L # 1 /\ L # 0
  OBVIOUS
<1>13. s # <<>>
  BY <1>5, <1>12, EmptySeq
<1>14. /\ s[1].type = "file" /\ s[1].query = q /\ n[1] = m
       /\ s[Len(s)].type = "-1" /\ s[Len(s)].query = q /\ n[Len(s)] = m
  BY <1>5, <1>7, <1>8, <1>12
<1> QED
  BY <1>6, <1>11, <1>13, <1>14 DEF IsFile

(* The files of an answer, in the way Answer computes them. *)
FilesUntil(g, q, rows) ==
  g = [n \in 0..Len(rows) |->
         IF n = 0 THEN <<>> ELSE g[n - 1] \o File(q, rows[n])]

FilesOf(q, rows) == CHOOSE g : FilesUntil(g, q, rows)

LEMMA AnswerFiles ==
  ASSUME NEW q, NEW w
  PROVE  Answer(q, w) =
           IF Results[q][w] = <<>> THEN <<Item("NORES", q, 0)>>
           ELSE <<Item("RES_EXIST", q, Len(Results[q][w]))>>
                \o FilesOf(q, Results[q][w])[Len(Results[q][w])]
BY DEF Answer, FilesOf, FilesUntil

LEMMA FilesExist ==
  ASSUME NEW q \in Nat, NEW rows \in Seq(Nat \ {0})
  PROVE  \E g : FilesUntil(g, q, rows)
<1> DEFINE Step(n) == [s \in Seq(Items) |-> s \o File(q, rows[n])]
           L == Len(rows)
           F == [n \in 0..L |-> IF n = 0 THEN [s \in Seq(Items) |-> s]
                                ELSE Step(n)]
<1>1. L \in Nat /\ 0 \in Nat /\ <<>> \in Seq(Items)
  BY LenProperties
<1>2. \A n \in 1..L : File(q, rows[n]) \in Seq(Items)
  <2> SUFFICES ASSUME NEW n \in 1..L PROVE File(q, rows[n]) \in Seq(Items)
    OBVIOUS
  <2>1. rows[n] \in Nat /\ rows[n] # 0 /\ 1 \in Nat /\ 1 >= 1
    BY ElementOfSeq
  <2>2. \E m : Walk(File(q, rows[n]), m)
    BY <2>1, FileWalk, ZenonT(60) DEF IsFile
  <2> QED
    BY <2>2 DEF Walk
<1>3. \A n \in 0..L : \A s \in Seq(Items) :
        /\ n # 0 => F[n][s] = s \o File(q, rows[n])
        /\ F[n][s] \in Seq(Items)
  <2> SUFFICES ASSUME NEW n \in 0..L, NEW s \in Seq(Items)
               PROVE  /\ n # 0 => F[n][s] = s \o File(q, rows[n])
                      /\ F[n][s] \in Seq(Items)
    OBVIOUS
  <2>1. CASE n = 0
    BY <2>1
  <2>2. CASE n # 0
    <3>1. n \in 1..L
      BY <1>1, <2>2
    <3>2. F[n] = Step(n)
      BY <2>2
    <3>3. F[n][s] = s \o File(q, rows[n])
      BY <3>2
    <3> HIDE DEF F
    <3> QED
      BY <1>2, <3>1, <3>3, ConcatProperties
  <2> QED
    BY <2>1, <2>2
<1> HIDE DEF F
<1>4. StaysIn(Seq(Items), F, 0, L)
  BY <1>3 DEF StaysIn
<1>5. PICK g : g \in [0..L -> Seq(Items)] /\ Goes(g, <<>>, F, 0, L)
  BY <1>1, <1>4, Recursion
<1>6. ASSUME NEW n \in 0..L
      PROVE  g[n] = IF n = 0 THEN <<>> ELSE g[n - 1] \o File(q, rows[n])
  <2>1. g[n] = IF n = 0 THEN <<>> ELSE F[n][g[n - 1]]
    BY <1>5 DEF Goes
  <2>2. n # 0 => n - 1 \in 0..L
    BY <1>1
  <2> QED
    BY <1>3, <1>5, <2>1, <2>2
<1>7. g = [n \in 0..L |-> g[n]]
  BY <1>5
<1>8. FilesUntil(g, q, rows)
  BY <1>6, <1>7 DEF FilesUntil
<1> QED
  BY <1>8

(* An answer is a whole one: it begins with its first word, each of its    *)
(* files has its rows and its end, and there are as many files as the      *)
(* first word announces.                                                   *)
IsAnswer(s, m, q) ==
  /\ Walk(s, m) /\ s # <<>>
  /\ IsFirst(s[1], m[1], q)
  /\ IsLast(s[Len(s)], m[Len(s)]) /\ s[Len(s)].query = q

LEMMA SingleWalk ==
  ASSUME NEW x \in Items, NEW m \in Nat, Fits(x, m)
  PROVE  /\ Walk(<<x>>, <<m>>) /\ <<x>> # <<>> /\ Len(<<x>>) = 1
         /\ <<x>>[1] = x /\ <<m>>[1] = m
<1>1. /\ <<x>> \in Seq(Items) /\ <<m>> \in Seq(Nat) /\ Len(<<x>>) = 1
      /\ Len(<<m>>) = 1 /\ <<x>>[1] = x /\ <<m>>[1] = m /\ <<x>> # <<>>
  OBVIOUS
<1> DEFINE s == <<x>>
           n == <<m>>
<1>2. s \in Seq(Items) /\ n \in Seq(Nat) /\ Len(s) = 1 /\ Len(n) = 1
      /\ s[1] = x /\ n[1] = m
  BY <1>1
<1> HIDE DEF s, n
<1>3. Walk(s, n)
  BY <1>2 DEF Walk
<1> QED
  BY <1>1, <1>3 DEF s, n

LEMMA AnswerWalks ==
  ASSUME NEW q \in Queries, NEW w \in Workers
  PROVE  \E m : IsAnswer(Answer(q, w), m, q)
<1> DEFINE rows == Results[q][w]
           L == Len(rows)
<1>1. rows \in Seq(Nat \ {0})
  BY ResultsAssumption
<1>2. L \in Nat /\ q \in Nat
  BY <1>1, LenProperties, SizesAssumption DEF Queries
<1>3. CASE rows = <<>>
  <2>1. Answer(q, w) = <<Item("NORES", q, 0)>>
    BY <1>3, AnswerFiles
  <2> DEFINE x == Item("NORES", q, 0)
  <2>2. x \in Items /\ x.type = "NORES" /\ x.query = q
    BY <1>2, ItemTypes
  <2> HIDE DEF x
  <2>3. Fits(x, 0)
    BY <2>2 DEF Fits, AnswerTypes
  <2>4. /\ Walk(<<x>>, <<0>>) /\ <<x>> # <<>> /\ Len(<<x>>) = 1
        /\ <<x>>[1] = x
    BY <2>2, <2>3, SingleWalk
  <2>5. IsAnswer(<<x>>, <<0>>, q)
    BY <2>2, <2>4 DEF IsAnswer, IsFirst, IsLast
  <2> QED
    BY <2>1, <2>5 DEF x
<1>4. CASE rows # <<>>
  <2>1. L \in Nat \ {0}
    BY <1>1, <1>4, EmptySeq
  <2> DEFINE x == Item("RES_EXIST", q, L)
             f == FilesOf(q, rows)
  <2>2. Answer(q, w) = <<x>> \o f[L]
    BY <1>4, AnswerFiles
  <2>3. FilesUntil(f, q, rows)
    BY <1>1, <1>2, FilesExist DEF FilesOf
  <2>4. x \in Items /\ x.type = "RES_EXIST" /\ x.query = q /\ x.n = L
    <3>1. PICK l \in Int : l = L
      BY <1>2
    <3>2. /\ Item("RES_EXIST", q, l) \in Items
          /\ Item("RES_EXIST", q, l).type = "RES_EXIST"
          /\ Item("RES_EXIST", q, l).query = q
          /\ Item("RES_EXIST", q, l).n = l
      BY <1>2, ItemTypes
    <3> QED
      BY <3>1, <3>2
  <2> HIDE DEF rows, x, f
  <2>5. ASSUME NEW n \in 0..L
        PROVE  f[n] = IF n = 0 THEN <<>> ELSE f[n - 1] \o File(q, rows[n])
    <3> DEFINE P(e) == IF e = 0 THEN <<>> ELSE f[e - 1] \o File(q, rows[e])
    <3>1. f = [e \in 0..L |-> P(e)]
      BY <2>3 DEF FilesUntil
    <3> HIDE DEF P
    <3>2. f[n] = P(n)
      BY <3>1
    <3> QED
      BY <3>2 DEF P
  <2> DEFINE Part(n, m) ==
               LET s == <<x>> \o f[n] IN
               /\ Walk(s, m) /\ s # <<>> /\ s[1] = x /\ m[1] = L
               /\ s[Len(s)].query = q /\ f[n] \in Seq(Items)
               /\ IF n = 0 THEN s[Len(s)] = x /\ m[Len(s)] = L
                  ELSE s[Len(s)].type = "-1" /\ m[Len(s)] = L - n + 1
             T == {n \in Nat : n <= L => \E m : Part(n, m)}
  <2>6. 0 \in T
    <3>1. f[0] = <<>>
      BY <1>2, <2>5
    <3>2. Fits(x, L)
      BY <2>1, <2>4 DEF Fits, AnswerTypes
    <3>3. /\ Walk(<<x>>, <<L>>) /\ <<x>> # <<>> /\ Len(<<x>>) = 1
          /\ <<x>>[1] = x /\ <<L>>[1] = L
      BY <2>1, <2>4, <3>2, SingleWalk
    <3>4. <<x>> \o <<>> = <<x>>
      BY <2>4
    <3>5. Part(0, <<L>>)
      BY <2>4, <3>1, <3>3, <3>4
    <3> QED
      BY <3>5
  <2>7. ASSUME NEW n \in T PROVE n + 1 \in T
    <3> SUFFICES ASSUME n + 1 <= L PROVE \E m : Part(n + 1, m)
      OBVIOUS
    <3>1. /\ n \in Nat /\ n \in 0..L /\ n + 1 \in 0..L /\ n + 1 \in 1..L
          /\ n + 1 # 0 /\ (n + 1) - 1 = n /\ n <= L
      BY <2>1
    <3>2. PICK m : Part(n, m)
      BY <3>1
    <3> HIDE DEF T
    <3>3. rows[n + 1] \in Nat \ {0}
      BY <1>1, <3>1, ElementOfSeq DEF rows
    <3> DEFINE g == File(q, rows[n + 1])
    <3>4. L - n \in Nat /\ L - n >= 1
      BY <1>2, <3>1
    <3> DEFINE r == rows[n + 1]
               e == L - n
    <3>20. q \in Nat /\ r \in Nat /\ r # 0 /\ e \in Nat /\ e >= 1
      BY <1>2, <3>3, <3>4
    <3> HIDE DEF r, e
    <3>21. \E v : IsFile(File(q, r), v, q, e)
      BY ONLY <3>20, FileWalk
    <3>5. PICK v : /\ Walk(g, v) /\ g # <<>>
                   /\ g[1].type = "file" /\ g[1].query = q /\ v[1] = L - n
                   /\ g[Len(g)].type = "-1" /\ g[Len(g)].query = q
                   /\ v[Len(g)] = L - n
      BY <3>21 DEF r, e, IsFile
    <3>6. f[n + 1] = f[n] \o g
      BY <2>5, <3>1
    <3> HIDE DEF g
    <3> DEFINE s == <<x>> \o f[n]
    <3>7. /\ Walk(s, m) /\ s # <<>> /\ s[1] = x /\ m[1] = L
          /\ s[Len(s)].query = q /\ f[n] \in Seq(Items)
          /\ IF n = 0 THEN s[Len(s)] = x /\ m[Len(s)] = L
             ELSE s[Len(s)].type = "-1" /\ m[Len(s)] = L - n + 1
      BY <3>2
    <3> HIDE DEF s
    <3>8. Joined(s[Len(s)], m[Len(s)], g[1], v[1])
      <4>1. CASE n = 0
        <5>1. L - n = L
          BY <1>2, <4>1
        <5> QED
          BY <2>4, <3>5, <3>7, <4>1, <5>1 DEF Joined, IsLast
      <4>2. CASE n # 0
        <5>1. L - n + 1 # 1 /\ L - n = (L - n + 1) - 1
          BY <3>1, <3>4
        <5> QED
          BY <3>5, <3>7, <4>2, <5>1 DEF Joined, IsLast
      <4> QED
        BY <4>1, <4>2
    <3>9. /\ Walk(s \o g, m \o v) /\ s \o g # <<>>
          /\ (s \o g)[1] = s[1] /\ (m \o v)[1] = m[1]
          /\ (s \o g)[Len(s \o g)] = g[Len(g)]
          /\ (m \o v)[Len(s \o g)] = v[Len(g)]
      <4>1. /\ Walk(s, m) /\ s # <<>> /\ Walk(g, v) /\ g # <<>>
            /\ Joined(s[Len(s)], m[Len(s)], g[1], v[1])
        BY <3>5, <3>7, <3>8
      <4>2. Joins(s, m, g, v)
        BY <4>1 DEF Joins
      <4>3. IsJoint(s \o g, m \o v, s, m, g, v)
        BY <4>2, WalkJoin
      <4> QED
        BY <4>3 DEF IsJoint
    <3>10. g \in Seq(Items)
      BY <3>5 DEF Walk
    <3>11. f[n + 1] \in Seq(Items) /\ <<x>> \in Seq(Items)
      BY <2>4, <3>6, <3>7, <3>10, ConcatProperties
    <3>12. s \o g = <<x>> \o f[n + 1]
      <4>1. PICK a : a = <<x>>
        OBVIOUS
      <4>2. PICK b : b = f[n]
        OBVIOUS
      <4>3. a \in Seq(Items) /\ b \in Seq(Items) /\ g \in Seq(Items)
        BY <3>7, <3>10, <3>11, <4>1, <4>2
      <4>4. (a \o b) \o g = a \o (b \o g)
        BY ONLY <4>3, ConcatAssociative
      <4> QED
        BY <3>6, <4>1, <4>2, <4>4 DEF s
    <3>13. L - (n + 1) + 1 = L - n
      BY <1>2, <3>1
    <3>14. Part(n + 1, m \o v)
      BY <3>1, <3>5, <3>7, <3>9, <3>11, <3>12, <3>13
    <3> QED
      BY <3>14
  <2>8. T = Nat
    <3> HIDE DEF T
    <3>1. T \in SUBSET Nat
      BY DEF T
    <3> QED
      BY <2>6, <2>7, <3>1, SetInduction
  <2>9. L \in T
    <3> HIDE DEF T
    <3> QED
      BY <1>2, <2>8
  <2>10. PICK m : Part(L, m)
    BY <2>1, <2>9
  <2> DEFINE s == <<x>> \o f[L]
  <2>11. /\ Walk(s, m) /\ s # <<>> /\ s[1] = x /\ m[1] = L
         /\ s[Len(s)].query = q
         /\ s[Len(s)].type = "-1" /\ m[Len(s)] = L - L + 1
    BY <2>1, <2>10
  <2> HIDE DEF s
  <2>12. L - L + 1 = 1 /\ L >= 1
    BY <2>1
  <2>13. IsAnswer(s, m, q)
    BY <2>4, <2>11, <2>12 DEF IsAnswer, IsFirst, IsLast
  <2> QED
    BY <2>2, <2>13 DEF s
<1> QED
  BY <1>3, <1>4

-----------------------------------------------------------------------------
(* The stream of a worker.                                                 *)

LEMMA SomeDirectory ==
  ASSUME NEW w \in Workers
  PROVE  w \in DirSet(w)
<1>1. w \in Nat /\ w < NumWorkers /\ NumWorkers \in Nat /\ NumWorkers <= NoDirs
      /\ NoDirs \in Nat
  BY WorkerNumbers
<1>2. w % NumWorkers = w
  BY <1>1
<1> QED
  BY <1>1, <1>2 DEF DirSet

LEMMA StreamType ==
  ASSUME NEW w \in Workers, TypeOK
  PROVE  /\ w2e[w] \in Seq(Items) /\ sending[w] \in Seq(Items)
         /\ e2w[w] \in Seq(Items) /\ Stream(w) \in Seq(Items)
         /\ Len(e2w[w]) \in Nat /\ got[w] \in Nat /\ query \in Nat
         /\ Sent \in Int /\ Answered(w) \in Int /\ ei \in Workers
         /\ late[w] \in Nat
<1>1. w2e[w] \in Seq(Items) /\ sending[w] \in Seq(Items)
      /\ e2w[w] \in Seq(Items) /\ got[w] \in Nat /\ query \in Nat
      /\ ei \in Workers /\ late[w] \in Nat
  BY DEF TypeOK
<1>2. Stream(w) \in Seq(Items)
  BY <1>1, ConcatProperties DEF Stream
<1>3. Len(e2w[w]) \in Nat
  BY <1>1, LenProperties
<1>4. Sent \in Int
  BY <1>1 DEF Sent
<1>5. Answered(w) \in Int
  BY <1>3, <1>4 DEF Answered
<1> QED
  BY <1>1, <1>2, <1>3, <1>4, <1>5

(* What is left of a stream r, with numbers n, once its first item x has   *)
(* been taken.                                                             *)
Rest(w, x, m, r, n) ==
  /\ m \in Nat /\ x \in Items /\ Fits(x, m) /\ Expected(w, x, m)
  /\ Walk(r, n)
  /\ IF r = <<>> THEN IsLast(x, m) /\ x.query = Answered(w)
     ELSE /\ Joined(x, m, r[1], n[1])
          /\ IsLast(r[Len(r)], n[Len(r)]) /\ r[Len(r)].query = Answered(w)

LEMMA Popping ==
  ASSUME NEW w \in Workers, TypeOK, Alive, HasDirs(w), Chain(w),
         w2e[w] # <<>>
  PROVE  /\ Head(w2e[w]) \in Items
         /\ \E m, n :
              Rest(w, Head(w2e[w]), m, Tail(w2e[w]) \o sending[w], n)
<1>1. PICK a, b : a = w2e[w] /\ b = sending[w]
  OBVIOUS
<1>2. a \in Seq(Items) /\ b \in Seq(Items) /\ a # <<>>
  BY <1>1, StreamType
<1>3. /\ a \o b \in Seq(Items) /\ a \o b # <<>>
      /\ Tail(a) \in Seq(Items) /\ Tail(a) \o b = Tail(a \o b)
      /\ Head(a) = a[1] /\ (a \o b)[1] = a[1] /\ a[1] \in Items
  BY ONLY <1>2, TakeFirst
<1>4. PICK s : s = a \o b
  OBVIOUS
<1>5. PICK m : Flowing(w, s, m)
  BY <1>1, <1>4 DEF Chain, Stream
<1>6. /\ Walk(s, m) /\ s # <<>> /\ Expected(w, s[1], m[1])
      /\ IsLast(s[Len(s)], m[Len(s)]) /\ s[Len(s)].query = Answered(w)
  BY <1>3, <1>4, <1>5 DEF Flowing
<1>7. /\ Walk(Tail(s), Tail(m)) /\ Len(s) \in Nat \ {0}
      /\ Fits(s[1], m[1]) /\ m[1] \in Nat /\ s[1] \in Items
      /\ Tail(s) = <<>> <=> Len(s) = 1
      /\ Tail(s) # <<>> =>
           /\ Joined(s[1], m[1], Tail(s)[1], Tail(m)[1])
           /\ Tail(m)[1] \in Nat
           /\ Tail(s)[Len(Tail(s))] = s[Len(s)]
           /\ Tail(m)[Len(Tail(s))] = m[Len(s)]
  BY ONLY <1>6, WalkTail
<1>8. Rest(w, s[1], m[1], Tail(s), Tail(m))
  BY <1>6, <1>7 DEF Rest
<1>9. s[1] = Head(w2e[w]) /\ Tail(s) = Tail(w2e[w]) \o sending[w]
  BY <1>1, <1>3, <1>4
<1> QED
  BY <1>7, <1>8, <1>9

(* A worker has its directories in its own time, and keeps them. *)
LEMMA KeepsDirs ==
  ASSUME NEW w \in Workers, Stage(w), indexed'[w] = indexed[w], HasDirs(w)'
  PROVE  HasDirs(w)
<1>1. indexed[w] # {}
  BY SomeDirectory DEF HasDirs
<1> QED
  BY <1>1 DEF Stage, HasNone

(* A step that leaves the worker's stream alone, and the executor's place  *)
(* in it.                                                                  *)
Unmoved(w) ==
  /\ e2w'[w] = e2w[w] /\ w2e'[w] \o sending'[w] = w2e[w] \o sending[w]
  /\ indexed'[w] = indexed[w] /\ got'[w] = got[w]

SamePlace(w) ==
  /\ Alive' => Alive
  /\ Alive' => Sent' = Sent
  /\ Alive' => (Readied(w)' <=> Readied(w))
  /\ Alive' => (Reading(w)' <=> Reading(w))
  /\ Alive' /\ Reading(w) =>
       left' = left /\ (epc' = "file" <=> epc = "file")

LEMMA ChainKept ==
  ASSUME NEW w \in Workers, Stage(w), Chain(w), Unmoved(w), SamePlace(w)
  PROVE  Chain(w)'
<1> SUFFICES ASSUME Alive', HasDirs(w)'
             PROVE  Asked(w)' /\ \E m : Flowing(w, Stream(w), m)'
  BY DEF Chain
<1>1. HasDirs(w) /\ Alive
  BY KeepsDirs DEF Unmoved, SamePlace
<1>2. PICK m : Flowing(w, Stream(w), m)
  BY <1>1 DEF Chain
<1>3. Asked(w)
  BY <1>1 DEF Chain
<1>4. Answered(w)' = Answered(w)
  BY DEF Unmoved, SamePlace, Answered
<1>5. Asked(w)'
  BY <1>3, <1>4 DEF Unmoved, Asked
<1>6. PICK s : s = Stream(w)
  OBVIOUS
<1>7. s = Stream(w)'
  BY <1>6 DEF Unmoved, Stream
<1>8. ASSUME NEW x, NEW k, Expected(w, x, k) PROVE Expected(w, x, k)'
  <2>1. Readied(w)' <=> Readied(w)
    BY DEF SamePlace
  <2>2. Reading(w)' <=> Reading(w)
    BY DEF SamePlace
  <2>3. got'[w] = got[w]
    BY DEF Unmoved
  <2>4. Reading(w) => left' = left /\ (epc' = "file" <=> epc = "file")
    BY DEF SamePlace
  <2>5. CASE ~ Readied(w)
    BY <1>8, <2>1, <2>5 DEF Expected
  <2>6. CASE Readied(w) /\ ~ Reading(w)
    BY <1>8, <2>1, <2>2, <2>3, <2>6 DEF Expected
  <2>7. CASE Readied(w) /\ Reading(w)
    BY <1>8, <2>1, <2>2, <2>3, <2>4, <2>7 DEF Expected
  <2> QED
    BY <2>5, <2>6, <2>7
<1>9. Flowing(w, s, m)'
  <2>1. Walk(s, m)
    BY <1>2, <1>6 DEF Flowing
  <2>2. CASE s = <<>>
    <3>1. Readied(w) /\ ~ Reading(w) /\ got[w] = Answered(w)
      BY <1>2, <1>6, <2>2 DEF Flowing
    <3> QED
      BY <1>4, <2>1, <2>2, <3>1 DEF Flowing, Unmoved, SamePlace
  <2>3. CASE s # <<>>
    <3>1. /\ Expected(w, s[1], m[1])
          /\ IsLast(s[Len(s)], m[Len(s)]) /\ s[Len(s)].query = Answered(w)
      BY <1>2, <1>6, <2>3 DEF Flowing
    <3>2. Expected(w, s[1], m[1])'
      BY <1>8, <3>1
    <3> QED
      BY <1>4, <2>1, <2>3, <3>1, <3>2 DEF Flowing
  <2> QED
    BY <2>2, <2>3
<1>10. Flowing(w, Stream(w), m)'
  BY <1>7, <1>9
<1> QED
  BY <1>5, <1>10

(* A worker that has its directories keeps them while it is asked.         *)
LEMMA StageKept ==
  ASSUME NEW w \in Workers, HasDirs(w), epc' \notin Starting,
         indexed'[w] = indexed[w], e2w'[w] = e2w[w]
  PROVE  Stage(w)'
BY DEF Stage, HasDirs

-----------------------------------------------------------------------------
(* Types.                                                                  *)

LEMMA LargerSeq ==
  ASSUME NEW S, NEW T, S \subseteq T, NEW s \in Seq(S)
  PROVE  s \in Seq(T)
OBVIOUS

LEMMA AtAnswer ==
  ASSUME Inv, epc \in CollectLabels
  PROVE  /\ ei \in Workers /\ Alive /\ HasDirs(ei) /\ Chain(ei)
         /\ epc \notin StartLabels /\ Readied(ei)
         /\ Reading(ei) <=> epc # "collect"
<1>1. ei \in Workers
  BY DEF Inv, TypeOK
<1>2. Stage(ei) /\ Chain(ei)
  BY <1>1 DEF Inv
<1>3. epc \notin Starting /\ epc # "ready" /\ Alive /\ epc \notin StartLabels
  BY DEF CollectLabels, Starting, Alive, StartLabels
<1> QED
  BY <1>1, <1>2, <1>3 DEF Stage, HasNone, Readied, Reading, CollectLabels

(* The next item of worker ei's answer, at each label that reads one. *)
LEMMA AtItem ==
  ASSUME Inv, epc \in CollectLabels, w2e[ei] # <<>>
  PROVE  /\ Head(w2e[ei]) \in Items
         /\ \E m, n :
              /\ Rest(ei, Head(w2e[ei]), m, Tail(w2e[ei]) \o sending[ei], n)
              /\ epc = "collect" => IsFirst(Head(w2e[ei]), m, got[ei] + 1)
              /\ epc # "collect" =>
                   /\ Head(w2e[ei]).query = got[ei] /\ m = left
                   /\ Head(w2e[ei]).type \in
                        IF epc = "file" THEN {"file"} ELSE {"row", "-1"}
<1>1. /\ ei \in Workers /\ Alive /\ HasDirs(ei) /\ Chain(ei)
      /\ Readied(ei) /\ (Reading(ei) <=> epc # "collect")
  BY AtAnswer
<1>2. TypeOK
  BY DEF Inv
<1>3. PICK w \in Workers : w = ei
  BY <1>1
<1>4. PICK x, r : x = Head(w2e[w]) /\ r = Tail(w2e[w]) \o sending[w]
  OBVIOUS
<1>5. x \in Items /\ \E m, n : Rest(w, x, m, r, n)
  BY <1>1, <1>2, <1>3, <1>4, Popping
<1>6. PICK m, n : Rest(w, x, m, r, n)
  BY <1>5
<1>7. Expected(w, x, m)
  BY <1>6 DEF Rest
<1>8. Readied(w) /\ (Reading(w) <=> epc # "collect")
  BY <1>1, <1>3
<1>9. epc = "collect" => IsFirst(x, m, got[w] + 1)
  BY <1>7, <1>8 DEF Expected
<1>10. epc # "collect" =>
         /\ x.query = got[w] /\ m = left
         /\ x.type \in IF epc = "file" THEN {"file"} ELSE {"row", "-1"}
  BY <1>7, <1>8 DEF Expected
<1> QED
  BY <1>3, <1>4, <1>5, <1>6, <1>9, <1>10

LEMMA NextWorkerType ==
  ASSUME NEW a, NEW b, ei \in Workers, NextWorker(a, b)
  PROVE  epc' \in {a, b} /\ ei' \in Workers
<1>1. NumWorkers \in Nat /\ NumWorkers >= 1
  BY WorkerNumbers
<1> QED
  BY <1>1 DEF NextWorker, Workers

LEMMA Requests ==
  ASSUME NEW q \in Nat, TypeOK
  PROVE  /\ Request(q) \in Seq(Items) /\ Len(Request(q)) = 2
         /\ Request(q)[1].type = "fd" /\ Request(q)[1].query = q
         /\ Request(q)[2].type = "search" /\ Request(q)[2].query = q
<1>1. fd_command \in Int
  BY DEF TypeOK
<1>2. /\ Item("fd", q, fd_command) \in Items /\ Item("search", q, 1) \in Items
  BY <1>1, ItemTypes
<1> QED
  BY <1>2 DEF Request, Item

LEMMA ItemFields ==
  \A x \in Items : /\ x.query \in Nat /\ x.n \in Int
                   /\ [x EXCEPT !.type = "tail of a command"] \in Items
                   /\ [x EXCEPT !.type = "tail of a command"].type
                        = "tail of a command"
                   /\ Stripped(x).type = x.type /\ Stripped(x).query = x.query
                   /\ Stripped(x).n = 0
BY DEF Items, Stripped

LEMMA SearchTypes ==
  ASSUME TypeOK, Search
  PROVE  TypeOK'
<1>1. Len(asker) + 1 \in Nat
  BY LenProperties DEF TypeOK
<1>2. session \in 1..sessions
  BY DEF TypeOK, Search
<1>3. asker' \in Seq(1..sessions')
  BY <1>2, AppendProperties DEF TypeOK, Search
<1>4. c2e' \in Seq(Items)
  <2>1. Request(Len(asker) + 1) \in Seq(Items)
    BY <1>1, Requests
  <2>2. PICK r : r = Request(Len(asker) + 1)
    OBVIOUS
  <2>3. c2e \o r \in Seq(Items)
    BY <2>1, <2>2, ConcatProperties DEF TypeOK
  <2> QED
    BY <2>2, <2>3 DEF TypeOK, Search
<1>5. inherited' \in [number : Int, session : Nat]
  BY DEF TypeOK, Search
<1>6. epc' \in ExecutorLabels
  BY DEF TypeOK, Search, ExecutorLabels, StartLabels
<1> QED
  BY <1>3, <1>4, <1>5, <1>6
     DEF TypeOK, Search, queryVars, collectVars, workerVars

LEMMA CrawlerTypes ==
  ASSUME TypeOK, CrawlerStep \/ Leave
  PROVE  TypeOK'
<1>1. CASE Accept
  <2>1. asker' \in Seq(1..sessions')
    <3>1. 1..sessions \subseteq 1..sessions'
      BY <1>1 DEF TypeOK, Accept
    <3>2. asker' \in Seq(1..sessions)
      BY <1>1 DEF TypeOK, Accept
    <3> QED
      BY <3>1, <3>2, LargerSeq
  <2>2. fd_command' \in Int
    BY <1>1, NumbersAssumption DEF Accept
  <2>3. gone' \subseteq 1..sessions'
    BY <1>1 DEF TypeOK, Accept
  <2> QED
    BY <1>1, <2>1, <2>2, <2>3
       DEF TypeOK, Accept, queryVars, collectVars, workerVars
<1>2. CASE Leave
  BY <1>2 DEF TypeOK, Leave, queryVars, collectVars, workerVars
<1>3. CASE EndSession
  BY <1>3 DEF TypeOK, EndSession, queryVars, collectVars, workerVars
<1>4. CASE Search
  BY <1>4, SearchTypes
<1>5. CASE OpenPipe
  <2>1. Len(asker) \in Nat
    BY LenProperties DEF TypeOK
  <2>2. Request(Len(asker)) \in Seq(Items)
    BY <2>1, Requests
  <2>3. PICK r : r = Request(Len(asker))
    OBVIOUS
  <2>4. c2e \o r \in Seq(Items)
    BY <2>2, <2>3, ConcatProperties DEF TypeOK
  <2> QED
    BY <1>5, <2>3, <2>4
       DEF TypeOK, OpenPipe, queryVars, collectVars, workerVars
<1>6. CASE Shutdown
  <2>1. Item("shutdown", 0, 2) \in Items
    BY ItemTypes
  <2>2. Append(c2e, Item("shutdown", 0, 2)) \in Seq(Items)
    BY <2>1, AppendProperties DEF TypeOK
  <2> QED
    BY <1>6, <2>2
       DEF TypeOK, Shutdown, queryVars, collectVars, workerVars
<1> QED
  BY <1>1, <1>2, <1>3, <1>4, <1>5, <1>6 DEF CrawlerStep

LEMMA StartTypes ==
  ASSUME TypeOK,
         OpenCrawler \/ OpenWrite \/ OpenRead \/ sendDirectoryInfo
         \/ AwaitReady
  PROVE  TypeOK'
<1> USE DEF ExecutorLabels, StartLabels
<1>1. CASE OpenCrawler
  BY <1>1 DEF TypeOK, OpenCrawler, crawlerVars, queryVars, collectVars,
              workerVars
<1>2. CASE OpenWrite
  BY <1>2 DEF TypeOK, OpenWrite, crawlerVars, queryVars, collectVars,
              workerVars
<1>3. CASE OpenRead
  <2>1. epc' \in {"openWrite", "deal"} /\ ei' \in Workers
    BY <1>3, NextWorkerType DEF TypeOK, OpenRead
  <2> QED
    BY <1>3, <2>1 DEF TypeOK, OpenRead, crawlerVars, queryVars, collectVars,
                      workerVars
<1>4. CASE sendDirectoryInfo
  <2>1. \A w \in Workers : Block(w) \in Seq(Items)
    <3> SUFFICES ASSUME NEW w \in Workers PROVE Block(w) \in Seq(Items)
      OBVIOUS
    <3>1. DirsOf(w) \in Seq(Items) /\ DirCount(w) \in Nat
      BY DirsOfExact
    <3>2. Item("DIRNAMES", 0, DirCount(w)) \in Items
      BY <3>1, ItemTypes
    <3>3. PICK a : a = <<Item("DIRNAMES", 0, DirCount(w))>>
      OBVIOUS
    <3>4. a \in Seq(Items)
      BY <3>2, <3>3
    <3> QED
      BY <3>1, <3>3, <3>4, ConcatProperties DEF Block
  <2>2. e2w' = [w \in Workers |-> Block(w)]
    BY <1>4 DEF sendDirectoryInfo, Block
  <2>3. e2w' \in [Workers -> Seq(Items)]
    BY <2>1, <2>2
  <2> QED
    BY <1>4, <2>3 DEF TypeOK, sendDirectoryInfo, crawlerVars, queryVars,
                      collectVars, workerVars
<1>5. CASE AwaitReady
  <2>1. epc' \in {"ready", "readFd"} /\ ei' \in Workers
    BY <1>5, NextWorkerType DEF TypeOK, AwaitReady
  <2>2. ei \in Workers /\ w2e[ei] \in Seq(Items) /\ w2e[ei] # <<>>
    BY <1>5 DEF TypeOK, AwaitReady
  <2>3. Tail(w2e[ei]) \in Seq(Items)
    BY <2>2, HeadTailProperties
  <2>4. w2e' \in [Workers -> Seq(Items)]
    BY <1>5, <2>3 DEF TypeOK, AwaitReady
  <2> QED
    BY <1>5, <2>1, <2>4 DEF TypeOK, AwaitReady, crawlerVars, queryVars,
                            collectVars, workerVars
<1> QED
  BY <1>1, <1>2, <1>3, <1>4, <1>5

LEMMA CommandTypes ==
  ASSUME TypeOK,
         ReadFd \/ ReadCommand \/ SendQuery \/ Deadline \/ Conclude
         \/ NoResultsFound
  PROVE  /\ TypeOK'
         /\ ReadCommand => epc' \in {"send", "readFd"} /\ e2w' = e2w
<1> USE DEF ExecutorLabels, StartLabels, CollectLabels
<1>1. CASE ReadFd
  <2>1. c2e \in Seq(Items) /\ c2e # <<>>
    BY <1>1 DEF TypeOK, ReadFd
  <2>2. Head(c2e) \in Items /\ Tail(c2e) \in Seq(Items)
    BY <2>1, HeadTailProperties
  <2>8. PICK x \in Items : x = Head(c2e)
    BY <2>2
  <2>9. x.n \in Int /\ [x EXCEPT !.type = "tail of a command"] \in Items
    BY ItemFields
  <2>3. socketfd' \in Int
    <3>1. PICK i \in Int : i = x.n
      BY <2>9
    <3>2. socketfd' = IF x.type = "fd" THEN i ELSE -1
      BY <1>1, <2>8, <3>1 DEF ReadFd, IntOf
    <3> QED
      BY <3>2
  <2>4. RestOf(x) \in Seq(Items)
    <3>1. CASE x.type = "fd"
      BY <3>1 DEF RestOf
    <3>2. CASE x.type # "fd"
      <4>1. PICK y \in Items : y = [x EXCEPT !.type = "tail of a command"]
        BY <2>9
      <4>2. RestOf(x) = <<y>>
        BY <3>2, <4>1 DEF RestOf
      <4> QED
        BY <4>2
    <3> QED
      BY <3>1, <3>2
  <2>5. PICK a, b : a = RestOf(x) /\ b = Tail(c2e)
    OBVIOUS
  <2>6. a \o b \in Seq(Items)
    BY <2>2, <2>4, <2>5, ConcatProperties
  <2>7. c2e' \in Seq(Items)
    BY <1>1, <2>5, <2>6, <2>8 DEF ReadFd
  <2> QED
    BY <1>1, <2>3, <2>7 DEF TypeOK, ReadFd, crawlerVars, collectVars,
       workerVars, ReadCommand
<1>2. CASE ReadCommand
  <2>1. c2e \in Seq(Items) /\ c2e # <<>>
    BY <1>2 DEF TypeOK, ReadCommand
  <2>2. Head(c2e) \in Items /\ Tail(c2e) \in Seq(Items)
    BY <2>1, HeadTailProperties
  <2>3. PICK command : command = Stripped(Head(c2e))
    OBVIOUS
  <2>4. command.n = 0 /\ command.query \in Nat
    BY <2>2, <2>3, ItemFields
  <2>5. command # ExitCommand
    BY <2>4, ItemTypes DEF ExitCommand, Item
  <2>6. /\ epc' = CASE command = ExitCommand -> "exited"
                    [] command.type = "search" -> "send"
                    [] OTHER -> "readFd"
        /\ query' = IF command.type = "search" THEN command.query ELSE query
        /\ e2w' = IF command = ExitCommand
                  THEN [w \in Workers |-> Append(e2w[w], Item("exit", 0, 0))]
                  ELSE e2w
        /\ c2e' = Tail(c2e)
    BY <1>2, <2>3 DEF ReadCommand
  <2>7. epc' \in {"send", "readFd"} /\ e2w' = e2w /\ query' \in Nat
    BY <2>4, <2>5, <2>6 DEF TypeOK
  <2> QED
    BY <1>2, <2>2, <2>6, <2>7 DEF TypeOK, ReadCommand, crawlerVars,
       collectVars, workerVars
<1>3. CASE SendQuery
  <2>1. Item("search", query, 0) \in Items
    <3>1. PICK q \in Nat : q = query
      BY DEF TypeOK
    <3> QED
      BY <3>1, ItemTypes
  <2>2. \A w \in Workers :
          Append(e2w[w], Item("search", query, 0)) \in Seq(Items)
    BY <2>1, AppendProperties DEF TypeOK
  <2>3. e2w' \in [Workers -> Seq(Items)]
    BY <1>3, <2>2 DEF SendQuery
  <2>4. ~ ReadCommand
    BY <1>3 DEF SendQuery, ReadCommand
  <2> QED
    BY <1>3, <2>3, <2>4 DEF TypeOK, SendQuery, crawlerVars, queryVars,
       collectVars, workerVars
<1>4. CASE Deadline
  <2>1. ~ ReadCommand
    BY <1>4 DEF Deadline, ReadCommand
  <2> QED
    BY <1>4, <2>1 DEF TypeOK, Deadline, crawlerVars, queryVars, workerVars
<1>5. CASE Conclude
  <2>1. ~ ReadCommand
    BY <1>5 DEF Conclude, ReadCommand
  <2>2. /\ epc' \in {"killed", "readFd", "none found"} /\ reset' \in BOOLEAN
        /\ concluded' \in Nat /\ ei' \in Workers
    <3>1. \/ /\ concluded' = concluded + 1 /\ ei' = ei
             /\ epc' = IF found THEN "readFd" ELSE "none found"
             /\ reset' = (reset \/ Reached \in gone)
          \/ epc' = "killed" /\ UNCHANGED <<ei, reset, concluded>>
      BY <1>5 DEF Conclude, Write
    <3>2. reset' \in BOOLEAN
      BY <3>1 DEF TypeOK
    <3>4. concluded' \in {concluded, concluded + 1} /\ ei' = ei
      BY <3>1
    <3>5. concluded \in Nat /\ ei \in Workers
      BY DEF TypeOK
    <3>3. concluded' \in Nat /\ ei' \in Workers
      BY <3>4, <3>5
    <3> QED
      BY <3>1, <3>2, <3>3
  <2> QED
    BY <1>5, <2>1, <2>2 DEF TypeOK, Conclude, crawlerVars, queryVars,
       workerVars
<1>6. CASE NoResultsFound
  <2>1. ~ ReadCommand
    BY <1>6 DEF NoResultsFound, ReadCommand
  <2>2. /\ epc' \in {"killed", "readFd"} /\ reset' \in BOOLEAN
        /\ concluded' \in Nat /\ ei' \in Workers
    BY <1>6 DEF TypeOK, NoResultsFound, Write
  <2> QED
    BY <1>6, <2>1, <2>2 DEF TypeOK, NoResultsFound, crawlerVars, queryVars,
       workerVars
<1> QED
  BY <1>1, <1>2, <1>3, <1>4, <1>5, <1>6

LEMMA TailOfAnswer ==
  ASSUME TypeOK, w2e[ei] # <<>>
  PROVE  [w2e EXCEPT ![ei] = Tail(@)] \in [Workers -> Seq(Items)]
<1>1. ei \in Workers /\ w2e[ei] \in Seq(Items)
  BY DEF TypeOK
<1>2. Tail(w2e[ei]) \in Seq(Items)
  BY <1>1, HeadTailProperties
<1> QED
  BY <1>2 DEF TypeOK

LEMMA CollectTypes ==
  ASSUME Inv, Collect
  PROVE  TypeOK'
<1> USE DEF ExecutorLabels, StartLabels, CollectLabels
<1>1. TypeOK /\ ei \in Workers /\ epc = "collect"
  BY DEF Inv, TypeOK, Collect
<1>2. CASE w2e[ei] = <<>>
  <2>1. /\ late' = [late EXCEPT ![ei] = @ + 1]
        /\ NextWorker("collect", "conclude")
        /\ UNCHANGED <<w2e, got, left, found>>
    BY <1>2 DEF Collect
  <2>2. epc' \in {"collect", "conclude"} /\ ei' \in Workers
    BY <1>1, <2>1, NextWorkerType
  <2>3. late' \in [Workers -> Nat]
    BY <1>1, <2>1 DEF TypeOK
  <2> QED
    BY <1>1, <2>1, <2>2, <2>3 DEF TypeOK, Collect, crawlerVars, queryVars,
       workerVars
<1>3. CASE w2e[ei] # <<>>
  <2>1. PICK x : x = Head(w2e[ei])
    OBVIOUS
  <2>2. /\ x \in Items
        /\ \E m \in Nat : IsFirst(x, m, got[ei] + 1)
    BY <1>1, <1>3, <2>1, AtItem DEF Rest
  <2>3. x.query \in Nat /\ (x.type # "NORES" => x.n \in Nat)
    BY <2>2, ItemFields DEF IsFirst
  <2>4. got' \in [Workers -> Nat]
    BY <1>1, <1>3, <2>1, <2>3 DEF TypeOK, Collect
  <2>5. CASE x.type = "NORES"
    <3>1. /\ w2e' = [w2e EXCEPT ![ei] = Tail(@)]
          /\ NextWorker("collect", "conclude")
          /\ UNCHANGED <<left, found, late>>
      BY <1>3, <2>1, <2>5 DEF Collect, AfterNores
    <3>2. epc' \in {"collect", "conclude"} /\ ei' \in Workers
      BY <1>1, <3>1, NextWorkerType
    <3>3. w2e' \in [Workers -> Seq(Items)]
      BY <1>1, <1>3, <3>1, TailOfAnswer
    <3> QED
      BY <1>1, <2>4, <3>1, <3>2, <3>3 DEF TypeOK, Collect, crawlerVars,
         queryVars, workerVars
  <2>6. CASE x.type # "NORES"
    <3>1. /\ w2e' = [w2e EXCEPT ![ei] = Tail(@)]
          /\ left' = x.n /\ found' = TRUE /\ epc' = "file"
          /\ UNCHANGED <<ei, late>>
      BY <1>3, <2>1, <2>6 DEF Collect
    <3>2. w2e' \in [Workers -> Seq(Items)]
      BY <1>1, <1>3, <3>1, TailOfAnswer
    <3> QED
      BY <1>1, <2>3, <2>4, <2>6, <3>1, <3>2 DEF TypeOK, Collect, crawlerVars,
         queryVars, workerVars
  <2> QED
    BY <2>5, <2>6
<1> QED
  BY <1>2, <1>3

LEMMA AnswerTypesKept ==
  ASSUME Inv, ReadFile \/ FirstRow \/ ReadRow \/ EndOfFile
  PROVE  TypeOK' /\ (EndOfFile => left >= 1)
<1> USE DEF ExecutorLabels, StartLabels, CollectLabels
<1>1. TypeOK /\ ei \in Workers
  BY DEF Inv, TypeOK
<1>2. CASE ReadFile
  <2>1. w2e' \in [Workers -> Seq(Items)]
    BY <1>1, <1>2, TailOfAnswer DEF ReadFile
  <2>2. /\ epc' \in {"first", "killed"} /\ ei' = ei /\ concluded' = concluded
        /\ reset' \in BOOLEAN
    BY <1>1, <1>2 DEF ReadFile, ShowLine, Write, TypeOK
  <2>3. ~ EndOfFile
    BY <1>2 DEF ReadFile, EndOfFile
  <2> QED
    BY <1>1, <1>2, <2>1, <2>2, <2>3 DEF TypeOK, ReadFile, crawlerVars,
       queryVars, workerVars
<1>3. CASE FirstRow
  <2>1. ~ EndOfFile
    BY <1>3 DEF FirstRow, EndOfFile
  <2> QED
    BY <1>1, <1>3, <2>1 DEF TypeOK, FirstRow, crawlerVars, queryVars,
       collectVars, workerVars
<1>4. CASE ReadRow
  <2>1. w2e' \in [Workers -> Seq(Items)]
    BY <1>1, <1>4, TailOfAnswer DEF ReadRow
  <2>2. /\ epc' \in {"rows", "killed"} /\ ei' = ei /\ concluded' = concluded
        /\ reset' \in BOOLEAN
    BY <1>1, <1>4 DEF ReadRow, ShowLine, Write, TypeOK
  <2>3. ~ EndOfFile
    BY <1>4 DEF ReadRow, EndOfFile
  <2> QED
    BY <1>1, <1>4, <2>1, <2>2, <2>3 DEF TypeOK, ReadRow, crawlerVars,
       queryVars, workerVars
<1>5. CASE EndOfFile
  <2>1. epc = "rows" /\ w2e[ei] # <<>> /\ Head(w2e[ei]).type = "-1"
    BY <1>5 DEF EndOfFile
  <2>2. PICK m \in Nat : Fits(Head(w2e[ei]), m) /\ m = left
    BY <2>1, AtItem DEF Rest
  <2>3. left >= 1
    BY <2>1, <2>2 DEF Fits
  <2>4. left' \in Nat
    BY <1>1, <1>5, <2>3 DEF TypeOK, EndOfFile
  <2>5. epc' \in {"file", "collect", "conclude"} /\ ei' \in Workers
    <3>1. CASE left > 1
      BY <1>1, <1>5, <3>1 DEF EndOfFile
    <3>2. CASE ~ (left > 1)
      BY <1>1, <1>5, <3>2, NextWorkerType DEF EndOfFile
    <3> QED
      BY <3>1, <3>2
  <2>6. w2e' \in [Workers -> Seq(Items)]
    BY <1>1, <1>5, TailOfAnswer DEF EndOfFile
  <2> QED
    BY <1>1, <1>5, <2>3, <2>4, <2>5, <2>6 DEF TypeOK, EndOfFile, crawlerVars,
       queryVars, workerVars
<1> QED
  BY <1>2, <1>3, <1>4, <1>5

-----------------------------------------------------------------------------
(* What a worker takes from its pipe: its directories, or a query.         *)

LEMMA Commanded ==
  ASSUME Inv, NEW w \in Workers, WorkerCommand(w)
  PROVE  /\ wpc' = wpc
         /\ \/ /\ epc = "ready" /\ w >= ei /\ w2e[w] = <<>>
               /\ e2w' = [e2w EXCEPT ![w] = <<>>]
               /\ sending' = [sending EXCEPT ![w] = <<Item("READY", 0, 0)>>]
               /\ indexed' = [indexed EXCEPT ![w] = DirSet(w)]
            \/ /\ HasDirs(w) /\ Head(e2w[w]).query \in Queries
               /\ e2w' = [e2w EXCEPT ![w] = Tail(e2w[w])]
               /\ sending' = [sending EXCEPT
                                ![w] = Answer(Head(e2w[w]).query, w)]
               /\ indexed' = indexed
<1> DEFINE s == e2w[w]
           x == Head(s)
           taken == IF x.type = "DIRNAMES" THEN x.n + 1 ELSE 1
<1>1. /\ s # <<>> /\ sending[w] = <<>>
      /\ e2w' = [e2w EXCEPT ![w] = SubSeq(s, taken + 1, Len(s))]
      /\ indexed' = [indexed EXCEPT
           ![w] = indexed[w] \cup {s[k].n : k \in 2..taken}]
      /\ sending' = [sending EXCEPT
           ![w] = CASE x.type = "DIRNAMES" -> <<Item("READY", 0, 0)>>
                    [] x.type = "search" -> Answer(x.query, w)
                    [] OTHER -> sending[w]]
      /\ wpc' = [wpc EXCEPT ![w] = IF x.type = "exit" THEN "exited" ELSE @]
  BY DEF WorkerCommand
<1>2. /\ wpc \in [Workers -> {"openRead", "openWrite", "command", "exited",
                              "killed"}]
      /\ indexed \in [Workers -> SUBSET (0..NoDirs - 1)]
      /\ s \in Seq(Items) /\ ei \in Workers
  BY DEF Inv, TypeOK
<1>3. x = s[1] /\ Len(s) \in Nat \ {0} /\ 1 \in 1..Len(s)
  BY <1>1, <1>2, HeadTailProperties, EmptySeq, LenProperties
<1>4. CASE HasNone(w)
  <2>1. /\ epc = "ready" /\ w >= ei /\ s = Block(w) /\ w2e[w] = <<>>
        /\ indexed[w] = {}
    BY <1>1, <1>4 DEF HasNone
  <2>2. PICK d, c : d = DirsOf(w) /\ c = DirCount(w)
    OBVIOUS
  <2>3. /\ d \in Seq(Items) /\ Len(d) = c /\ c \in Nat
        /\ \A k \in 1..c : d[k].n \in DirSet(w)
        /\ \A e \in DirSet(w) : \E k \in 1..c : d[k].n = e
    BY <2>2, DirsOfExact
  <2>4. PICK a : a = <<Item("DIRNAMES", 0, c)>>
    OBVIOUS
  <2>5. /\ a \in Seq(Items) /\ Len(a) = 1 /\ a[1].type = "DIRNAMES"
        /\ a[1].n = c
    <3>1. /\ Item("DIRNAMES", 0, c) \in Items
          /\ Item("DIRNAMES", 0, c).type = "DIRNAMES"
          /\ Item("DIRNAMES", 0, c).n = c
      BY <2>3, ItemTypes
    <3> QED
      BY <2>4, <3>1
  <2>6. /\ Len(a \o d) = Len(a) + Len(d)
        /\ \A k \in 1..Len(a) + Len(d) :
             (a \o d)[k] = IF k <= Len(a) THEN a[k] ELSE d[k - Len(a)]
    BY <2>3, <2>5, ConcatProperties
  <2>7. s = a \o d
    BY <2>1, <2>2, <2>4 DEF Block
  <2> HIDE DEF s
  <2>8. /\ Len(s) = 1 + c
        /\ \A k \in 1..1 + c : s[k] = IF k <= 1 THEN a[k] ELSE d[k - 1]
    BY <2>3, <2>5, <2>6, <2>7
  <2>9. x.type = "DIRNAMES" /\ x.n = c
    BY <1>3, <2>3, <2>5, <2>8
  <2> HIDE DEF x
  <2>10. taken = c + 1
    BY <2>9
  <2> HIDE DEF taken
  <2>11. SubSeq(s, taken + 1, Len(s)) = <<>>
    BY <1>2, <2>3, <2>8, <2>10, SubSeqEmpty
  <2>12. {s[k].n : k \in 2..taken} = DirSet(w)
    <3>1. ASSUME NEW k \in 2..taken PROVE s[k].n \in DirSet(w)
      <4>1. k \in 1..1 + c /\ ~ (k <= 1) /\ k - 1 \in 1..c
        BY <2>3, <2>10
      <4> QED
        BY <2>3, <2>8, <4>1
    <3>2. ASSUME NEW e \in DirSet(w)
          PROVE  \E k \in 2..taken : s[k].n = e
      <4>1. PICK j \in 1..c : d[j].n = e
        BY <2>3
      <4>2. j + 1 \in 2..taken /\ j + 1 \in 1..1 + c /\ ~ (j + 1 <= 1)
            /\ (j + 1) - 1 = j
        BY <2>3, <2>10
      <4> QED
        BY <2>8, <4>1, <4>2
    <3> QED
      BY <3>1, <3>2
  <2>13. wpc' = wpc
    BY <1>1, <1>2, <2>9
  <2>14. /\ e2w' = [e2w EXCEPT ![w] = <<>>]
         /\ sending' = [sending EXCEPT ![w] = <<Item("READY", 0, 0)>>]
         /\ indexed' = [indexed EXCEPT ![w] = DirSet(w)]
    BY <1>1, <2>1, <2>9, <2>11, <2>12
  <2> QED
    BY <2>1, <2>13, <2>14
<1>5. CASE HasDirs(w)
  <2>1. x.type = "search" /\ x.query \in Queries
    BY <1>3, <1>5 DEF HasDirs
  <2>2. taken = 1
    BY <2>1
  <2> HIDE DEF x, taken
  <2>3. SubSeq(s, taken + 1, Len(s)) = Tail(s)
    <3>1. taken + 1 = 2
      BY <2>2
    <3> QED
      BY <3>1 DEF Tail
  <2>4. indexed' = indexed
    <3>1. {s[k].n : k \in 2..taken} = {}
      BY <2>2
    <3> QED
      BY <1>1, <1>2, <3>1
  <2>5. wpc' = wpc
    BY <1>1, <1>2, <2>1
  <2>6. sending' = [sending EXCEPT ![w] = Answer(x.query, w)]
    BY <1>1, <2>1
  <2>7. e2w' = [e2w EXCEPT ![w] = Tail(s)]
    BY <1>1, <2>3
  <2> QED
    BY <1>5, <2>1, <2>4, <2>5, <2>6, <2>7 DEF x
<1>6. Stage(w)
  BY DEF Inv
<1> QED
  BY <1>4, <1>5, <1>6 DEF Stage

LEMMA WorkerTypes ==
  ASSUME Inv, NEW w \in Workers, WorkerStep(w)
  PROVE  TypeOK'
<1> USE DEF crawlerVars, queryVars, collectVars
<1>1. TypeOK
  BY DEF Inv
<1>2. CASE OpenWorkerRead(w)
  BY <1>1, <1>2 DEF TypeOK, OpenWorkerRead
<1>3. CASE OpenWorkerWrite(w)
  BY <1>1, <1>3 DEF TypeOK, OpenWorkerWrite
<1>4. CASE WorkerCommand(w)
  <2>1. e2w[w] \in Seq(Items) /\ e2w[w] # <<>>
    BY <1>1, <1>4 DEF TypeOK, WorkerCommand
  <2>2. Tail(e2w[w]) \in Seq(Items)
    BY <2>1, HeadTailProperties
  <2>3. <<Item("READY", 0, 0)>> \in Seq(Items)
    <3>1. Item("READY", 0, 0) \in Items
      BY ItemTypes
    <3> QED
      BY <3>1
  <2>4. Head(e2w[w]).query \in Queries =>
          Answer(Head(e2w[w]).query, w) \in Seq(Items)
    BY AnswerWalks DEF IsAnswer, Walk
  <2>5. DirSet(w) \subseteq 0..NoDirs - 1
    BY DEF DirSet
  <2>6. /\ wpc' = wpc /\ e2w' \in [Workers -> Seq(Items)]
        /\ sending' \in [Workers -> Seq(Items)]
        /\ indexed' \in [Workers -> SUBSET (0..NoDirs - 1)]
    <3>1. /\ e2w \in [Workers -> Seq(Items)]
          /\ sending \in [Workers -> Seq(Items)]
          /\ indexed \in [Workers -> SUBSET (0..NoDirs - 1)]
      BY <1>1 DEF TypeOK
    <3>2. <<>> \in Seq(Items)
      OBVIOUS
    <3>3. /\ wpc' = wpc
          /\ \/ /\ e2w' = [e2w EXCEPT ![w] = <<>>]
                /\ sending' = [sending EXCEPT ![w] = <<Item("READY", 0, 0)>>]
                /\ indexed' = [indexed EXCEPT ![w] = DirSet(w)]
             \/ /\ Head(e2w[w]).query \in Queries
                /\ e2w' = [e2w EXCEPT ![w] = Tail(e2w[w])]
                /\ sending' = [sending EXCEPT
                                 ![w] = Answer(Head(e2w[w]).query, w)]
                /\ indexed' = indexed
      BY <1>4, Commanded
    <3>4. e2w' \in [Workers -> Seq(Items)]
      BY <2>2, <3>1, <3>2, <3>3
    <3>5. sending' \in [Workers -> Seq(Items)]
      BY <2>3, <2>4, <3>1, <3>3
    <3>6. indexed' \in [Workers -> SUBSET (0..NoDirs - 1)]
      BY <2>5, <3>1, <3>3
    <3> QED
      BY <3>3, <3>4, <3>5, <3>6
  <2> QED
    BY <1>1, <1>4, <2>6 DEF TypeOK, WorkerCommand
<1>5. CASE WorkerWrite(w)
  <2>1. sending[w] \in Seq(Items) /\ sending[w] # <<>> /\ w2e[w] \in Seq(Items)
    BY <1>1, <1>5 DEF TypeOK, WorkerWrite
  <2>2. Head(sending[w]) \in Items /\ Tail(sending[w]) \in Seq(Items)
    BY <2>1, HeadTailProperties
  <2>3. Append(w2e[w], Head(sending[w])) \in Seq(Items)
    BY <2>1, <2>2, AppendProperties
  <2>4. /\ w2e' \in [Workers -> Seq(Items)]
        /\ sending' \in [Workers -> Seq(Items)]
        /\ wpc' \in [Workers -> {"openRead", "openWrite", "command", "exited",
                                 "killed"}]
    BY <1>1, <1>5, <2>2, <2>3, ZenonT(60) DEF TypeOK, WorkerWrite
  <2> QED
    BY <1>1, <1>5, <2>4 DEF TypeOK, WorkerWrite
<1> QED
  BY <1>2, <1>3, <1>4, <1>5 DEF WorkerStep

-----------------------------------------------------------------------------
(* The queries between the crawler and the executor.                       *)

LEMMA TypeStep ==
  ASSUME Inv, Next
  PROVE  TypeOK'
<1>1. CASE CrawlerStep \/ Leave
  BY <1>1, CrawlerTypes DEF Inv
<1>2. CASE ExecutorStep
  BY <1>2, StartTypes, CommandTypes, CollectTypes, AnswerTypesKept
     DEF Inv, ExecutorStep
<1>3. CASE \E w \in Workers : WorkerStep(w)
  BY <1>3, WorkerTypes
<1> QED
  BY <1>1, <1>2, <1>3 DEF Next

LEMMA NextWorkerPlace ==
  ASSUME NEW a, NEW b, ei \in Workers, NextWorker(a, b)
  PROVE  \/ epc' = a /\ ei' = ei + 1
         \/ epc' = b /\ ei' = 0 /\ \A w \in Workers : w <= ei
<1>1. NumWorkers \in Nat /\ NumWorkers >= 1
  BY WorkerNumbers
<1> QED
  BY <1>1 DEF NextWorker, Workers

LEMMA FirstAndLast ==
  ASSUME NEW S, NEW s \in Seq(S), s # <<>>
  PROVE  /\ Len(s) \in Nat \ {0} /\ Head(s) = s[1] /\ s[1] \in S
         /\ Tail(s) \in Seq(S) /\ Len(Tail(s)) = Len(s) - 1
         /\ Tail(s) = <<>> <=> Len(s) = 1
         /\ \A k \in 1..Len(s) - 1 : Tail(s)[k] = s[k + 1]
         /\ Tail(s) # <<>> => Tail(s)[1] = s[2]
                              /\ Tail(s)[Len(Tail(s))] = s[Len(s)]
<1>1. /\ Head(s) = s[1] /\ Head(s) \in S /\ Len(s) \in Nat \ {0}
      /\ Tail(s) \in Seq(S) /\ Len(Tail(s)) = Len(s) - 1
      /\ \A k \in 1..Len(Tail(s)) : Tail(s)[k] = s[k + 1]
  BY HeadTailProperties, EmptySeq
<1> DEFINE t == Tail(s)
<1>2. t \in Seq(S) /\ Len(t) = Len(s) - 1
      /\ \A k \in 1..Len(s) - 1 : t[k] = s[k + 1]
  BY <1>1
<1> HIDE DEF t
<1>3. t = <<>> <=> Len(s) = 1
  <2>1. t # <<>> => Len(t) \in Nat \ {0}
    BY <1>2, EmptySeq
  <2>2. t = <<>> => Len(t) = 0
    BY EmptySeq
  <2> QED
    BY <1>1, <1>2, <2>1, <2>2
<1>4. ASSUME t # <<>> PROVE t[1] = s[2] /\ t[Len(t)] = s[Len(s)]
  <2>1. 1 \in 1..Len(s) - 1 /\ Len(s) - 1 \in 1..Len(s) - 1
        /\ 1 + 1 = 2 /\ (Len(s) - 1) + 1 = Len(s)
    BY <1>1, <1>3, <1>4
  <2> QED
    BY <1>2, <2>1
<1> QED
  BY <1>1, <1>2, <1>3, <1>4 DEF t

LEMMA OrderOfTail ==
  ASSUME NEW s \in Seq(Items), s # <<>>, Ordered(s)
  PROVE  /\ Ordered(Tail(s))
         /\ Tail(s) # <<>> => FollowedBy(s[1], s[2])
<1> DEFINE t == Tail(s)
<1>1. /\ Len(s) \in Nat \ {0} /\ Len(t) = Len(s) - 1
      /\ t = <<>> <=> Len(s) = 1
      /\ \A k \in 1..Len(s) - 1 : t[k] = s[k + 1]
  BY FirstAndLast
<1> HIDE DEF t
<1>2. ASSUME NEW k \in 1..(Len(t) - 1) PROVE FollowedBy(t[k], t[k + 1])
  <2>1. k \in 1..Len(s) - 1 /\ k + 1 \in 1..Len(s) - 1
    BY <1>1
  <2> QED
    BY <1>1, <2>1 DEF Ordered
<1>3. ASSUME t # <<>> PROVE FollowedBy(s[1], s[2])
  <2>1. 1 \in 1..Len(s) - 1 /\ 1 + 1 = 2
    BY <1>1, <1>3
  <2> QED
    BY <2>1 DEF Ordered
<1> QED
  BY <1>2, <1>3 DEF t, Ordered

LEMMA OrderOfAppend ==
  ASSUME NEW s \in Seq(Items), NEW x \in Items, Ordered(s),
         s # <<>> => FollowedBy(s[Len(s)], x)
  PROVE  /\ Append(s, x) \in Seq(Items) /\ Ordered(Append(s, x))
         /\ Append(s, x) # <<>> /\ Len(Append(s, x)) = Len(s) + 1
         /\ Append(s, x)[Len(s) + 1] = x
         /\ Append(s, x)[1] = IF s = <<>> THEN x ELSE s[1]
         /\ Len(s) \in Nat
<1> DEFINE a == Append(s, x)
<1>1. /\ a \in Seq(Items) /\ Len(a) = Len(s) + 1 /\ Len(s) \in Nat
      /\ \A k \in 1..Len(s) : a[k] = s[k]
      /\ a[Len(s) + 1] = x /\ a # <<>>
  BY AppendProperties, LenProperties
<1>2. s = <<>> => Len(s) = 0
  BY EmptySeq
<1>3. s # <<>> => Len(s) \in Nat \ {0}
  BY EmptySeq
<1> HIDE DEF a
<1>4. a[1] = IF s = <<>> THEN x ELSE s[1]
  BY <1>1, <1>2, <1>3
<1>5. ASSUME NEW k \in 1..(Len(a) - 1) PROVE FollowedBy(a[k], a[k + 1])
  <2>1. k \in 1..Len(s) /\ s # <<>>
    BY <1>1, <1>2
  <2>2. CASE k = Len(s)
    BY <1>1, <2>1, <2>2
  <2>3. CASE k # Len(s)
    <3>1. k \in 1..Len(s) - 1 /\ k + 1 \in 1..Len(s)
      BY <1>1, <2>1, <2>3
    <3> QED
      BY <1>1, <2>1, <3>1 DEF Ordered
  <2> QED
    BY <2>2, <2>3
<1> QED
  BY <1>1, <1>4, <1>5 DEF a, Ordered

(* Query q is posted after what is on its way. *)
EndsBefore(s, q) ==
  s # <<>> => s[Len(s)].type = "search" /\ s[Len(s)].query + 1 = q

Requested(t, s, q) ==
  /\ t \in Seq(Items) /\ Ordered(t) /\ t # <<>>
  /\ t[Len(t)].type = "search" /\ t[Len(t)].query = q
  /\ IF s = <<>> THEN t[1].type = "fd" /\ t[1].query = q ELSE t[1] = s[1]

LEMMA OrderOfRequest ==
  ASSUME NEW s \in Seq(Items), NEW q \in Nat, TypeOK, Ordered(s),
         EndsBefore(s, q)
  PROVE  Requested(s \o Request(q), s, q)
<1>1. PICK x, y : x = Item("fd", q, fd_command) /\ y = Item("search", q, 1)
  OBVIOUS
<1>2. /\ x \in Items /\ y \in Items /\ x.type = "fd" /\ x.query = q
      /\ y.type = "search" /\ y.query = q
  <2>1. PICK f \in Int : f = fd_command
    BY DEF TypeOK
  <2> QED
    BY <1>1, <2>1, ItemTypes
<1>3. Request(q) = <<x, y>>
  BY <1>1 DEF Request
<1> DEFINE a == Append(s, x)
           b == Append(a, y)
           t == s \o <<x, y>>
<1>4. s # <<>> => FollowedBy(s[Len(s)], x)
  BY <1>2 DEF FollowedBy, EndsBefore
<1>5. /\ a \in Seq(Items) /\ Ordered(a) /\ a # <<>> /\ Len(a) = Len(s) + 1
      /\ a[Len(s) + 1] = x /\ a[1] = IF s = <<>> THEN x ELSE s[1]
      /\ Len(s) \in Nat
  BY <1>2, <1>4, OrderOfAppend
<1>6. \A k \in 1..Len(s) : a[k] = s[k]
  BY <1>2, AppendProperties
<1> HIDE DEF a
<1>7. FollowedBy(a[Len(a)], y)
  BY <1>2, <1>5 DEF FollowedBy
<1>8. /\ b \in Seq(Items) /\ Ordered(b) /\ b # <<>> /\ Len(b) = Len(a) + 1
      /\ b[Len(a) + 1] = y /\ b[1] = a[1]
  BY <1>2, <1>5, <1>7, OrderOfAppend
<1>9. \A k \in 1..Len(a) : b[k] = a[k]
  BY <1>2, <1>5, AppendProperties
<1> HIDE DEF b
<1>10. /\ t \in Seq(Items) /\ Len(t) = Len(s) + 2
       /\ \A k \in 1..Len(s) + 2 :
            t[k] = IF k <= Len(s) THEN s[k] ELSE <<x, y>>[k - Len(s)]
  <2>1. PICK r : r = <<x, y>>
    OBVIOUS
  <2>2. r \in Seq(Items) /\ Len(r) = 2
    BY <1>2, <2>1
  <2>3. /\ s \o r \in Seq(Items) /\ Len(s \o r) = Len(s) + Len(r)
        /\ \A k \in 1..Len(s) + Len(r) :
             (s \o r)[k] = IF k <= Len(s) THEN s[k] ELSE r[k - Len(s)]
    BY ONLY <2>2, ConcatProperties
  <2> QED
    BY <2>1, <2>2, <2>3
<1> HIDE DEF t
<1>11. ASSUME NEW k \in 1..Len(t) PROVE t[k] = b[k]
  <2>1. CASE k \in 1..Len(s)
    <3>1. k \in 1..Len(a) /\ k <= Len(s)
      BY <1>5, <2>1
    <3> QED
      BY <1>6, <1>9, <1>10, <2>1, <3>1
  <2>2. CASE k = Len(s) + 1
    <3>1. k \in 1..Len(a) /\ ~ (k <= Len(s)) /\ k - Len(s) = 1
      BY <1>5, <2>2
    <3> QED
      BY <1>5, <1>9, <1>10, <2>2, <3>1
  <2>3. CASE k = Len(s) + 2
    <3>1. k = Len(a) + 1 /\ ~ (k <= Len(s)) /\ k - Len(s) = 2
      BY <1>5, <2>3
    <3> QED
      BY <1>8, <1>10, <2>3, <3>1
  <2> QED
    BY <1>5, <1>10, <2>1, <2>2, <2>3
<1>12. t = b
  <2>1. Len(t) = Len(b)
    BY <1>5, <1>8, <1>10
  <2> QED
    BY <1>8, <1>10, <1>11, <2>1, SeqEqual
<1>13. t[Len(t)] = y
  <2>1. Len(t) = Len(a) + 1
    BY <1>5, <1>10
  <2> QED
    BY <1>8, <1>12, <2>1
<1>14. /\ t \in Seq(Items) /\ Ordered(t) /\ t # <<>>
       /\ Len(t) = Len(s) + 2 /\ Len(s) \in Nat
       /\ t[Len(t)].type = "search" /\ t[Len(t)].query = q
  BY <1>2, <1>5, <1>8, <1>10, <1>12, <1>13
<1>15. IF s = <<>> THEN t[1].type = "fd" /\ t[1].query = q ELSE t[1] = s[1]
  BY <1>2, <1>5, <1>8, <1>12
<1>16. t = s \o Request(q)
  BY <1>3 DEF t
<1> QED
  BY <1>14, <1>15, <1>16 DEF Requested

LEMMA ItemsOfRequest ==
  ASSUME NEW s \in Seq(Items), NEW q \in Nat, TypeOK,
         NEW k \in 1..Len(s \o Request(q))
  PROVE  \/ k \in 1..Len(s) /\ (s \o Request(q))[k] = s[k]
         \/ (s \o Request(q))[k].query = q
<1>1. PICK r : r = Request(q)
  OBVIOUS
<1>2. /\ r \in Seq(Items) /\ Len(r) = 2
      /\ r[1].type = "fd" /\ r[1].query = q
      /\ r[2].type = "search" /\ r[2].query = q
  BY <1>1, Requests
<1>3. /\ Len(s \o r) = Len(s) + Len(r)
      /\ \A n \in 1..Len(s) + Len(r) :
           (s \o r)[n] = IF n <= Len(s) THEN s[n] ELSE r[n - Len(s)]
  BY <1>2, ConcatProperties
<1>4. PICK t : t = s \o r
  OBVIOUS
<1>5. Len(s) \in Nat /\ k \in 1..Len(s) + 2
  BY <1>1, <1>2, <1>3, LenProperties
<1>6. CASE k <= Len(s)
  BY <1>1, <1>2, <1>3, <1>5, <1>6
<1>7. CASE ~ (k <= Len(s))
  <2>1. k - Len(s) \in {1, 2}
    BY <1>5, <1>7
  <2>2. t[k] = r[k - Len(s)]
    BY <1>2, <1>3, <1>4, <1>5, <1>7
  <2> QED
    BY <1>1, <1>2, <1>4, <2>1, <2>2
<1> QED
  BY <1>6, <1>7

(* The steps that leave the command pipe alone. *)
LEMMA QuietStep ==
  ASSUME Inv, Next,
         ~ Search, ~ OpenPipe, ~ Shutdown, ~ ReadFd, ~ ReadCommand
  PROVE  /\ UNCHANGED <<c2e, query, asker, phase>>
         /\ epc' = "send" => epc = "send"
         /\ epc' = "readCommand" <=> epc = "readCommand"
         /\ Alive' => Alive
<1> USE DEF crawlerVars, queryVars, collectVars, Alive
<1>1. ei \in Workers
  BY DEF Inv, TypeOK
<1>2. CASE Accept
  BY <1>2 DEF Accept
<1>3. CASE EndSession
  BY <1>3 DEF EndSession
<1>4. CASE Leave
  BY <1>4 DEF Leave
<1>5. CASE OpenCrawler
  BY <1>5 DEF OpenCrawler
<1>6. CASE OpenWrite
  BY <1>6 DEF OpenWrite
<1>7. CASE OpenRead
  <2>1. epc' \in {"openWrite", "deal"}
    BY <1>1, <1>7, NextWorkerType DEF OpenRead
  <2> QED
    BY <1>7, <2>1 DEF OpenRead
<1>8. CASE sendDirectoryInfo
  BY <1>8 DEF sendDirectoryInfo
<1>9. CASE AwaitReady
  <2>1. epc' \in {"ready", "readFd"}
    BY <1>1, <1>9, NextWorkerType DEF AwaitReady
  <2> QED
    BY <1>9, <2>1 DEF AwaitReady
<1>10. CASE SendQuery
  BY <1>10 DEF SendQuery
<1>11. CASE Deadline
  BY <1>11 DEF Deadline
<1>12. CASE Collect
  <2>1. epc = "collect" /\ UNCHANGED <<c2e, query, asker, phase>>
    BY <1>12 DEF Collect
  <2>2. NextWorker("collect", "conclude") \/ epc' = "file"
    BY <1>12 DEF Collect
  <2>3. epc' \in {"collect", "conclude", "file"}
    BY <1>1, <2>2, NextWorkerType
  <2> QED
    BY <2>1, <2>3
<1>13. CASE ReadFile
  BY <1>13 DEF ReadFile, ShowLine, Write
<1>14. CASE FirstRow
  BY <1>14 DEF FirstRow
<1>15. CASE ReadRow
  BY <1>15 DEF ReadRow, ShowLine, Write
<1>16. CASE EndOfFile
  <2>1. epc = "rows" /\ UNCHANGED <<c2e, query, asker, phase>>
    BY <1>16 DEF EndOfFile
  <2>2. NextWorker("collect", "conclude") \/ epc' = "file"
    BY <1>16 DEF EndOfFile
  <2>3. epc' \in {"collect", "conclude", "file"}
    BY <1>1, <2>2, NextWorkerType
  <2> QED
    BY <2>1, <2>3
<1>17. CASE Conclude
  BY <1>17 DEF Conclude, Write
<1>18. CASE NoResultsFound
  BY <1>18 DEF NoResultsFound, Write
<1>19. CASE \E w \in Workers : WorkerStep(w)
  BY <1>19 DEF WorkerStep, OpenWorkerRead, OpenWorkerWrite, WorkerCommand,
               WorkerWrite
<1> QED
  BY <1>2, <1>3, <1>4, <1>5, <1>6, <1>7, <1>8, <1>9, <1>10, <1>11, <1>12,
     <1>13, <1>14, <1>15, <1>16, <1>17, <1>18, <1>19
     DEF Next, CrawlerStep, ExecutorStep

LEMMA PipeTypes ==
  ASSUME Inv
  PROVE  /\ TypeOK /\ Bounds /\ Commands /\ c2e \in Seq(Items) /\ query \in Nat
         /\ Len(asker) \in Nat /\ MaxQueries \in Nat
         /\ asker \in Seq(1..sessions)
BY SizesAssumption, LenProperties DEF Inv, TypeOK

LEMMA Posting ==
  ASSUME Inv, NEW q \in Queries, phase \in {"up", "opening"},
         Posted + 1 = q, Posted' = q, phase' = "up", epc' = epc,
         query' = query, c2e' = c2e \o Request(q),
         Len(asker') <= MaxQueries
  PROVE  Bounds' /\ Commands'
<1>1. /\ TypeOK /\ Bounds /\ Commands /\ c2e \in Seq(Items) /\ query \in Nat
      /\ MaxQueries \in Nat
  BY PipeTypes
<1>2. q \in Nat
  BY <1>1 DEF Queries
<1>3. PICK s, t : s = c2e /\ t = s \o Request(q)
  OBVIOUS
<1>4. c2e' = t /\ s \in Seq(Items)
  BY <1>1, <1>3
<1>5. \A k \in 1..Len(t) : \/ k \in 1..Len(s) /\ t[k] = s[k]
                           \/ t[k].query = q
  BY <1>1, <1>2, <1>3, <1>4, ItemsOfRequest
<1>6. \A k \in 1..Len(t) : t[k].type = "search" => t[k].query \in Queries
  BY <1>1, <1>3, <1>5 DEF Bounds
<1>7. Bounds'
  BY <1>1, <1>4, <1>6 DEF Bounds
<1>8. ASSUME Alive PROVE Ordered(t) /\ CommandNext' /\ CommandLast'
  <2>1. EndsBefore(s, q)
    BY <1>1, <1>2, <1>3, <1>8 DEF Commands, CommandLast, EndsBefore
  <2>2. Ordered(s)
    BY <1>1, <1>3, <1>8 DEF Commands
  <2>3. Requested(t, s, q)
    BY <1>1, <1>2, <1>3, <1>4, <2>1, <2>2, OrderOfRequest
  <2>4. CommandNext'
    <3>1. CASE s = <<>>
      <4>1. epc # "readCommand" /\ query + 1 = q
        BY <1>1, <1>3, <1>8, <3>1 DEF Commands, CommandNext, CommandLast
      <4> QED
        BY <1>4, <2>3, <3>1, <4>1 DEF CommandNext, Requested
    <3>2. CASE s # <<>>
      <4>1. s[1].type = "tail of a command" => Len(s) # 1
        BY <2>1, <3>2 DEF EndsBefore
      <4>2. t[1] = s[1] /\ t # <<>>
        BY <2>3, <3>2 DEF Requested
      <4> QED
        BY <1>1, <1>3, <1>4, <1>8, <3>2, <4>1, <4>2
           DEF Commands, CommandNext
    <3> QED
      BY <3>1, <3>2
  <2>5. CommandLast'
    BY <1>4, <2>3 DEF CommandLast, Requested
  <2> QED
    BY <2>3, <2>4, <2>5 DEF Requested
<1>9. Alive' <=> Alive
  BY DEF Alive
<1> QED
  BY <1>4, <1>7, <1>8, <1>9 DEF Commands

LEMMA SearchKeeps ==
  ASSUME Inv, Search
  PROVE  Bounds' /\ Commands'
<1>1. /\ TypeOK /\ Bounds /\ Commands /\ c2e \in Seq(Items) /\ query \in Nat
      /\ Len(asker) \in Nat /\ MaxQueries \in Nat
      /\ asker \in Seq(1..sessions)
  BY PipeTypes
<1>2. PICK q : q = Len(asker) + 1
  OBVIOUS
<1>3. /\ phase = "up" /\ q \in Queries /\ query' = query /\ q \in Nat
  BY <1>1, <1>2 DEF Search, queryVars
<1>4. Len(asker') = q
  <2>1. session \in 1..sessions
    BY <1>1 DEF TypeOK, Search
  <2> QED
    BY <1>1, <1>2, <2>1, AppendProperties DEF Search
<1>5. Len(asker') <= MaxQueries /\ Len(asker') >= 1
  BY <1>1, <1>2, <1>3, <1>4 DEF Queries
<1>6. Posted = q - 1
  BY <1>1, <1>2, <1>3 DEF Posted
<1>7. CASE epc = "off"
  <2>1. /\ phase' = "opening" /\ epc' = "openCrawler" /\ c2e' = c2e
    BY <1>7 DEF Search
  <2>2. Bounds'
    BY <1>1, <1>3, <1>5, <2>1 DEF Bounds
  <2>3. Posted' = Posted
    BY <1>4, <1>6, <2>1 DEF Posted
  <2>4. Commands'
    BY <1>1, <1>3, <1>7, <2>1, <2>3
       DEF Commands, CommandNext, CommandLast, Alive
  <2> QED
    BY <2>2, <2>4
<1>8. CASE epc = "killed"
  <2>1. phase' = "killed" /\ epc' = "killed" /\ c2e' = c2e
    BY <1>8 DEF Search
  <2>2. Bounds'
    BY <1>1, <1>3, <1>5, <2>1 DEF Bounds
  <2> QED
    BY <2>1, <2>2 DEF Commands, Alive
<1>9. CASE epc \notin {"off", "killed"}
  <2>1. phase' = "up" /\ epc' = epc /\ c2e' = c2e \o Request(q)
    BY <1>2, <1>3, <1>9 DEF Search
  <2>2. Posted' = q
    BY <1>3, <1>4, <2>1 DEF Posted
  <2> QED
    BY <1>3, <1>5, <1>6, <2>1, <2>2, Posting
<1> QED
  BY <1>7, <1>8, <1>9

LEMMA OpenPipeKeeps ==
  ASSUME Inv, OpenPipe
  PROVE  Bounds' /\ Commands'
<1>1. /\ Bounds /\ Len(asker) \in Nat /\ MaxQueries \in Nat
  BY PipeTypes
<1>2. /\ phase = "opening" /\ phase' = "up" /\ epc' = epc /\ query' = query
      /\ c2e' = c2e \o Request(Len(asker)) /\ asker' = asker
  BY DEF OpenPipe, queryVars
<1>3. PICK q : q = Len(asker)
  OBVIOUS
<1>4. q \in Queries /\ q \in Nat
  BY <1>1, <1>2, <1>3 DEF Bounds, Queries
<1>5. Posted + 1 = q /\ Posted' = q
  BY <1>2, <1>3, <1>4 DEF Posted
<1>6. Len(asker') <= MaxQueries
  BY <1>1, <1>2 DEF Bounds
<1> QED
  BY <1>2, <1>3, <1>4, <1>5, <1>6, Posting

LEMMA ShutdownKeeps ==
  ASSUME Inv, Shutdown
  PROVE  Bounds' /\ Commands'
<1>1. /\ Bounds /\ Commands /\ c2e \in Seq(Items) /\ query \in Nat
  BY PipeTypes
<1>2. /\ phase = "up" /\ phase' = "exited" /\ epc' = epc /\ query' = query
      /\ asker' = asker
  BY DEF Shutdown, queryVars
<1>3. Alive' <=> Alive
  BY <1>2 DEF Alive
<1>4. CASE epc \in {"off", "killed"}
  <2>1. c2e' = c2e
    BY <1>4 DEF Shutdown
  <2> QED
    BY <1>1, <1>2, <1>3, <2>1
       DEF Bounds, Commands, CommandNext, CommandLast
<1>5. CASE epc \notin {"off", "killed"}
  <2>1. PICK x \in Items : x = Item("shutdown", 0, 2) /\ x.type = "shutdown"
    BY ItemTypes
  <2>2. PICK s : s = c2e
    OBVIOUS
  <2>3. c2e' = Append(s, x) /\ s \in Seq(Items)
    BY <1>1, <1>5, <2>1, <2>2 DEF Shutdown
  <2>4. PICK t : t = Append(s, x)
    OBVIOUS
  <2>5. /\ Len(t) = Len(s) + 1 /\ t[Len(s) + 1] = x /\ Len(s) \in Nat
        /\ \A k \in 1..Len(s) : t[k] = s[k]
    BY <2>3, <2>4, AppendProperties, LenProperties
  <2>6. Bounds'
    <3>1. \A k \in 1..Len(t) : t[k].type = "search" => t[k].query \in Queries
      <4> SUFFICES ASSUME NEW k \in 1..Len(t), t[k].type = "search"
                   PROVE  t[k].query \in Queries
        OBVIOUS
      <4>1. k # Len(s) + 1
        BY <2>1, <2>5
      <4>2. k \in 1..Len(s)
        BY <2>5, <4>1
      <4> QED
        BY <1>1, <2>2, <2>5, <4>2 DEF Bounds
    <3> QED
      BY <1>1, <1>2, <2>3, <2>4, <3>1 DEF Bounds
  <2>7. ASSUME Alive PROVE Ordered(t) /\ CommandNext' /\ CommandLast'
    <3>1. s # <<>> => s[Len(s)].type = "search"
      BY <1>1, <1>2, <2>2, <2>7 DEF Commands, CommandLast
    <3>2. Ordered(s)
      BY <1>1, <2>2, <2>7 DEF Commands
    <3>3. s # <<>> => FollowedBy(s[Len(s)], x)
      BY <2>1, <3>1 DEF FollowedBy
    <3>4. /\ Ordered(t) /\ t # <<>> /\ t[1] = IF s = <<>> THEN x ELSE s[1]
      BY <2>3, <2>4, <3>2, <3>3, OrderOfAppend
    <3>5. CommandLast'
      BY <1>2, <2>1, <2>3, <2>4, <2>5 DEF CommandLast
    <3>6. CommandNext'
      <4>1. CASE s = <<>>
        <5>1. epc # "readCommand"
          BY <1>1, <2>2, <2>7, <4>1 DEF Commands, CommandNext
        <5> QED
          BY <1>2, <2>1, <2>3, <2>4, <3>4, <4>1, <5>1 DEF CommandNext
      <4>2. CASE s # <<>>
        <5>1. s[1].type = "tail of a command" => Len(s) # 1
          BY <3>1, <4>2
        <5> QED
          BY <1>1, <1>2, <2>2, <2>3, <2>4, <2>7, <3>4, <4>2, <5>1
             DEF Commands, CommandNext
      <4> QED
        BY <4>1, <4>2
    <3> QED
      BY <3>4, <3>5, <3>6
  <2> QED
    BY <1>3, <2>3, <2>4, <2>6, <2>7 DEF Commands
<1> QED
  BY <1>4, <1>5

LEMMA ReadFdKeeps ==
  ASSUME Inv, ReadFd
  PROVE  Bounds' /\ Commands'
<1>1. /\ Bounds /\ Commands /\ c2e \in Seq(Items) /\ query \in Nat
  BY PipeTypes
<1>2. /\ epc = "readFd" /\ c2e # <<>> /\ epc' = "readCommand"
      /\ UNCHANGED <<query, phase, asker>>
      /\ c2e' = RestOf(Head(c2e)) \o Tail(c2e)
  BY DEF ReadFd, crawlerVars
<1>3. Posted' = Posted /\ Alive
  BY <1>2 DEF Posted, Alive
<1>4. PICK s, t : s = c2e /\ t = Tail(s)
  OBVIOUS
<1>5. /\ s \in Seq(Items) /\ s # <<>>
      /\ Len(s) \in Nat \ {0} /\ Head(s) = s[1] /\ s[1] \in Items
      /\ t \in Seq(Items) /\ Len(t) = Len(s) - 1
      /\ t = <<>> <=> Len(s) = 1
      /\ \A k \in 1..Len(s) - 1 : t[k] = s[k + 1]
      /\ t # <<>> => t[1] = s[2] /\ t[Len(t)] = s[Len(s)]
  BY <1>1, <1>2, <1>4, FirstAndLast
<1>6. Ordered(s) /\ Ordered(t) /\ (t # <<>> => FollowedBy(s[1], s[2]))
  BY <1>1, <1>3, <1>4, <1>5, OrderOfTail DEF Commands
<1>7. PICK x \in Items : x = s[1]
  BY <1>5
<1>8. /\ (x.type = "fd" /\ x.query = query + 1) \/ x.type = "shutdown"
      /\ s[Len(s)].type # "fd"
      /\ phase \in {"up", "opening"} =>
           s[Len(s)].type = "search" /\ s[Len(s)].query = Posted
  BY <1>1, <1>2, <1>3, <1>4, <1>7 DEF Commands, CommandNext, CommandLast
<1>9. \A k \in 1..Len(s) : s[k].type = "search" => s[k].query \in Queries
  BY <1>1, <1>4 DEF Bounds
<1>10. CASE x.type = "fd"
  <2>1. RestOf(x) = <<>>
    BY <1>10 DEF RestOf
  <2>2. c2e' = t
    <3>1. <<>> \o t = t
      BY <1>5, ConcatEmptySeq
    <3>2. c2e' = RestOf(x) \o t
      BY <1>2, <1>4, <1>5, <1>7
    <3> QED
      BY <2>1, <3>1, <3>2
  <2>3. t # <<>>
    BY <1>5, <1>7, <1>8, <1>10
  <2>4. t[1].type = "search" /\ t[1].query = query + 1
    BY <1>5, <1>6, <1>7, <1>8, <1>10, <2>3 DEF FollowedBy
  <2>5. CommandNext'
    BY <1>2, <2>2, <2>3, <2>4 DEF CommandNext
  <2>6. CommandLast'
    BY <1>2, <1>3, <1>5, <1>8, <2>2, <2>3 DEF CommandLast
  <2>7. \A k \in 1..Len(t) : t[k].type = "search" => t[k].query \in Queries
    <3> SUFFICES ASSUME NEW k \in 1..Len(t), t[k].type = "search"
                 PROVE  t[k].query \in Queries
      OBVIOUS
    <3>1. k \in 1..Len(s) - 1 /\ k + 1 \in 1..Len(s)
      BY <1>5
    <3> QED
      BY <1>5, <1>9, <3>1
  <2>8. Bounds'
    BY <1>1, <1>2, <2>2, <2>7 DEF Bounds
  <2> QED
    BY <1>6, <2>2, <2>5, <2>6, <2>8 DEF Commands
<1>11. CASE x.type # "fd"
  <2>1. x.type = "shutdown"
    BY <1>8, <1>11
  <2>2. t = <<>>
    BY <1>6, <1>7, <2>1 DEF FollowedBy
  <2>3. PICK y \in Items : /\ y = [x EXCEPT !.type = "tail of a command"]
                           /\ y.type = "tail of a command"
    BY ItemFields
  <2>4. RestOf(x) = <<y>>
    BY <1>11, <2>3 DEF RestOf
  <2>5. PICK r : r = <<y>>
    OBVIOUS
  <2>6. r \in Seq(Items) /\ Len(r) = 1 /\ r[1] = y /\ r # <<>>
    BY <2>5
  <2>7. c2e' = r
    <3>1. r \o <<>> = r
      BY <2>6, ConcatEmptySeq
    <3> QED
      BY <1>2, <1>4, <1>5, <1>7, <2>2, <2>4, <2>5, <3>1
  <2>8. phase \notin {"up", "opening"}
    <3>1. Len(s) = 1
      BY <1>5, <2>2
    <3> QED
      BY <1>7, <1>8, <2>1, <3>1
  <2>9. CommandNext'
    BY <1>2, <2>3, <2>6, <2>7 DEF CommandNext
  <2>10. CommandLast'
    BY <1>2, <2>3, <2>6, <2>7, <2>8 DEF CommandLast
  <2>11. Bounds'
    <3>1. \A k \in 1..Len(r) : r[k].type = "search" => r[k].query \in Queries
      <4>1. y.type # "search"
        BY <2>3
      <4>2. \A k \in 1..Len(r) : r[k] = y
        BY <2>6
      <4> QED
        BY <4>1, <4>2
    <3> QED
      BY <1>1, <1>2, <2>7, <3>1 DEF Bounds
  <2>12. Ordered(r)
    BY <2>6 DEF Ordered
  <2> QED
    BY <2>7, <2>9, <2>10, <2>11, <2>12 DEF Commands
<1> QED
  BY <1>10, <1>11

LEMMA ReadCommandKeeps ==
  ASSUME Inv, ReadCommand
  PROVE  /\ Bounds' /\ Commands' /\ epc = "readCommand"
         /\ e2w' = e2w
         /\ \/ epc' = "send" /\ query' = query + 1
            \/ epc' = "readFd" /\ query' = query
<1>1. /\ Bounds /\ Commands /\ c2e \in Seq(Items) /\ query \in Nat
      /\ MaxQueries \in Nat
  BY PipeTypes
<1>2. /\ epc = "readCommand" /\ c2e # <<>>
      /\ UNCHANGED <<phase, asker>> /\ c2e' = Tail(c2e)
  BY DEF ReadCommand, crawlerVars
<1>3. epc' \in {"send", "readFd"} /\ e2w' = e2w
  BY CommandTypes DEF Inv
<1>4. Posted' = Posted /\ Alive
  BY <1>2 DEF Posted, Alive
<1>5. PICK s, t : s = c2e /\ t = Tail(s)
  OBVIOUS
<1>6. /\ s \in Seq(Items) /\ s # <<>>
      /\ Len(s) \in Nat \ {0} /\ Head(s) = s[1] /\ s[1] \in Items
      /\ t \in Seq(Items) /\ Len(t) = Len(s) - 1
      /\ t = <<>> <=> Len(s) = 1
      /\ \A k \in 1..Len(s) - 1 : t[k] = s[k + 1]
      /\ t # <<>> => t[1] = s[2] /\ t[Len(t)] = s[Len(s)]
  BY <1>1, <1>2, <1>5, FirstAndLast
<1>7. Ordered(s) /\ Ordered(t) /\ (t # <<>> => FollowedBy(s[1], s[2]))
  BY <1>1, <1>4, <1>5, <1>6, OrderOfTail DEF Commands
<1>8. PICK x \in Items : x = s[1]
  BY <1>6
<1>9. /\ \/ x.type = "search" /\ x.query = query + 1
         \/ x.type = "tail of a command" /\ Len(s) = 1
      /\ s[Len(s)].type # "fd"
      /\ phase \in {"up", "opening"} =>
           s[Len(s)].type = "search" /\ s[Len(s)].query = Posted
  BY <1>1, <1>2, <1>4, <1>5, <1>8 DEF Commands, CommandNext, CommandLast
<1>10. \A k \in 1..Len(s) : s[k].type = "search" => s[k].query \in Queries
  BY <1>1, <1>5 DEF Bounds
<1>11. \A k \in 1..Len(t) : t[k].type = "search" => t[k].query \in Queries
  <2> SUFFICES ASSUME NEW k \in 1..Len(t), t[k].type = "search"
               PROVE  t[k].query \in Queries
    OBVIOUS
  <2>1. k \in 1..Len(s) - 1 /\ k + 1 \in 1..Len(s)
    BY <1>6
  <2> QED
    BY <1>6, <1>10, <2>1
<1>12. c2e' = t
  BY <1>2, <1>5
<1>13. PICK command : command = Stripped(x)
  OBVIOUS
<1>14. /\ command.type = x.type /\ command.query = x.query
       /\ command # ExitCommand
  <2>1. command.n = 0
    BY <1>13, ItemFields
  <2>2. command # ExitCommand
    BY <2>1 DEF ExitCommand, Item
  <2> QED
    BY <1>13, <2>2, ItemFields
<1>15. /\ epc' = CASE command = ExitCommand -> "exited"
                  [] command.type = "search" -> "send"
                  [] OTHER -> "readFd"
       /\ query' = IF command.type = "search" THEN command.query ELSE query
  BY <1>5, <1>6, <1>8, <1>13 DEF ReadCommand
<1>16. CASE x.type = "search"
  <2>1. epc' = "send" /\ query' = query + 1 /\ query' = x.query
    BY <1>9, <1>14, <1>15, <1>16
  <2>2. query' \in Queries
    <3>1. 1 \in 1..Len(s)
      BY <1>6
    <3> QED
      BY <1>8, <1>10, <1>16, <2>1, <3>1
  <2>3. Bounds'
    BY <1>1, <1>2, <1>11, <1>12, <2>2 DEF Bounds, Queries
  <2>4. CommandNext'
    BY <1>6, <1>7, <1>8, <1>12, <1>16, <2>1 DEF CommandNext, FollowedBy
  <2>5. CommandLast'
    <3>1. CASE t = <<>>
      <4>1. Len(s) = 1
        BY <1>6, <3>1
      <4> QED
        BY <1>2, <1>4, <1>8, <1>9, <1>12, <2>1, <3>1, <4>1 DEF CommandLast
    <3>2. CASE t # <<>>
      BY <1>2, <1>4, <1>6, <1>9, <1>12, <3>2 DEF CommandLast
    <3> QED
      BY <3>1, <3>2
  <2> QED
    BY <1>2, <1>3, <1>7, <1>12, <2>1, <2>3, <2>4, <2>5 DEF Commands
<1>17. CASE x.type # "search"
  <2>1. x.type = "tail of a command" /\ Len(s) = 1 /\ t = <<>>
    BY <1>6, <1>9, <1>17
  <2>2. epc' = "readFd" /\ query' = query
    BY <1>14, <1>15, <1>17
  <2>3. phase \notin {"up", "opening"}
    BY <1>8, <1>9, <2>1
  <2>4. Bounds'
    BY <1>1, <1>2, <1>11, <1>12, <2>2 DEF Bounds
  <2>5. CommandNext' /\ CommandLast'
    BY <1>2, <1>12, <2>1, <2>2, <2>3 DEF CommandNext, CommandLast
  <2> QED
    BY <1>2, <1>3, <1>7, <1>12, <2>2, <2>4, <2>5 DEF Commands
<1> QED
  BY <1>16, <1>17

LEMMA CommandsStep ==
  ASSUME Inv, Next
  PROVE  Bounds' /\ Commands'
<1>1. CASE /\ ~ Search /\ ~ OpenPipe /\ ~ Shutdown /\ ~ ReadFd
           /\ ~ ReadCommand
  <2>1. /\ UNCHANGED <<c2e, query, asker, phase>>
        /\ epc' = "send" => epc = "send"
        /\ epc' = "readCommand" <=> epc = "readCommand"
        /\ Alive' => Alive
    BY <1>1, QuietStep
  <2>2. Posted' = Posted
    BY <2>1 DEF Posted
  <2>3. Bounds'
    BY <2>1 DEF Inv, Bounds
  <2>4. Commands'
    BY <2>1, <2>2 DEF Inv, Commands, CommandNext, CommandLast
  <2> QED
    BY <2>3, <2>4
<1> QED
  BY <1>1, SearchKeeps, OpenPipeKeeps, ShutdownKeeps, ReadFdKeeps,
     ReadCommandKeeps

LEMMA LoopsStep ==
  ASSUME Inv, Next
  PROVE  Loops'
<1> USE DEF crawlerVars, queryVars, collectVars, LoopLabels, StartLabels
<1>1. ei \in Workers /\ Loops
  BY DEF Inv, TypeOK
<1>2. CASE ReadCommand
  <2>1. epc = "readCommand" /\ ei' = ei /\ epc' \in {"send", "readFd"}
    BY <1>2, ReadCommandKeeps DEF ReadCommand
  <2> QED
    BY <1>1, <2>1 DEF Loops
<1>3. CASE OpenRead \/ AwaitReady
  <2>1. \/ /\ epc = "openRead" /\ query' = query
           /\ NextWorker("openWrite", "deal")
        \/ /\ epc = "ready" /\ query' = query
           /\ NextWorker("ready", "readFd")
    BY <1>3 DEF OpenRead, AwaitReady
  <2>2. \/ /\ epc = "openRead" /\ query' = query
           /\ epc' = "openWrite" \/ (epc' = "deal" /\ ei' = 0)
        \/ /\ epc = "ready" /\ query' = query
           /\ epc' = "ready" \/ (epc' = "readFd" /\ ei' = 0)
    BY <1>1, <2>1, NextWorkerPlace
  <2> QED
    BY <1>1, <2>2 DEF Loops
<1>4. CASE Collect \/ EndOfFile
  <2>1. /\ epc \in {"collect", "rows"} /\ query' = query
        /\ epc' = "file" \/ NextWorker("collect", "conclude")
    BY <1>4 DEF Collect, EndOfFile
  <2>2. epc' \in {"file", "collect"} \/ (epc' = "conclude" /\ ei' = 0)
    BY <1>1, <2>1, NextWorkerPlace
  <2> QED
    BY <2>2 DEF Loops
<1>5. CASE CrawlerStep \/ Leave
  BY <1>1, <1>5 DEF CrawlerStep, Leave, Accept, EndSession, Search, OpenPipe,
                    Shutdown, Loops
<1>6. CASE OpenCrawler \/ OpenWrite \/ sendDirectoryInfo \/ ReadFd
           \/ SendQuery \/ Deadline \/ FirstRow
  BY <1>1, <1>6 DEF OpenCrawler, OpenWrite, sendDirectoryInfo, ReadFd,
                    SendQuery, Deadline, FirstRow, Loops
<1>7. CASE ReadFile \/ ReadRow \/ Conclude \/ NoResultsFound
  BY <1>1, <1>7 DEF ReadFile, ReadRow, Conclude, NoResultsFound, ShowLine,
                    Write, Loops
<1>8. CASE \E w \in Workers : WorkerStep(w)
  BY <1>1, <1>8 DEF WorkerStep, OpenWorkerRead, OpenWorkerWrite,
                    WorkerCommand, WorkerWrite, Loops
<1> QED
  BY <1>2, <1>3, <1>4, <1>5, <1>6, <1>7, <1>8 DEF Next, ExecutorStep

-----------------------------------------------------------------------------
(* Deadlines missed and answers taken.                                     *)

LEMMA LagKept ==
  ASSUME LagIsMissedDeadlines, Alive' => Alive,
         UNCHANGED <<got, late, query>>,
         \A w \in Workers : Alive' => (Awaited(w)' <=> Awaited(w))
  PROVE  LagIsMissedDeadlines'
BY DEF LagIsMissedDeadlines, Alive

(* What Collect and EndOfFile do to worker ei's count and to the loop. *)
LEMMA CollectStep ==
  ASSUME Inv, Collect
  PROVE  /\ TypeOK /\ ei \in Workers /\ epc = "collect"
         /\ UNCHANGED <<e2w, query, sending, indexed>>
         /\ \/ /\ w2e[ei] = <<>> /\ w2e' = w2e
               /\ late' = [late EXCEPT ![ei] = @ + 1]
               /\ NextWorker("collect", "conclude")
               /\ UNCHANGED <<got, left>>
            \/ /\ w2e[ei] # <<>> /\ late' = late
               /\ got' = [got EXCEPT ![ei] = Head(w2e[ei]).query]
               /\ Head(w2e[ei]).query = got[ei] + 1
               /\ w2e' = [w2e EXCEPT ![ei] = Tail(w2e[ei])]
               /\ \/ /\ Head(w2e[ei]).type = "NORES" /\ left' = left
                     /\ NextWorker("collect", "conclude")
                  \/ /\ Head(w2e[ei]).type # "NORES"
                     /\ left' = Head(w2e[ei]).n
                     /\ epc' = "file" /\ ei' = ei
<1>1. /\ TypeOK /\ ei \in Workers /\ epc = "collect"
      /\ UNCHANGED <<e2w, query, sending, indexed>>
  BY DEF Inv, TypeOK, Collect, queryVars, workerVars
<1>2. CASE w2e[ei] = <<>>
  BY <1>1, <1>2 DEF Collect
<1>3. CASE w2e[ei] # <<>>
  <2>1. Head(w2e[ei]).query = got[ei] + 1
    BY <1>1, <1>3, AtItem DEF CollectLabels, IsFirst
  <2>2. /\ late' = late
        /\ got' = [got EXCEPT ![ei] = Head(w2e[ei]).query]
        /\ IF Head(w2e[ei]).type = "NORES"
           THEN /\ w2e' = [w2e EXCEPT ![ei] = Tail(@)]
                /\ NextWorker("collect", "conclude")
                /\ UNCHANGED <<left, found>>
           ELSE /\ w2e' = [w2e EXCEPT ![ei] = Tail(@)]
                /\ left' = Head(w2e[ei]).n
                /\ found' = TRUE
                /\ epc' = "file"
                /\ UNCHANGED ei
    BY <1>3 DEF Collect, AfterNores
  <2>3. w2e' = [w2e EXCEPT ![ei] = Tail(w2e[ei])]
    BY <1>1, <2>2
  <2> QED
    BY <1>1, <1>3, <2>1, <2>2, <2>3
<1> QED
  BY <1>2, <1>3

LEMMA LagStep ==
  ASSUME Inv, Next
  PROVE  LagIsMissedDeadlines'
<1> USE DEF crawlerVars, queryVars, collectVars
<1>1. /\ ei \in Workers /\ LagIsMissedDeadlines /\ TypeOK /\ Loops
      /\ query \in Nat /\ \A w \in Workers : got[w] \in Nat /\ late[w] \in Nat
      /\ \A w \in Workers : w \in Nat
      /\ got \in [Workers -> Nat] /\ late \in [Workers -> Nat]
  BY WorkerNumbers DEF Inv, TypeOK
<1>2. CASE CrawlerStep \/ Leave
  <2>1. /\ UNCHANGED <<got, late, query, ei>>
        /\ epc' = epc \/ (epc = "off" /\ epc' = "openCrawler")
    BY <1>2 DEF CrawlerStep, Leave, Accept, EndSession, Search, OpenPipe,
                Shutdown
  <2> QED
    BY <1>1, <2>1, LagKept DEF Alive, Awaited
<1>3. CASE \E w \in Workers : WorkerStep(w)
  <2>1. UNCHANGED <<got, late, query, ei, epc>>
    BY <1>3 DEF WorkerStep, OpenWorkerRead, OpenWorkerWrite, WorkerCommand,
                WorkerWrite
  <2> QED
    BY <1>1, <2>1, LagKept DEF Alive, Awaited
<1>4. CASE OpenCrawler \/ OpenWrite \/ OpenRead \/ sendDirectoryInfo
           \/ AwaitReady \/ ReadFd \/ Conclude \/ NoResultsFound
  <2>1. /\ UNCHANGED <<got, late, query>>
        /\ epc \notin {"send", "sleep", "collect", "file", "first", "rows"}
        /\ epc' \in {"openWrite", "openRead", "deal", "ready", "readFd",
                     "readCommand", "killed", "none found"}
        /\ epc \notin {"garbled", "killed"}
    <3>1. OpenRead => epc' \in {"openWrite", "deal"}
      BY <1>1, NextWorkerType DEF OpenRead
    <3>2. AwaitReady => epc' \in {"ready", "readFd"}
      BY <1>1, NextWorkerType DEF AwaitReady
    <3>3. Conclude => /\ epc' \in {"killed", "readFd", "none found"}
                      /\ UNCHANGED <<got, late, query>>
                      /\ epc = "conclude"
      BY DEF Conclude, Write
    <3>4. NoResultsFound => /\ epc' \in {"killed", "readFd"}
                            /\ UNCHANGED <<got, late, query>>
                            /\ epc = "none found"
      BY DEF NoResultsFound, Write
    <3> QED
      BY <1>4, <3>1, <3>2, <3>3, <3>4
         DEF OpenCrawler, OpenWrite, OpenRead, sendDirectoryInfo, AwaitReady,
             ReadFd
  <2> QED
    BY <1>1, <2>1, LagKept DEF Alive, Awaited
<1>5. CASE ReadFile \/ FirstRow \/ ReadRow
  <2>1. /\ UNCHANGED <<got, late, query, ei>>
        /\ epc \in {"file", "first", "rows"}
        /\ epc' \in {"first", "rows", "killed", "garbled"}
    BY <1>5 DEF ReadFile, FirstRow, ReadRow, ShowLine, Write
  <2> QED
    BY <1>1, <2>1, LagKept DEF Alive, Awaited
<1>6. CASE ReadCommand
  <2>1. /\ epc = "readCommand" /\ UNCHANGED <<got, late>>
        /\ \/ epc' = "send" /\ query' = query + 1
           \/ epc' = "readFd" /\ query' = query
    BY <1>6, ReadCommandKeeps DEF ReadCommand
  <2> QED
    BY <1>1, <2>1 DEF LagIsMissedDeadlines, Awaited
<1>7. CASE SendQuery \/ Deadline
  <2>1. UNCHANGED <<got, late, query, ei>>
        /\ \/ epc = "send" /\ epc' = "sleep"
           \/ epc = "sleep" /\ epc' = "collect"
    BY <1>7 DEF SendQuery, Deadline
  <2>2. epc = "sleep" => ei = 0
    BY <1>1 DEF Loops, LoopLabels
  <2> QED
    BY <1>1, <2>1, <2>2, LagKept DEF Alive, Awaited
<1>8. CASE Collect
  <2>1. /\ epc = "collect" /\ query' = query
        /\ \/ /\ late' = [late EXCEPT ![ei] = @ + 1] /\ got' = got
              /\ NextWorker("collect", "conclude")
           \/ /\ late' = late
              /\ got' = [got EXCEPT ![ei] = got[ei] + 1]
              /\ \/ NextWorker("collect", "conclude")
                 \/ epc' = "file" /\ ei' = ei
    BY <1>8, CollectStep
  <2>2. \/ epc' = "collect" /\ ei' = ei + 1
        \/ epc' = "conclude" /\ ei' = 0 /\ \A w \in Workers : w <= ei
        \/ epc' = "file" /\ ei' = ei
    BY <1>1, <2>1, NextWorkerPlace
  <2>3. ASSUME NEW w \in Workers
        PROVE  got'[w] + late'[w] = IF Awaited(w)' THEN query - 1 ELSE query
    <3>1. got[w] + late[w] = IF w >= ei THEN query - 1 ELSE query
      BY <1>1, <2>1 DEF LagIsMissedDeadlines, Awaited
    <3>2. Awaited(w)' <=> w > ei
      BY <1>1, <2>2 DEF Awaited
    <3>3. got'[w] + late'[w] = IF w = ei THEN got[w] + late[w] + 1
                               ELSE got[w] + late[w]
      BY <1>1, <2>1
    <3> QED
      BY <1>1, <3>1, <3>2, <3>3
  <2> QED
    BY <2>1, <2>3 DEF LagIsMissedDeadlines
<1>9. CASE EndOfFile
  <2>1. /\ UNCHANGED <<got, late, query>> /\ epc = "rows"
        /\ \/ NextWorker("collect", "conclude")
           \/ epc' = "file" /\ ei' = ei
    BY <1>9 DEF EndOfFile
  <2>2. \/ epc' = "collect" /\ ei' = ei + 1
        \/ epc' = "conclude" /\ ei' = 0 /\ \A w \in Workers : w <= ei
        \/ epc' = "file" /\ ei' = ei
    BY <1>1, <2>1, NextWorkerPlace
  <2>3. \A w \in Workers : Awaited(w)' <=> Awaited(w)
    BY <1>1, <2>1, <2>2 DEF Awaited
  <2> QED
    BY <1>1, <2>1, <2>3, LagKept DEF Alive
<1> QED
  BY <1>2, <1>3, <1>4, <1>5, <1>6, <1>7, <1>8, <1>9 DEF Next, ExecutorStep

-----------------------------------------------------------------------------
(* The way of every worker.                                                *)

LEMMA WorkerFacts ==
  ASSUME Inv, NEW w \in Workers
  PROVE  /\ TypeOK /\ Stage(w) /\ Chain(w) /\ w \in Nat /\ ei \in Workers
         /\ ei \in Nat /\ DirSet(w) # {}
         /\ epc \notin Starting /\ epc # "ready" => HasDirs(w)
<1>1. TypeOK /\ Stage(w) /\ Chain(w) /\ ei \in Workers
  BY DEF Inv, TypeOK
<1>2. w \in Nat /\ ei \in Nat
  BY <1>1, WorkerNumbers
<1>3. epc \notin Starting /\ epc # "ready" => HasDirs(w)
  BY <1>1 DEF Stage, HasNone
<1> QED
  BY <1>1, <1>2, <1>3, SomeDirectory

LEMMA CrawlerChain ==
  ASSUME Inv, CrawlerStep \/ Leave, NEW w \in Workers
  PROVE  Stage(w)' /\ Chain(w)'
<1>1. TypeOK /\ Stage(w) /\ Chain(w)
  BY WorkerFacts
<1>2. /\ UNCHANGED <<e2w, w2e, sending, indexed, got, ei, query, left>>
      /\ epc' = epc \/ (epc = "off" /\ epc' = "openCrawler")
  BY DEF CrawlerStep, Leave, Accept, EndSession, Search, OpenPipe, Shutdown,
         queryVars, collectVars, workerVars
<1>3. Unmoved(w)
  BY <1>2 DEF Unmoved
<1>4. SamePlace(w)
  BY <1>2 DEF SamePlace, Alive, Sent, Readied, Reading, StartLabels
<1>5. Chain(w)'
  BY <1>1, <1>3, <1>4, ChainKept
<1>6. Stage(w)'
  BY <1>1, <1>2 DEF Stage, HasNone, HasDirs, Starting, Block
<1> QED
  BY <1>5, <1>6

LEMMA StartChain ==
  ASSUME Inv, OpenCrawler \/ OpenWrite \/ OpenRead \/ sendDirectoryInfo,
         NEW w \in Workers
  PROVE  Stage(w)' /\ Chain(w)'
<1>1. /\ Stage(w) /\ TypeOK /\ w \in Nat /\ ei \in Workers /\ DirSet(w) # {}
      /\ Loops
  BY WorkerFacts DEF Inv
<1>2. /\ UNCHANGED <<w2e, sending, indexed>> /\ epc \in Starting
      /\ \/ epc' \in Starting /\ e2w' = e2w
         \/ /\ epc = "deal" /\ epc' = "ready" /\ ei' = ei
            /\ e2w' = [v \in Workers |-> Block(v)]
  <2>1. OpenRead => epc' \in {"openWrite", "deal"}
    BY <1>1, NextWorkerType DEF OpenRead
  <2> QED
    BY <2>1 DEF OpenCrawler, OpenWrite, OpenRead, sendDirectoryInfo, workerVars,
                Starting, Block
<1>3. HasNone(w)
  BY <1>1, <1>2 DEF Stage, HasDirs
<1>4. HasNone(w)'
  <2>1. CASE epc' \in Starting /\ e2w' = e2w
    BY <1>2, <1>3, <2>1 DEF HasNone, Starting
  <2>2. CASE /\ epc = "deal" /\ epc' = "ready" /\ ei' = ei
             /\ e2w' = [v \in Workers |-> Block(v)]
    <3>1. ei' = 0
      BY <1>1, <2>2 DEF Loops, LoopLabels
    <3> QED
      BY <1>1, <1>2, <1>3, <2>2, <3>1 DEF HasNone, Block
  <2> QED
    BY <1>2, <2>1, <2>2
<1>5. ~ HasDirs(w)'
  BY <1>1, <1>4 DEF HasNone, HasDirs
<1> QED
  BY <1>4, <1>5 DEF Stage, Chain

LEMMA QuietChain ==
  ASSUME Inv, NEW w \in Workers,
         ReadFd \/ Deadline \/ Conclude \/ NoResultsFound \/ ReadCommand
  PROVE  Stage(w)' /\ Chain(w)'
<1> USE DEF crawlerVars, queryVars, collectVars, workerVars
<1>1. /\ Stage(w) /\ Chain(w) /\ TypeOK
      /\ epc \notin Starting /\ epc # "ready" => HasDirs(w)
  BY WorkerFacts
<1>2. /\ UNCHANGED <<e2w, w2e, sending, indexed, got, left>>
      /\ epc \in {"readFd", "readCommand", "sleep", "conclude", "none found"}
      /\ epc' \in {"readFd", "readCommand", "send", "collect", "none found",
                   "killed"}
      /\ query' = IF epc' = "send" THEN query + 1 ELSE query
  <2>1. CASE ReadFd \/ Deadline \/ NoResultsFound
    BY <2>1 DEF ReadFd, Deadline, NoResultsFound, Write
  <2>2. CASE Conclude
    <3>1. UNCHANGED <<e2w, w2e, sending, indexed, got, left, query>>
          /\ epc = "conclude"
      BY <2>2 DEF Conclude
    <3>2. epc' \in {"readFd", "none found", "killed"}
      BY <2>2 DEF Conclude, Write
    <3> QED
      BY <3>1, <3>2
  <2>3. CASE ReadCommand
    <3>1. UNCHANGED <<w2e, sending, indexed, got, left>>
      BY <2>3 DEF ReadCommand
    <3> QED
      BY <2>3, <3>1, ReadCommandKeeps
  <2> QED
    BY <2>1, <2>2, <2>3
<1>3. HasDirs(w)
  BY <1>1, <1>2 DEF Starting
<1>4. Stage(w)'
  BY <1>2, <1>3, StageKept DEF Starting
<1>5. Unmoved(w)
  BY <1>2 DEF Unmoved
<1>6. SamePlace(w)
  <2>1. query \in Nat
    BY <1>1 DEF TypeOK
  <2>2. Sent' = Sent
    <3>1. Sent = query
      BY <1>2 DEF Sent
    <3>2. CASE epc' = "send"
      <4>1. query' = query + 1 /\ query' - 1 = query
        <5>1. query' = query + 1
          BY <1>2, <3>2
        <5>2. (query + 1) - 1 = query
          BY <2>1
        <5> QED
          BY <5>1, <5>2
      <4> QED
        BY <3>1, <3>2, <4>1 DEF Sent
    <3>3. CASE epc' # "send"
      BY <1>2, <3>1, <3>3 DEF Sent
    <3> QED
      BY <3>2, <3>3
  <2> QED
    BY <1>2, <2>2 DEF SamePlace, Alive, Readied, Reading, StartLabels
<1> QED
  BY <1>1, <1>4, <1>5, <1>6, ChainKept

LEMMA SendChain ==
  ASSUME Inv, NEW w \in Workers, SendQuery
  PROVE  Stage(w)' /\ Chain(w)'
<1>1. /\ Stage(w) /\ Chain(w) /\ TypeOK /\ Bounds
      /\ epc \notin Starting /\ epc # "ready" => HasDirs(w)
  BY WorkerFacts DEF Inv
<1>2. /\ epc = "send" /\ epc' = "sleep"
      /\ UNCHANGED <<w2e, sending, indexed, got, left, ei, query>>
      /\ e2w' = [v \in Workers |-> Append(e2w[v], Item("search", query, 0))]
  BY DEF SendQuery, queryVars, collectVars, workerVars
<1>3. HasDirs(w)
  BY <1>1, <1>2 DEF Starting
<1>4. query \in Queries /\ query \in Nat
  BY <1>1, <1>2 DEF Bounds, TypeOK
<1>5. PICK x : x = Item("search", query, 0)
  OBVIOUS
<1>6. x \in Items /\ x.type = "search" /\ x.query = query
  <2>1. PICK q \in Nat : q = query
    BY <1>4
  <2> QED
    BY <1>5, <2>1, ItemTypes
<1>7. PICK a, b : a = e2w[w] /\ b = Append(a, x)
  OBVIOUS
<1>8. /\ a \in Seq(Items) /\ Len(b) = Len(a) + 1 /\ b[Len(a) + 1] = x
      /\ Len(a) \in Nat /\ \A k \in 1..Len(a) : b[k] = a[k]
  BY <1>1, <1>6, <1>7, AppendProperties, LenProperties DEF TypeOK
<1>9. e2w'[w] = b
  BY <1>2, <1>5, <1>7
<1>10. \A k \in 1..Len(b) : b[k].type = "search" /\ b[k].query \in Queries
  <2> SUFFICES ASSUME NEW k \in 1..Len(b)
               PROVE  b[k].type = "search" /\ b[k].query \in Queries
    OBVIOUS
  <2>1. CASE k = Len(a) + 1
    BY <1>4, <1>6, <1>8, <2>1
  <2>2. CASE k # Len(a) + 1
    <3>1. k \in 1..Len(a)
      BY <1>8, <2>2
    <3> QED
      BY <1>3, <1>7, <1>8, <3>1 DEF HasDirs
  <2> QED
    BY <2>1, <2>2
<1>11. HasDirs(w)'
  BY <1>2, <1>3, <1>9, <1>10 DEF HasDirs, Starting
<1>12. Alive
  BY <1>2 DEF Alive
<1>13. Answered(w) = query - 1 - Len(a) /\ Answered(w)' = Answered(w)
  BY <1>2, <1>4, <1>7, <1>8, <1>9 DEF Answered, Sent
<1>14. Asked(w)'
  <2>1. ASSUME NEW k \in 1..Len(b) PROVE b[k].query = Answered(w) + k
    <3>1. CASE k = Len(a) + 1
      BY <1>4, <1>6, <1>8, <1>13, <3>1
    <3>2. CASE k # Len(a) + 1
      <4>1. k \in 1..Len(a)
        BY <1>8, <3>2
      <4> QED
        BY <1>1, <1>3, <1>7, <1>8, <1>12, <4>1 DEF Chain, Asked
    <3> QED
      BY <3>1, <3>2
  <2> QED
    BY <1>9, <1>13, <2>1 DEF Asked
<1>15. PICK m : Flowing(w, Stream(w), m)
  BY <1>1, <1>3, <1>12 DEF Chain
<1>16. PICK s : s = Stream(w)
  OBVIOUS
<1>17. s = Stream(w)'
  BY <1>2, <1>16 DEF Stream
<1>18. Flowing(w, s, m)'
  BY <1>2, <1>13, <1>15, <1>16 DEF Flowing, Expected, Readied, Reading,
                                   StartLabels
<1> QED
  BY <1>11, <1>14, <1>17, <1>18 DEF Stage, Chain

LEMMA WorkerOpensChain ==
  ASSUME Inv, NEW w \in Workers,
         NEW v \in Workers, OpenWorkerRead(v) \/ OpenWorkerWrite(v)
  PROVE  Stage(w)' /\ Chain(w)'
<1>1. Stage(w) /\ Chain(w)
  BY WorkerFacts
<1>2. UNCHANGED <<e2w, w2e, sending, indexed, got, left, epc, ei, query>>
  BY DEF OpenWorkerRead, OpenWorkerWrite, queryVars, collectVars
<1>3. Unmoved(w)
  BY <1>2 DEF Unmoved
<1>4. SamePlace(w)
  BY <1>2 DEF SamePlace, Alive, Sent, Readied, Reading
<1>5. Stage(w)'
  BY <1>1, <1>2 DEF Stage, HasNone, HasDirs
<1> QED
  BY <1>1, <1>3, <1>4, <1>5, ChainKept

LEMMA WorkerWriteChain ==
  ASSUME Inv, NEW w \in Workers, NEW v \in Workers, WorkerWrite(v)
  PROVE  Stage(w)' /\ Chain(w)'
<1>1. Stage(w) /\ Chain(w) /\ TypeOK /\ Stage(v)
  BY WorkerFacts
<1>2. /\ UNCHANGED <<e2w, indexed, got, left, epc, ei, query>>
      /\ sending[v] # <<>>
  BY DEF WorkerWrite, queryVars, collectVars
<1>3. w2e'[w] \o sending'[w] = w2e[w] \o sending[w]
  <2>1. CASE epc = "killed"
    BY <2>1 DEF WorkerWrite
  <2>2. CASE epc # "killed"
    <3>1. /\ w2e' = [w2e EXCEPT ![v] = Append(@, Head(sending[v]))]
          /\ sending' = [sending EXCEPT ![v] = Tail(@)]
      BY <2>2 DEF WorkerWrite
    <3>2. CASE w = v
      <4>1. PICK a, b : a = w2e[w] /\ b = sending[w]
        OBVIOUS
      <4>2. a \in Seq(Items) /\ b \in Seq(Items) /\ b # <<>>
        BY <1>1, <1>2, <3>2, <4>1 DEF TypeOK
      <4>3. Append(a, Head(b)) \o Tail(b) = a \o b
        BY ONLY <4>2, MoveFirst
      <4>4. w2e'[w] = Append(a, Head(b)) /\ sending'[w] = Tail(b)
        BY <1>1, <3>1, <3>2, <4>1 DEF TypeOK
      <4> QED
        BY <4>1, <4>3, <4>4
    <3>3. CASE w # v
      BY <1>1, <3>1, <3>3 DEF TypeOK
    <3> QED
      BY <3>2, <3>3
  <2> QED
    BY <2>1, <2>2
<1>4. Unmoved(w)
  BY <1>2, <1>3 DEF Unmoved
<1>5. SamePlace(w)
  BY <1>2 DEF SamePlace, Alive, Sent, Readied, Reading
<1>6. Stage(w)'
  <2>1. CASE HasDirs(w)
    BY <1>2, <2>1 DEF Stage, HasDirs
  <2>2. CASE HasNone(w)
    <3>1. w # v
      BY <1>2, <2>2 DEF HasNone
    <3>2. w2e'[w] = w2e[w] /\ sending'[w] = sending[w]
      BY <1>1, <3>1 DEF WorkerWrite, TypeOK
    <3> QED
      BY <1>2, <2>2, <3>2 DEF Stage, HasNone
  <2> QED
    BY <1>1, <2>1, <2>2 DEF Stage
<1> QED
  BY <1>1, <1>4, <1>5, <1>6, ChainKept

(* A worker that has read its directories is ready. *)
LEMMA ReadyChain ==
  ASSUME Inv, NEW w \in Workers, epc = "ready", w >= ei,
         e2w'[w] = <<>>, indexed'[w] = DirSet(w),
         w2e'[w] \o sending'[w] = <<Item("READY", 0, 0)>>,
         epc' = epc, ei' = ei, query' = query
  PROVE  Stage(w)' /\ Chain(w)'
<1>1. Loops /\ w \in Nat /\ ei \in Nat
  BY WorkerFacts DEF Inv
<1>2. query = 0
  BY <1>1 DEF Loops, StartLabels
<1>3. HasDirs(w)'
  BY DEF HasDirs, Starting
<1>4. Answered(w)' = 0
  <2>1. Sent' = 0
    BY <1>2 DEF Sent
  <2>2. Len(e2w'[w]) = 0
    BY EmptySeq
  <2>3. Answered(w)' = 0 - 0
    BY <2>1, <2>2 DEF Answered
  <2> QED
    BY <2>3
<1>5. PICK x \in Items : x = Item("READY", 0, 0)
                         /\ x.type = "READY" /\ x.query = 0
  <2>1. /\ Item("READY", 0, 0) \in Items
        /\ Item("READY", 0, 0).type = "READY"
        /\ Item("READY", 0, 0).query = 0
    BY ONLY ItemTypes
  <2> QED
    BY <2>1
<1>6. Fits(x, 0)
  BY <1>5 DEF Fits, AnswerTypes
<1>7. PICK s, m : s = <<x>> /\ m = <<0>>
  OBVIOUS
<1>8. /\ Walk(s, m) /\ s # <<>> /\ Len(s) = 1 /\ s[1] = x /\ m[1] = 0
  BY <1>6, <1>7, SingleWalk
<1>9. ~ Readied(w)'
  BY <1>1 DEF Readied, StartLabels
<1>10. Flowing(w, s, m)'
  BY <1>4, <1>5, <1>8, <1>9 DEF Flowing, Expected, IsLast
<1>11. s = Stream(w)'
  BY <1>5, <1>7 DEF Stream
<1>12. Asked(w)'
  BY DEF Asked
<1> QED
  BY <1>3, <1>10, <1>11, <1>12 DEF Stage, Chain

(* An answer goes to the end of the stream. *)
LEMMA AnsweredChain ==
  ASSUME Inv, NEW w \in Workers, HasDirs(w), e2w[w] # <<>>,
         sending[w] = <<>>,
         e2w'[w] = Tail(e2w[w]), indexed'[w] = indexed[w], w2e'[w] = w2e[w],
         sending'[w] = Answer(Head(e2w[w]).query, w),
         UNCHANGED <<epc, ei, query, got, left>>
  PROVE  Stage(w)' /\ Chain(w)'
<1>1. TypeOK /\ Chain(w)
  BY WorkerFacts
<1>2. PICK a, b, q : a = e2w[w] /\ b = Tail(a) /\ q = Head(a).query
  OBVIOUS
<1>3. /\ Len(a) \in Nat \ {0} /\ Head(a) = a[1] /\ Len(b) = Len(a) - 1
      /\ \A k \in 1..Len(a) - 1 : b[k] = a[k + 1]
  BY <1>1, <1>2, FirstAndLast DEF TypeOK
<1>4. \A k \in 1..Len(a) : a[k].type = "search" /\ a[k].query \in Queries
  BY <1>2 DEF HasDirs
<1>5. q \in Queries
  BY <1>2, <1>3, <1>4
<1>6. e2w'[w] = b
  BY <1>2
<1>7. \A k \in 1..Len(b) : b[k].type = "search" /\ b[k].query \in Queries
  BY <1>3, <1>4
<1>8. HasDirs(w)'
  BY <1>6, <1>7 DEF HasDirs
<1>9. SUFFICES ASSUME Alive PROVE Asked(w)' /\ \E m : Flowing(w, Stream(w), m)'
  BY <1>8 DEF Stage, Chain, Alive
<1>10. PICK n \in Int : n = Answered(w)
  BY <1>1, StreamType
<1>11. Answered(w)' = n + 1
  <2>1. Sent' = Sent /\ Sent \in Int
    BY <1>1, StreamType DEF Sent
  <2> QED
    <3>1. PICK e \in Int : e = Sent
      BY <2>1
    <3>2. n = e - Len(a)
      BY <1>2, <1>10, <3>1 DEF Answered
    <3>3. Answered(w)' = e - Len(b)
      BY <1>6, <2>1, <3>1 DEF Answered
    <3> QED
      BY <1>3, <3>2, <3>3
<1>12. \A k \in 1..Len(a) : a[k].query = n + k
  BY <1>1, <1>2, <1>9, <1>10 DEF Chain, Asked
<1>13. Asked(w)'
  <2>1. ASSUME NEW k \in 1..Len(b) PROVE b[k].query = n + 1 + k
    <3>1. k \in 1..Len(a) - 1 /\ k + 1 \in 1..Len(a)
      BY <1>3
    <3>2. b[k].query = n + (k + 1)
      BY <1>3, <1>12, <3>1
    <3> QED
      BY <3>2
  <2> QED
    BY <1>6, <1>11, <2>1 DEF Asked
<1>14. q = n + 1
  BY <1>2, <1>3, <1>12
<1>15. PICK s, t : s = w2e[w] /\ t = Answer(q, w)
  OBVIOUS
<1>16. s \in Seq(Items)
  BY <1>1, <1>15 DEF TypeOK
<1>17. PICK u : IsAnswer(t, u, q)
  BY <1>5, <1>15, AnswerWalks
<1>18. /\ Walk(t, u) /\ t # <<>> /\ IsFirst(t[1], u[1], q)
       /\ IsLast(t[Len(t)], u[Len(t)]) /\ t[Len(t)].query = q
  BY <1>17 DEF IsAnswer
<1>19. t \in Seq(Items)
  BY <1>18 DEF Walk
<1>20. Stream(w) = s
  <2>1. s \o <<>> = s
    BY <1>16, ConcatEmptySeq
  <2> QED
    BY <1>15, <2>1 DEF Stream
<1>21. Stream(w)' = s \o t
  BY <1>2, <1>15 DEF Stream
<1>22. PICK m : Flowing(w, s, m)
  BY <1>1, <1>9, <1>20 DEF Chain
<1>23. \A x, k : Expected(w, x, k)' <=> Expected(w, x, k)
  BY DEF Expected, Readied, Reading
<1>24. CASE s = <<>>
  <2>1. Readied(w) /\ ~ Reading(w) /\ got[w] = n
    BY <1>10, <1>22, <1>24 DEF Flowing
  <2>2. Expected(w, t[1], u[1])
    BY <1>14, <1>18, <2>1 DEF Expected
  <2>3. Flowing(w, t, u)'
    BY <1>11, <1>14, <1>18, <1>23, <2>2 DEF Flowing
  <2>4. s \o t = t
    BY <1>19, <1>24, ConcatEmptySeq
  <2> QED
    BY <1>13, <1>21, <2>3, <2>4
<1>25. CASE s # <<>>
  <2>1. /\ Walk(s, m) /\ Expected(w, s[1], m[1])
        /\ IsLast(s[Len(s)], m[Len(s)]) /\ s[Len(s)].query = n
    BY <1>10, <1>22, <1>25 DEF Flowing
  <2>2. Joins(s, m, t, u)
    BY <1>14, <1>18, <1>25, <2>1 DEF Joins, Joined
  <2>3. PICK c, d : c = s \o t /\ d = m \o u
    OBVIOUS
  <2>4. /\ Walk(c, d) /\ c # <<>> /\ c[1] = s[1] /\ d[1] = m[1]
        /\ c[Len(c)] = t[Len(t)] /\ d[Len(c)] = u[Len(t)]
    <3>1. IsJoint(s \o t, m \o u, s, m, t, u)
      BY <2>2, WalkJoin
    <3> QED
      BY <2>3, <3>1 DEF IsJoint
  <2>5. Flowing(w, c, d)'
    BY <1>11, <1>14, <1>18, <1>23, <2>1, <2>4 DEF Flowing
  <2> QED
    BY <1>13, <1>21, <2>3, <2>5
<1> QED
  BY <1>24, <1>25

LEMMA WorkerCommandChain ==
  ASSUME Inv, NEW w \in Workers, NEW v \in Workers, WorkerCommand(v)
  PROVE  Stage(w)' /\ Chain(w)'
<1>1. /\ Stage(w) /\ Chain(w) /\ TypeOK /\ w \in Nat
  BY WorkerFacts
<1>2. /\ UNCHANGED <<w2e, got, left, epc, ei, query>>
      /\ sending[v] = <<>> /\ e2w[v] # <<>>
  BY DEF WorkerCommand, queryVars, collectVars
<1>3. \/ /\ epc = "ready" /\ v >= ei /\ w2e[v] = <<>>
         /\ e2w' = [e2w EXCEPT ![v] = <<>>]
         /\ sending' = [sending EXCEPT ![v] = <<Item("READY", 0, 0)>>]
         /\ indexed' = [indexed EXCEPT ![v] = DirSet(v)]
      \/ /\ HasDirs(v) /\ Head(e2w[v]).query \in Queries
         /\ e2w' = [e2w EXCEPT ![v] = Tail(e2w[v])]
         /\ sending' = [sending EXCEPT ![v] = Answer(Head(e2w[v]).query, v)]
         /\ indexed' = indexed
  BY Commanded
<1>4. /\ e2w \in [Workers -> Seq(Items)] /\ sending \in [Workers -> Seq(Items)]
      /\ indexed \in [Workers -> SUBSET (0..NoDirs - 1)]
  BY <1>1 DEF TypeOK
<1>5. CASE w # v
  <2>1. e2w'[w] = e2w[w] /\ sending'[w] = sending[w] /\ indexed'[w] = indexed[w]
    BY <1>3, <1>4, <1>5
  <2>2. Unmoved(w)
    BY <1>2, <2>1 DEF Unmoved
  <2>3. SamePlace(w)
    BY <1>2 DEF SamePlace, Alive, Sent, Readied, Reading
  <2>4. Stage(w)'
    BY <1>1, <1>2, <2>1 DEF Stage, HasNone, HasDirs
  <2> QED
    BY <1>1, <2>2, <2>3, <2>4, ChainKept
<1>6. CASE w = v
  <2>1. CASE /\ epc = "ready" /\ v >= ei /\ w2e[v] = <<>>
             /\ e2w' = [e2w EXCEPT ![v] = <<>>]
             /\ sending' = [sending EXCEPT ![v] = <<Item("READY", 0, 0)>>]
             /\ indexed' = [indexed EXCEPT ![v] = DirSet(v)]
    <3>1. e2w'[w] = <<>> /\ indexed'[w] = DirSet(w)
      BY <1>4, <1>6, <2>1
    <3>2. w2e'[w] = <<>> /\ sending'[w] = <<Item("READY", 0, 0)>>
      BY <1>2, <1>4, <1>6, <2>1
    <3>3. w2e'[w] \o sending'[w] = <<Item("READY", 0, 0)>>
      <4>1. PICK r \in Items : r = Item("READY", 0, 0)
        BY ItemTypes
      <4>2. <<>> \o <<r>> = <<r>>
        OBVIOUS
      <4> QED
        BY <3>2, <4>1, <4>2
    <3> QED
      BY <1>2, <1>6, <2>1, <3>1, <3>3, ReadyChain
  <2>2. CASE /\ HasDirs(v) /\ Head(e2w[v]).query \in Queries
             /\ e2w' = [e2w EXCEPT ![v] = Tail(e2w[v])]
             /\ sending' = [sending EXCEPT
                              ![v] = Answer(Head(e2w[v]).query, v)]
             /\ indexed' = indexed
    <3>1. /\ e2w'[w] = Tail(e2w[w]) /\ indexed'[w] = indexed[w]
          /\ sending'[w] = Answer(Head(e2w[w]).query, w) /\ w2e'[w] = w2e[w]
      BY <1>2, <1>4, <1>6, <2>2
    <3> QED
      BY <1>2, <1>6, <2>2, <3>1, AnsweredChain
  <2> QED
    BY <1>3, <2>1, <2>2
<1> QED
  BY <1>5, <1>6

(* What an item taken from worker ei's pipe leaves of its stream. *)
LEMMA TakenChain ==
  ASSUME Inv, NEW w \in Workers, HasDirs(w), Alive, epc \notin {"send"},
         NEW x, NEW m, NEW n,
         Rest(w, x, m, Tail(w2e[w]) \o sending[w], n),
         w2e'[w] = Tail(w2e[w]), sending'[w] = sending[w],
         e2w'[w] = e2w[w], indexed'[w] = indexed[w], query' = query,
         epc' # "send", epc' \notin Starting,
         IsLast(x, m) => /\ Readied(w)' /\ ~ Reading(w)'
                         /\ got'[w] = x.query,
         ASSUME NEW y, NEW k, Joined(x, m, y, k), Alive'
         PROVE  Expected(w, y, k)'
  PROVE  Stage(w)' /\ Chain(w)'
<1>1. Stage(w)'
  BY StageKept
<1>2. SUFFICES ASSUME Alive' PROVE Asked(w)' /\ \E u : Flowing(w, Stream(w), u)'
  BY <1>1 DEF Chain
<1>3. Answered(w)' = Answered(w)
  BY DEF Answered, Sent
<1>4. Asked(w)'
  BY <1>3, WorkerFacts DEF Chain, Asked
<1>5. PICK r : r = Tail(w2e[w]) \o sending[w]
  OBVIOUS
<1>6. r = Stream(w)'
  BY <1>5 DEF Stream
<1>7. /\ Walk(r, n)
      /\ IF r = <<>> THEN IsLast(x, m) /\ x.query = Answered(w)
         ELSE /\ Joined(x, m, r[1], n[1])
              /\ IsLast(r[Len(r)], n[Len(r)])
              /\ r[Len(r)].query = Answered(w)
  BY <1>5 DEF Rest
<1>8. CASE r = <<>>
  <2>1. Readied(w)' /\ ~ Reading(w)' /\ got'[w] = Answered(w)
    BY <1>7, <1>8
  <2>2. Flowing(w, r, n)'
    BY <1>3, <1>7, <1>8, <2>1 DEF Flowing
  <2> QED
    BY <1>4, <1>6, <2>2
<1>9. CASE r # <<>>
  <2>1. Joined(x, m, r[1], n[1])
    BY <1>7, <1>9
  <2>2. Expected(w, r[1], n[1])'
    BY <1>2, <2>1
  <2>3. Flowing(w, r, n)'
    BY <1>3, <1>7, <1>9, <2>2 DEF Flowing
  <2> QED
    BY <1>4, <1>6, <2>3
<1> QED
  BY <1>8, <1>9

(* The other workers while the executor reads from worker ei. *)
LEMMA OtherChain ==
  ASSUME Inv, NEW w \in Workers, w # ei, HasDirs(w),
         epc \in CollectLabels,
         epc' \in CollectLabels \cup {"conclude", "killed", "garbled"},
         epc' \in {"file", "first", "rows"} => ei' = ei,
         UNCHANGED <<e2w, sending, indexed, query>>,
         w2e'[w] = w2e[w], got'[w] = got[w]
  PROVE  Stage(w)' /\ Chain(w)'
<1>1. Stage(w) /\ Chain(w) /\ TypeOK
  BY WorkerFacts
<1>2. Stage(w)'
  BY StageKept DEF CollectLabels, Starting
<1>3. Unmoved(w)
  BY DEF Unmoved
<1>4. ~ Reading(w) /\ ~ Reading(w)' /\ Readied(w)
  BY DEF Reading, Readied, CollectLabels, StartLabels
<1>5. Alive /\ Readied(w)'
  BY DEF Alive, Readied, CollectLabels, StartLabels
<1>6. Sent' = Sent
  BY DEF Sent, CollectLabels
<1>7. SamePlace(w)
  BY <1>4, <1>5, <1>6 DEF SamePlace
<1> QED
  BY <1>1, <1>2, <1>3, <1>7, ChainKept

LEMMA AwaitReadyChain ==
  ASSUME Inv, NEW w \in Workers, AwaitReady
  PROVE  Stage(w)' /\ Chain(w)'
<1>1. /\ Stage(w) /\ Chain(w) /\ TypeOK /\ w \in Nat /\ ei \in Workers
      /\ ei \in Nat /\ LagIsMissedDeadlines /\ Loops
  BY WorkerFacts DEF Inv
<1>2. /\ epc = "ready" /\ w2e[ei] # <<>>
      /\ w2e' = [w2e EXCEPT ![ei] = Tail(@)]
      /\ NextWorker("ready", "readFd")
      /\ UNCHANGED <<e2w, sending, indexed, got, left, query>>
  BY DEF AwaitReady, queryVars, collectVars, workerVars
<1>3. \/ epc' = "ready" /\ ei' = ei + 1
      \/ epc' = "readFd" /\ ei' = 0 /\ \A v \in Workers : v <= ei
  BY <1>1, <1>2, NextWorkerPlace
<1>4. w2e'[w] = IF w = ei THEN Tail(w2e[w]) ELSE w2e[w]
  BY <1>1, <1>2 DEF TypeOK
<1>5. Sent' = Sent /\ Alive /\ ~ Reading(w) /\ ~ Reading(w)'
  BY <1>2, <1>3 DEF Sent, Alive, Reading
<1>6. Readied(w)' <=> Readied(w) \/ w = ei
  BY <1>1, <1>2, <1>3 DEF Readied, StartLabels
<1>7. CASE w = ei
  <2>1. HasDirs(w)
    BY <1>1, <1>2, <1>7 DEF Stage, HasNone
  <2>2. PICK x : x = Head(w2e[w])
    OBVIOUS
  <2>3. PICK m, n : Rest(w, x, m, Tail(w2e[w]) \o sending[w], n)
    BY <1>1, <1>2, <1>5, <1>7, <2>1, <2>2, Popping
  <2>4. ~ Readied(w) /\ Readied(w)'
    BY <1>1, <1>2, <1>6, <1>7 DEF Readied, StartLabels
  <2>5. x.type = "READY" /\ x.query = 0
    BY <2>3, <2>4 DEF Rest, Expected
  <2>6. got[w] = 0
    <3>1. query = 0
      BY <1>1, <1>2 DEF Loops, StartLabels
    <3>2. ~ Awaited(w)
      BY <1>2 DEF Awaited
    <3>3. got[w] + late[w] = 0 /\ got[w] \in Nat /\ late[w] \in Nat
      BY <1>1, <1>2, <3>1, <3>2 DEF LagIsMissedDeadlines, TypeOK
    <3> QED
      BY <3>3
  <2>7. ASSUME NEW y, NEW k, Joined(x, m, y, k)
        PROVE  Expected(w, y, k)'
    <3>1. IsFirst(y, k, 0 + 1)
      BY <2>5, <2>7 DEF Joined, IsLast
    <3> QED
      BY <1>2, <1>5, <2>4, <2>6, <3>1 DEF Expected
  <2>8. /\ w2e'[w] = Tail(w2e[w]) /\ sending'[w] = sending[w]
        /\ e2w'[w] = e2w[w] /\ indexed'[w] = indexed[w] /\ query' = query
        /\ epc' # "send" /\ epc \notin {"send"} /\ got'[w] = x.query
    BY <1>2, <1>3, <1>4, <1>7, <2>5, <2>6
  <2>9. epc' \notin Starting
    BY <1>3 DEF Starting
  <2> QED
    BY <1>5, <2>1, <2>3, <2>4, <2>7, <2>8, <2>9, TakenChain
<1>8. CASE w # ei
  <2>1. Unmoved(w)
    BY <1>2, <1>4, <1>8 DEF Unmoved
  <2>2. SamePlace(w)
    BY <1>5, <1>6, <1>8 DEF SamePlace
  <2>3. CASE HasDirs(w)
    BY <1>2, <1>3, <2>3, StageKept, <1>1, <2>1, <2>2, ChainKept DEF Starting
  <2>4. CASE HasNone(w)
    <3>1. w >= ei /\ epc' = "ready" /\ ei' = ei + 1
      BY <1>1, <1>2, <1>3, <1>8, <2>4 DEF HasNone, Starting
    <3>2. w >= ei'
      BY <1>1, <1>8, <3>1
    <3>3. HasNone(w)'
      BY <1>2, <1>4, <1>8, <2>4, <3>1, <3>2 DEF HasNone, Starting, Block
    <3> QED
      BY <1>1, <2>1, <2>2, <3>3, ChainKept DEF Stage
  <2> QED
    BY <1>1, <2>3, <2>4 DEF Stage
<1> QED
  BY <1>7, <1>8

LEMMA CollectChain ==
  ASSUME Inv, NEW w \in Workers, Collect
  PROVE  Stage(w)' /\ Chain(w)'
<1>1. /\ Stage(w) /\ Chain(w) /\ TypeOK /\ ei \in Workers /\ epc = "collect"
      /\ UNCHANGED <<e2w, query, sending, indexed>>
      /\ \/ /\ w2e[ei] = <<>> /\ w2e' = w2e
            /\ NextWorker("collect", "conclude")
            /\ UNCHANGED <<got, left>>
         \/ /\ w2e[ei] # <<>>
            /\ got' = [got EXCEPT ![ei] = Head(w2e[ei]).query]
            /\ w2e' = [w2e EXCEPT ![ei] = Tail(w2e[ei])]
            /\ \/ /\ Head(w2e[ei]).type = "NORES"
                  /\ NextWorker("collect", "conclude")
               \/ /\ Head(w2e[ei]).type # "NORES"
                  /\ left' = Head(w2e[ei]).n
                  /\ epc' = "file" /\ ei' = ei
  BY CollectStep, WorkerFacts
<1>2. /\ HasDirs(w) /\ Alive /\ epc \in CollectLabels
      /\ epc \notin StartLabels
  BY <1>1, WorkerFacts DEF Starting, Alive, CollectLabels, StartLabels
<1>3. epc' \in {"collect", "conclude", "file"}
  BY <1>1, NextWorkerType
<1>4. epc' = "file" => /\ ei' = ei /\ w2e[ei] # <<>>
                       /\ Head(w2e[ei]).type # "NORES"
                       /\ left' = Head(w2e[ei]).n
  BY <1>1, NextWorkerType
<1>5. Readied(w) /\ Readied(w)' /\ epc' \notin Starting /\ ~ Reading(w)
  BY <1>1, <1>3 DEF Readied, Reading, StartLabels, Starting
<1>6. CASE w # ei
  <2>1. w2e'[w] = w2e[w] /\ got'[w] = got[w]
    BY <1>1, <1>6 DEF TypeOK
  <2> QED
    BY <1>1, <1>2, <1>3, <1>4, <1>6, <2>1, OtherChain DEF CollectLabels
<1>7. CASE w = ei /\ w2e[w] = <<>>
  <2>1. w2e' = w2e /\ got' = got /\ epc' # "file" /\ left' = left
    BY <1>1, <1>4, <1>7
  <2>2. Unmoved(w)
    BY <1>1, <2>1 DEF Unmoved
  <2>3. ~ Reading(w)'
    BY <1>3, <2>1 DEF Reading
  <2>4. Sent' = Sent
    BY <1>1, <1>3 DEF Sent
  <2>5. SamePlace(w)
    BY <1>2, <1>5, <2>3, <2>4 DEF SamePlace
  <2>6. Stage(w)'
    BY <1>1, <1>2, <1>5, StageKept
  <2> QED
    BY <1>1, <2>2, <2>5, <2>6, ChainKept
<1>8. CASE w = ei /\ w2e[w] # <<>>
  <2>1. PICK x : x = Head(w2e[w])
    OBVIOUS
  <2>2. PICK m, n : /\ Rest(w, x, m, Tail(w2e[w]) \o sending[w], n)
                    /\ IsFirst(x, m, got[w] + 1)
    BY <1>1, <1>2, <1>8, <2>1, AtItem
  <2>3. /\ got'[w] = x.query /\ w2e'[w] = Tail(w2e[w])
        /\ sending'[w] = sending[w] /\ e2w'[w] = e2w[w]
        /\ indexed'[w] = indexed[w]
    BY <1>1, <1>8, <2>1 DEF TypeOK
  <2>4. \/ /\ x.type = "NORES" /\ ~ Reading(w)'
        \/ /\ x.type # "NORES" /\ left' = x.n
           /\ epc' = "file" /\ ei' = ei
    <3>1. \/ /\ Head(w2e[ei]).type = "NORES"
             /\ NextWorker("collect", "conclude")
          \/ /\ Head(w2e[ei]).type # "NORES"
             /\ left' = Head(w2e[ei]).n
             /\ epc' = "file" /\ ei' = ei
      BY <1>1, <1>8
    <3>2. NextWorker("collect", "conclude") =>
            epc' \in {"collect", "conclude"}
      BY <1>1, NextWorkerType
    <3> QED
      BY <1>8, <2>1, <3>1, <3>2 DEF Reading
  <2>5. IsLast(x, m) => ~ Reading(w)'
    <3>1. x.type # "NORES" => ~ IsLast(x, m)
      BY <2>2 DEF IsFirst, IsLast
    <3> QED
      BY <2>4, <3>1
  <2>6. ASSUME NEW y, NEW k, Joined(x, m, y, k)
        PROVE  Expected(w, y, k)'
    <3>1. CASE x.type = "NORES"
      <4>1. IsFirst(y, k, x.query + 1)
        BY <2>6, <3>1 DEF Joined, IsLast
      <4> QED
        BY <1>5, <2>3, <2>4, <3>1, <4>1 DEF Expected
    <3>2. CASE x.type # "NORES"
      <4>1. x.type = "RES_EXIST" /\ m = x.n
        BY <2>2, <3>2 DEF IsFirst
      <4>2. y.query = x.query /\ y.type = "file" /\ k = m
        BY <2>6, <4>1 DEF Joined, IsLast
      <4>3. Reading(w)' /\ epc' = "file" /\ left' = m
        BY <1>8, <2>4, <3>2, <4>1 DEF Reading
      <4> QED
        BY <1>5, <2>3, <4>2, <4>3 DEF Expected
    <3> QED
      BY <3>1, <3>2
  <2>7. epc \notin {"send"} /\ epc' # "send" /\ query' = query
    BY <1>1, <1>3
  <2> QED
    BY <1>2, <1>5, <2>2, <2>3, <2>5, <2>6, <2>7, TakenChain
<1> QED
  BY <1>6, <1>7, <1>8

LEMMA FilesChain ==
  ASSUME Inv, NEW w \in Workers, ReadFile \/ ReadRow \/ EndOfFile
  PROVE  Stage(w)' /\ Chain(w)'
<1>1. /\ Stage(w) /\ Chain(w) /\ TypeOK /\ ei \in Workers
      /\ w2e[ei] # <<>>
      /\ w2e' = [w2e EXCEPT ![ei] = Tail(w2e[ei])]
      /\ UNCHANGED <<e2w, query, sending, indexed, got>>
      /\ epc \in {"file", "rows"}
  BY WorkerFacts DEF ReadFile, ReadRow, EndOfFile, queryVars, workerVars,
                     TypeOK
<1>2. \/ /\ epc = "file" /\ epc' = "first" /\ ei' = ei /\ left' = left
      \/ /\ epc = "rows" /\ Head(w2e[ei]).type = "row" /\ epc' = "rows"
         /\ ei' = ei /\ left' = left
      \/ /\ epc = "rows" /\ Head(w2e[ei]).type = "-1" /\ left' = left - 1
         /\ left > 1 /\ epc' = "file" /\ ei' = ei
      \/ /\ epc = "rows" /\ Head(w2e[ei]).type = "-1" /\ left' = left - 1
         /\ ~ (left > 1) /\ epc' \in {"collect", "conclude"}
      \/ /\ epc' = "killed" /\ ei' = ei
  <2>1. CASE ReadFile \/ ReadRow
    BY <2>1 DEF ReadFile, ReadRow, ShowLine, Write
  <2>2. CASE EndOfFile
    <3>1. /\ epc = "rows" /\ Head(w2e[ei]).type = "-1" /\ left' = left - 1
          /\ IF left > 1 THEN epc' = "file" /\ UNCHANGED ei
             ELSE NextWorker("collect", "conclude")
      BY <2>2 DEF EndOfFile
    <3>2. ~ (left > 1) => epc' \in {"collect", "conclude"}
      BY <1>1, <3>1, NextWorkerType
    <3> QED
      BY <3>1, <3>2
  <2> QED
    BY <2>1, <2>2
<1>3. /\ HasDirs(w) /\ Alive /\ epc \in CollectLabels
      /\ epc \notin StartLabels
  BY <1>1, WorkerFacts DEF Starting, Alive, CollectLabels, StartLabels
<1>4. Readied(w) /\ Readied(w)' /\ epc' \notin Starting
  BY <1>1, <1>2 DEF Readied, StartLabels, Starting
<1>5. CASE w # ei
  <2>1. w2e'[w] = w2e[w] /\ got'[w] = got[w]
    BY <1>1, <1>5 DEF TypeOK
  <2>2. /\ epc' \in CollectLabels \cup {"conclude", "killed", "garbled"}
        /\ epc' \in {"file", "first", "rows"} => ei' = ei
    BY <1>2 DEF CollectLabels
  <2> QED
    BY <1>1, <1>3, <1>5, <2>1, <2>2, OtherChain
<1>6. CASE w = ei
  <2>1. PICK x : x = Head(w2e[w])
    OBVIOUS
  <2>2. PICK m, n : /\ Rest(w, x, m, Tail(w2e[w]) \o sending[w], n)
                    /\ x.query = got[w] /\ m = left
                    /\ x.type \in IF epc = "file" THEN {"file"}
                                  ELSE {"row", "-1"}
    BY <1>1, <1>3, <1>6, <2>1, AtItem
  <2>3. /\ got'[w] = x.query /\ w2e'[w] = Tail(w2e[w])
        /\ sending'[w] = sending[w] /\ e2w'[w] = e2w[w]
        /\ indexed'[w] = indexed[w]
    BY <1>1, <1>6, <2>2 DEF TypeOK
  <2>4. left \in Nat /\ (x.type # "NORES" /\ x.type # "READY" => left >= 1)
    BY <1>1, <2>2 DEF TypeOK, Rest, Fits
  <2>5. \/ /\ x.type = "file" /\ epc' = "first" /\ ei' = ei /\ left' = m
        \/ /\ x.type = "row" /\ epc' = "rows" /\ ei' = ei /\ left' = m
        \/ /\ x.type = "-1" /\ m # 1 /\ left' = m - 1
           /\ epc' = "file" /\ ei' = ei
        \/ /\ x.type = "-1" /\ m = 1 /\ epc' \in {"collect", "conclude"}
        \/ epc' = "killed"
    BY <1>2, <1>6, <2>1, <2>2, <2>4
  <2>6. IsLast(x, m) => ~ Reading(w)'
    <3>1. IsLast(x, m) => x.type = "-1" /\ m = 1
      BY <2>2 DEF IsLast
    <3> QED
      BY <2>5, <3>1 DEF Reading
  <2>7. ASSUME NEW y, NEW k, Joined(x, m, y, k), Alive'
        PROVE  Expected(w, y, k)'
    <3>1. epc' # "killed"
      BY <2>7 DEF Alive
    <3>2. CASE /\ x.type \in {"file", "row"} /\ epc' \in {"first", "rows"}
               /\ ei' = ei /\ left' = m
      <4>1. y.query = x.query /\ y.type \in {"row", "-1"} /\ k = m
        BY <2>7, <3>2 DEF Joined, IsLast
      <4>2. Reading(w)'
        BY <1>6, <3>2 DEF Reading
      <4> QED
        BY <1>4, <2>3, <3>2, <4>1, <4>2 DEF Expected
    <3>3. CASE /\ x.type = "-1" /\ m # 1 /\ left' = m - 1
               /\ epc' = "file" /\ ei' = ei
      <4>1. y.query = x.query /\ y.type = "file" /\ k = m - 1
        BY <2>7, <3>3 DEF Joined, IsLast
      <4>2. Reading(w)'
        BY <1>6, <3>3 DEF Reading
      <4> QED
        BY <1>4, <2>3, <3>3, <4>1, <4>2 DEF Expected
    <3>4. CASE x.type = "-1" /\ m = 1 /\ epc' \in {"collect", "conclude"}
      <4>1. IsFirst(y, k, x.query + 1)
        BY <2>7, <3>4 DEF Joined, IsLast
      <4>2. ~ Reading(w)'
        BY <3>4 DEF Reading
      <4> QED
        BY <1>4, <2>3, <4>1, <4>2 DEF Expected
    <3> QED
      BY <2>5, <3>1, <3>2, <3>3, <3>4
  <2>8. epc \notin {"send"} /\ epc' # "send" /\ query' = query
    BY <1>1, <1>2
  <2> QED
    BY <1>3, <1>4, <2>2, <2>3, <2>6, <2>7, <2>8, TakenChain
<1> QED
  BY <1>5, <1>6

LEMMA FirstRowChain ==
  ASSUME Inv, NEW w \in Workers, FirstRow
  PROVE  Stage(w)' /\ Chain(w)'
<1>1. /\ Stage(w) /\ Chain(w)
      /\ epc \notin Starting /\ epc # "ready" => HasDirs(w)
  BY WorkerFacts
<1>2. /\ epc = "first" /\ epc' \in {"garbled", "rows"}
      /\ UNCHANGED <<e2w, w2e, sending, indexed, got, left, ei, query>>
  BY DEF FirstRow, queryVars, collectVars, workerVars
<1>3. HasDirs(w)
  BY <1>1, <1>2 DEF Starting
<1>4. Stage(w)'
  BY <1>2, <1>3, StageKept DEF Starting
<1>5. Unmoved(w)
  BY <1>2 DEF Unmoved
<1>6. SamePlace(w)
  BY <1>2 DEF SamePlace, Alive, Sent, Readied, Reading, StartLabels
<1> QED
  BY <1>1, <1>4, <1>5, <1>6, ChainKept

LEMMA ChainStep ==
  ASSUME Inv, Next, NEW w \in Workers
  PROVE  Stage(w)' /\ Chain(w)'
<1>1. CASE CrawlerStep \/ Leave
  BY <1>1, CrawlerChain
<1>2. CASE ExecutorStep
  BY <1>2, StartChain, AwaitReadyChain, QuietChain, SendChain, CollectChain,
     FilesChain, FirstRowChain DEF ExecutorStep
<1>3. CASE \E v \in Workers : WorkerStep(v)
  BY <1>3, WorkerOpensChain, WorkerCommandChain, WorkerWriteChain
     DEF WorkerStep
<1> QED
  BY <1>1, <1>2, <1>3 DEF Next

-----------------------------------------------------------------------------
(* The theorems.                                                           *)

LEMMA InitInv == Init => Inv
<1> SUFFICES ASSUME Init PROVE Inv
  OBVIOUS
<1> USE DEF Init
<1>1. TypeOK
  <2>1. 0 \in Workers
    BY WorkerNumbers
  <2>2. asker \in Seq(1..sessions) /\ c2e \in Seq(Items)
    OBVIOUS
  <2>3. inherited \in [number : Int, session : Nat]
    BY DEF NoSession
  <2>4. epc \in ExecutorLabels
    BY DEF ExecutorLabels, StartLabels
  <2>5. /\ e2w \in [Workers -> Seq(Items)] /\ w2e \in [Workers -> Seq(Items)]
        /\ sending \in [Workers -> Seq(Items)]
    OBVIOUS
  <2> QED
    BY <2>1, <2>2, <2>3, <2>4, <2>5 DEF TypeOK
<1>2. Len(asker) = 0 /\ MaxQueries \in Nat
  BY EmptySeq, SizesAssumption
<1>3. Bounds
  <2>1. Len(c2e) = 0
    BY EmptySeq
  <2> QED
    BY <1>2, <2>1 DEF Bounds
<1>4. Loops
  BY DEF Loops
<1>5. Commands
  <2>1. Len(c2e) = 0
    BY EmptySeq
  <2>2. Ordered(c2e)
    BY <2>1 DEF Ordered
  <2>3. Posted = 0
    BY <1>2 DEF Posted
  <2> QED
    BY <2>2, <2>3 DEF Commands, CommandNext, CommandLast
<1>6. LagIsMissedDeadlines
  BY DEF LagIsMissedDeadlines, Awaited
<1>7. ASSUME NEW w \in Workers PROVE Stage(w) /\ Chain(w)
  BY DEF Stage, Chain, HasNone, HasDirs, Starting
<1> QED
  BY <1>1, <1>3, <1>4, <1>5, <1>6, <1>7 DEF Inv

LEMMA NextInv == Inv /\ [Next]_vars => Inv'
<1> SUFFICES ASSUME Inv, [Next]_vars PROVE Inv'
  OBVIOUS
<1>1. CASE Next
  <2>1. \A w \in Workers : Stage(w)' /\ Chain(w)'
    BY <1>1, ChainStep
  <2> QED
    BY <1>1, <2>1, TypeStep, CommandsStep, LoopsStep, LagStep DEF Inv
<1>2. CASE UNCHANGED vars
  <2> USE <1>2 DEF vars
  <2>1. TypeOK'
    BY DEF Inv, TypeOK
  <2>2. Bounds' /\ Loops'
    BY DEF Inv, Bounds, Loops
  <2>3. Commands'
    BY DEF Inv, Commands, CommandNext, CommandLast, Posted, Alive
  <2>4. LagIsMissedDeadlines'
    BY DEF Inv, LagIsMissedDeadlines, Awaited
  <2>5. ASSUME NEW w \in Workers PROVE Stage(w)' /\ Chain(w)'
    <3>1. Unmoved(w)
      BY DEF Unmoved
    <3>2. SamePlace(w)
      BY DEF SamePlace, Alive, Sent, Readied, Reading
    <3>3. Stage(w)'
      BY WorkerFacts DEF Stage, HasNone, HasDirs
    <3> QED
      BY <3>1, <3>2, <3>3, WorkerFacts, ChainKept
  <2> QED
    BY <2>1, <2>2, <2>3, <2>4, <2>5 DEF Inv
<1> QED
  BY <1>1, <1>2

LEMMA SpecInv == Spec => []Inv
BY InitInv, NextInv, PTL DEF Spec

(* Every variable has its type: among others, the executor never reads     *)
(* past the files that an answer announces, and every directory number a   *)
(* worker indexes is one of the docfile (jobExecutor.c, parentMessages.c). *)
THEOREM TypeCorrect == Spec => []TypeOK
<1>1. Inv => TypeOK
  BY DEF Inv
<1> QED
  BY <1>1, SpecInv, PTL

(* The answer that is taken for a query belongs to a query as many before  *)
(* it as the worker has missed deadlines: no answer is lost, taken twice   *)
(* or taken for part of another, however many workers are late and however *)
(* full the pipes are (jobExecutor.c:276-303).                             *)
THEOREM AnswersLagByMissedDeadlines == Spec => []LagIsMissedDeadlines
<1>1. Inv => LagIsMissedDeadlines
  BY DEF Inv
<1> QED
  BY <1>1, SpecInv, PTL

LEMMA AllIndexed == Inv => EveryDirectoryIndexed
<1> SUFFICES ASSUME Inv, epc \notin StartLabels
             PROVE  /\ UNION {indexed[w] : w \in Workers} = 0..NoDirs - 1
                    /\ \A v, w \in Workers :
                         v # w => indexed[v] \cap indexed[w] = {}
  BY DEF EveryDirectoryIndexed
<1>1. \A w \in Workers : indexed[w] = DirSet(w)
  BY WorkerFacts DEF StartLabels, Starting, HasDirs
<1>2. NumWorkers \in Nat \ {0} /\ NoDirs \in Nat
  BY WorkerNumbers
<1>3. \A d \in 0..NoDirs - 1 : d % NumWorkers \in Workers
  <2> SUFFICES ASSUME NEW d \in 0..NoDirs - 1
               PROVE  d % NumWorkers \in Workers
    OBVIOUS
  <2>1. d \in Nat
    BY <1>2
  <2>2. d % NumWorkers \in 0..(NumWorkers - 1)
    BY <1>2, <2>1, Dealing
  <2> QED
    BY <2>2 DEF Workers
<1>4. ASSUME NEW d \in 0..NoDirs - 1
      PROVE  d \in UNION {indexed[w] : w \in Workers}
  <2>1. d \in DirSet(d % NumWorkers)
    BY DEF DirSet
  <2> QED
    BY <1>1, <1>3, <2>1
<1>5. \A w \in Workers : DirSet(w) \subseteq 0..NoDirs - 1
  BY DEF DirSet
<1>6. \A v, w \in Workers : v # w => indexed[v] \cap indexed[w] = {}
  BY <1>1 DEF DirSet
<1> QED
  BY <1>1, <1>4, <1>5, <1>6

(* Once the workers are ready every directory of the docfile is indexed,   *)
(* each by one worker, however many directories and workers there are and  *)
(* whether or not the one number divides the other                         *)
(* (parentMessages.c:19-42).                                               *)
THEOREM DirectoriesAreDealt == Spec => []EveryDirectoryIndexed
BY AllIndexed, SpecInv, PTL
=============================================================================
