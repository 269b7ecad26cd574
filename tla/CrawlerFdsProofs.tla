-------------------------- MODULE CrawlerFdsProofs --------------------------
(***************************************************************************)
(* Proofs about CrawlerFds for any pages, any finite pool of threads and   *)
(* any number of command sessions.                                         *)
(***************************************************************************)
EXTENDS CrawlerFds, DataLemmas

(* The number a thread still has in fd, and in fp; 0 when it will not use  *)
(* the variable any more.                                                  *)
FdOf(t) == IF pc[t] \in FdLabels THEN fd[t] ELSE 0
FpOf(t) == IF pc[t] \in FpLabels THEN fp[t] ELSE 0

(* What a thread's label says of its page and its numbers. *)
Labelled ==
  \A t \in Threads :
    /\ pc[t] \in FdLabels => page[t] \in Pages /\ fd[t] \in Numbers
    /\ pc[t] = "pick" => page[t] = None
    /\ pc[t] \in {"flush", "fclose"} => fp[t] # 0

(* What fputs holds back has a file to go to, or the process is gone. *)
Behind ==
  ~ exited => \A t \in Threads :
                buf[t] # <<>> => pc[t] \in FpLabels \ {"fclose"} /\ fp[t] # 0

(* Every number in use is in a variable that will still be used. *)
NotLost ==
  \A n \in Numbers :
    table[n] # Free =>
      n = fd_command \/ \E t \in Threads : n \in {FdOf(t), FpOf(t)}

Inv == TypeOK /\ Labelled /\ Behind /\ NotLost

-----------------------------------------------------------------------------
(* What a number may stand for. *)
LEMMA Kinds ==
  /\ \A p, q : /\ Socket(p) = Socket(q) <=> p = q
               /\ File(p) = File(q) <=> p = q
  /\ \A p, q : Socket(p) # File(q)
  /\ \A p : Socket(p) \notin {Free, Session} /\ File(p) \notin {Free, Session}
  /\ Free # Session
  /\ \A p : /\ Socket(p).kind = "socket" /\ Socket(p).page = p
            /\ File(p).kind = "file" /\ File(p).page = p
  /\ Free.kind = "free" /\ Session.kind = "session"
  /\ Free.page = None /\ Session.page = None
<1>1. \A p : /\ Socket(p).kind = "socket" /\ Socket(p).page = p
             /\ File(p).kind = "file" /\ File(p).page = p
  BY DEF Socket, File
<1>2. /\ Free.kind = "free" /\ Session.kind = "session"
      /\ Free.page = None /\ Session.page = None
  BY DEF Free, Session
<1> QED
  BY <1>1, <1>2

LEMMA KindOf ==
  ASSUME NEW x \in Objects
  PROVE  /\ x.kind \in {"free", "session", "socket", "file"}
         /\ x.kind = "free" <=> x = Free
         /\ x.kind = "session" <=> x = Session
         /\ x.kind = "socket" => x.page \in Pages /\ x = Socket(x.page)
         /\ x.kind = "file" => x.page \in Pages /\ x = File(x.page)
         /\ x.kind \in {"free", "session"} => x.page = None
BY Kinds DEF Objects

(* There is always a number for a thread or for a session: each thread     *)
(* uses at most two, and who opens one has none of that sort.              *)
LEMMA NumberSet ==
  /\ IsFiniteSet(Numbers) /\ Cardinality(Threads) \in Nat
  /\ Cardinality(Numbers) = 2 * Cardinality(Threads) + 1
  /\ Numbers \subseteq Nat /\ 0 \notin Numbers
  /\ \A n \in Numbers : 1 <= n /\ n <= 2 * Cardinality(Threads) + 1
<1>1. Cardinality(Threads) \in Nat
  BY BoundsAssumption, FS_CardinalityType
<1> DEFINE k == 2 * Cardinality(Threads) + 1
<1>2. k \in Nat /\ k >= 1 /\ Numbers = 1..k
  BY <1>1 DEF Numbers
<1> HIDE DEF k
<1>3. IsFiniteSet(1..k) /\ Cardinality(1..k) = k
  BY <1>2, FS_Interval
<1>4. /\ Numbers \subseteq Nat /\ 0 \notin Numbers
      /\ \A n \in Numbers : 1 <= n /\ n <= k
  BY <1>2
<1> QED
  BY <1>1, <1>2, <1>3, <1>4 DEF k

LEMMA Images ==
  ASSUME NEW f, DOMAIN f = Threads, f = [t \in Threads |-> f[t]]
  PROVE  /\ IsFiniteSet(Range(f)) /\ Cardinality(Range(f)) \in Nat
         /\ Cardinality(Range(f)) <= Cardinality(Threads)
<1>1. f \in Surjection(Threads, Range(f))
  BY DEF Surjection, Range
<1> QED
  BY <1>1, BoundsAssumption, FS_Surjection, FS_CardinalityType

LEMMA LowestIsFree ==
  ASSUME Inv, fd_command = 0 \/ \E t \in Threads : 0 \in {FdOf(t), FpOf(t)}
  PROVE  Lowest \in Numbers /\ table[Lowest] = Free
<1> DEFINE N == Cardinality(Threads)
           f == [t \in Threads |-> FdOf(t)]
           g == [t \in Threads |-> FpOf(t)]
           A == Range(f)
           B == Range(g)
           S == {n \in Numbers : table[n] = Free}
<1>1. /\ \A t \in Threads : f[t] = FdOf(t) /\ g[t] = FpOf(t)
      /\ DOMAIN f = Threads /\ DOMAIN g = Threads
      /\ f = [t \in Threads |-> f[t]] /\ g = [t \in Threads |-> g[t]]
  OBVIOUS
<1> HIDE DEF f, g
<1>2. \A t \in Threads : FdOf(t) \in A /\ FpOf(t) \in B
  BY <1>1 DEF Range
<1>3. /\ IsFiniteSet(A) /\ Cardinality(A) \in Nat /\ Cardinality(A) <= N
      /\ IsFiniteSet(B) /\ Cardinality(B) \in Nat /\ Cardinality(B) <= N
  BY <1>1, Images
<1> HIDE DEF A, B
<1>4. S # {}
  <2> SUFFICES ASSUME S = {} PROVE FALSE
    OBVIOUS
  <2> DEFINE C == A \cup B
             D == C \cup {fd_command}
  <2>1. IsFiniteSet(C) /\ Cardinality(C) <= 2 * N /\ Cardinality(C) \in Nat
    <3>1. /\ IsFiniteSet(C)
          /\ Cardinality(C) = Cardinality(A) + Cardinality(B)
                                - Cardinality(A \cap B)
      BY <1>3, FS_Union
    <3>2. Cardinality(A \cap B) \in Nat
      <4>1. IsFiniteSet(A \cap B)
        BY <1>3, FS_Subset
      <4> QED
        BY <4>1, FS_CardinalityType
    <3>3. N \in Nat
      BY NumberSet
    <3>4. Cardinality(C) \in Nat
      BY <3>1, FS_CardinalityType
    <3> QED
      BY <1>3, <3>1, <3>2, <3>3, <3>4
  <2> HIDE DEF C
  <2>2. /\ IsFiniteSet(D) /\ Cardinality(D) <= 2 * N + 1
        /\ Cardinality(D) \in Nat
    <3>1. IsFiniteSet(D) /\ Cardinality(D) <= Cardinality(C) + 1
      BY <2>1, FS_AddElement
    <3>2. Cardinality(D) \in Nat
      BY <3>1, FS_CardinalityType
    <3> QED
      BY <2>1, <3>1, <3>2, NumberSet
  <2>3. 0 \in D /\ Numbers \subseteq D
    BY <1>2 DEF C, Inv, NotLost
  <2> HIDE DEF D
  <2>4. IsFiniteSet(D \ {0}) /\ Cardinality(D \ {0}) = Cardinality(D) - 1
    BY <2>2, <2>3, FS_RemoveElement
  <2>5. Numbers \subseteq D \ {0}
    BY <2>3, NumberSet
  <2>6. Cardinality(Numbers) <= Cardinality(D \ {0})
    BY <2>4, <2>5, FS_Subset
  <2> QED
    BY <2>2, <2>4, <2>6, NumberSet
<1>5. S \in SUBSET Nat
  BY NumberSet
<1>6. \E n \in S : \A m \in S : n <= m
  BY <1>4, <1>5, LeastNumber
<1>7. Lowest \in S
  BY <1>6 DEF Lowest, Min
<1> QED
  BY <1>7

-----------------------------------------------------------------------------
(* What writing and reading do. *)

Connections ==
  [up : BOOLEAN, request : Pages \cup {None}, sent : 0..2, reset : BOOLEAN]

LEMMA PieceKinds ==
  ASSUME NEW p
  PROVE  /\ Piece("request", p).kind = "request" /\ Piece("request", p).page = p
         /\ Piece("header", p).kind = "header" /\ Piece("text", p).kind = "text"
         /\ Piece("error", p).kind = "error"
         /\ p \in Pages => \A k \in {"request", "header", "text", "error"} :
                             Piece(k, p) \in Pieces
BY DEF Piece, Pieces

LEMMA WriteEffect ==
  ASSUME Inv, NEW n \in Numbers, NEW pieces \in Seq(Pieces), Write(n, pieces)
  PROVE  /\ conn' \in [Pages -> Connections]
         /\ disk' \in [Pages -> Seq(Pieces)]
         /\ exited' \in BOOLEAN \/ exited' = exited
         /\ \A p \in Pages : table[n] # Socket(p) => conn'[p] = conn[p]
         /\ \A p \in Pages : table[n] # File(p) => disk'[p] = disk[p]
<1> DEFINE at == table[n]
<1>1. /\ at \in Objects /\ conn \in [Pages -> Connections]
      /\ disk \in [Pages -> Seq(Pieces)] /\ exited \in BOOLEAN
  BY DEF Inv, TypeOK, Connections
<1>2. CASE pieces = <<>> \/ at.kind \in {"free", "session"}
  <2>1. UNCHANGED <<conn, disk, exited>>
    BY <1>2 DEF Write
  <2> QED
    BY <1>1, <2>1
<1>3. CASE at.kind = "file" /\ pieces # <<>>
  <2>1. /\ disk' = [disk EXCEPT ![at.page] = disk[at.page] \o pieces]
        /\ UNCHANGED <<conn, exited>>
    BY <1>3 DEF Write
  <2>2. at.page \in Pages /\ at = File(at.page)
    BY <1>1, <1>3, KindOf
  <2>3. disk[at.page] \o pieces \in Seq(Pieces)
    BY <1>1, <2>2, ConcatProperties
  <2> HIDE DEF at
  <2>4. \A p \in Pages : at = File(p) <=> p = at.page
    BY <2>2, Kinds
  <2> QED
    BY <1>1, <2>1, <2>2, <2>3, <2>4 DEF at
<1>4. CASE at.kind = "socket" /\ pieces # <<>>
  <2> DEFINE s == at.page
             asks == Head(pieces).kind = "request" /\ conn[s].request = None
  <2>1. s \in Pages /\ at = Socket(s)
    BY <1>1, <1>4, KindOf
  <2>2. /\ conn' = IF asks THEN [conn EXCEPT ![s].request = Head(pieces).page]
                           ELSE [conn EXCEPT ![s].reset = TRUE]
        /\ exited' = ~conn[s].up /\ disk' = disk
    BY <1>4 DEF Write
  <2>3. Head(pieces).page \in Pages
    <3>1. Head(pieces) \in Pieces
      BY <1>4, HeadTailProperties
    <3> QED
      BY <3>1 DEF Pieces
  <2>4. \A p \in Pages : at = Socket(p) <=> p = s
    BY <2>1, Kinds
  <2>5. conn' \in [Pages -> Connections]
    <3>1. CASE asks
      <4>1. [conn[s] EXCEPT !.request = Head(pieces).page] \in Connections
        BY <1>1, <2>1, <2>3, ZenonT(60) DEF Connections
      <4>2. conn' = [conn EXCEPT ![s] =
                       [conn[s] EXCEPT !.request = Head(pieces).page]]
        BY <2>2, <3>1
      <4> QED
        BY <1>1, <2>1, <4>1, <4>2
    <3>2. CASE ~ asks
      <4>1. [conn[s] EXCEPT !.reset = TRUE] \in Connections
        BY <1>1, <2>1, ZenonT(60) DEF Connections
      <4>2. conn' = [conn EXCEPT ![s] = [conn[s] EXCEPT !.reset = TRUE]]
        BY <2>2, <3>2
      <4> QED
        BY <1>1, <2>1, <4>1, <4>2
    <3> QED
      BY <3>1, <3>2
  <2>6. \A p \in Pages : p # s => conn'[p] = conn[p]
    BY <1>1, <2>1, <2>2
  <2>7. exited' \in BOOLEAN
    BY <2>2
  <2> HIDE DEF s, asks, at
  <2> QED
    BY <1>1, <2>1, <2>2, <2>4, <2>5, <2>6, <2>7 DEF at
<1> QED
  BY <1>1, <1>2, <1>3, <1>4, KindOf

LEMMA ReadEffect ==
  ASSUME Inv, NEW t \in Threads, Arrived(t)
  PROVE  LET c == waits[t]
             r == conn[c].request
             k == conn[c].sent + 1
         IN  /\ c \in Pages /\ r \in Pages /\ k \in 1..Len(Response(r))
             /\ Got(t) = Response(r)[k] /\ Got(t) \in Pieces
             /\ conn' = [conn EXCEPT ![c].sent = k]
             /\ conn' \in [Pages -> Connections]
             /\ k \in {1, 2}
             /\ r \in Exists => Got(t) = IF k = 1 THEN Piece("header", r)
                                                  ELSE Piece("text", r)
             /\ r \notin Exists => k = 1 /\ Got(t) = Piece("error", r)
<1> DEFINE c == waits[t]
           r == conn[c].request
           k == conn[c].sent + 1
           R == Response(r)
<1>1. /\ conn \in [Pages -> Connections] /\ waits[t] \in Pages \cup {None}
  BY DEF Inv, TypeOK, Connections
<1>2. c \in Pages /\ Answered(c) # <<>> /\ conn' = [conn EXCEPT ![c].sent = k]
  BY <1>1 DEF Arrived
<1>3. r \in Pages /\ k \in 1..3
  BY <1>1, <1>2 DEF Answered, Connections
<1>4. Answered(c) = SubSeq(R, k, Len(R))
  BY <1>2 DEF Answered
<1>5. /\ R \in Seq(Pieces) /\ Len(R) \in {1, 2}
      /\ r \in Exists => Len(R) = 2 /\ R[1] = Piece("header", r)
                                    /\ R[2] = Piece("text", r)
      /\ r \notin Exists => Len(R) = 1 /\ R[1] = Piece("error", r)
  BY <1>3, PieceKinds DEF Response
<1> HIDE DEF c, r, k, R
<1>6. k \in 1..Len(R)
  <2>1. k > Len(R) => SubSeq(R, k, Len(R)) = <<>>
    BY <1>3, <1>5, SubSeqEmpty
  <2> QED
    BY <1>2, <1>3, <1>4, <1>5, <2>1
<1>7. Head(Answered(c)) = R[k]
  BY <1>4, <1>5, <1>6, HeadTailOfSubSeq
<1>8. Got(t) = R[k]
  BY <1>7 DEF Got, c
<1>9. R[k] \in Pieces
  BY <1>5, <1>6, ElementOfSeq
<1>10. k \in {1, 2} /\ (r \notin Exists => k = 1)
  <2>1. r \in Exists => k \in 1..2
    BY <1>5, <1>6
  <2>2. r \notin Exists => k \in 1..1
    BY <1>5, <1>6
  <2> QED
    BY <2>1, <2>2
<1>11. conn' \in [Pages -> Connections]
  BY <1>1, <1>2, <1>10 DEF Connections
<1> QED
  BY <1>2, <1>3, <1>5, <1>6, <1>8, <1>9, <1>10, <1>11 DEF c, r, k, R

-----------------------------------------------------------------------------
(* The variables keep their types, and no number is lost.                  *)

OwnLabels == FdLabels \ {"close2"}

Quiet(t) ==
  \/ Connect(t) \/ Get(t) \/ CallRead(t) \/ ReadError(t) \/ ReadNoStatus(t)
  \/ ReadData(t) \/ Flush(t) \/ ReadEnd(t) \/ FlushLast(t)

(* Most steps of a thread leave alone which numbers are in use and who has *)
(* them.                                                                   *)
LEMMA QuietMoves ==
  ASSUME Inv, NEW t \in Threads, Quiet(t)
  PROVE  /\ UNCHANGED <<table, left, page, fd, mainVars, exposed>>
         /\ ~ exited /\ pc' = [pc EXCEPT ![t] = pc'[t]]
         /\ pc[t] \in OwnLabels /\ pc'[t] \in FdLabels
         /\ fp' = fp \/ (Get(t) /\ fp' = [fp EXCEPT ![t] = 0])
         /\ \A u \in Threads : FdOf(u)' = FdOf(u) /\ FpOf(u)' = FpOf(u)
<1> USE DEF FdLabels, FpLabels, Goto, OwnLabels
<1>1. /\ pc \in [Threads -> FdLabels \cup {"pick"}]
      /\ fp \in [Threads -> Numbers \cup {0}]
  BY DEF Inv, TypeOK
<1>2. /\ UNCHANGED <<table, left, page, fd, mainVars, exposed>>
      /\ ~ exited /\ pc' = [pc EXCEPT ![t] = pc'[t]]
      /\ pc[t] \in OwnLabels /\ pc'[t] \in FdLabels
  BY <1>1
  DEF Quiet, Connect, Get, CallRead, ReadError, ReadNoStatus, ReadData, Flush,
      ReadEnd, FlushLast, AfterEnd, AfterError, readVars, mainVars
<1>3. fp' = fp \/ (Get(t) /\ fp' = [fp EXCEPT ![t] = 0])
  BY DEF Quiet, Connect, Get, CallRead, ReadError, ReadNoStatus, ReadData,
         Flush, ReadEnd, FlushLast, NullFp, readVars
<1>4. \A u \in Threads : FdOf(u)' = FdOf(u)
  BY <1>1, <1>2 DEF FdOf
<1>5. CASE Get(t)
  BY <1>1, <1>2, <1>4, <1>5 DEF Get, NullFp, FpOf
<1>6. CASE ~ Get(t)
  <2>1. fp' = fp
    BY <1>3, <1>6
  <2>2. pc[t] \in FpLabels /\ pc'[t] \notin FpLabels => fp[t] = 0
    BY <1>1, <1>6
    DEF Quiet, Connect, CallRead, ReadError, ReadNoStatus, ReadData, Flush,
        ReadEnd, FlushLast, AfterEnd, AfterError, Inv, TypeOK
  <2>3. pc'[t] \in FpLabels => pc[t] \in FpLabels
    BY <1>1, <1>6
    DEF Quiet, Connect, CallRead, ReadError, ReadNoStatus, ReadData, Flush,
        ReadEnd, FlushLast, AfterEnd, AfterError
  <2> HIDE DEF FpLabels
  <2>4. \A u \in Threads \ {t} : pc'[u] = pc[u]
    BY <1>1, <1>2
  <2> QED
    BY <1>2, <1>4, <2>1, <2>2, <2>3, <2>4 DEF FpOf
<1> QED
  BY <1>2, <1>3, <1>4, <1>5, <1>6

(* What the other steps do to them. *)
LEMMA OpenMoves ==
  ASSUME Inv, NEW t \in Threads, OpenSocket(t)
  PROVE  /\ Lowest \in Numbers /\ table[Lowest] = Free
         /\ ~ exited /\ page'[t] \in left /\ left' = left \ {page'[t]}
         /\ page' = [page EXCEPT ![t] = page'[t]] /\ page[t] = None
         /\ table' = [table EXCEPT ![Lowest] = Socket(page'[t])]
         /\ fd' = [fd EXCEPT ![t] = Lowest]
         /\ pc[t] = "pick" /\ pc' = [pc EXCEPT ![t] = "connect"]
         /\ Expose(t, page'[t])
         /\ UNCHANGED <<conn, disk, readVars, mainVars, exited>>
         /\ FdOf(t) = 0 /\ FpOf(t) = 0 /\ FdOf(t)' = Lowest /\ FpOf(t)' = 0
         /\ \A u \in Threads \ {t} :
              FdOf(u)' = FdOf(u) /\ FpOf(u)' = FpOf(u)
<1>1. /\ pc \in [Threads -> FdLabels \cup {"pick"}]
      /\ page \in [Threads -> Pages \cup {None}]
      /\ fd \in [Threads -> Numbers \cup {0}]
  BY DEF Inv, TypeOK
<1>2. PICK p \in left : /\ left' = left \ {p} /\ page' = [page EXCEPT ![t] = p]
                        /\ Open(Socket(p)) /\ Expose(t, p)
  BY DEF OpenSocket
<1>3. /\ pc[t] = "pick" /\ pc' = [pc EXCEPT ![t] = "connect"] /\ ~ exited
      /\ fd' = [fd EXCEPT ![t] = Lowest]
      /\ UNCHANGED <<conn, disk, readVars, mainVars, exited>>
  BY DEF OpenSocket, Goto
<1>4. FdOf(t) = 0 /\ FpOf(t) = 0
  BY <1>3 DEF FdOf, FpOf, FdLabels, FpLabels
<1>5. Lowest \in Numbers /\ table[Lowest] = Free
  BY <1>4, LowestIsFree
<1>6. page'[t] = p /\ page[t] = None
  BY <1>1, <1>2, <1>3 DEF Inv, Labelled
<1>7. FdOf(t)' = Lowest /\ FpOf(t)' = 0
  BY <1>1, <1>3 DEF FdOf, FpOf, FdLabels, FpLabels
<1>8. \A u \in Threads \ {t} : FdOf(u)' = FdOf(u) /\ FpOf(u)' = FpOf(u)
  BY <1>1, <1>3 DEF FdOf, FpOf, readVars
<1> QED
  BY <1>2, <1>3, <1>4, <1>5, <1>6, <1>7, <1>8 DEF Open

LEMMA HeaderMoves ==
  ASSUME Inv, NEW t \in Threads, ReadHeader(t)
  PROVE  /\ Lowest \in Numbers /\ table[Lowest] = Free /\ ~ exited
         /\ page[t] \in Pages
         /\ table' = [table EXCEPT ![Lowest] = File(page[t])]
         /\ fp[t] = 0 /\ fp' = [fp EXCEPT ![t] = Lowest]
         /\ pc[t] = "wait" /\ pc' = [pc EXCEPT ![t] = "read"]
         /\ chunk' = [chunk EXCEPT ![t] = TRUE] /\ ~ chunk[t]
         /\ disk' = [disk EXCEPT ![page[t]] = <<>>]
         /\ Expose(t, page[t])
         /\ UNCHANGED <<left, page, fd, buf, waits, mainVars, exited>>
         /\ FpOf(t) = 0 /\ FpOf(t)' = Lowest
         /\ \A u \in Threads : FdOf(u)' = FdOf(u)
         /\ \A u \in Threads \ {t} : FpOf(u)' = FpOf(u)
<1>1. /\ pc \in [Threads -> FdLabels \cup {"pick"}]
      /\ fp \in [Threads -> Numbers \cup {0}]
  BY DEF Inv, TypeOK
<1>2. /\ pc[t] = "wait" /\ pc' = [pc EXCEPT ![t] = "read"] /\ ~ exited
      /\ ~ chunk[t] /\ fp' = [fp EXCEPT ![t] = Lowest]
      /\ UNCHANGED <<left, page, fd, buf, waits, mainVars, exited>>
  BY DEF ReadHeader, Goto
<1>3. fp[t] = 0 /\ FpOf(t) = 0
  BY <1>2 DEF Inv, TypeOK, FpOf, FpLabels
<1>4. Lowest \in Numbers /\ table[Lowest] = Free
  BY <1>3, LowestIsFree
<1>5. page[t] \in Pages
  BY <1>2 DEF Inv, Labelled, FdLabels, FpLabels
<1>6. FpOf(t)' = Lowest
  BY <1>1, <1>2 DEF FpOf, FpLabels
<1>7. \A u \in Threads : FdOf(u)' = FdOf(u)
  BY <1>1, <1>2 DEF FdOf, FdLabels, FpLabels
<1>8. \A u \in Threads \ {t} : FpOf(u)' = FpOf(u)
  BY <1>1, <1>2 DEF FpOf
<1> QED
  BY <1>2, <1>3, <1>4, <1>5, <1>6, <1>7, <1>8 DEF Open, ReadHeader

Closes(t) == CloseFile(t) \/ CloseFirst(t) \/ CloseAgain(t)

LEMMA CloseMoves ==
  ASSUME Inv, NEW t \in Threads, Closes(t)
  PROVE  \E n \in Numbers \cup {0} :
           /\ table' = [table EXCEPT ![n] = Free] /\ ~ exited
           /\ UNCHANGED <<conn, disk, left, fd, readVars, mainVars, exited,
                          exposed>>
           /\ \/ /\ CloseFile(t) /\ n = FpOf(t) /\ FpOf(t)' = 0
                 /\ FdOf(t)' = FdOf(t) /\ pc[t] = "fclose" /\ page' = page
                 /\ pc' = [pc EXCEPT ![t] = "close1"]
              \/ /\ CloseFirst(t) /\ n = FdOf(t) /\ FpOf(t)' = FpOf(t)
                 /\ FdOf(t)' = FdOf(t) /\ pc[t] = "close1" /\ page' = page
                 /\ pc' = [pc EXCEPT ![t] = "close2"]
              \/ /\ CloseAgain(t) /\ n = FdOf(t) /\ FpOf(t)' = FpOf(t)
                 /\ FdOf(t)' = 0 /\ pc[t] = "close2"
                 /\ page' = [page EXCEPT ![t] = None]
                 /\ pc' = [pc EXCEPT ![t] = "pick"]
           /\ \A u \in Threads \ {t} :
                FdOf(u)' = FdOf(u) /\ FpOf(u)' = FpOf(u)
<1> USE DEF FdLabels, FpLabels, Goto, Close
<1>1. /\ pc \in [Threads -> FdLabels \cup {"pick"}]
      /\ fp \in [Threads -> Numbers \cup {0}]
      /\ fd \in [Threads -> Numbers \cup {0}]
  BY DEF Inv, TypeOK
<1>2. CASE CloseFile(t)
  <2>1. /\ UNCHANGED <<conn, disk, left, page, fd, readVars, mainVars, exited,
                       exposed>>
        /\ ~ exited /\ pc[t] = "fclose" /\ pc' = [pc EXCEPT ![t] = "close1"]
        /\ table' = [table EXCEPT ![fp[t]] = Free]
    BY <1>2 DEF CloseFile
  <2>2. FpOf(t) = fp[t] /\ FpOf(t)' = 0 /\ FdOf(t)' = FdOf(t)
    BY <1>1, <2>1 DEF FpOf, FdOf
  <2>3. \A u \in Threads \ {t} : FdOf(u)' = FdOf(u) /\ FpOf(u)' = FpOf(u)
    BY <1>1, <2>1 DEF FpOf, FdOf, readVars
  <2> QED
    BY <1>1, <1>2, <2>1, <2>2, <2>3
<1>3. CASE CloseFirst(t)
  <2>1. /\ UNCHANGED <<conn, disk, left, page, fd, readVars, mainVars, exited,
                       exposed>>
        /\ ~ exited /\ pc[t] = "close1" /\ pc' = [pc EXCEPT ![t] = "close2"]
        /\ table' = [table EXCEPT ![fd[t]] = Free]
    BY <1>3 DEF CloseFirst, FirstClosed
  <2>2. FdOf(t) = fd[t] /\ FpOf(t)' = FpOf(t) /\ FdOf(t)' = FdOf(t)
    BY <1>1, <2>1 DEF FpOf, FdOf
  <2>3. \A u \in Threads \ {t} : FdOf(u)' = FdOf(u) /\ FpOf(u)' = FpOf(u)
    BY <1>1, <2>1 DEF FpOf, FdOf, readVars
  <2> QED
    BY <1>1, <1>3, <2>1, <2>2, <2>3
<1>4. CASE CloseAgain(t)
  <2>1. /\ UNCHANGED <<conn, disk, left, fd, readVars, mainVars, exited,
                       exposed>>
        /\ ~ exited /\ pc[t] = "close2" /\ pc' = [pc EXCEPT ![t] = "pick"]
        /\ table' = [table EXCEPT ![fd[t]] = Free]
        /\ page' = [page EXCEPT ![t] = None]
    BY <1>4 DEF CloseAgain
  <2>2. FdOf(t) = fd[t] /\ FpOf(t)' = FpOf(t) /\ FdOf(t)' = 0
    BY <1>1, <2>1 DEF FpOf, FdOf
  <2>3. \A u \in Threads \ {t} : FdOf(u)' = FdOf(u) /\ FpOf(u)' = FpOf(u)
    BY <1>1, <2>1 DEF FpOf, FdOf, readVars
  <2> QED
    BY <1>1, <1>4, <2>1, <2>2, <2>3
<1> QED
  BY <1>2, <1>3, <1>4 DEF Closes

LEMMA QuietInv == ASSUME Inv, NEW t \in Threads, Quiet(t) PROVE Inv'
<1> USE DEF Inv
<1>1. /\ UNCHANGED <<table, left, page, fd, mainVars, exposed>>
      /\ ~ exited /\ pc' = [pc EXCEPT ![t] = pc'[t]]
      /\ pc[t] \in OwnLabels /\ pc'[t] \in FdLabels
      /\ fp' = fp \/ (Get(t) /\ fp' = [fp EXCEPT ![t] = 0])
      /\ \A u \in Threads : FdOf(u)' = FdOf(u) /\ FpOf(u)' = FpOf(u)
  BY QuietMoves
<1>2. /\ table \in [Numbers -> Objects] /\ conn \in [Pages -> Connections]
      /\ disk \in [Pages -> Seq(Pieces)]
      /\ pc \in [Threads -> FdLabels \cup {"pick"}]
      /\ page \in [Threads -> Pages \cup {None}]
      /\ fd \in [Threads -> Numbers \cup {0}]
      /\ fp \in [Threads -> Numbers \cup {0}]
      /\ buf \in [Threads -> Seq(Pieces)] /\ chunk \in [Threads -> BOOLEAN]
      /\ waits \in [Threads -> Pages \cup {None}]
  BY DEF TypeOK, Connections
<1>3. page[t] \in Pages /\ fd[t] \in Numbers
  BY <1>1 DEF Labelled, OwnLabels
<1>4. \A u \in Threads \ {t} :
        pc'[u] = pc[u] /\ fp'[u] = fp[u] /\ fd'[u] = fd[u]
  BY <1>1, <1>2
<1>5. NotLost'
  BY <1>1 DEF NotLost, mainVars
<1>6. Labelled'
  <2>1. pc'[t] \in {"flush", "fclose"} => fp'[t] # 0
    BY <1>1, <1>2
    DEF Quiet, Connect, Get, CallRead, ReadError, ReadNoStatus, ReadData,
        Flush, ReadEnd, FlushLast, AfterEnd, AfterError, Goto, Labelled
  <2>2. pc'[t] # "pick"
    BY <1>1 DEF FdLabels, FpLabels
  <2> QED
    BY <1>1, <1>2, <1>3, <1>4, <2>1, <2>2 DEF Labelled
<1>7. /\ conn' \in [Pages -> Connections] /\ disk' \in [Pages -> Seq(Pieces)]
      /\ exited' \in BOOLEAN
      /\ buf' \in [Threads -> Seq(Pieces)] /\ chunk' \in [Threads -> BOOLEAN]
      /\ waits' \in [Threads -> Pages \cup {None}]
      /\ pc'[t] \in FpLabels /\ fp'[t] # 0 => chunk'[t]
      /\ \A u \in Threads \ {t} : chunk'[u] = chunk[u] /\ buf'[u] = buf[u]
      /\ ~ exited' /\ buf'[t] # <<>>
           => pc'[t] \in FpLabels \ {"fclose"} /\ fp'[t] # 0
  <2> USE DEF Goto
  <2>1. CASE Connect(t)
    <3> DEFINE at == table[fd[t]]
               fresh == at.kind = "socket" /\ ~ conn[at.page].up
    <3>1. /\ exited' = ~ fresh
          /\ conn' = IF fresh THEN [conn EXCEPT ![at.page].up = TRUE] ELSE conn
          /\ pc[t] = "connect" /\ pc'[t] = "get"
          /\ UNCHANGED <<disk, readVars>>
      BY <1>2, <2>1 DEF Connect
    <3>2. fresh => at.page \in Pages
      BY <1>2, <1>3, KindOf
    <3> HIDE DEF at, fresh
    <3>3. conn' \in [Pages -> Connections]
      BY <1>2, <3>1, <3>2, ZenonT(60) DEF Connections
    <3>4. buf[t] = <<>>
      BY <1>1, <3>1 DEF Behind, FpLabels
    <3> QED
      BY <1>2, <3>1, <3>3, <3>4 DEF readVars, FpLabels, fresh
  <2>2. CASE Get(t)
    <3>1. /\ Write(fd[t], <<Piece("request", page[t])>>) /\ pc[t] = "get"
          /\ fp' = [fp EXCEPT ![t] = 0]
          /\ chunk' = [chunk EXCEPT ![t] = FALSE] /\ UNCHANGED <<buf, waits>>
      BY <2>2 DEF Get, NullFp
    <3>2. <<Piece("request", page[t])>> \in Seq(Pieces)
      BY <1>3, PieceKinds
    <3>3. /\ conn' \in [Pages -> Connections]
          /\ disk' \in [Pages -> Seq(Pieces)]
          /\ exited' \in BOOLEAN
      BY <1>3, <3>1, <3>2, WriteEffect DEF TypeOK
    <3>4. buf[t] = <<>>
      BY <1>1, <3>1 DEF Behind, FpLabels
    <3> QED
      BY <1>2, <3>1, <3>3, <3>4
  <2>3. CASE CallRead(t)
    <3>1. /\ pc[t] = "read" /\ fp' = fp
          /\ pc'[t] = "wait" \/ (fp[t] # 0 /\ pc'[t] = "flush")
               \/ (fp[t] = 0 /\ pc'[t] = "close1")
          /\ waits' = [waits EXCEPT ![t] = table[fd[t]].page]
          /\ UNCHANGED <<conn, disk, buf, chunk, exited>>
      BY <1>2, <2>3 DEF CallRead, AfterEnd
    <3>2. table[fd[t]].page \in Pages \cup {None}
      BY <1>2, <1>3, KindOf
    <3> QED
      BY <1>1, <1>2, <3>1, <3>2 DEF FpLabels, TypeOK, Behind
  <2>4. CASE ReadError(t) \/ ReadNoStatus(t)
    <3>1. /\ Arrived(t) /\ ~ chunk[t] /\ pc[t] = "wait"
          /\ pc'[t] = "close2" \/ pc'[t] = "read"
          /\ chunk' = chunk \/ chunk' = [chunk EXCEPT ![t] = TRUE]
          /\ UNCHANGED <<disk, buf, fp, waits, exited>>
      BY <1>2, <2>4 DEF ReadError, ReadNoStatus, AfterError, readVars
    <3>2. conn' \in [Pages -> Connections]
      BY <3>1, ReadEffect
    <3>3. fp[t] = 0 /\ buf[t] = <<>>
      BY <1>1, <3>1 DEF TypeOK, Behind, FpLabels
    <3> QED
      BY <1>2, <3>1, <3>2, <3>3 DEF TypeOK
  <2>5. CASE ReadData(t)
    <3>1. /\ Arrived(t) /\ chunk[t] /\ pc[t] = "wait" /\ pc'[t] = "read"
          /\ buf' = [buf EXCEPT ![t] = Append(buf[t], Got(t))]
          /\ exited' = (fp[t] = 0)
          /\ UNCHANGED <<disk, fp, waits, chunk>>
      BY <1>2, <2>5 DEF ReadData
    <3>2. conn' \in [Pages -> Connections] /\ Got(t) \in Pieces
      BY <3>1, ReadEffect
    <3>3. Append(buf[t], Got(t)) \in Seq(Pieces)
      BY <1>2, <3>2, AppendProperties
    <3> QED
      BY <1>2, <3>1, <3>2, <3>3 DEF FpLabels
  <2>6. CASE Flush(t) \/ FlushLast(t)
    <3>1. /\ Write(fp[t], buf[t]) /\ buf' = [buf EXCEPT ![t] = <<>>]
          /\ pc'[t] = "read" \/ pc'[t] = "fclose"
          /\ pc[t] \in {"read", "flush"} /\ UNCHANGED <<fp, waits, chunk>>
          /\ buf[t] # <<>> \/ pc[t] = "flush"
      BY <1>2, <2>6 DEF Flush, FlushLast
    <3>2. fp[t] \in Numbers
      BY <1>1, <1>2, <3>1 DEF Behind, Labelled
    <3>3. /\ conn' \in [Pages -> Connections]
          /\ disk' \in [Pages -> Seq(Pieces)]
          /\ exited' \in BOOLEAN
      BY <1>2, <3>1, <3>2, WriteEffect DEF TypeOK
    <3>4. <<>> \in Seq(Pieces)
      OBVIOUS
    <3> QED
      BY <1>2, <3>1, <3>3, <3>4 DEF TypeOK, FpLabels
  <2>7. CASE ReadEnd(t)
    <3>1. /\ pc[t] = "wait" /\ UNCHANGED <<conn, disk, readVars, exited>>
          /\ (fp[t] # 0 /\ pc'[t] = "flush") \/ (fp[t] = 0 /\ pc'[t] = "close1")
      BY <1>2, <2>7 DEF ReadEnd, AfterEnd
    <3> QED
      BY <1>1, <1>2, <3>1 DEF FpLabels, TypeOK, Behind, readVars
  <2> QED
    BY <2>1, <2>2, <2>3, <2>4, <2>5, <2>6, <2>7 DEF Quiet
<1>8. TypeOK'
  <2>1. pc' \in [Threads -> FdLabels \cup {"pick"}]
    BY <1>1, <1>2
  <2>2. fp' \in [Threads -> Numbers \cup {0}]
    BY <1>1, <1>2
  <2>3. \A u \in Threads : pc'[u] \in FpLabels /\ fp'[u] # 0 => chunk'[u]
    BY <1>4, <1>7 DEF TypeOK
  <2> QED
    BY <1>1, <1>7, <2>1, <2>2, <2>3 DEF TypeOK, Connections, mainVars
<1>9. Behind'
  BY <1>1, <1>4, <1>7 DEF Behind
<1> QED
  BY <1>5, <1>6, <1>8, <1>9

LEMMA TypesOf ==
  TypeOK => /\ table \in [Numbers -> Objects] /\ conn \in [Pages -> Connections]
            /\ disk \in [Pages -> Seq(Pieces)]
            /\ pc \in [Threads -> FdLabels \cup {"pick"}]
            /\ page \in [Threads -> Pages \cup {None}]
            /\ fd \in [Threads -> Numbers \cup {0}]
            /\ fp \in [Threads -> Numbers \cup {0}]
            /\ buf \in [Threads -> Seq(Pieces)]
            /\ left \subseteq Pages /\ exposed \subseteq Pages
            /\ 0 \notin Numbers /\ None \notin Pages
BY NumberSet, PagesAssumption DEF TypeOK, Connections

LEMMA OpenInv == ASSUME Inv, NEW t \in Threads, OpenSocket(t) PROVE Inv'
<1> USE DEF Inv
<1> DEFINE p == page'[t]
<1>1. /\ Lowest \in Numbers /\ table[Lowest] = Free
      /\ ~ exited /\ p \in left /\ left' = left \ {p}
      /\ page' = [page EXCEPT ![t] = p] /\ page[t] = None
      /\ table' = [table EXCEPT ![Lowest] = Socket(p)]
      /\ fd' = [fd EXCEPT ![t] = Lowest]
      /\ pc[t] = "pick" /\ pc' = [pc EXCEPT ![t] = "connect"]
      /\ Expose(t, p)
      /\ UNCHANGED <<conn, disk, readVars, mainVars, exited>>
      /\ FdOf(t) = 0 /\ FpOf(t) = 0 /\ FdOf(t)' = Lowest /\ FpOf(t)' = 0
      /\ \A u \in Threads \ {t} : FdOf(u)' = FdOf(u) /\ FpOf(u)' = FpOf(u)
  BY OpenMoves
<1> HIDE DEF p
<1>2. TypeOK /\ p \in Pages /\ Socket(p) \in Objects
  BY <1>1, TypesOf DEF Objects
<1>3. "connect" \in FdLabels \ FpLabels
  BY DEF FdLabels, FpLabels
<1>4. TypeOK'
  <2>1. /\ table' \in [Numbers -> Objects]
        /\ pc' \in [Threads -> FdLabels \cup {"pick"}]
        /\ page' \in [Threads -> Pages \cup {None}]
        /\ fd' \in [Threads -> Numbers \cup {0}]
        /\ left' \subseteq Pages
    BY <1>1, <1>2, <1>3, TypesOf
  <2>2. exposed' \subseteq Pages
    BY <1>1, <1>2, TypesOf DEF Expose
  <2>3. \A u \in Threads : pc'[u] \in FpLabels /\ fp'[u] # 0 => chunk'[u]
    BY <1>1, <1>2, <1>3 DEF readVars, TypeOK
  <2> QED
    BY <1>1, <1>2, <2>1, <2>2, <2>3 DEF TypeOK, readVars, mainVars
<1>5. Labelled'
  BY <1>1, <1>2, <1>3, TypesOf DEF Labelled, readVars
<1>6. Behind'
  BY <1>1, <1>2, <1>3, TypesOf DEF Behind, readVars, FpLabels
<1>7. NotLost'
  <2> SUFFICES ASSUME NEW n \in Numbers, table'[n] # Free
               PROVE  \/ n = fd_command'
                      \/ \E u \in Threads : n \in {FdOf(u)', FpOf(u)'}
    BY DEF NotLost
  <2>1. CASE n = Lowest
    BY <1>1, <2>1
  <2>2. CASE n # Lowest
    <3>1. table[n] # Free
      BY <1>1, <1>2, <2>2, TypesOf
    <3> QED
      BY <1>1, <3>1, TypesOf, <1>2 DEF NotLost, mainVars
  <2> QED
    BY <2>1, <2>2
<1> QED
  BY <1>4, <1>5, <1>6, <1>7

LEMMA HeaderInv == ASSUME Inv, NEW t \in Threads, ReadHeader(t) PROVE Inv'
<1> USE DEF Inv
<1>1. /\ Lowest \in Numbers /\ table[Lowest] = Free /\ ~ exited
      /\ page[t] \in Pages
      /\ table' = [table EXCEPT ![Lowest] = File(page[t])]
      /\ fp[t] = 0 /\ fp' = [fp EXCEPT ![t] = Lowest]
      /\ pc[t] = "wait" /\ pc' = [pc EXCEPT ![t] = "read"]
      /\ chunk' = [chunk EXCEPT ![t] = TRUE] /\ ~ chunk[t]
      /\ disk' = [disk EXCEPT ![page[t]] = <<>>]
      /\ Expose(t, page[t])
      /\ UNCHANGED <<left, page, fd, buf, waits, mainVars, exited>>
      /\ FpOf(t) = 0 /\ FpOf(t)' = Lowest
      /\ \A u \in Threads : FdOf(u)' = FdOf(u)
      /\ \A u \in Threads \ {t} : FpOf(u)' = FpOf(u)
  BY HeaderMoves
<1>2. TypeOK /\ File(page[t]) \in Objects /\ <<>> \in Seq(Pieces)
  BY <1>1, TypesOf DEF Objects
<1>3. /\ "wait" \in FpLabels /\ "read" \in FpLabels /\ "read" \in FdLabels
      /\ "wait" \in FdLabels /\ "pick" \notin FpLabels
  BY DEF FdLabels, FpLabels
<1>4. conn' \in [Pages -> Connections]
  BY ReadEffect DEF ReadHeader
<1>5. TypeOK'
  <2>1. /\ table' \in [Numbers -> Objects]
        /\ disk' \in [Pages -> Seq(Pieces)]
        /\ pc' \in [Threads -> FdLabels \cup {"pick"}]
        /\ fp' \in [Threads -> Numbers \cup {0}]
        /\ chunk' \in [Threads -> BOOLEAN]
    BY <1>1, <1>2, <1>3, TypesOf DEF TypeOK
  <2>2. exposed' \subseteq Pages
    BY <1>1, <1>2, TypesOf DEF Expose
  <2>3. \A u \in Threads : pc'[u] \in FpLabels /\ fp'[u] # 0 => chunk'[u]
    BY <1>1, <1>2, <1>3 DEF TypeOK
  <2> QED
    BY <1>1, <1>2, <1>4, <2>1, <2>2, <2>3 DEF TypeOK, mainVars, Connections
<1>6. Labelled'
  BY <1>1, <1>2, <1>3, TypesOf DEF Labelled
<1>7. Behind'
  BY <1>1, <1>2, <1>3, TypesOf DEF Behind
<1>8. NotLost'
  <2> SUFFICES ASSUME NEW n \in Numbers, table'[n] # Free
               PROVE  \/ n = fd_command'
                      \/ \E u \in Threads : n \in {FdOf(u)', FpOf(u)'}
    BY DEF NotLost
  <2>1. CASE n = Lowest
    BY <1>1, <2>1
  <2>2. CASE n # Lowest
    <3>1. table[n] # Free
      BY <1>1, <1>2, <2>2, TypesOf
    <3> QED
      BY <1>1, <3>1, TypesOf, <1>2 DEF NotLost, mainVars
  <2> QED
    BY <2>1, <2>2
<1> QED
  BY <1>5, <1>6, <1>7, <1>8

LEMMA CloseInv == ASSUME Inv, NEW t \in Threads, Closes(t) PROVE Inv'
<1> USE DEF Inv
<1>1. PICK n \in Numbers \cup {0} :
        /\ table' = [table EXCEPT ![n] = Free] /\ ~ exited
        /\ UNCHANGED <<conn, disk, left, fd, readVars, mainVars, exited,
                       exposed>>
        /\ \/ /\ CloseFile(t) /\ n = FpOf(t) /\ FpOf(t)' = 0
              /\ FdOf(t)' = FdOf(t) /\ pc[t] = "fclose" /\ page' = page
              /\ pc' = [pc EXCEPT ![t] = "close1"]
           \/ /\ CloseFirst(t) /\ n = FdOf(t) /\ FpOf(t)' = FpOf(t)
              /\ FdOf(t)' = FdOf(t) /\ pc[t] = "close1" /\ page' = page
              /\ pc' = [pc EXCEPT ![t] = "close2"]
           \/ /\ CloseAgain(t) /\ n = FdOf(t) /\ FpOf(t)' = FpOf(t)
              /\ FdOf(t)' = 0 /\ pc[t] = "close2"
              /\ page' = [page EXCEPT ![t] = None]
              /\ pc' = [pc EXCEPT ![t] = "pick"]
        /\ \A u \in Threads \ {t} : FdOf(u)' = FdOf(u) /\ FpOf(u)' = FpOf(u)
  BY CloseMoves
<1>2. TypeOK /\ Free \in Objects
  BY DEF Objects
<1>3. /\ \A l \in {"close1", "close2"} : l \in FdLabels /\ l \notin FpLabels
      /\ "pick" \notin FdLabels /\ "pick" \notin FpLabels
  BY DEF FdLabels, FpLabels
<1>4. /\ pc' = [pc EXCEPT ![t] = pc'[t]]
      /\ pc'[t] \in {"close1", "close2", "pick"}
      /\ page' = [page EXCEPT ![t] = page'[t]]
      /\ page'[t] = IF pc'[t] = "pick" THEN None ELSE page[t]
      /\ pc[t] \in FdLabels
  BY <1>1, <1>2, TypesOf DEF FdLabels, FpLabels
<1>5. TypeOK'
  <2>1. table' \in [Numbers -> Objects]
    BY <1>1, <1>2, TypesOf
  <2>2. /\ pc' \in [Threads -> FdLabels \cup {"pick"}]
        /\ page' \in [Threads -> Pages \cup {None}]
    <3>1. pc'[t] \in FdLabels \cup {"pick"} /\ page'[t] \in Pages \cup {None}
      BY <1>2, <1>3, <1>4, TypesOf
    <3> QED
      BY <1>2, <1>4, <3>1, TypesOf
  <2>3. \A u \in Threads : pc'[u] \in FpLabels /\ fp'[u] # 0 => chunk'[u]
    BY <1>1, <1>2, <1>3, <1>4, TypesOf DEF readVars, TypeOK
  <2> QED
    BY <1>1, <1>2, <2>1, <2>2, <2>3 DEF TypeOK, readVars, mainVars
<1>6. Labelled'
  BY <1>1, <1>2, <1>3, <1>4, TypesOf DEF Labelled, readVars
<1>7. Behind'
  <2>1. buf[t] = <<>>
    <3>1. pc[t] \in {"close1", "close2", "fclose"}
      BY <1>1
    <3> QED
      BY <1>1, <1>3, <3>1 DEF Behind
  <2> QED
    BY <1>1, <1>2, <1>4, <2>1, TypesOf DEF Behind, readVars
<1>8. NotLost'
  <2> SUFFICES ASSUME NEW m \in Numbers, table'[m] # Free
               PROVE  \/ m = fd_command'
                      \/ \E u \in Threads : m \in {FdOf(u)', FpOf(u)'}
    BY DEF NotLost
  <2>1. table[m] # Free /\ m # n
    BY <1>1, <1>2, TypesOf
  <2>2. m # 0
    BY NumberSet
  <2> QED
    BY <1>1, <2>1, <2>2 DEF NotLost, mainVars
<1> QED
  BY <1>5, <1>6, <1>7, <1>8

LEMMA MainInv == ASSUME Inv, Accept \/ EndSession PROVE Inv'
<1> USE DEF Inv
<1>1. /\ UNCHANGED <<conn, disk, left, pc, page, fd, readVars, exited, exposed>>
      /\ UNCHANGED <<fp, buf, chunk, waits>>
  BY DEF Accept, EndSession, readVars
<1>2. \A u \in Threads : FdOf(u)' = FdOf(u) /\ FpOf(u)' = FpOf(u)
  BY <1>1 DEF FdOf, FpOf
<1>3. Labelled' /\ Behind'
  BY <1>1 DEF Labelled, Behind
<1>4. CASE Accept
  <2>1. /\ table' = [table EXCEPT ![Lowest] = Session] /\ fd_command' = Lowest
        /\ fd_command = 0 /\ sessions' = sessions + 1 /\ sessions < MaxSessions
    BY <1>4 DEF Accept, Open
  <2>2. Lowest \in Numbers /\ table[Lowest] = Free
    BY <2>1, LowestIsFree
  <2>3. Session \in Objects /\ sessions' \in 0..MaxSessions
    BY <2>1, BoundsAssumption DEF Objects, TypeOK
  <2>4. TypeOK'
    BY <1>1, <2>1, <2>2, <2>3 DEF TypeOK
  <2>5. NotLost'
    BY <1>2, <2>1, <2>2, TypesOf DEF NotLost
  <2> QED
    BY <1>3, <2>4, <2>5
<1>5. CASE EndSession
  <2>1. /\ table' = [table EXCEPT ![fd_command] = Free] /\ fd_command' = 0
        /\ fd_command \in Numbers /\ sessions' = sessions
    BY <1>5 DEF EndSession, Close, TypeOK
  <2>2. Free \in Objects
    BY DEF Objects
  <2>3. TypeOK'
    BY <1>1, <2>1, <2>2 DEF TypeOK
  <2>4. NotLost'
    BY <1>2, <2>1, TypesOf DEF NotLost
  <2> QED
    BY <1>3, <2>3, <2>4
<1> QED
  BY <1>4, <1>5

LEMMA StepInv == Inv /\ [Next]_vars => Inv'
<1> SUFFICES ASSUME Inv, [Next]_vars PROVE Inv'
  OBVIOUS
<1>1. CASE UNCHANGED vars
  BY <1>1
  DEF Inv, TypeOK, Labelled, Behind, NotLost, FdOf, FpOf, vars, readVars,
      mainVars
<1> QED
  BY <1>1, QuietInv, OpenInv, HeaderInv, CloseInv, MainInv
  DEF Next, ThreadStep, Quiet, Closes

LEMMA InitInv == Init => Inv
<1> SUFFICES ASSUME Init PROVE Inv
  OBVIOUS
<1>1. /\ <<>> \in Seq(Pieces) /\ Free \in Objects
      /\ "pick" \notin FpLabels \cup FdLabels
  BY DEF Objects, FdLabels, FpLabels
<1>2. conn \in [Pages -> Connections]
  <2>1. [up |-> FALSE, request |-> None, sent |-> 0, reset |-> FALSE]
          \in Connections
    BY DEF Connections
  <2> QED
    BY <2>1 DEF Init
<1>3. TypeOK
  <2>1. 0 \in 0..MaxSessions
    BY BoundsAssumption
  <2>2. /\ table \in [Numbers -> Objects] /\ disk \in [Pages -> Seq(Pieces)]
        /\ left \subseteq Pages /\ exposed \subseteq Pages
    BY <1>1 DEF Init
  <2>3. /\ pc \in [Threads -> FdLabels \cup {"pick"}]
        /\ page \in [Threads -> Pages \cup {None}]
        /\ fd \in [Threads -> Numbers \cup {0}]
        /\ fp \in [Threads -> Numbers \cup {0}]
        /\ buf \in [Threads -> Seq(Pieces)] /\ chunk \in [Threads -> BOOLEAN]
        /\ \A t \in Threads : pc[t] \in FpLabels /\ fp[t] # 0 => chunk[t]
        /\ waits \in [Threads -> Pages \cup {None}]
    BY <1>1 DEF Init
  <2> QED
    BY <1>2, <2>1, <2>2, <2>3 DEF Init, TypeOK, Connections
<1>4. Labelled /\ Behind /\ NotLost
  BY <1>1 DEF Init, Labelled, Behind, NotLost
<1> QED
  BY <1>3, <1>4 DEF Inv

(* The variables keep their types, for any pages and any threads           *)
(* (webcrawler.c:43-67, crawler_functions.c:38-101): in particular the     *)
(* table never runs out of numbers, and a thread that has opened a file    *)
(* has read the header for it.                                             *)
THEOREM TypeCorrect == Spec => []TypeOK
<1>1. Inv => TypeOK
  BY DEF Inv
<1> QED
  BY <1>1, InitInv, StepInv, PTL DEF Spec

(* Whatever closes hit the numbers of others, a number in use is always in *)
(* a variable that its holder will still close, so that all are free when  *)
(* everybody is back (webcrawler.c:67, 244,                                *)
(* crawler_functions.c:77-81, 99-100).                                     *)
THEOREM NumbersAreGivenBack == Spec => []NoNumberLeaks
<1>1. Inv => NoNumberLeaks
  <2> SUFFICES ASSUME Inv, fd_command = 0, \A t \in Threads : pc[t] = "pick",
                      NEW n \in Numbers
               PROVE  table[n] = Free
    BY DEF NoNumberLeaks
  <2>1. \A t \in Threads : FdOf(t) = 0 /\ FpOf(t) = 0
    BY DEF FdOf, FpOf, FdLabels, FpLabels
  <2> QED
    BY <2>1, NumberSet DEF Inv, NotLost
<1> QED
  BY <1>1, InitInv, StepInv, PTL DEF Spec

-----------------------------------------------------------------------------
(* Who has which number.  A page goes to one thread; what stands for an    *)
(* unexposed page is the number its thread has, and nobody else has it.    *)

OnePage ==
  /\ \A t, u \in Threads : page[t] = page[u] /\ page[t] # None => t = u
  /\ \A t \in Threads : page[t] \notin left
  /\ exposed \cap left = {}

Sole(t, n) ==
  n # fd_command /\ \A u \in Threads \ {t} : n # FdOf(u) /\ n # FpOf(u)
SoleFd(t) ==
  /\ pc[t] \in OwnLabels => table[FdOf(t)] = Socket(page[t])
  /\ FdOf(t) # 0 /\ table[FdOf(t)] = Socket(page[t]) => Sole(t, FdOf(t))
SoleFp(t) ==
  FpOf(t) # 0 => table[FpOf(t)] = File(page[t]) /\ Sole(t, FpOf(t))
Keeps == \A t \in Threads : page[t] \in exposed \/ (SoleFd(t) /\ SoleFp(t))

Stands ==
  \A n \in Numbers, p \in Pages \ exposed :
    /\ table[n] = Socket(p) => \E t \in Threads : page[t] = p /\ FdOf(t) = n
    /\ table[n] = File(p) => \E t \in Threads : page[t] = p /\ FpOf(t) = n

Names == OnePage /\ Keeps /\ Stands

(* Expose notices everybody who has the number in a variable. *)
LEMMA Unexposed ==
  ASSUME Inv, NEW t \in Threads, NEW p, Expose(t, p), Lowest \in Numbers
  PROVE  /\ exposed \subseteq exposed' /\ exposed' \subseteq exposed \cup {p}
         /\ p \notin exposed' => Sole(t, Lowest)
<1>1. \A u \in Threads :
        Lowest = FdOf(u) \/ Lowest = FpOf(u) => Remembers(u, Lowest)
  BY NumberSet DEF Remembers, FdOf, FpOf
<1>2. /\ exposed \subseteq exposed' /\ exposed' \subseteq exposed \cup {p}
      /\ p \notin exposed' => /\ fd_command # Lowest
                              /\ ~ \E u \in Threads \ {t} : Remembers(u, Lowest)
  BY DEF Expose
<1> QED
  BY <1>1, <1>2 DEF Sole

LEMMA NamesQuiet ==
  ASSUME Inv, Names, NEW t \in Threads, Quiet(t) PROVE Names'
<1>1. /\ UNCHANGED <<table, left, page, fd, fd_command, exposed>>
      /\ pc' = [pc EXCEPT ![t] = pc'[t]]
      /\ pc[t] \in OwnLabels
      /\ \A u \in Threads : FdOf(u)' = FdOf(u) /\ FpOf(u)' = FpOf(u)
  BY QuietMoves DEF mainVars
<1>2. \A u \in Threads : pc'[u] \in OwnLabels => pc[u] \in OwnLabels
  BY <1>1, TypesOf DEF Inv
<1>3. \A u \in Threads : \A n : Sole(u, n)' <=> Sole(u, n)
  BY <1>1 DEF Sole
<1>4. Keeps'
  BY <1>1, <1>2, <1>3 DEF Names, Keeps, SoleFd, SoleFp, Sole
<1>5. Stands' /\ OnePage'
  BY <1>1 DEF Names, Stands, OnePage
<1> QED
  BY <1>4, <1>5 DEF Names

(* A new number k, for thread t and page p. *)
LEMMA NamesGiven ==
  ASSUME Inv, Names, OnePage', NEW t \in Threads, NEW p \in Pages,
         NEW k \in Numbers, k = Lowest, table[k] = Free, Expose(t, p),
         page'[t] = p, fd_command' = fd_command,
         \A u \in Threads \ {t} :
           /\ page'[u] = page[u] /\ FdOf(u)' = FdOf(u) /\ FpOf(u)' = FpOf(u)
           /\ pc'[u] = pc[u],
         \/ /\ table' = [table EXCEPT ![k] = Socket(p)]
            /\ FdOf(t)' = k /\ FpOf(t)' = 0 /\ FdOf(t) = 0 /\ FpOf(t) = 0
         \/ /\ table' = [table EXCEPT ![k] = File(p)]
            /\ FpOf(t)' = k /\ FpOf(t) = 0 /\ FdOf(t)' = FdOf(t)
            /\ FdOf(t) # 0 /\ pc[t] \in OwnLabels /\ page[t] = p
  PROVE  Names'
<1> USE DEF Names
<1>1. /\ exposed \subseteq exposed' /\ exposed' \subseteq exposed \cup {p}
      /\ p \notin exposed' => Sole(t, k)
  BY Unexposed
<1>2. /\ table \in [Numbers -> Objects]
      /\ \A u \in Threads : /\ FdOf(u) \in Numbers \cup {0}
                            /\ FpOf(u) \in Numbers \cup {0}
      /\ 0 \notin Numbers
  BY TypesOf DEF Inv, FdOf, FpOf
<1>3. \A n \in Numbers : n # k => table'[n] = table[n]
  BY <1>2
<1>4. table'[k] \in {Socket(p), File(p)}
  BY <1>2
<1>5. ASSUME NEW u \in Threads \ {t}, page[u] \notin exposed'
      PROVE  SoleFd(u)' /\ SoleFp(u)'
  <2>1. SoleFd(u) /\ SoleFp(u) /\ page'[u] = page[u]
    BY <1>1, <1>5 DEF Keeps
  <2>2. page[u] # p
    <3>1. page'[u] # page'[t] \/ page'[u] = None
      BY <1>5 DEF OnePage
    <3> QED
      BY <2>1, <3>1, PagesAssumption
  <2>3. /\ FdOf(u) # 0 /\ table'[FdOf(u)] = Socket(page[u]) =>
             FdOf(u) # k /\ table[FdOf(u)] = Socket(page[u])
        /\ FpOf(u) # 0 => FpOf(u) # k /\ table'[FpOf(u)] = table[FpOf(u)]
        /\ pc[u] \in OwnLabels => FdOf(u) # k /\ FdOf(u) # 0
    <3>1. k # FpOf(u)
      BY <1>2, <2>1, Kinds DEF SoleFp
    <3>2. table'[k] # Socket(page[u])
      BY <1>4, <2>2, Kinds
    <3>3. pc[u] \in OwnLabels => FdOf(u) \in Numbers
      BY DEF Inv, Labelled, FdOf, OwnLabels
    <3>4. pc[u] \in OwnLabels => FdOf(u) # k
      BY <2>1, Kinds DEF SoleFd
    <3> QED
      BY <1>2, <1>3, <3>1, <3>2, <3>3, <3>4
  <2>4. pc[u] \in OwnLabels => table'[FdOf(u)] = Socket(page[u])
    <3>1. pc[u] \in OwnLabels => FdOf(u) \in Numbers
      BY DEF Inv, Labelled, FdOf, OwnLabels
    <3> QED
      BY <1>3, <2>1, <2>3, <3>1 DEF SoleFd
  <2>5. \A n \in Numbers : n # k /\ Sole(u, n) => Sole(u, n)'
    BY <1>2 DEF Sole
  <2> QED
    BY <1>2, <2>1, <2>3, <2>4, <2>5 DEF SoleFd, SoleFp
<1>6. ASSUME p \notin exposed' PROVE SoleFd(t)' /\ SoleFp(t)'
  <2>1. Sole(t, k)'
    BY <1>1, <1>6 DEF Sole
  <2>2. CASE table' = [table EXCEPT ![k] = Socket(p)] /\ FdOf(t)' = k
               /\ FpOf(t)' = 0
    BY <1>2, <2>1, <2>2 DEF SoleFd, SoleFp
  <2>3. CASE table' = [table EXCEPT ![k] = File(p)] /\ FpOf(t)' = k
               /\ FdOf(t)' = FdOf(t) /\ FdOf(t) # 0 /\ pc[t] \in OwnLabels
               /\ page[t] = p
    <3>1. SoleFd(t)
      BY <1>1, <1>6, <2>3 DEF Keeps
    <3>2. /\ table[FdOf(t)] = Socket(p) /\ Sole(t, FdOf(t))
          /\ FdOf(t) \in Numbers /\ FdOf(t) # k
      BY <1>2, <2>3, <3>1, Kinds DEF SoleFd
    <3>3. table'[FdOf(t)] = Socket(p) /\ Sole(t, FdOf(t))'
      BY <1>3, <2>3, <3>2 DEF Sole
    <3>4. table'[k] = File(p)
      BY <1>2, <2>3
    <3> QED
      BY <2>1, <2>3, <3>3, <3>4 DEF SoleFd, SoleFp
  <2> QED
    BY <2>2, <2>3
<1>7. Keeps'
  BY <1>5, <1>6 DEF Keeps
<1>8. Stands'
  <2> SUFFICES ASSUME NEW n \in Numbers, NEW q \in Pages, q \notin exposed'
               PROVE  /\ table'[n] = Socket(q) =>
                           \E u \in Threads : page'[u] = q /\ FdOf(u)' = n
                      /\ table'[n] = File(q) =>
                           \E u \in Threads : page'[u] = q /\ FpOf(u)' = n
    BY DEF Stands
  <2>1. CASE n = k
    BY <1>2, <2>1, Kinds
  <2>2. CASE n # k
    <3>1. table'[n] = table[n] /\ q \notin exposed
      BY <1>1, <1>3, <2>2
    <3>2. /\ table[n] = Socket(q) =>
               \E u \in Threads : page[u] = q /\ FdOf(u) = n
          /\ table[n] = File(q) =>
               \E u \in Threads : page[u] = q /\ FpOf(u) = n
      BY <3>1 DEF Stands
    <3>3. FpOf(t) # n /\ (FdOf(t) = n => FdOf(t)' = n /\ page[t] = p)
      BY <1>2
    <3> QED
      BY <3>1, <3>2, <3>3
  <2> QED
    BY <2>1, <2>2
<1> QED
  BY <1>7, <1>8

LEMMA NamesOpen ==
  ASSUME Inv, Names, NEW t \in Threads, OpenSocket(t) PROVE Names'
<1> DEFINE p == page'[t]
<1>1. /\ Lowest \in Numbers /\ table[Lowest] = Free
      /\ p \in left /\ left' = left \ {p}
      /\ page' = [page EXCEPT ![t] = p] /\ page[t] = None
      /\ table' = [table EXCEPT ![Lowest] = Socket(p)]
      /\ pc' = [pc EXCEPT ![t] = "connect"]
      /\ Expose(t, p) /\ fd_command' = fd_command
      /\ FdOf(t) = 0 /\ FpOf(t) = 0 /\ FdOf(t)' = Lowest /\ FpOf(t)' = 0
      /\ \A u \in Threads \ {t} : FdOf(u)' = FdOf(u) /\ FpOf(u)' = FpOf(u)
  BY OpenMoves DEF mainVars
<1> HIDE DEF p
<1>2. p \in Pages /\ page'[t] = p
  BY <1>1, TypesOf DEF Inv
<1>3. \A u \in Threads \ {t} : page'[u] = page[u] /\ pc'[u] = pc[u]
  BY <1>1, TypesOf DEF Inv
<1>4. exposed' \subseteq exposed \cup {p}
  BY <1>1 DEF Expose
<1>5. OnePage'
  BY <1>1, <1>2, <1>3, <1>4, TypesOf DEF Names, OnePage, Inv
<1>6. PICK k \in Numbers : k = Lowest
  BY <1>1
<1>7. /\ table[k] = Free /\ table' = [table EXCEPT ![k] = Socket(p)]
      /\ FdOf(t)' = k
  BY <1>1, <1>6
<1> QED
  BY <1>1, <1>2, <1>3, <1>5, <1>6, <1>7, NamesGiven

LEMMA NamesHeader ==
  ASSUME Inv, Names, NEW t \in Threads, ReadHeader(t) PROVE Names'
<1> DEFINE p == page[t]
<1>1. /\ Lowest \in Numbers /\ table[Lowest] = Free /\ p \in Pages
      /\ table' = [table EXCEPT ![Lowest] = File(p)]
      /\ pc[t] = "wait" /\ pc' = [pc EXCEPT ![t] = "read"]
      /\ Expose(t, p) /\ UNCHANGED <<left, page, fd_command>>
      /\ FpOf(t) = 0 /\ FpOf(t)' = Lowest
      /\ \A u \in Threads : FdOf(u)' = FdOf(u)
      /\ \A u \in Threads \ {t} : FpOf(u)' = FpOf(u)
  BY HeaderMoves DEF mainVars
<1>2. /\ page'[t] = p
      /\ \A u \in Threads \ {t} : page'[u] = page[u] /\ pc'[u] = pc[u]
  BY <1>1, TypesOf DEF Inv
<1>3. exposed' \subseteq exposed \cup {p}
  BY <1>1 DEF Expose
<1>4. OnePage'
  BY <1>1, <1>3 DEF Names, OnePage
<1>5. pc[t] \in OwnLabels /\ FdOf(t) # 0
  BY <1>1, TypesOf DEF OwnLabels, FdLabels, FpLabels, FdOf, Inv, Labelled
<1>6. PICK k \in Numbers : k = Lowest
  BY <1>1
<1>7. /\ table[k] = Free /\ table' = [table EXCEPT ![k] = File(p)]
      /\ FpOf(t)' = k
  BY <1>1, <1>6
<1> HIDE DEF p
<1>8. page[t] = p
  BY DEF p
<1> QED
  BY <1>1, <1>2, <1>4, <1>5, <1>6, <1>7, <1>8, NamesGiven

(* Number k is given back; whoever loses it had lost it before, or gives   *)
(* it back itself.                                                         *)
LEMMA NamesFreed ==
  ASSUME Inv, Names, NEW k \in Numbers \cup {0},
         table' = [table EXCEPT ![k] = Free],
         UNCHANGED <<left, exposed>>,
         fd_command' \in {fd_command, 0},
         \A u \in Threads : page'[u] \in {page[u], None},
         \A u \in Threads :
           /\ \/ /\ FdOf(u)' = FdOf(u)
                 /\ FdOf(u) # 0 => page'[u] = page[u]
              \/ FdOf(u)' = 0 /\ FdOf(u) = k
           /\ \/ /\ FpOf(u)' = FpOf(u)
                 /\ FpOf(u) # 0 => page'[u] = page[u]
              \/ FpOf(u)' = 0 /\ FpOf(u) = k
           /\ pc'[u] \in OwnLabels => /\ pc[u] \in OwnLabels
                                      /\ FdOf(u)' = FdOf(u)
           /\ page[u] \notin exposed =>
                /\ pc'[u] \in OwnLabels => FdOf(u) # k
                /\ FpOf(u)' # 0 => FpOf(u) # k
  PROVE  Names'
<1> USE DEF Names
<1>1. /\ table \in [Numbers -> Objects] /\ None \notin Pages
      /\ \A u \in Threads : /\ FdOf(u) \in Numbers \cup {0}
                            /\ FpOf(u) \in Numbers \cup {0}
      /\ 0 \notin Numbers
      /\ \A u \in Threads : page[u] \in Pages \cup {None}
      /\ \A u \in Threads : pc[u] \in OwnLabels => FdOf(u) \in Numbers
  BY TypesOf DEF Inv, FdOf, FpOf, OwnLabels, Labelled
<1>2. \A n \in Numbers : n # k => table'[n] = table[n]
  BY <1>1
<1>3. k \in Numbers => table'[k] = Free
  BY <1>1
<1>4. \A u \in Threads, n \in Numbers : Sole(u, n) => Sole(u, n)'
  BY <1>1 DEF Sole
<1>5. OnePage'
  BY <1>1, TypesOf, ZenonT(60) DEF OnePage, Inv
<1>6. ASSUME NEW u \in Threads, page'[u] \notin exposed'
      PROVE  SoleFd(u)' /\ SoleFp(u)'
  <2>1. CASE page'[u] = page[u]
    <3>1. SoleFd(u) /\ SoleFp(u)
      BY <1>6, <2>1 DEF Keeps
    <3>2. SoleFp(u)'
      <4>1. ASSUME FpOf(u)' # 0
            PROVE  table'[FpOf(u)'] = File(page'[u]) /\ Sole(u, FpOf(u))'
        <5>1. FpOf(u)' = FpOf(u) /\ FpOf(u) \in Numbers /\ FpOf(u) # k
          BY <1>1, <1>6, <2>1, <4>1
        <5>2. table[FpOf(u)] = File(page[u]) /\ Sole(u, FpOf(u))
          BY <1>1, <3>1, <5>1 DEF SoleFp
        <5> QED
          BY <1>2, <1>4, <2>1, <5>1, <5>2 DEF Sole
      <4> QED
        BY <4>1 DEF SoleFp
    <3>3. ASSUME pc'[u] \in OwnLabels
          PROVE  table'[FdOf(u)'] = Socket(page'[u])
      <4>1. /\ FdOf(u)' = FdOf(u) /\ FdOf(u) \in Numbers /\ FdOf(u) # k
            /\ pc[u] \in OwnLabels
        BY <1>1, <1>6, <2>1, <3>3
      <4>2. table[FdOf(u)] = Socket(page[u])
        BY <3>1, <4>1 DEF SoleFd
      <4> QED
        BY <1>2, <2>1, <4>1, <4>2
    <3>4. ASSUME FdOf(u)' # 0, table'[FdOf(u)'] = Socket(page'[u])
          PROVE  Sole(u, FdOf(u))'
      <4>1. FdOf(u)' = FdOf(u) /\ FdOf(u) \in Numbers
        BY <1>1, <3>4
      <4>2. FdOf(u) # k
        BY <1>1, <1>3, <3>4, <4>1, Kinds
      <4>3. Sole(u, FdOf(u))
        BY <1>2, <2>1, <3>1, <3>4, <4>1, <4>2 DEF SoleFd
      <4> QED
        BY <1>4, <4>1, <4>3 DEF Sole
    <3> QED
      BY <3>2, <3>3, <3>4 DEF SoleFd
  <2>2. CASE page'[u] # page[u]
    <3>1. FdOf(u)' = 0 /\ FpOf(u)' = 0 /\ pc'[u] \notin OwnLabels
      BY <1>1, <2>2
    <3> QED
      BY <3>1 DEF SoleFd, SoleFp
  <2> QED
    BY <2>1, <2>2
<1>7. Keeps'
  BY <1>6 DEF Keeps
<1>8. Stands'
  <2> SUFFICES ASSUME NEW n \in Numbers, NEW q \in Pages, q \notin exposed
               PROVE  /\ table'[n] = Socket(q) =>
                           \E u \in Threads : page'[u] = q /\ FdOf(u)' = n
                      /\ table'[n] = File(q) =>
                           \E u \in Threads : page'[u] = q /\ FpOf(u)' = n
    BY DEF Stands
  <2>1. CASE n = k
    BY <1>3, <2>1, Kinds
  <2>2. CASE n # k
    <3>1. /\ table[n] = Socket(q) =>
               \E u \in Threads : page[u] = q /\ FdOf(u) = n
          /\ table[n] = File(q) =>
               \E u \in Threads : page[u] = q /\ FpOf(u) = n
          /\ table'[n] = table[n] /\ n # 0
      BY <1>1, <1>2, <2>2 DEF Stands
    <3> QED
      BY <2>2, <3>1
  <2> QED
    BY <2>1, <2>2
<1> QED
  BY <1>5, <1>7, <1>8

LEMMA NamesClose ==
  ASSUME Inv, Names, NEW t \in Threads, Closes(t) PROVE Names'
<1>1. PICK n \in Numbers \cup {0} :
        /\ table' = [table EXCEPT ![n] = Free]
        /\ UNCHANGED <<left, mainVars, exposed>>
        /\ \/ /\ n = FpOf(t) /\ FpOf(t)' = 0
              /\ FdOf(t)' = FdOf(t) /\ pc[t] = "fclose" /\ page' = page
              /\ pc' = [pc EXCEPT ![t] = "close1"]
           \/ /\ n = FdOf(t) /\ FpOf(t)' = FpOf(t)
              /\ FdOf(t)' = FdOf(t) /\ pc[t] = "close1" /\ page' = page
              /\ pc' = [pc EXCEPT ![t] = "close2"]
           \/ /\ n = FdOf(t) /\ FpOf(t)' = FpOf(t)
              /\ FdOf(t)' = 0 /\ pc[t] = "close2"
              /\ page' = [page EXCEPT ![t] = None]
              /\ pc' = [pc EXCEPT ![t] = "pick"]
        /\ \A u \in Threads \ {t} : FdOf(u)' = FdOf(u) /\ FpOf(u)' = FpOf(u)
  BY CloseMoves
<1>2. /\ "close1" \in OwnLabels /\ "fclose" \in OwnLabels
      /\ "close2" \notin OwnLabels /\ "pick" \notin OwnLabels
      /\ "close1" \notin FpLabels /\ "close2" \notin FpLabels
      /\ "fclose" \in FpLabels
  BY DEF OwnLabels, FdLabels, FpLabels
<1>3. \A u \in Threads \ {t} : page'[u] = page[u] /\ pc'[u] = pc[u]
  BY <1>1, TypesOf DEF Inv
<1>4. /\ pc \in [Threads -> FdLabels \cup {"pick"}]
      /\ page \in [Threads -> Pages \cup {None}]
      /\ \A u \in Threads : FpOf(u) # 0 => pc[u] \in FpLabels
      /\ \A u \in Threads : pc[u] \in OwnLabels => FdOf(u) \in Numbers
      /\ 0 \notin Numbers
  BY TypesOf DEF Inv, FpOf, FdOf, OwnLabels, Labelled
<1>5. page'[t] \in {page[t], None}
  BY <1>1, <1>4
<1>6. /\ \/ FdOf(t)' = FdOf(t) /\ page'[t] = page[t]
         \/ FdOf(t)' = 0 /\ FdOf(t) = n
      /\ \/ /\ FpOf(t)' = FpOf(t)
            /\ FpOf(t) # 0 => page'[t] = page[t]
         \/ FpOf(t)' = 0 /\ FpOf(t) = n
      /\ pc'[t] \in OwnLabels => pc[t] \in OwnLabels /\ FdOf(t)' = FdOf(t)
  BY <1>1, <1>2, <1>4
<1>7. ASSUME page[t] \notin exposed
      PROVE  /\ pc'[t] \in OwnLabels => FdOf(t) # n
             /\ FpOf(t)' # 0 => FpOf(t) # n
  <2>1. SoleFd(t) /\ SoleFp(t)
    BY <1>7 DEF Names, Keeps
  <2>2. CASE pc[t] = "fclose"
    <3>1. n = FpOf(t) /\ FpOf(t)' = 0
      BY <1>1, <2>2
    <3>2. FdOf(t) # FpOf(t)
      BY <1>2, <1>4, <2>1, <2>2, Kinds DEF SoleFd, SoleFp
    <3> QED
      BY <3>1, <3>2
  <2>3. CASE pc[t] \in {"close1", "close2"}
    BY <1>1, <1>2, <1>4, <2>3
  <2> QED
    BY <1>1, <2>2, <2>3
<1>8. ASSUME NEW u \in Threads \ {t}, page[u] \notin exposed
      PROVE  /\ pc'[u] \in OwnLabels => FdOf(u) # n
             /\ FpOf(u)' # 0 => FpOf(u) # n
  <2>1. SoleFd(u) /\ SoleFp(u)
    BY <1>8 DEF Names, Keeps
  <2>2. n = FdOf(t) \/ n = FpOf(t)
    BY <1>1
  <2> QED
    BY <1>1, <1>3, <1>4, <2>1, <2>2 DEF SoleFd, SoleFp, Sole
<1>9. \A u \in Threads :
        /\ \/ /\ FdOf(u)' = FdOf(u)
              /\ FdOf(u) # 0 => page'[u] = page[u]
           \/ FdOf(u)' = 0 /\ FdOf(u) = n
        /\ \/ /\ FpOf(u)' = FpOf(u)
              /\ FpOf(u) # 0 => page'[u] = page[u]
           \/ FpOf(u)' = 0 /\ FpOf(u) = n
        /\ pc'[u] \in OwnLabels => /\ pc[u] \in OwnLabels
                                   /\ FdOf(u)' = FdOf(u)
        /\ page[u] \notin exposed =>
             /\ pc'[u] \in OwnLabels => FdOf(u) # n
             /\ FpOf(u)' # 0 => FpOf(u) # n
  BY <1>1, <1>3, <1>6, <1>7, <1>8
<1>10. /\ fd_command' \in {fd_command, 0}
       /\ \A u \in Threads : page'[u] \in {page[u], None}
  BY <1>1, <1>3, <1>5 DEF mainVars
<1>11. table' = [table EXCEPT ![n] = Free] /\ UNCHANGED <<left, exposed>>
  BY <1>1
<1> QED
  BY ONLY Inv, Names, <1>9, <1>10, <1>11, NamesFreed

LEMMA NamesMain == ASSUME Inv, Names, Accept \/ EndSession PROVE Names'
<1>1. /\ UNCHANGED <<left, pc, page, fd, fp, exposed>>
      /\ \A u \in Threads : FdOf(u)' = FdOf(u) /\ FpOf(u)' = FpOf(u)
  BY DEF Accept, EndSession, readVars, FdOf, FpOf
<1>2. CASE EndSession
  <2>1. /\ table' = [table EXCEPT ![fd_command] = Free] /\ fd_command' = 0
        /\ fd_command \in Numbers \cup {0}
    BY <1>2 DEF EndSession, Close, Inv, TypeOK
  <2>2. /\ \A u \in Threads : pc[u] \in OwnLabels => FdOf(u) \in Numbers
        /\ 0 \notin Numbers
    BY TypesOf DEF Inv, FdOf, OwnLabels, Labelled
  <2>3. ASSUME NEW u \in Threads, page[u] \notin exposed
        PROVE  /\ pc[u] \in OwnLabels => FdOf(u) # fd_command
               /\ FpOf(u) # 0 => FpOf(u) # fd_command
    <3>1. SoleFd(u) /\ SoleFp(u)
      BY <2>3 DEF Names, Keeps
    <3> QED
      BY <2>2, <3>1 DEF SoleFd, SoleFp, Sole
  <2> QED
    BY <1>1, <2>1, <2>3, NamesFreed
<1>3. CASE Accept
  <2>1. fd_command = 0
    BY <1>3 DEF Accept
  <2>2. Lowest \in Numbers /\ table[Lowest] = Free
    BY <2>1, LowestIsFree
  <2>3. PICK k \in Numbers : k = Lowest
    BY <2>2
  <2>4. /\ table' = [table EXCEPT ![k] = Session]
        /\ fd_command' = k /\ table[k] = Free
    BY <1>3, <2>2, <2>3 DEF Accept, Open
  <2>5. /\ table \in [Numbers -> Objects]
        /\ \A u \in Threads : /\ FdOf(u) \in Numbers \cup {0}
                              /\ FpOf(u) \in Numbers \cup {0}
                              /\ pc[u] \in OwnLabels => FdOf(u) \in Numbers
        /\ 0 \notin Numbers
    BY TypesOf DEF Inv, FdOf, FpOf, OwnLabels, Labelled
  <2>6. /\ \A n \in Numbers : n # k => table'[n] = table[n]
        /\ table'[k] = Session
    BY <2>4, <2>5
  <2>7. \A u \in Threads, n \in Numbers : n # k /\ Sole(u, n) => Sole(u, n)'
    BY <1>1, <2>4 DEF Sole
  <2>8. Keeps'
    <3> SUFFICES ASSUME NEW u \in Threads, page[u] \notin exposed
                 PROVE  SoleFd(u)' /\ SoleFp(u)'
      BY <1>1 DEF Keeps
    <3>1. SoleFd(u) /\ SoleFp(u)
      BY DEF Names, Keeps
    <3>2. FpOf(u) # k /\ (pc[u] \in OwnLabels => FdOf(u) # k)
      BY <2>4, <2>5, <3>1, Kinds DEF SoleFd, SoleFp
    <3>3. SoleFp(u)'
      BY <1>1, <2>5, <2>6, <2>7, <3>1, <3>2 DEF SoleFp
    <3>4. pc[u] \in OwnLabels => table'[FdOf(u)] = Socket(page[u])
      BY <2>5, <2>6, <3>1, <3>2 DEF SoleFd
    <3>5. ASSUME FdOf(u) # 0, table'[FdOf(u)] = Socket(page[u])
          PROVE  Sole(u, FdOf(u))'
      <4>1. FdOf(u) \in Numbers /\ FdOf(u) # k
        BY <2>5, <2>6, <3>5, Kinds
      <4>2. Sole(u, FdOf(u))
        BY <2>6, <3>1, <3>5, <4>1 DEF SoleFd
      <4> QED
        BY <1>1, <2>7, <4>1, <4>2 DEF Sole
    <3> QED
      BY <1>1, <3>3, <3>4, <3>5 DEF SoleFd, Sole
  <2>9. Stands'
    BY <1>1, <2>5, <2>6, Kinds DEF Names, Stands
  <2> QED
    BY <1>1, <2>8, <2>9 DEF Names, OnePage
<1> QED
  BY <1>2, <1>3

LEMMA NamesStep == Inv /\ Names /\ [Next]_vars => Names'
<1> SUFFICES ASSUME Inv, Names, [Next]_vars PROVE Names'
  OBVIOUS
<1>1. CASE UNCHANGED vars
  BY <1>1
  DEF Names, OnePage, Keeps, SoleFd, SoleFp, Sole, Stands, FdOf, FpOf, vars,
      readVars, mainVars
<1> QED
  BY <1>1, NamesQuiet, NamesOpen, NamesHeader, NamesClose, NamesMain
  DEF Next, ThreadStep, Quiet, Closes

LEMMA InitNames == Init => Names
<1> SUFFICES ASSUME Init PROVE Names
  OBVIOUS
<1>1. \A t \in Threads : /\ FdOf(t) = 0 /\ FpOf(t) = 0
                         /\ pc[t] \notin OwnLabels /\ page[t] = None
  BY DEF Init, FdOf, FpOf, OwnLabels, FdLabels, FpLabels
<1>2. Keeps /\ OnePage
  BY <1>1, PagesAssumption DEF Init, Keeps, SoleFd, SoleFp, OnePage
<1>3. Stands
  BY Kinds DEF Init, Stands
<1> QED
  BY <1>2, <1>3 DEF Names

(* A thread whose numbers nobody remembered when they were given out keeps *)
(* them until it closes them, for any pages, threads and sessions          *)
(* (webcrawler.c:49-67, crawler_functions.c:100): the close that threads   *)
(* do twice cannot reach them.                                             *)
THEOREM NumbersAreKept == Spec => []KeepsItsNumbers
<1>1. Inv /\ Names => KeepsItsNumbers
  <2> SUFFICES ASSUME Inv, Names, NEW t \in Threads, page[t] \notin exposed
               PROVE  Owns(t)
    BY DEF KeepsItsNumbers
  <2>1. SoleFd(t) /\ SoleFp(t)
    BY DEF Names, Keeps
  <2> QED
    BY <2>1 DEF SoleFd, SoleFp, Owns, FdOf, FpOf, OwnLabels
<1> QED
  BY <1>1, InitInv, StepInv, InitNames, NamesStep, PTL DEF Spec

-----------------------------------------------------------------------------
(* What becomes of a page.                                                 *)

(* A read that waits on an unexposed page's connection is its thread's.    *)
WaitsOwn ==
  \A t \in Threads : pc[t] = "wait" =>
    /\ waits[t] \in Pages \ exposed => page[t] = waits[t]
    /\ page[t] \in Pages \ exposed => waits[t] = page[t]

Unused == [up |-> FALSE, request |-> None, sent |-> 0, reset |-> FALSE]
Connected == [up |-> TRUE, request |-> None, sent |-> 0, reset |-> FALSE]
Asked(p, k) == [up |-> TRUE, request |-> p, sent |-> k, reset |-> FALSE]
Text(p) == <<Piece("text", p)>>
Saved(p) == IF p \in Exists THEN Text(p) ELSE <<>>

Waiting == \A p \in left : conn[p] = Unused /\ disk[p] = <<>>

(* How far thread t is with page p: the text is still with the server, or  *)
(* with fputs, or in the file.                                             *)
Progress(t, p) ==
  /\ pc[t] = "connect" => conn[p] = Unused /\ disk[p] = <<>>
  /\ pc[t] = "get" => conn[p] = Connected /\ disk[p] = <<>>
  /\ pc[t] \in {"read", "wait"} /\ ~ chunk[t] =>
       conn[p] = Asked(p, 0) /\ disk[p] = <<>> /\ buf[t] = <<>>
  /\ pc[t] \in {"read", "wait"} /\ chunk[t] =>
       /\ p \in Exists /\ fp[t] # 0
       /\ \/ conn[p] = Asked(p, 1) /\ disk[p] = <<>> /\ buf[t] = <<>>
          \/ conn[p] = Asked(p, 2) /\ disk[p] = <<>> /\ buf[t] = Text(p)
          \/ conn[p] = Asked(p, 2) /\ disk[p] = Text(p) /\ buf[t] = <<>>
  /\ pc[t] = "flush" =>
       /\ p \in Exists /\ fp[t] # 0
       /\ \/ disk[p] = <<>> /\ buf[t] = Text(p)
          \/ disk[p] = Text(p) /\ buf[t] = <<>>
  /\ pc[t] \in {"fclose", "close1", "close2"} => disk[p] = Saved(p)
Proceeds ==
  \A t \in Threads : page[t] \in Pages \ exposed => Progress(t, page[t])

Saving == WaitsOwn /\ Waiting /\ Proceeds /\ SavedItsText

Inside == Inv /\ Names /\ Saving

(* The numbers of a thread do not stand for an unexposed page of another.  *)
LEMMA NotOthers ==
  ASSUME Inv, Names, NEW t \in Threads, NEW p \in Pages \ exposed, p # page[t]
  PROVE  /\ FdOf(t) # 0 => table[FdOf(t)] # Socket(p)
         /\ FdOf(t) # 0 => table[FdOf(t)] # File(p)
         /\ FpOf(t) # 0 => table[FpOf(t)] # Socket(p)
         /\ FpOf(t) # 0 => table[FpOf(t)] # File(p)
<1> SUFFICES ASSUME NEW n \in Numbers, n = FdOf(t) \/ n = FpOf(t)
             PROVE  table[n] # Socket(p) /\ table[n] # File(p)
  BY TypesOf DEF Inv, FdOf, FpOf
<1>1. ASSUME table[n] = Socket(p) PROVE FALSE
  <2>1. PICK u \in Threads : page[u] = p /\ FdOf(u) = n
    BY <1>1 DEF Names, Stands
  <2>2. SoleFd(u) /\ n # 0
    BY <2>1, NumberSet DEF Names, Keeps
  <2> QED
    BY <1>1, <2>1, <2>2 DEF SoleFd, Sole
<1>2. ASSUME table[n] = File(p) PROVE FALSE
  <2>1. PICK u \in Threads : page[u] = p /\ FpOf(u) = n
    BY <1>2 DEF Names, Stands
  <2>2. SoleFp(u) /\ n # 0
    BY <2>1, NumberSet DEF Names, Keeps
  <2> QED
    BY <1>2, <2>1, <2>2 DEF SoleFp, Sole
<1> QED
  BY <1>1, <1>2

(* A thread's step leaves the variables of the others alone ...            *)
LEMMA OthersStay ==
  ASSUME Inv, NEW t \in Threads, ThreadStep(t), NEW u \in Threads \ {t}
  PROVE  /\ pc'[u] = pc[u] /\ page'[u] = page[u] /\ fp'[u] = fp[u]
         /\ buf'[u] = buf[u] /\ chunk'[u] = chunk[u] /\ waits'[u] = waits[u]
<1>1. /\ pc \in [Threads -> FdLabels \cup {"pick"}]
      /\ page \in [Threads -> Pages \cup {None}]
      /\ fp \in [Threads -> Numbers \cup {0}]
      /\ buf \in [Threads -> Seq(Pieces)]
      /\ chunk \in [Threads -> BOOLEAN]
      /\ waits \in [Threads -> Pages \cup {None}]
  BY DEF Inv, TypeOK
<1>2. pc'[u] = pc[u]
  BY <1>1
  DEF ThreadStep, OpenSocket, Connect, Get, CallRead, ReadHeader, ReadError,
      ReadNoStatus, ReadData, Flush, ReadEnd, FlushLast, CloseFile, CloseFirst,
      CloseAgain, Goto
<1>3. page'[u] = page[u]
  BY <1>1
  DEF ThreadStep, OpenSocket, Connect, Get, CallRead, ReadHeader, ReadError,
      ReadNoStatus, ReadData, Flush, ReadEnd, FlushLast, CloseFile, CloseFirst,
      CloseAgain
<1>4. fp'[u] = fp[u] /\ chunk'[u] = chunk[u] /\ waits'[u] = waits[u]
  BY <1>1
  DEF ThreadStep, OpenSocket, Connect, Get, CallRead, ReadHeader, ReadError,
      ReadNoStatus, ReadData, Flush, ReadEnd, FlushLast, CloseFile, CloseFirst,
      CloseAgain, NullFp, readVars
<1>5. buf'[u] = buf[u]
  BY <1>1
  DEF ThreadStep, OpenSocket, Connect, Get, CallRead, ReadHeader, ReadError,
      ReadNoStatus, ReadData, Flush, ReadEnd, FlushLast, CloseFile, CloseFirst,
      CloseAgain, readVars
<1> QED
  BY <1>2, <1>3, <1>4, <1>5

(* ... and the connection and the file of every page but its own, if it is *)
(* not exposed.                                                            *)
LEMMA OtherPagesStay ==
  ASSUME Inside, NEW t \in Threads, ThreadStep(t),
         NEW p \in Pages \ exposed, p # page[t]
  PROVE  conn'[p] = conn[p] /\ disk'[p] = disk[p]
<1>1. /\ Inv /\ Names /\ Saving
      /\ pc \in [Threads -> FdLabels \cup {"pick"}]
      /\ conn \in [Pages -> Connections] /\ disk \in [Pages -> Seq(Pieces)]
      /\ page \in [Threads -> Pages \cup {None}]
      /\ table \in [Numbers -> Objects]
  BY DEF Inside, Inv, TypeOK, Connections
<1>2. CASE OpenSocket(t) \/ CallRead(t) \/ ReadEnd(t) \/ CloseFile(t)
             \/ CloseFirst(t) \/ CloseAgain(t)
  BY <1>2 DEF OpenSocket, CallRead, ReadEnd, CloseFile, CloseFirst, CloseAgain
<1>3. CASE Connect(t)
  <2>1. pc[t] = "connect" /\ fd[t] = FdOf(t) /\ fd[t] \in Numbers
    BY <1>1, <1>3 DEF Connect, Goto, FdOf, FdLabels, Inv, Labelled
  <2>2. table[fd[t]] # Socket(p) /\ table[fd[t]] \in Objects
    BY <1>1, <2>1, NumberSet, NotOthers
  <2>3. table[fd[t]].kind = "socket" =>
          table[fd[t]].page \in Pages /\ table[fd[t]].page # p
    BY <2>2, KindOf
  <2> QED
    BY <1>1, <1>3, <2>3 DEF Connect
<1>4. CASE Get(t)
  <2>1. /\ pc[t] = "get" /\ fd[t] = FdOf(t)
        /\ fd[t] \in Numbers /\ page[t] \in Pages
    BY <1>1, <1>4 DEF Get, Goto, FdOf, FdLabels, Inv, Labelled
  <2>2. table[fd[t]] # Socket(p) /\ table[fd[t]] # File(p)
    BY <1>1, <2>1, NumberSet, NotOthers
  <2>3. <<Piece("request", page[t])>> \in Seq(Pieces)
    BY <2>1, PieceKinds
  <2>4. Write(fd[t], <<Piece("request", page[t])>>)
    BY <1>4 DEF Get
  <2> QED
    BY <1>1, <2>1, <2>2, <2>3, <2>4, WriteEffect
<1>5. CASE Flush(t) \/ FlushLast(t)
  <2>1. /\ fp[t] = FpOf(t) /\ fp[t] # 0 /\ fp[t] \in Numbers
        /\ buf[t] \in Seq(Pieces)
    BY <1>1, <1>5
    DEF Flush, FlushLast, Goto, FpOf, FpLabels, Inv, TypeOK, Labelled, Behind
  <2>2. table[fp[t]] # Socket(p) /\ table[fp[t]] # File(p)
    BY <1>1, <2>1, NotOthers
  <2>3. Write(fp[t], buf[t])
    BY <1>5 DEF Flush, FlushLast
  <2> QED
    BY <1>1, <2>1, <2>2, <2>3, WriteEffect
<1>6. CASE ReadHeader(t) \/ ReadError(t) \/ ReadNoStatus(t) \/ ReadData(t)
  <2>1. /\ pc[t] = "wait" /\ Arrived(t)
        /\ disk' = disk \/ disk' = [disk EXCEPT ![page[t]] = <<>>]
    BY <1>6 DEF ReadHeader, ReadError, ReadNoStatus, ReadData, Goto
  <2>2. waits[t] # p
    BY <1>1, <2>1 DEF Saving, WaitsOwn
  <2>3. \E k : conn' = [conn EXCEPT ![waits[t]].sent = k]
    BY <2>1 DEF Arrived
  <2> QED
    BY <1>1, <2>1, <2>2, <2>3
<1> QED
  BY <1>2, <1>3, <1>4, <1>5, <1>6 DEF ThreadStep

(* A thread whose page is not exposed reads from its own connection and    *)
(* writes to its own file.                                                 *)
LEMMA OwnPage ==
  ASSUME Inside, NEW t \in Threads, page[t] \in Pages \ exposed
  PROVE  /\ pc[t] \in OwnLabels =>
              fd[t] \in Numbers /\ table[fd[t]] = Socket(page[t])
         /\ pc[t] \in FpLabels /\ fp[t] # 0 =>
              fp[t] \in Numbers /\ table[fp[t]] = File(page[t])
         /\ pc[t] = "wait" => waits[t] = page[t]
         /\ Progress(t, page[t])
<1>1. SoleFd(t) /\ SoleFp(t)
  BY DEF Inside, Names, Keeps
<1>2. fp[t] \in Numbers \cup {0}
  BY DEF Inside, Inv, TypeOK
<1>3. Progress(t, page[t]) /\ (pc[t] = "wait" => waits[t] = page[t])
  BY DEF Inside, Saving, Proceeds, WaitsOwn
<1>4. pc[t] \in OwnLabels =>
        fd[t] \in Numbers /\ table[fd[t]] = Socket(page[t])
  BY <1>1 DEF SoleFd, FdOf, OwnLabels, Inside, Inv, Labelled
<1>5. pc[t] \in FpLabels /\ fp[t] # 0 =>
        fp[t] \in Numbers /\ table[fp[t]] = File(page[t])
  BY <1>1, <1>2 DEF SoleFp, FpOf
<1> QED
  BY <1>3, <1>4, <1>5

LEMMA TextIsNotEmpty ==
  \A p : /\ Text(p) # <<>> /\ <<>> \o Text(p) = Text(p)
         /\ Append(<<>>, Piece("text", p)) = Text(p)
BY DEF Text

(* The connection, from one step to the next. *)
LEMMA SameConnection ==
  ASSUME NEW x \in Connections, NEW y \in Connections, x.up <=> y.up,
         x.request = y.request, x.sent = y.sent, x.reset <=> y.reset
  PROVE  x = y
BY DEF Connections

LEMMA ConnectionFields ==
  /\ ~ Unused.up
  /\ Connected.up /\ Connected.request = None /\ Connected.sent = 0
  /\ ~ Unused.reset /\ ~ Connected.reset
  /\ Unused.request = None /\ Unused.sent = 0
  /\ \A p, k : /\ Asked(p, k).up /\ Asked(p, k).request = p
               /\ Asked(p, k).sent = k /\ ~ Asked(p, k).reset
  /\ Unused \in Connections /\ Connected \in Connections
  /\ \A p \in Pages, k \in 0..2 : Asked(p, k) \in Connections
<1>1. /\ ~ Unused.up
      /\ Connected.up /\ Connected.request = None /\ Connected.sent = 0
      /\ ~ Unused.reset /\ ~ Connected.reset
      /\ Unused.request = None /\ Unused.sent = 0
  BY DEF Unused, Connected
<1>2. \A p, k : /\ Asked(p, k).up /\ Asked(p, k).request = p
               /\ Asked(p, k).sent = k /\ ~ Asked(p, k).reset
  BY DEF Asked
<1>3. Unused \in Connections /\ Connected \in Connections
  BY DEF Unused, Connected, Connections
<1>4. \A p \in Pages, k \in 0..2 : Asked(p, k) \in Connections
  BY DEF Asked, Connections
<1> QED
  BY <1>1, <1>2, <1>3, <1>4

LEMMA ConnectionSteps ==
  ASSUME NEW p \in Pages, NEW x \in Connections
  PROVE  /\ x = Unused => [x EXCEPT !.up = TRUE] = Connected
         /\ x = Connected => [x EXCEPT !.request = p] = Asked(p, 0)
         /\ x = Asked(p, 0) => [x EXCEPT !.sent = 1] = Asked(p, 1)
         /\ x = Asked(p, 1) => [x EXCEPT !.sent = 2] = Asked(p, 2)
<1>1. ASSUME x = Unused PROVE [x EXCEPT !.up = TRUE] = Connected
  <2> DEFINE y == [x EXCEPT !.up = TRUE]
  <2>1. /\ y \in Connections /\ y.up /\ y.request = x.request
        /\ y.sent = x.sent /\ (y.reset <=> x.reset)
    BY DEF Connections
  <2> HIDE DEF y
  <2>2. y = Connected
    BY <1>1, <2>1, ConnectionFields, SameConnection
  <2> QED
    BY <2>2 DEF y
<1>2. ASSUME x = Connected PROVE [x EXCEPT !.request = p] = Asked(p, 0)
  <2> DEFINE y == [x EXCEPT !.request = p]
  <2>1. /\ y \in Connections /\ (y.up <=> x.up) /\ y.request = p
        /\ y.sent = x.sent /\ (y.reset <=> x.reset)
    BY DEF Connections
  <2> HIDE DEF y
  <2>2. y = Asked(p, 0)
    BY <1>2, <2>1, ConnectionFields, SameConnection
  <2> QED
    BY <2>2 DEF y
<1>3. ASSUME NEW k \in {0, 1}, x = Asked(p, k)
      PROVE  [x EXCEPT !.sent = k + 1] = Asked(p, k + 1)
  <2> DEFINE y == [x EXCEPT !.sent = k + 1]
  <2>1. /\ y \in Connections /\ (y.up <=> x.up) /\ y.request = x.request
        /\ y.sent = k + 1 /\ (y.reset <=> x.reset)
    BY DEF Connections
  <2> HIDE DEF y
  <2>2. y = Asked(p, k + 1)
    BY <1>3, <2>1, ConnectionFields, SameConnection
  <2> QED
    BY <2>2 DEF y
<1> QED
  BY <1>1, <1>2, <1>3

(* A write to a file adds to it; the first request goes to the server. *)
LEMMA WriteToFile ==
  ASSUME Inv, NEW n \in Numbers, NEW pieces \in Seq(Pieces), NEW p \in Pages,
         table[n] = File(p), Write(n, pieces)
  PROVE  disk'[p] = disk[p] \o pieces /\ conn'[p] = conn[p]
<1>1. /\ disk \in [Pages -> Seq(Pieces)]
      /\ table[n].kind = "file" /\ table[n].page = p
  BY Kinds DEF Inv, TypeOK
<1>2. CASE pieces = <<>>
  <2>1. disk' = disk /\ conn' = conn
    BY <1>2 DEF Write
  <2>2. disk[p] \o pieces = disk[p]
    BY <1>1, <1>2, ConcatEmptySeq
  <2> QED
    BY <2>1, <2>2
<1>3. CASE pieces # <<>>
  <2>1. disk' = [disk EXCEPT ![p] = disk[p] \o pieces] /\ conn' = conn
    BY <1>1, <1>3 DEF Write
  <2> QED
    BY <1>1, <2>1
<1> QED
  BY <1>2, <1>3

LEMMA WriteRequest ==
  ASSUME Inv, NEW n \in Numbers, NEW p \in Pages, table[n] = Socket(p),
         conn[p] = Connected, Write(n, <<Piece("request", p)>>)
  PROVE  disk'[p] = disk[p] /\ conn'[p] = Asked(p, 0)
<1> DEFINE request == <<Piece("request", p)>>
<1>1. /\ request # <<>>
      /\ Head(request).kind = "request" /\ Head(request).page = p
  BY PieceKinds
<1>2. table[n].kind = "socket" /\ table[n].page = p
  BY Kinds
<1> HIDE DEF request
<1>3. conn[p].request = None /\ conn \in [Pages -> Connections]
  BY ConnectionFields DEF Inv, TypeOK, Connections
<1>4. disk' = disk /\ conn' = [conn EXCEPT ![p].request = p]
  <2>1. Write(n, request)
    BY DEF request
  <2> QED
    BY <1>1, <1>2, <1>3, <2>1 DEF Write
<1>5. conn'[p] = [conn[p] EXCEPT !.request = p]
  BY <1>3, <1>4
<1> QED
  BY <1>3, <1>4, <1>5, ConnectionSteps

(* Up to the first read. *)
LEMMA AskProgress ==
  ASSUME Inside, NEW t \in Threads, NEW p \in Pages \ exposed, page[t] = p,
         Connect(t) \/ Get(t)
  PROVE  Progress(t, p)'
<1> USE DEF Goto, OwnLabels, FdLabels, FpLabels
<1>1. /\ pc \in [Threads -> FdLabels \cup {"pick"}]
      /\ conn \in [Pages -> Connections]
      /\ fp \in [Threads -> Numbers \cup {0}]
      /\ chunk \in [Threads -> BOOLEAN]
      /\ exited \in BOOLEAN
      /\ table \in [Numbers -> Objects]
      /\ Inv
  BY DEF Inside, Inv, TypeOK, Connections
<1>2. p # None
  BY PagesAssumption
<1>3. CASE Connect(t)
  <2>1. /\ pc[t] = "connect" /\ pc' = [pc EXCEPT ![t] = "get"]
        /\ disk' = disk
    BY <1>3 DEF Connect
  <2>2. /\ table[fd[t]] = Socket(p) /\ conn[p] = Unused /\ disk[p] = <<>>
    BY <2>1, OwnPage DEF Progress
  <2>3. table[fd[t]].kind = "socket" /\ table[fd[t]].page = p
    BY <2>2, Kinds
  <2>4. conn' = [conn EXCEPT ![p].up = TRUE]
    BY <1>3, <2>2, <2>3, ConnectionFields DEF Connect
  <2>5. conn'[p] = Connected
    <3>1. conn'[p] = [conn[p] EXCEPT !.up = TRUE]
      BY <1>1, <2>4
    <3> QED
      BY <1>1, <2>2, <3>1, ConnectionSteps
  <2>6. pc'[t] = "get"
    BY <1>1, <2>1
  <2> QED
    BY <2>1, <2>2, <2>5, <2>6 DEF Progress
<1>4. CASE Get(t)
  <2>1. /\ pc[t] = "get" /\ pc' = [pc EXCEPT ![t] = "read"]
        /\ buf' = buf /\ chunk' = [chunk EXCEPT ![t] = FALSE]
        /\ Write(fd[t], <<Piece("request", p)>>) /\ ~ exited
    BY <1>4 DEF Get
  <2>2. /\ table[fd[t]] = Socket(p) /\ conn[p] = Connected /\ disk[p] = <<>>
        /\ fd[t] \in Numbers
    BY <2>1, OwnPage DEF Progress
  <2>3. disk'[p] = <<>> /\ conn'[p] = Asked(p, 0)
    BY <1>1, <2>1, <2>2, WriteRequest
  <2>7. buf[t] = <<>>
    BY <1>1, <2>1 DEF Inv, Behind
  <2>8. pc'[t] = "read" /\ ~ chunk'[t] /\ buf'[t] = <<>>
    BY <1>1, <2>1, <2>7
  <2> QED
    BY <2>3, <2>8 DEF Progress
<1> QED
  BY <1>3, <1>4

(* The reads: the first chunk is the header, the second the text, and      *)
(* there is no third.                                                      *)
LEMMA ReadProgress ==
  ASSUME Inside, NEW t \in Threads, NEW p \in Pages \ exposed, page[t] = p,
         ReadHeader(t) \/ ReadError(t) \/ ReadNoStatus(t) \/ ReadData(t)
  PROVE  Progress(t, p)'
<1> USE DEF Goto, OwnLabels, FdLabels, FpLabels
<1>1. /\ pc \in [Threads -> FdLabels \cup {"pick"}]
      /\ conn \in [Pages -> Connections]
      /\ fp \in [Threads -> Numbers \cup {0}]
      /\ chunk \in [Threads -> BOOLEAN]
      /\ buf \in [Threads -> Seq(Pieces)]
      /\ disk \in [Pages -> Seq(Pieces)]
      /\ Inv
  BY DEF Inside, Inv, TypeOK, Connections
<1>2. pc[t] = "wait" /\ Arrived(t)
  BY DEF ReadHeader, ReadError, ReadNoStatus, ReadData
<1>3. waits[t] = p /\ Progress(t, p)
  BY <1>2, OwnPage
<1>4. /\ conn[p].request \in Pages /\ conn[p].sent + 1 \in {1, 2}
      /\ conn' = [conn EXCEPT ![p].sent = conn[p].sent + 1]
      /\ conn[p].request \in Exists =>
           Got(t) = IF conn[p].sent + 1 = 1
                    THEN Piece("header", conn[p].request)
                    ELSE Piece("text", conn[p].request)
      /\ conn[p].request \notin Exists =>
           Got(t) = Piece("error", conn[p].request)
  BY <1>1, <1>2, <1>3, ReadEffect, ZenonT(60)
<1>5. CASE ~ chunk[t]
  <2>1. conn[p] = Asked(p, 0) /\ disk[p] = <<>> /\ buf[t] = <<>>
    BY <1>2, <1>3, <1>5 DEF Progress
  <2>2. conn'[p] = Asked(p, 1)
    <3>1. conn'[p] = [conn[p] EXCEPT !.sent = conn[p].sent + 1]
      BY <1>1, <1>4
    <3>2. conn[p].sent + 1 = 1
      BY <2>1, ConnectionFields
    <3> QED
      BY <1>1, <2>1, <3>1, <3>2, ConnectionSteps
  <2>3. /\ p \in Exists => Got(t) = Piece("header", p)
        /\ p \notin Exists => Got(t) = Piece("error", p)
    BY <1>4, <2>1, ConnectionFields
  <2>4. Got(t).kind = IF p \in Exists THEN "header" ELSE "error"
    BY <2>3, PieceKinds
  <2>5. CASE p \in Exists
    <3>1. ReadHeader(t)
      BY <1>5, <2>4, <2>5 DEF ReadHeader, ReadError, ReadNoStatus, ReadData
    <3>2. /\ pc' = [pc EXCEPT ![t] = "read"]
          /\ chunk' = [chunk EXCEPT ![t] = TRUE]
          /\ disk' = [disk EXCEPT ![p] = <<>>] /\ buf' = buf
          /\ fp' = [fp EXCEPT ![t] = Lowest] /\ Lowest \in Numbers
      BY <1>1, <3>1, HeaderMoves
    <3>3. /\ pc'[t] = "read" /\ chunk'[t] /\ disk'[p] = <<>> /\ buf'[t] = <<>>
          /\ fp'[t] # 0
      BY <1>1, <2>1, <3>2, NumberSet
    <3> QED
      BY <2>2, <2>5, <3>3 DEF Progress
  <2>6. CASE p \notin Exists
    <3>1. ReadError(t)
      BY <1>5, <2>4, <2>6 DEF ReadHeader, ReadError, ReadNoStatus, ReadData
    <3>2. pc' = [pc EXCEPT ![t] = "close2"] /\ disk' = disk
      BY <3>1 DEF ReadError, AfterError
    <3>3. pc'[t] = "close2" /\ disk'[p] = Saved(p)
      BY <1>1, <2>1, <2>6, <3>2 DEF Saved
    <3> QED
      BY <3>3 DEF Progress
  <2> QED
    BY <2>5, <2>6
<1>6. CASE chunk[t]
  <2>1. /\ p \in Exists /\ fp[t] # 0
        /\ conn[p] = Asked(p, 1) \/ conn[p] = Asked(p, 2)
    BY <1>2, <1>3, <1>6 DEF Progress
  <2>2. conn[p] # Asked(p, 2)
    BY <1>4, ConnectionFields
  <2>3. conn[p] = Asked(p, 1) /\ disk[p] = <<>> /\ buf[t] = <<>>
    BY <1>2, <1>3, <1>6, <2>1, <2>2 DEF Progress
  <2>4. Got(t) = Piece("text", p) /\ conn'[p] = Asked(p, 2)
    <3>1. conn'[p] = [conn[p] EXCEPT !.sent = conn[p].sent + 1]
      BY <1>1, <1>4
    <3>2. conn[p].sent + 1 = 2 /\ conn[p].request = p
      BY <2>3, ConnectionFields
    <3>3. Got(t) = Piece("text", p)
      BY <1>4, <2>1, <3>2
    <3> QED
      BY <1>1, <2>3, <3>1, <3>2, <3>3, ConnectionSteps
  <2>5. /\ pc' = [pc EXCEPT ![t] = "read"]
        /\ UNCHANGED <<disk, fp, chunk>>
        /\ buf' = [buf EXCEPT ![t] = Append(buf[t], Got(t))]
    BY <1>6 DEF ReadHeader, ReadError, ReadNoStatus, ReadData
  <2>6. buf'[t] = Text(p) /\ pc'[t] = "read"
    BY <1>1, <2>3, <2>4, <2>5, TextIsNotEmpty
  <2> QED
    BY <1>6, <2>1, <2>3, <2>4, <2>5, <2>6 DEF Progress
<1> QED
  BY <1>1, <1>5, <1>6

(* The read is called, and finds the end only when the text was read. *)
LEMMA CallProgress ==
  ASSUME Inside, NEW t \in Threads, NEW p \in Pages \ exposed, page[t] = p,
         CallRead(t) \/ ReadEnd(t)
  PROVE  Progress(t, p)'
<1> USE DEF Goto, OwnLabels, FdLabels, FpLabels
<1>1. /\ pc \in [Threads -> FdLabels \cup {"pick"}]
      /\ conn \in [Pages -> Connections]
      /\ UNCHANGED <<conn, disk, fp, buf, chunk>>
  BY DEF Inside, Inv, TypeOK, Connections, CallRead, ReadEnd, readVars
<1>2. pc[t] \in {"read", "wait"} /\ Progress(t, p)
  BY OwnPage DEF CallRead, ReadEnd
<1>3. conn[p].up
  BY <1>2, ConnectionFields DEF Progress
<1>4. CASE CallRead(t)
  <2>1. pc[t] = "read"
    BY <1>4 DEF CallRead
  <2>2. table[fd[t]] = Socket(p)
    BY <2>1, OwnPage
  <2>3. table[fd[t]].kind = "socket" /\ table[fd[t]].page = p
    BY <2>2, Kinds
  <2>4. pc' = [pc EXCEPT ![t] = "wait"]
    BY <1>3, <1>4, <2>3 DEF CallRead
  <2>5. pc'[t] = "wait"
    BY <1>1, <2>4
  <2> QED
    BY <1>1, <1>2, <2>1, <2>5 DEF Progress
<1>5. CASE ReadEnd(t)
  <2> DEFINE R == Response(p)
             k == conn[p].sent
  <2>1. /\ pc[t] = "wait" /\ pc' = [pc EXCEPT ![t] = AfterEnd(t)]
        /\ waits[t] # None => Answered(waits[t]) = <<>> \/ conn[waits[t]].reset
    BY <1>5 DEF ReadEnd
  <2>2. waits[t] = p /\ p # None
    BY <2>1, OwnPage, PagesAssumption
  <2>3. \E i \in {0, 1, 2} : conn[p] = Asked(p, i)
    BY <1>2, <2>1 DEF Progress
  <2>4. k \in {0, 1, 2} /\ conn[p].request = p /\ ~ conn[p].reset
    BY <2>3, ConnectionFields
  <2>5. SubSeq(R, k + 1, Len(R)) = <<>>
    BY <2>1, <2>2, <2>4 DEF Answered
  <2>6. /\ R \in Seq(Pieces) /\ Len(R) \in {1, 2}
        /\ p \in Exists => Len(R) = 2
    BY PieceKinds DEF Response
  <2> HIDE DEF R, k
  <2>7. k + 1 > Len(R)
    <3> SUFFICES ASSUME k + 1 <= Len(R) PROVE FALSE
      BY <2>4, <2>6
    <3>1. k + 1 \in 1..Len(R)
      BY <2>4, <2>6
    <3>2. Len(SubSeq(R, k + 1, Len(R))) = Len(R) - (k + 1) + 1
      BY <2>6, <3>1, SubSeqProperties
    <3> QED
      BY <2>4, <2>5, <2>6, <3>1, <3>2
  <2>8. k # 0 /\ (p \in Exists => k = 2)
    <3>1. Len(R) = 1 \/ Len(R) = 2
      BY <2>6
    <3>2. k = 0 \/ k = 1 \/ k = 2
      BY <2>4
    <3>3. Len(R) = 1 => k # 0
      BY <2>7, <3>2
    <3>4. Len(R) = 2 => k = 2
      BY <2>7, <3>2
    <3> QED
      BY <2>6, <3>1, <3>3, <3>4
  <2>9. chunk[t] /\ p \in Exists /\ fp[t] # 0
    BY <1>2, <2>1, <2>8, ConnectionFields DEF Progress, k
  <2>10. \/ disk[p] = <<>> /\ buf[t] = Text(p)
         \/ disk[p] = Text(p) /\ buf[t] = <<>>
    BY <1>2, <2>1, <2>8, <2>9, ConnectionFields DEF Progress, k
  <2>11. pc'[t] = "flush"
    BY <1>1, <2>1, <2>9 DEF AfterEnd
  <2> QED
    BY <1>1, <2>9, <2>10, <2>11 DEF Progress
<1> QED
  BY <1>4, <1>5

(* The text goes to the file, and the numbers are given back. *)
LEMMA FlushProgress ==
  ASSUME Inside, NEW t \in Threads, NEW p \in Pages \ exposed, page[t] = p,
         Flush(t) \/ FlushLast(t)
  PROVE  Progress(t, p)'
<1> USE DEF Goto, OwnLabels, FdLabels, FpLabels
<1>1. /\ pc \in [Threads -> FdLabels \cup {"pick"}]
      /\ disk \in [Pages -> Seq(Pieces)]
      /\ buf \in [Threads -> Seq(Pieces)]
      /\ conn \in [Pages -> Connections]
      /\ fp' = fp /\ chunk' = chunk /\ ~ exited
      /\ Write(fp[t], buf[t]) /\ buf' = [buf EXCEPT ![t] = <<>>]
      /\ Inv
  BY DEF Inside, Inv, TypeOK, Connections, Flush, FlushLast
<1>2. pc[t] \in {"read", "flush"} /\ Progress(t, p)
  BY OwnPage DEF Flush, FlushLast
<1>3. fp[t] # 0
  BY <1>1 DEF Flush, FlushLast, Inv, Behind, Labelled
<1>4. fp[t] \in Numbers /\ table[fp[t]] = File(p)
  BY <1>2, <1>3, OwnPage
<1>5. disk'[p] = disk[p] \o buf[t] /\ conn'[p] = conn[p]
  <2>1. buf[t] \in Seq(Pieces)
    BY <1>1
  <2> QED
    BY <1>1, <1>4, <2>1, WriteToFile
<1>6. disk[p] = <<>> /\ buf[t] = Text(p) => disk'[p] = Text(p)
  BY <1>5, TextIsNotEmpty
<1>7. buf[t] = <<>> => disk'[p] = disk[p]
  BY <1>1, <1>5, ConcatEmptySeq
<1>8. buf'[t] = <<>>
  BY <1>1
<1>9. CASE Flush(t)
  <2>1. pc[t] = "read" /\ pc'[t] = "read" /\ buf[t] # <<>>
    BY <1>1, <1>9 DEF Flush
  <2>2. /\ p \in Exists /\ chunk[t] /\ conn[p] = Asked(p, 2)
        /\ disk[p] = <<>> /\ buf[t] = Text(p)
    BY <1>2, <2>1 DEF Progress
  <2> QED
    BY <1>1, <1>3, <1>5, <1>6, <1>8, <2>1, <2>2 DEF Progress
<1>10. CASE FlushLast(t)
  <2>1. pc[t] = "flush" /\ pc'[t] = "fclose"
    BY <1>1, <1>10 DEF FlushLast
  <2>2. disk'[p] = Saved(p)
    BY <1>2, <1>6, <1>7, <2>1 DEF Progress, Saved
  <2> QED
    BY <2>1, <2>2 DEF Progress
<1> QED
  BY <1>9, <1>10

LEMMA CloseProgress ==
  ASSUME Inside, NEW t \in Threads, NEW p \in Pages \ exposed, page[t] = p,
         CloseFile(t) \/ CloseFirst(t)
  PROVE  Progress(t, p)'
<1>1. /\ pc \in [Threads -> FdLabels \cup {"pick"}]
      /\ disk' = disk
  BY DEF Inside, Inv, TypeOK, CloseFile, CloseFirst
<1>2. pc[t] \in {"fclose", "close1"} /\ pc'[t] \in {"close1", "close2"}
  BY <1>1 DEF CloseFile, CloseFirst, Goto, FdLabels, FpLabels
<1>3. Progress(t, p)
  BY OwnPage
<1> QED
  BY <1>1, <1>2, <1>3 DEF Progress

LEMMA WaitsStep ==
  ASSUME Inside, NEW t \in Threads, ThreadStep(t) PROVE WaitsOwn'
<1> USE DEF Goto
<1>1. /\ pc \in [Threads -> FdLabels \cup {"pick"}]
      /\ page \in [Threads -> Pages \cup {None}]
      /\ waits \in [Threads -> Pages \cup {None}]
      /\ Inv /\ Names /\ WaitsOwn
  BY DEF Inside, Saving, Inv, TypeOK
<1>2. exposed \subseteq exposed'
  BY DEF ThreadStep, OpenSocket, Connect, Get, CallRead, ReadHeader, ReadError,
      ReadNoStatus, ReadData, Flush, ReadEnd, FlushLast, CloseFile, CloseFirst,
      CloseAgain, Expose
<1>3. \A u \in Threads \ {t} :
        pc'[u] = pc[u] /\ page'[u] = page[u] /\ waits'[u] = waits[u]
  BY <1>1, OthersStay
<1>4. ASSUME pc'[t] = "wait"
      PROVE  /\ waits'[t] \in Pages \ exposed' => page'[t] = waits'[t]
             /\ page'[t] \in Pages \ exposed' => waits'[t] = page'[t]
  <2>1. CallRead(t)
    BY <1>1, <1>4
    DEF ThreadStep, OpenSocket, Connect, Get, ReadHeader, ReadError,
        ReadNoStatus, ReadData, Flush, ReadEnd, FlushLast, CloseFile,
        CloseFirst, CloseAgain, FdLabels, FpLabels, AfterEnd, AfterError
  <2>2. /\ pc[t] = "read" /\ page' = page /\ exposed' = exposed
        /\ waits' = [waits EXCEPT ![t] = table[fd[t]].page]
        /\ table[fd[t]].kind \in {"session", "socket"}
    BY <1>1, <1>4, <2>1 DEF CallRead, AfterEnd
  <2>3. waits'[t] = table[fd[t]].page
    BY <1>1, <2>2
  <2>4. FdOf(t) = fd[t] /\ fd[t] \in Numbers /\ table[fd[t]] \in Objects
    BY <1>1, <2>2 DEF FdOf, FdLabels, FpLabels, Inv, Labelled, TypeOK
  <2>5. ASSUME NEW q \in Pages \ exposed, table[fd[t]].page = q
        PROVE  page[t] = q
    <3>1. table[fd[t]] = Socket(q)
      BY <2>2, <2>4, <2>5, KindOf, PagesAssumption
    <3> QED
      BY <1>1, <2>4, <3>1, NotOthers, NumberSet
  <2>6. ASSUME page[t] \in Pages \ exposed PROVE table[fd[t]].page = page[t]
    <3>1. table[fd[t]] = Socket(page[t])
      BY <2>2, <2>6, OwnPage DEF OwnLabels, FdLabels, FpLabels
    <3> QED
      BY <3>1, Kinds
  <2> QED
    BY <2>2, <2>3, <2>5, <2>6
<1> QED
  BY <1>1, <1>2, <1>3, <1>4 DEF WaitsOwn

LEMMA SavingStep ==
  ASSUME Inside, Names', NEW t \in Threads, ThreadStep(t) PROVE Saving'
<1>1. /\ pc \in [Threads -> FdLabels \cup {"pick"}]
      /\ page \in [Threads -> Pages \cup {None}]
      /\ conn \in [Pages -> Connections] /\ disk \in [Pages -> Seq(Pieces)]
      /\ left \subseteq Pages /\ exposed \subseteq Pages
      /\ Inv /\ Names /\ Saving /\ None \notin Pages
  BY PagesAssumption DEF Inside, Inv, TypeOK, Connections
<1>2. exposed \subseteq exposed' /\ left' \subseteq left
  BY DEF ThreadStep, OpenSocket, Connect, Get, CallRead, ReadHeader, ReadError,
      ReadNoStatus, ReadData, Flush, ReadEnd, FlushLast, CloseFile, CloseFirst,
      CloseAgain, Expose
<1>3. \A u \in Threads \ {t} :
        /\ pc'[u] = pc[u] /\ page'[u] = page[u] /\ fp'[u] = fp[u]
        /\ buf'[u] = buf[u] /\ chunk'[u] = chunk[u] /\ waits'[u] = waits[u]
  BY <1>1, OthersStay
<1>4. \A p \in Pages \ exposed :
        p # page[t] => conn'[p] = conn[p] /\ disk'[p] = disk[p]
  BY OtherPagesStay
<1>5. /\ OpenSocket(t) => /\ page'[t] \in left /\ left' = left \ {page'[t]}
                          /\ page[t] = None /\ pc'[t] = "connect"
      /\ CloseAgain(t) => page'[t] = None /\ left' = left
      /\ ~ OpenSocket(t) /\ ~ CloseAgain(t) =>
           page' = page /\ left' = left
  <2>1. OpenSocket(t) => /\ page'[t] \in left /\ left' = left \ {page'[t]}
                         /\ page[t] = None /\ pc'[t] = "connect"
    BY <1>1, OpenMoves
  <2>2. CloseAgain(t) => page'[t] = None /\ left' = left
    BY <1>1 DEF CloseAgain
  <2>3. ~ OpenSocket(t) /\ ~ CloseAgain(t) => page' = page /\ left' = left
    BY DEF ThreadStep, Connect, Get, CallRead, ReadHeader, ReadError,
      ReadNoStatus, ReadData, Flush, ReadEnd, FlushLast, CloseFile, CloseFirst
  <2> QED
    BY <2>1, <2>2, <2>3
<1>6. Waiting'
  <2> SUFFICES ASSUME NEW p \in left' PROVE conn'[p] = Unused /\ disk'[p] = <<>>
    BY DEF Waiting
  <2>1. p \in left /\ p \in Pages \ exposed /\ p # page[t]
    BY <1>1, <1>2 DEF Names, OnePage
  <2> QED
    BY <1>1, <1>4, <2>1 DEF Saving, Waiting
<1>7. ASSUME NEW u \in Threads, page'[u] \in Pages \ exposed'
      PROVE  Progress(u, page[u])'
  <2>1. PICK p \in Pages \ exposed : p = page'[u]
    BY <1>2, <1>7
  <2>2. SUFFICES Progress(u, p)'
    BY <2>1 DEF Progress
  <2>3. CASE u # t
    <3>1. /\ page[u] = p /\ pc'[u] = pc[u] /\ fp'[u] = fp[u]
          /\ buf'[u] = buf[u] /\ chunk'[u] = chunk[u]
      BY <1>3, <2>1, <2>3
    <3>2. p # page[t]
      BY <1>1, <2>3, <3>1 DEF Names, OnePage
    <3>3. conn'[p] = conn[p] /\ disk'[p] = disk[p]
      BY <1>4, <3>2
    <3>4. Progress(u, p)
      BY <1>1, <3>1 DEF Saving, Proceeds
    <3> QED
      BY <3>1, <3>3, <3>4 DEF Progress
  <2>4. CASE u = t /\ OpenSocket(t)
    <3>1. p \in left /\ p # page[t] /\ pc'[u] = "connect"
      BY <1>1, <1>5, <2>1, <2>4
    <3>2. conn'[p] = Unused /\ disk'[p] = <<>>
      BY <1>1, <1>4, <3>1 DEF Saving, Waiting
    <3> QED
      BY <3>1, <3>2 DEF Progress
  <2>5. CASE u = t /\ ~ OpenSocket(t)
    <3>1. page[t] = p /\ ~ CloseAgain(t)
      BY <1>1, <1>5, <2>1, <2>5
    <3>2. Progress(t, p)'
      BY <2>5, <3>1, AskProgress, ReadProgress, CallProgress,
         FlushProgress, CloseProgress DEF ThreadStep
    <3> QED
      BY <2>5, <3>2 DEF Progress
  <2> QED
    BY <2>3, <2>4, <2>5
<1>8. Proceeds'
  BY <1>7 DEF Proceeds
<1>9. SavedItsText'
  <2> SUFFICES ASSUME NEW p \in Pages, p \notin left', p \notin exposed',
                      \A u \in Threads : page'[u] # p
               PROVE  disk'[p] = Saved(p)
    <3>1. DOMAIN page' = Threads
      BY <1>1 DEF ThreadStep, OpenSocket, Connect, Get, CallRead, ReadHeader,
        ReadError, ReadNoStatus, ReadData, Flush, ReadEnd, FlushLast, CloseFile,
        CloseFirst, CloseAgain
    <3> QED
      BY <3>1 DEF SavedItsText, Range, Saved, Text
  <2>1. p \notin exposed /\ p \notin left
    BY <1>2, <1>5
  <2>2. CASE p = page[t]
    <3>1. CloseAgain(t)
      BY <1>1, <1>5, <2>2
    <3>2. disk' = disk /\ pc[t] = "close2"
      BY <3>1 DEF CloseAgain, Goto
    <3>3. Progress(t, p)
      BY <1>1, <2>1, <2>2 DEF Saving, Proceeds
    <3> QED
      BY <3>2, <3>3 DEF Progress
  <2>3. CASE p # page[t]
    <3>1. \A u \in Threads : page[u] # p
      BY <1>3, <2>3
    <3>2. p \notin Range(page)
      BY <1>1, <3>1 DEF Range
    <3>3. disk[p] = Saved(p)
      BY <1>1, <2>1, <3>2 DEF Saving, SavedItsText, Saved, Text
    <3> QED
      BY <1>4, <2>1, <2>3, <3>3
  <2> QED
    BY <2>2, <2>3
<1> QED
  BY <1>6, <1>8, <1>9, WaitsStep DEF Saving

LEMMA InsideStep == Inside /\ [Next]_vars => Inside'
<1> SUFFICES ASSUME Inside, [Next]_vars PROVE Inside'
  OBVIOUS
<1>1. Inv' /\ Names'
  BY StepInv, NamesStep DEF Inside
<1>2. CASE \E t \in Threads : ThreadStep(t)
  BY <1>1, <1>2, SavingStep DEF Inside
<1>3. CASE Accept \/ EndSession \/ UNCHANGED vars
  <2>1. UNCHANGED <<conn, disk, left, pc, page, readVars, exposed>>
    BY <1>3 DEF Accept, EndSession, vars
  <2>2. Saving'
    BY <2>1 DEF Inside, Saving, WaitsOwn, Waiting, Proceeds, Progress,
                SavedItsText, readVars
  <2> QED
    BY <1>1, <2>2 DEF Inside
<1> QED
  BY <1>2, <1>3 DEF Next

LEMMA InitInside == Init => Inside
<1> SUFFICES ASSUME Init PROVE Inside
  OBVIOUS
<1>1. Inv /\ Names
  BY InitInv, InitNames
<1>2. /\ \A t \in Threads : pc[t] = "pick" /\ page[t] = None
      /\ None \notin Pages /\ left = Pages
      /\ \A p \in Pages : conn[p] = Unused /\ disk[p] = <<>>
  BY PagesAssumption DEF Init, Unused
<1>3. Saving
  BY <1>2 DEF Saving, WaitsOwn, Waiting, Proceeds, SavedItsText
<1> QED
  BY <1>1, <1>3 DEF Inside

(* A page whose thread was given numbers nobody else remembered ends up    *)
(* with its own text and no other, for any pages, threads and sessions     *)
(* (crawler_functions.c:75, 93, 99): the writes of other threads through   *)
(* numbers that are no longer theirs cannot reach its file.                *)
THEOREM PagesAreSaved == Spec => []SavedItsText
<1>1. Inside => SavedItsText
  BY DEF Inside, Saving
<1> QED
  BY <1>1, InitInside, InsideStep, PTL DEF Spec

=============================================================================
