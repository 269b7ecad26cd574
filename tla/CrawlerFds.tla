----------------------------- MODULE CrawlerFds -----------------------------
(***************************************************************************)
(* The crawler's descriptor numbers (webcrawler.c with ReceiveResponse of  *)
(* crawler_functions.c): a thread's socket is closed by ReceiveResponse    *)
(* and closed again by its caller, and a number that has been given back   *)
(* may belong to another thread, or to the command session, by then.       *)
(*                                                                         *)
(* Every system call that takes a number is an action: it reaches whatever *)
(* has the number at that moment.  A read that is waiting keeps what it    *)
(* was called for.  A response is its header and one piece of text; who    *)
(* gets which page is the matter of CrawlQueue, how a response is cut that *)
(* of HttpExchange.                                                        *)
(***************************************************************************)
EXTENDS Naturals, Sequences, FiniteSets, FiniteSetsExt, Functions

CONSTANTS
  Pages,        \* pages the crawler will request
  Exists,       \* those the server answers with 200
  Threads,      \* threads of the crawler
  MaxSessions,  \* bound on the command sessions
  None          \* no page

ASSUME PagesAssumption == Exists \subseteq Pages /\ None \notin Pages
ASSUME BoundsAssumption == IsFiniteSet(Threads) /\ MaxSessions \in Nat

VARIABLES
  table,      \* table[n]: what number n stands for
  conn,       \* conn[p]: the connection made of the socket opened for page p
  disk,       \* disk[p]: what was written to the file of page p
  left,       \* pages not requested yet
  pc,         \* label of thread t
  page,       \* requested_page of thread t
  fd,         \* fd of crawler_thread_function, socketfd of ReceiveResponse
  fp,         \* fp[t]: the number behind fp of ReceiveResponse, 0 for NULL
  buf,        \* buf[t]: what fputs holds back of the file of thread t
  chunk,      \* chunk[t]: thread t has got its first chunk
  waits,      \* waits[t]: the connection a read of t waits for, None a session
  fd_command, \* the number of the command session, 0 while main accepts
  sessions,   \* command sessions so far
  exited,     \* the process has exited or was killed
  exposed     \* pages for which a number was given out that is still in a
              \* variable of somebody else (for properties)

readVars == <<fp, buf, chunk, waits>>
mainVars == <<fd_command, sessions>>
vars == <<table, conn, disk, left, pc, page, fd, readVars, mainVars, exited,
          exposed>>

Numbers == 1..(2 * Cardinality(Threads) + 1)

Free == [kind |-> "free", page |-> None]
Socket(p) == [kind |-> "socket", page |-> p]
File(p) == [kind |-> "file", page |-> p]
Session == [kind |-> "session", page |-> None]
Objects == {Free, Session} \cup {Socket(p) : p \in Pages} \cup {File(p) : p \in Pages}

(* What is read from a connection and written to a file or a connection:  *)
(* a request for page p, the header and the text of p, the answer 404.     *)
Piece(kind, p) == [kind |-> kind, page |-> p]
Pieces == [kind : {"request", "header", "text", "error"}, page : Pages]

Response(p) == IF p \in Exists THEN <<Piece("header", p), Piece("text", p)>>
                               ELSE <<Piece("error", p)>>

Init ==
  /\ table = [n \in Numbers |-> Free]
  /\ conn = [p \in Pages |-> [up |-> FALSE, request |-> None, sent |-> 0, reset |-> FALSE]]
  /\ disk = [p \in Pages |-> <<>>]
  /\ left = Pages
  /\ pc = [t \in Threads |-> "pick"]
  /\ page = [t \in Threads |-> None]
  /\ fd = [t \in Threads |-> 0]
  /\ fp = [t \in Threads |-> 0]
  /\ buf = [t \in Threads |-> <<>>]
  /\ chunk = [t \in Threads |-> FALSE]
  /\ waits = [t \in Threads |-> None]
  /\ fd_command = 0 /\ sessions = 0
  /\ exited = FALSE
  /\ exposed = {}

-----------------------------------------------------------------------------
(* The system calls.                                                       *)

Lowest == Min({n \in Numbers : table[n] = Free})

(* Labels at which a thread will still use fd, and fp. *)
FpLabels == {"read", "wait", "flush", "fclose"}
FdLabels == FpLabels \cup {"connect", "get", "close1", "close2"}

Remembers(t, n) ==
  (pc[t] \in FdLabels /\ fd[t] = n) \/ (pc[t] \in FpLabels /\ fp[t] = n)

(* socket, fopen and accept give the lowest number that is free; here to   *)
(* thread t for page p.                                                    *)
Open(object) == table' = [table EXCEPT ![Lowest] = object]
Expose(t, p) ==
  exposed' = IF fd_command = Lowest \/ \E u \in Threads \ {t} : Remembers(u, Lowest)
             THEN exposed \cup {p} ELSE exposed

Close(n) == table' = [table EXCEPT ![n] = Free]

(* write(2) to number n.  A file takes the pieces.  A connection takes the *)
(* first request; what else it gets the server leaves unread, and resets   *)
(* the connection when it closes it.  A socket that is not connected       *)
(* raises SIGPIPE.                                                         *)
Write(n, pieces) ==
  LET at == table[n]
      request == Head(pieces).kind = "request"
  IN IF pieces = <<>> \/ at.kind \in {"free", "session"}
     THEN UNCHANGED <<conn, disk, exited>>
     ELSE IF at.kind = "file"
     THEN /\ disk' = [disk EXCEPT ![at.page] = @ \o pieces]
          /\ UNCHANGED <<conn, exited>>
     ELSE /\ conn' = IF request /\ conn[at.page].request = None
                     THEN [conn EXCEPT ![at.page].request = Head(pieces).page]
                     ELSE [conn EXCEPT ![at.page].reset = TRUE]
          /\ exited' = ~conn[at.page].up
          /\ UNCHANGED disk

Goto(t, from, to) ==
  /\ ~exited
  /\ pc[t] = from
  /\ pc' = [pc EXCEPT ![t] = to]

-----------------------------------------------------------------------------
(* The threads.  An operator X_Y just before X is a defect of X, used to   *)
(* check that the properties would notice it; no action uses it.           *)

OpenSocket(t) ==
  /\ Goto(t, "pick", "connect")
  /\ \E p \in left :
       /\ left' = left \ {p}
       /\ page' = [page EXCEPT ![t] = p]
       /\ Open(Socket(p))
       /\ Expose(t, p)
  /\ fd' = [fd EXCEPT ![t] = Lowest]
  /\ UNCHANGED <<conn, disk, readVars, mainVars, exited>>

(* connect on anything but a fresh socket, one's own or not: exit(1). *)
Connect(t) ==
  /\ Goto(t, "connect", "get")
  /\ LET at == table[fd[t]]
         fresh == at.kind = "socket" /\ ~conn[at.page].up
     IN /\ exited' = ~fresh
        /\ conn' = IF fresh THEN [conn EXCEPT ![at.page].up = TRUE] ELSE conn
  /\ UNCHANGED <<table, disk, left, page, fd, readVars, mainVars, exposed>>

NullFp_Kept(t) == fp
NullFp(t) == [fp EXCEPT ![t] = 0]

(* GET, and the locals of ReceiveResponse. *)
Get(t) ==
  /\ Goto(t, "get", "read")
  /\ Write(fd[t], <<Piece("request", page[t])>>)
  /\ fp' = NullFp(t)
  /\ chunk' = [chunk EXCEPT ![t] = FALSE]
  /\ UNCHANGED <<table, left, page, fd, buf, waits, mainVars, exposed>>

AfterEnd_NoFclose(t) == "close1"
AfterEnd(t) == IF fp[t] # 0 THEN "flush" ELSE "close1"

(* read is called.  It waits on a connection or a session; it fails on     *)
(* anything else, which ends the loop as the end of the response does.     *)
CallRead(t) ==
  LET at == table[fd[t]] IN
  /\ \/ /\ Goto(t, "read", "wait")
        /\ at.kind = "session" \/ (at.kind = "socket" /\ conn[at.page].up)
     \/ /\ Goto(t, "read", AfterEnd(t))
        /\ at.kind \in {"free", "file"} \/ (at.kind = "socket" /\ ~conn[at.page].up)
  /\ waits' = [waits EXCEPT ![t] = at.page]
  /\ UNCHANGED <<table, conn, disk, left, page, fd, fp, buf, chunk, mainVars,
                 exited, exposed>>

(* What the server has answered on the connection and nobody has read. *)
Answered(c) ==
  IF conn[c].request = None THEN <<>>
  ELSE SubSeq(Response(conn[c].request), conn[c].sent + 1,
              Len(Response(conn[c].request)))

Arrived(t) ==
  /\ waits[t] # None
  /\ Answered(waits[t]) # <<>>
  /\ conn' = [conn EXCEPT ![waits[t]].sent = @ + 1]
Got(t) == Head(Answered(waits[t]))

(* 200 in the first chunk: the file of the page is opened. *)
ReadHeader(t) ==
  /\ Goto(t, "wait", "read")
  /\ Arrived(t)
  /\ ~chunk[t] /\ Got(t).kind = "header"
  /\ Open(File(page[t]))
  /\ Expose(t, page[t])
  /\ fp' = [fp EXCEPT ![t] = Lowest]
  /\ chunk' = [chunk EXCEPT ![t] = TRUE]
  /\ disk' = [disk EXCEPT ![page[t]] = <<>>]
  /\ UNCHANGED <<left, page, fd, buf, waits, mainVars, exited>>

AfterError_Leaves == "pick"
AfterError == "close2"

(* 404 or 403: ReceiveResponse returns at once. *)
ReadError(t) ==
  /\ Goto(t, "wait", AfterError)
  /\ Arrived(t)
  /\ ~chunk[t] /\ Got(t).kind = "error"
  /\ UNCHANGED <<table, disk, left, page, fd, readVars, mainVars, exited, exposed>>

(* Text in the first chunk, its header read by another thread: no file. *)
ReadNoStatus(t) ==
  /\ Goto(t, "wait", "read")
  /\ Arrived(t)
  /\ ~chunk[t] /\ Got(t).kind = "text"
  /\ chunk' = [chunk EXCEPT ![t] = TRUE]
  /\ UNCHANGED <<table, disk, left, page, fd, fp, buf, waits, mainVars, exited,
                 exposed>>

(* Later chunks go to the file; fputs does not survive that there is none. *)
ReadData(t) ==
  /\ Goto(t, "wait", "read")
  /\ Arrived(t)
  /\ chunk[t]
  /\ exited' = (fp[t] = 0)
  /\ buf' = [buf EXCEPT ![t] = Append(@, Got(t))]
  /\ UNCHANGED <<table, disk, left, page, fd, fp, chunk, waits, mainVars, exposed>>

(* stdio writes the file when its buffer is full ... *)
Flush(t) ==
  /\ Goto(t, "read", "read")
  /\ buf[t] # <<>>
  /\ Write(fp[t], buf[t])
  /\ buf' = [buf EXCEPT ![t] = <<>>]
  /\ UNCHANGED <<table, left, page, fd, fp, chunk, waits, mainVars, exposed>>

(* The server has closed the connection, or the operator the session. *)
ReadEnd(t) ==
  /\ Goto(t, "wait", AfterEnd(t))
  /\ waits[t] # None =>
       /\ conn[waits[t]].request # None
       /\ Answered(waits[t]) = <<>> \/ conn[waits[t]].reset
  /\ UNCHANGED <<table, conn, disk, left, page, fd, readVars, mainVars, exited,
                 exposed>>

(* ... and fclose what is left, before it closes the number. *)
FlushLast(t) ==
  /\ Goto(t, "flush", "fclose")
  /\ Write(fp[t], buf[t])
  /\ buf' = [buf EXCEPT ![t] = <<>>]
  /\ UNCHANGED <<table, left, page, fd, fp, chunk, waits, mainVars, exposed>>

CloseFile(t) ==
  /\ Goto(t, "fclose", "close1")
  /\ Close(fp[t])
  /\ UNCHANGED <<conn, disk, left, page, fd, readVars, mainVars, exited, exposed>>

FirstClosed_File(t) == fp[t]
FirstClosed(t) == fd[t]

(* close(socketfd) in ReceiveResponse ... *)
CloseFirst(t) ==
  /\ Goto(t, "close1", "close2")
  /\ Close(FirstClosed(t))
  /\ UNCHANGED <<conn, disk, left, page, fd, readVars, mainVars, exited, exposed>>

(* ... and close(fd) in crawler_thread_function, after the counting. *)
CloseAgain(t) ==
  /\ Goto(t, "close2", "pick")
  /\ Close(fd[t])
  /\ page' = [page EXCEPT ![t] = None]
  /\ UNCHANGED <<conn, disk, left, fd, readVars, mainVars, exited, exposed>>

-----------------------------------------------------------------------------
(* The main thread: a command session, whose commands are left out here.   *)

Accept ==
  /\ ~exited
  /\ fd_command = 0
  /\ sessions < MaxSessions
  /\ Open(Session)
  /\ fd_command' = Lowest
  /\ sessions' = sessions + 1
  /\ UNCHANGED <<conn, disk, left, pc, page, fd, readVars, exited, exposed>>

(* The operator leaves. *)
EndSession ==
  /\ ~exited
  /\ fd_command # 0
  /\ Close(fd_command)
  /\ fd_command' = 0
  /\ UNCHANGED <<conn, disk, left, pc, page, fd, readVars, sessions, exited, exposed>>

-----------------------------------------------------------------------------
ThreadStep(t) ==
  \/ OpenSocket(t) \/ Connect(t) \/ Get(t) \/ CallRead(t) \/ ReadHeader(t)
  \/ ReadError(t) \/ ReadNoStatus(t) \/ ReadData(t) \/ Flush(t) \/ ReadEnd(t)
  \/ FlushLast(t) \/ CloseFile(t) \/ CloseFirst(t) \/ CloseAgain(t)

Next == Accept \/ EndSession \/ \E t \in Threads : ThreadStep(t)

Spec == Init /\ [][Next]_vars

-----------------------------------------------------------------------------
(* The clause on fp: a file is open only behind the header it was opened   *)
(* for.                                                                    *)
TypeOK ==
  /\ table \in [Numbers -> Objects]
  /\ conn \in [Pages -> [up : BOOLEAN, request : Pages \cup {None}, sent : 0..2,
                         reset : BOOLEAN]]
  /\ disk \in [Pages -> Seq(Pieces)]
  /\ left \subseteq Pages
  /\ pc \in [Threads -> FdLabels \cup {"pick"}]
  /\ page \in [Threads -> Pages \cup {None}]
  /\ fd \in [Threads -> Numbers \cup {0}]
  /\ fp \in [Threads -> Numbers \cup {0}]
  /\ buf \in [Threads -> Seq(Pieces)]
  /\ chunk \in [Threads -> BOOLEAN]
  /\ \A t \in Threads : pc[t] \in FpLabels /\ fp[t] # 0 => chunk[t]
  /\ waits \in [Threads -> Pages \cup {None}]
  /\ fd_command \in Numbers \cup {0}
  /\ sessions \in 0..MaxSessions
  /\ exited \in BOOLEAN
  /\ exposed \subseteq Pages

Owns(t) ==
  /\ pc[t] \in FdLabels \ {"close2"} => table[fd[t]] = Socket(page[t])
  /\ pc[t] \in FpLabels /\ fp[t] # 0 => table[fp[t]] = File(page[t])

(* A thread that was given its numbers when nobody else had them in a      *)
(* variable keeps them until it closes them itself: the second close of    *)
(* another thread is the only way to lose one, and it reaches only numbers *)
(* given out between the two closes (webcrawler.c:49-67,                   *)
(* crawler_functions.c:100).                                               *)
KeepsItsNumbers == \A t \in Threads : page[t] \in exposed \/ Owns(t)

(* The page of such a thread is saved with its own text and no other, even *)
(* when other threads write through numbers that are no longer theirs      *)
(* (crawler_functions.c:75, 93, 99).                                       *)
SavedItsText ==
  \A p \in Pages \ (left \cup exposed \cup Range(page)) :
    disk[p] = IF p \in Exists THEN <<Piece("text", p)>> ELSE <<>>

(* When all threads are back at the queue and there is no session, every   *)
(* number is free again, whoever closed what: the caller's close is the    *)
(* only one on the way back from a 404, so it cannot simply be left out    *)
(* (webcrawler.c:67, 244, crawler_functions.c:77-81, 99-100).              *)
NoNumberLeaks ==
  ~exited /\ fd_command = 0 /\ (\A t \in Threads : pc[t] = "pick")
    => \A n \in Numbers : table[n] = Free

-----------------------------------------------------------------------------
(* crawler_functions.c:54, "If response is 200 , the page is stored in the *)
(* directory": when the thread is done with a page to whose request some   *)
(* thread has read the answer 200, the file of the page has its text.      *)
PageIsStored ==
  \A p \in Exists \ (left \cup Range(page)) :
    conn[p].request = p /\ conn[p].sent > 0 => disk[p] = <<Piece("text", p)>>
=============================================================================
