----------------------------- MODULE ServerPool -----------------------------
(***************************************************************************)
(* The web server (webserver.c with server_functions.c): the main thread   *)
(* accepts connections into a bounded buffer of descriptors, the threads   *)
(* of the pool take them out and answer them, and an operator reads the    *)
(* statistics or shuts the server down on the command port.                *)
(*                                                                         *)
(* Grain of atomicity: one action per access to memory another thread may  *)
(* access at the same time.  A section under pool->mtx is entered and left *)
(* by actions of its own because BFR_PickFd only tries that lock.          *)
(* buffer_full_mtx is taken by the main thread alone, so it excludes       *)
(* nobody and has no variable.  A waiter on a condition is a thread whose  *)
(* label is "sleep...".  -O0 builds (Makefile: gcc -g3) load and store     *)
(* every access, so an unlocked counter++ is a load and a later store.     *)
(***************************************************************************)
EXTENDS Integers, Sequences, FiniteSets, Functions

CONSTANTS
  Conns,         \* connections that clients open to the serving port
  Workers,       \* threads of the pool
  FDBUFFERSIZE,  \* slots of the descriptor buffer (10 in webserver.c)
  Reply,         \* Reply[c]: what send_response returns for connection c
  Main,          \* the main thread, as holder of pool->mtx
  NoFd,          \* no descriptor
  Free           \* an unlocked mutex

ASSUME FdBufferAssumption == FDBUFFERSIZE \in Nat \ {0}
ASSUME ReplyAssumption == Reply \in [Conns -> Int]
ASSUME NamesAssumption ==
  /\ NoFd \notin Conns
  /\ Main \notin Workers
  /\ Free \notin Workers \cup {Main}

VARIABLES
  clients,    \* connections not yet opened by their client
  backlog,    \* the kernel's queue of connections to accept
  fds,        \* pool->fds[0 .. active_fds-1]
  mtx,        \* holder of pool->mtx
  empty_mtx,  \* holder of pool->buffer_empty_mtx
  mpc,        \* label of the main thread
  fd1,        \* main's connection between accept and the buffer
  pc,         \* pc[w]: label of worker w
  picked,     \* picked[w]: the variable fd of w's call of BFR_PickFd
  fd,         \* fd[w]: the variable fd of w's loop: the connection it owns
  reg,        \* reg[w]: the counter value w has loaded
  responses,  \* pool->responses
  bytes,      \* pool->bytes
  closed,     \* connections closed by a worker
  operator,   \* the operator's connection to the command port
  report,     \* the counters shown by the last STATS
  phase       \* "up", "freed" after FDR_free, "exited" or dead

queueVars == <<clients, backlog, fds, mtx, empty_mtx>>
mainVars == <<mpc, fd1>>
workerVars == <<pc, picked, fd, reg>>
countVars == <<responses, bytes, closed>>
commandVars == <<operator, report, phase>>
vars == <<clients, backlog, fds, mtx, empty_mtx, mpc, fd1, pc, picked, fd,
          reg, responses, bytes, closed, operator, report, phase>>

active_fds == Len(fds)

MainLabels == {"testFull", "waitFull", "sleepFull", "accept", "lock", "put",
               "command", "session", "stats"}
(* Labels at which a worker is about to touch the pool's memory ... *)
PoolLabels == {"lockEmpty", "testEmpty", "waitEmpty", "check", "trylock",
               "take", "shift", "serve", "loadPages", "storePages",
               "loadBytes", "storeBytes"}
(* ... and those at which it is asleep, closing, or past a freed access. *)
WorkerLabels == PoolLabels \cup {"sleepEmpty", "close", "undefined"}

Init ==
  /\ clients = Conns
  /\ backlog = <<>>
  /\ fds = <<>>
  /\ mtx = Free
  /\ empty_mtx = Free
  /\ mpc = "testFull"
  /\ fd1 = NoFd
  /\ pc = [w \in Workers |-> "lockEmpty"]
  /\ picked = [w \in Workers |-> NoFd]
  /\ fd = [w \in Workers |-> NoFd]
  /\ reg = [w \in Workers |-> 0]
  /\ responses = 0
  /\ bytes = 0
  /\ closed = {}
  /\ operator = "away"
  /\ report = [pages |-> 0, bytes |-> 0]
  /\ phase = "up"

-----------------------------------------------------------------------------
(* The environment: clients of the serving port and the operator.          *)

Connect(c) ==
  /\ phase = "up"
  /\ c \in clients
  /\ clients' = clients \ {c}
  /\ backlog' = Append(backlog, c)
  /\ UNCHANGED <<fds, mtx, empty_mtx, mainVars, workerVars, countVars,
                 commandVars>>

OperatorConnects ==
  /\ phase = "up"
  /\ operator = "away"
  /\ operator' = "knocking"
  /\ UNCHANGED <<queueVars, mainVars, workerVars, countVars, report, phase>>

-----------------------------------------------------------------------------
(* The main thread.                                                        *)
(*                                                                         *)
(* An operator X_Y just before X is a defect of X, used to check that the  *)
(* properties would notice it; no action uses it.                          *)

MainGoto(from, to) ==
  /\ phase = "up"
  /\ mpc = from
  /\ mpc' = to

Full_TooLate == active_fds > FDBUFFERSIZE
Full == active_fds = FDBUFFERSIZE

(* while(active_fds==FDBUFFERSIZE): the test, without pool->mtx. *)
TestFull ==
  /\ MainGoto("testFull", IF Full THEN "waitFull" ELSE "accept")
  /\ UNCHANGED <<queueVars, fd1, workerVars, countVars, commandVars>>

(* pthread_cond_wait on buffer_full: from here on a signal reaches main. *)
WaitFull ==
  /\ MainGoto("waitFull", "sleepFull")
  /\ UNCHANGED <<queueVars, fd1, workerVars, countVars, commandVars>>

(* accept on the nonblocking serving socket: -1 when nothing is pending. *)
AcceptClient ==
  /\ IF backlog = <<>>
     THEN /\ MainGoto("accept", "command")
          /\ UNCHANGED <<fd1, backlog>>
     ELSE /\ MainGoto("accept", "lock")
          /\ fd1' = Head(backlog)
          /\ backlog' = Tail(backlog)
  /\ UNCHANGED <<clients, fds, mtx, empty_mtx, workerVars, countVars,
                 commandVars>>

LockMtx ==
  /\ MainGoto("lock", "put")
  /\ mtx = Free
  /\ mtx' = Main
  /\ UNCHANGED <<clients, backlog, fds, empty_mtx, fd1, workerVars,
                 countVars, commandVars>>

(* pthread_cond_signal on buffer_empty: one sleeper, if any, is sent to     *)
(* reacquire buffer_empty_mtx.                                             *)
SignalEmpty ==
  IF \E w \in Workers : pc[w] = "sleepEmpty"
  THEN \E w \in Workers :
         /\ pc[w] = "sleepEmpty"
         /\ pc' = [pc EXCEPT ![w] = "lockEmpty"]
  ELSE UNCHANGED pc

Filled_Front == <<fd1>> \o fds
Filled == Append(fds, fd1)
UnlockMtx_Forgotten == mtx' = mtx
UnlockMtx == mtx' = Free

(* The rest of the section under mtx: store, count, signal, unlock. *)
PutFd ==
  /\ MainGoto("put", "command")
  /\ fds' = Filled
  /\ fd1' = NoFd
  /\ SignalEmpty
  /\ UnlockMtx
  /\ UNCHANGED <<clients, backlog, empty_mtx, picked, fd, reg, countVars,
                 commandVars>>

(* accept on the nonblocking command socket. *)
AcceptCommand ==
  /\ MainGoto("command", IF operator = "knocking" THEN "session"
                                                  ELSE "testFull")
  /\ operator' = IF operator = "knocking" THEN "connected" ELSE operator
  /\ UNCHANGED <<queueVars, fd1, workerVars, countVars, report, phase>>

(* The command session: main is in read() until the operator does          *)
(* something.  STATS reads two counters one after the other, unlocked.     *)
StatsPages ==
  /\ MainGoto("session", "stats")
  /\ report' = [report EXCEPT !.pages = responses]
  /\ UNCHANGED <<queueVars, fd1, workerVars, countVars, operator, phase>>

StatsBytes ==
  /\ MainGoto("stats", "session")
  /\ report' = [report EXCEPT !.bytes = bytes]
  /\ UNCHANGED <<queueVars, fd1, workerVars, countVars, operator, phase>>

EndSession ==
  /\ MainGoto("session", "testFull")
  /\ operator' = "away"
  /\ UNCHANGED <<queueVars, fd1, workerVars, countVars, report, phase>>

(* SHUTDOWN: FDR_free(pool) first, exit(1) after it; the workers run on. *)
Shutdown ==
  /\ MainGoto("session", "session")
  /\ phase' = "freed"
  /\ UNCHANGED <<queueVars, fd1, workerVars, countVars, operator, report>>

Exit ==
  /\ phase = "freed"
  /\ phase' = "exited"
  /\ UNCHANGED <<queueVars, mainVars, workerVars, countVars, operator,
                 report>>

-----------------------------------------------------------------------------
(* The workers: server_thread_function, BFR_PickFd inlined.                *)

WorkerGoto(w, from, to) ==
  /\ phase = "up"
  /\ pc[w] = from
  /\ pc' = [pc EXCEPT ![w] = to]

EmptyMtxFree_Shared == TRUE
EmptyMtxFree == empty_mtx = Free

LockEmpty(w) ==
  /\ WorkerGoto(w, "lockEmpty", "testEmpty")
  /\ EmptyMtxFree
  /\ empty_mtx' = w
  /\ UNCHANGED <<clients, backlog, fds, mtx, mainVars, picked, fd, reg,
                 countVars, commandVars>>

(* while(active_fds==0): the test, without pool->mtx; unlock if it fails.  *)
TestEmpty(w) ==
  /\ WorkerGoto(w, "testEmpty",
                IF active_fds = 0 THEN "waitEmpty" ELSE "check")
  /\ empty_mtx' = IF active_fds = 0 THEN empty_mtx ELSE Free
  /\ UNCHANGED <<clients, backlog, fds, mtx, mainVars, picked, fd, reg,
                 countVars, commandVars>>

(* pthread_cond_wait on buffer_empty: release the mutex, join the sleepers. *)
WaitEmpty(w) ==
  /\ WorkerGoto(w, "waitEmpty", "sleepEmpty")
  /\ empty_mtx' = Free
  /\ UNCHANGED <<clients, backlog, fds, mtx, mainVars, picked, fd, reg,
                 countVars, commandVars>>

CheckAgain(w) ==
  /\ WorkerGoto(w, "check", IF active_fds # 0 THEN "trylock" ELSE "lockEmpty")
  /\ UNCHANGED <<queueVars, mainVars, picked, fd, reg, countVars,
                 commandVars>>

IfBusy_GoOn == "close"
IfBusy == "lockEmpty"

(* BFR_PickFd: pthread_mutex_trylock; on failure -1 and back to the loop. *)
TryLock(w) ==
  /\ WorkerGoto(w, "trylock", IF mtx = Free THEN "take" ELSE IfBusy)
  /\ mtx' = IF mtx = Free THEN w ELSE mtx
  /\ UNCHANGED <<clients, backlog, fds, empty_mtx, mainVars, picked, fd, reg,
                 countVars, commandVars>>

(* BFR_PickFd under mtx: -1 on an empty buffer, else fd = fds[0]. *)
TakeFd(w) ==
  /\ IF active_fds = 0
     THEN /\ WorkerGoto(w, "take", "lockEmpty")
          /\ mtx' = Free
          /\ UNCHANGED picked
     ELSE /\ WorkerGoto(w, "take", "shift")
          /\ picked' = [picked EXCEPT ![w] = Head(fds)]
          /\ UNCHANGED mtx
  /\ UNCHANGED <<clients, backlog, fds, empty_mtx, mainVars, fd, reg,
                 countVars, commandVars>>

(* pthread_cond_signal on buffer_full. *)
SignalFull == mpc' = IF mpc = "sleepFull" THEN "testFull" ELSE mpc

Shifted_DropsLast == SubSeq(fds, 1, active_fds - 1)
Shifted == Tail(fds)

(* BFR_PickFd: the shift loop, active_fds--, signal, unlock, return fd. *)
ShiftFds(w) ==
  /\ WorkerGoto(w, "shift", "serve")
  /\ fds' = Shifted
  /\ SignalFull
  /\ mtx' = Free
  /\ fd' = [fd EXCEPT ![w] = picked[w]]
  /\ picked' = [picked EXCEPT ![w] = NoFd]
  /\ UNCHANGED <<clients, backlog, empty_mtx, fd1, reg, countVars,
                 commandVars>>

Counted_Errors(c) == Reply[c] # 0
Counted(c) == Reply[c] > 0

(* read_request and send_response that return (ProcessDies is the other    *)
(* outcome); only a positive result is counted.                            *)
Serve(w) ==
  /\ WorkerGoto(w, "serve", IF Counted(fd[w]) THEN "loadPages" ELSE "close")
  /\ UNCHANGED <<queueVars, mainVars, picked, fd, reg, countVars,
                 commandVars>>

(* The process dies in an answer: of SIGPIPE on a connection its client has *)
(* left (a worker's, or the operator's), of strcmp or strcpy of NULL on a  *)
(* request that is empty or cut, of fseek(NULL) when fopen fails, as it    *)
(* does once enough pages have been opened and not closed.                 *)
ProcessDies ==
  /\ phase = "up"
  /\ mpc \in {"session", "stats"} \/ \E w \in Workers : pc[w] = "serve"
  /\ phase' = "exited"
  /\ UNCHANGED <<queueVars, mainVars, workerVars, countVars, operator,
                 report>>

(* pool->responses++ and pool->bytes+=bytes, without a lock. *)
LoadPages(w) ==
  /\ WorkerGoto(w, "loadPages", "storePages")
  /\ reg' = [reg EXCEPT ![w] = responses]
  /\ UNCHANGED <<queueVars, mainVars, picked, fd, countVars, commandVars>>

StorePages(w) ==
  /\ WorkerGoto(w, "storePages", "loadBytes")
  /\ responses' = reg[w] + 1
  /\ UNCHANGED <<queueVars, mainVars, picked, fd, reg, bytes, closed,
                 commandVars>>

LoadBytes(w) ==
  /\ WorkerGoto(w, "loadBytes", "storeBytes")
  /\ reg' = [reg EXCEPT ![w] = bytes]
  /\ UNCHANGED <<queueVars, mainVars, picked, fd, countVars, commandVars>>

StoreBytes(w) ==
  /\ WorkerGoto(w, "storeBytes", "close")
  /\ bytes' = reg[w] + Reply[fd[w]]
  /\ UNCHANGED <<queueVars, mainVars, picked, fd, reg, responses, closed,
                 commandVars>>

(* close(fd); it touches no memory of the pool, so it also runs once freed. *)
CloseFd(w) ==
  /\ phase # "exited"
  /\ pc[w] = "close"
  /\ pc' = [pc EXCEPT ![w] = "lockEmpty"]
  /\ closed' = closed \cup {fd[w]}
  /\ fd' = [fd EXCEPT ![w] = NoFd]
  /\ UNCHANGED <<queueVars, mainVars, picked, reg, responses, bytes,
                 commandVars>>

(* A worker uses the pool between FDR_free and exit: undefined behaviour,  *)
(* after which nothing is claimed of that thread.                          *)
TouchFreedPool(w) ==
  /\ phase = "freed"
  /\ pc[w] \in PoolLabels
  /\ pc' = [pc EXCEPT ![w] = "undefined"]
  /\ UNCHANGED <<queueVars, mainVars, picked, fd, reg, countVars,
                 commandVars>>

(* pthread_cond_wait may return without a signal. *)
SpuriousWakeFull ==
  /\ MainGoto("sleepFull", "testFull")
  /\ UNCHANGED <<queueVars, fd1, workerVars, countVars, commandVars>>

SpuriousWakeEmpty(w) ==
  /\ WorkerGoto(w, "sleepEmpty", "lockEmpty")
  /\ UNCHANGED <<queueVars, mainVars, picked, fd, reg, countVars,
                 commandVars>>

-----------------------------------------------------------------------------
MainStep == \/ TestFull \/ WaitFull \/ AcceptClient \/ LockMtx \/ PutFd
            \/ AcceptCommand \/ StatsBytes

OperatorStep == OperatorConnects \/ StatsPages \/ EndSession \/ Shutdown

WorkerStep(w) ==
  \/ LockEmpty(w) \/ TestEmpty(w) \/ WaitEmpty(w) \/ CheckAgain(w)
  \/ TryLock(w) \/ TakeFd(w) \/ ShiftFds(w) \/ Serve(w)
  \/ LoadPages(w) \/ StorePages(w) \/ LoadBytes(w) \/ StoreBytes(w)
  \/ CloseFd(w)

SpuriousWake == SpuriousWakeFull \/ \E w \in Workers : SpuriousWakeEmpty(w)

Next ==
  \/ \E c \in Conns : Connect(c)
  \/ OperatorStep
  \/ MainStep
  \/ Exit
  \/ ProcessDies
  \/ \E w \in Workers : WorkerStep(w) \/ TouchFreedPool(w)
  \/ SpuriousWake

Spec == Init /\ [][Next]_vars

(* The scheduler runs every thread that can run, and a client that has     *)
(* connected sends its request (Serve is where read_request blocks).       *)
(* Nobody owes a connection, an operator's command, a spurious wakeup or   *)
(* the death of the process.                                               *)
Fairness == WF_vars(MainStep) /\ \A w \in Workers : WF_vars(WorkerStep(w))

FairSpec == Spec /\ Fairness

-----------------------------------------------------------------------------
TypeOK ==
  /\ clients \subseteq Conns
  /\ backlog \in Seq(Conns)
  /\ fds \in Seq(Conns)
  /\ mtx \in Workers \cup {Main, Free}
  /\ empty_mtx \in Workers \cup {Free}
  /\ mpc \in MainLabels
  /\ fd1 \in Conns \cup {NoFd}
  /\ pc \in [Workers -> WorkerLabels]
  /\ picked \in [Workers -> Conns \cup {NoFd}]
  /\ fd \in [Workers -> Conns \cup {NoFd}]
  /\ reg \in [Workers -> Int]
  /\ responses \in Int
  /\ bytes \in Int
  /\ closed \subseteq Conns
  /\ operator \in {"away", "knocking", "connected"}
  /\ report \in [pages : Int, bytes : Int]
  /\ phase \in {"up", "freed", "exited"}

(* The buffer never holds more than FDBUFFERSIZE descriptors, although main *)
(* tests for room without pool->mtx and stores only after accept and lock: *)
(* main is the only thread that fills, so room once seen is still there    *)
(* (webserver.c:138-146).                                                  *)
RoomOnceSeen == mpc \in {"accept", "lock", "put"} => active_fds < FDBUFFERSIZE
NoOverflow == active_fds <= FDBUFFERSIZE /\ RoomOnceSeen

(* Every connection is in exactly one place: not opened, in the kernel's   *)
(* backlog, in main's fd1, in one slot of the buffer, in the hands of one  *)
(* worker, or closed.  So none is answered by two threads, closed twice or *)
(* dropped without being closed (webserver.c:29-43, 142-149).              *)
Places(c) ==
     {<<"client">> : x \in {c} \cap clients}
  \cup {<<"backlog", i>> : i \in {j \in 1..Len(backlog) : backlog[j] = c}}
  \cup {<<"main">> : x \in {c} \cap {fd1}}
  \cup {<<"slot", i>> : i \in {j \in 1..Len(fds) : fds[j] = c}}
  \cup {<<"worker", w>> : w \in {v \in Workers : fd[v] = c}}
  \cup {<<"closed">> : x \in {c} \cap closed}
OneOwner == \A c \in Conns : \E p \in Places(c) : Places(c) = {p}

(* The threads, mutexes, conditions and stale tests together implement a   *)
(* bounded FIFO hand-off: connections reach the workers in accept order,   *)
(* each one once (server_functions.c:39-56, webserver.c:136-149).          *)
Handoff == INSTANCE HandoffQueue WITH
  Items <- Conns, Takers <- Workers, Capacity <- FDBUFFERSIZE,
  Unbounded <- -1, None <- NoFd, queue <- fds, hand <- fd, done <- closed
ImplementsHandoff == Handoff!Spec

(* Connections whose page was sent and is to be counted. *)
CountLabels == {"loadPages", "storePages", "loadBytes", "storeBytes"}
Answered ==
  {c \in Conns :
     /\ Reply[c] > 0
     /\ \/ c \in closed
        \/ \E w \in Workers :
             fd[w] = c /\ pc[w] \in CountLabels \cup {"close"}}

(* STATS never shows more pages or bytes than were really served: lost     *)
(* updates of the unlocked counters only ever lose (webserver.c:40-41,     *)
(* 162-164).                                                               *)
StatsNeverOverreport ==
  phase = "up" =>
    /\ report.pages <= Cardinality(Answered)
    /\ report.bytes <= SumFunctionOnSet(Reply, Answered)

(* The whole pool is asleep only while the buffer is empty, with two        *)
(* workers or more.  Main signals buffer_empty without buffer_empty_mtx, so *)
(* a worker between its test and its wait misses the signal; but that       *)
(* mutex lets one worker at a time be there, so another one is awake or is *)
(* the one the signal wakes (webserver.c:23-27, 144-148).  With one worker *)
(* the wakeup is lost: the same formula is refuted then                    *)
(* (server_functions.h:11, "condition for empty buffer of fds").           *)
PoolSleepsOnlyWhileEmpty ==
  phase = "up" /\ (\A w \in Workers : pc[w] = "sleepEmpty") => fds = <<>>

(* Every connection in the buffer is answered and closed, unless the       *)
(* server is shut down or dies in an answer or a command session           *)
(* (ProcessDies): a failed trylock is retried, and no wakeup that is lost  *)
(* leaves a connection without a thread to serve it                        *)
(* (webserver.c:22-43, server_functions.c:41-46).                          *)
EveryConnectionAnswered ==
  \A c \in Conns : c \in Range(fds) ~> (c \in closed \/ phase # "up")

-----------------------------------------------------------------------------
(* What comments in the source say of this component, and the runs refute. *)

(* webserver.c:140, "while buffer is full wait": main sleeps on buffer_full *)
(* only while the buffer is full.  It does not: a worker makes room between *)
(* main's test and its wait, and its signal is lost.                       *)
MainWaitsOnlyWhileFull ==
  phase = "up" /\ mpc = "sleepFull" => active_fds = FDBUFFERSIZE
=============================================================================
