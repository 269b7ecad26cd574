-------------------------- MODULE ServerPoolProofs --------------------------
(***************************************************************************)
(* Proofs about ServerPool for any connections, any workers and any size   *)
(* of the buffer.                                                          *)
(***************************************************************************)
EXTENDS ServerPool, DataLemmas

(* Labels at which a worker owns a connection. *)
OwnerLabels == {"serve", "loadPages", "storePages", "loadBytes", "storeBytes",
                "close"}

(* What the threads rely on between two of their actions: main has a       *)
(* connection to store and, while it stores it, holds pool->mtx; a worker  *)
(* inside BFR_PickFd holds pool->mtx, and the buffer it saw is not empty;  *)
(* a worker that serves has a connection.                                  *)
MainOwns == mpc \in {"lock", "put"} => fd1 \in Conns
MainHolds == mpc = "put" => mtx = Main
WorkerHolds == \A w \in Workers : pc[w] \in {"take", "shift"} => mtx = w
WorkerSaw ==
  \A w \in Workers : pc[w] = "shift" => fds # <<>> /\ picked[w] \in Conns
WorkerOwns == \A w \in Workers : pc[w] \in OwnerLabels => fd[w] \in Conns

Inv ==
  /\ TypeOK
  /\ MainOwns /\ MainHolds
  /\ WorkerHolds /\ WorkerSaw /\ WorkerOwns

LEMMA InitInv == Init => Inv
BY FdBufferAssumption, NamesAssumption
DEF Init, Inv, TypeOK, MainOwns, MainHolds, WorkerHolds, WorkerSaw, WorkerOwns,
    MainLabels, WorkerLabels, PoolLabels, OwnerLabels

LEMMA StepInv == Inv /\ [Next]_vars => Inv'
<1> SUFFICES ASSUME Inv, [Next]_vars PROVE Inv'
  OBVIOUS
<1> USE NamesAssumption
    DEF Inv, TypeOK, MainOwns, MainHolds, WorkerHolds, WorkerSaw, WorkerOwns,
        MainLabels, WorkerLabels, PoolLabels, OwnerLabels,
        queueVars, mainVars, workerVars, countVars, commandVars,
        MainGoto, WorkerGoto, active_fds, Full, Filled, UnlockMtx,
        EmptyMtxFree, IfBusy, Shifted, Counted
<1>1. CASE \E c \in Conns : Connect(c)
  BY <1>1, AppendProperties DEF Connect
<1>2. CASE OperatorConnects
  BY <1>2 DEF OperatorConnects
<1>3. CASE StatsPages
  BY <1>3 DEF StatsPages
<1>4. CASE StatsBytes
  BY <1>4 DEF StatsBytes
<1>5. CASE EndSession
  BY <1>5 DEF EndSession
<1>6. CASE Shutdown
  BY <1>6 DEF Shutdown
<1>7. CASE TestFull
  BY <1>7 DEF TestFull
<1>8. CASE WaitFull
  BY <1>8 DEF WaitFull
<1>9. CASE AcceptClient
  <2>1. CASE backlog = <<>>
    BY <1>9, <2>1 DEF AcceptClient
  <2>2. CASE backlog # <<>>
    <3>1. Head(backlog) \in Conns /\ Tail(backlog) \in Seq(Conns)
      BY <2>2, HeadTailProperties
    <3> QED
      BY <1>9, <2>2, <3>1 DEF AcceptClient
  <2> QED
    BY <2>1, <2>2
<1>10. CASE LockMtx
  BY <1>10 DEF LockMtx
<1>11. CASE PutFd
  <2>1. fd1 \in Conns /\ mtx = Main
    BY <1>11 DEF PutFd
  <2>2. Append(fds, fd1) \in Seq(Conns)
    BY <2>1, AppendProperties
  <2>3. /\ pc' \in [Workers -> WorkerLabels]
        /\ \A w \in Workers : pc'[w] = pc[w] \/ pc'[w] = "lockEmpty"
    BY <1>11 DEF PutFd, SignalEmpty
  <2>4. \A w \in Workers : pc[w] \notin {"take", "shift"}
    BY <2>1
  <2>5. TypeOK'
    BY <1>11, <2>2, <2>3 DEF PutFd
  <2> QED
    BY <1>11, <2>3, <2>4, <2>5 DEF PutFd
<1>12. CASE AcceptCommand
  BY <1>12 DEF AcceptCommand
<1>13. CASE Exit
  BY <1>13 DEF Exit
<1>14. CASE SpuriousWakeFull
  BY <1>14 DEF SpuriousWakeFull
<1>15. ASSUME NEW w \in Workers, LockEmpty(w) PROVE Inv'
  BY <1>15 DEF LockEmpty
<1>16. ASSUME NEW w \in Workers, TestEmpty(w) PROVE Inv'
  BY <1>16 DEF TestEmpty
<1>17. ASSUME NEW w \in Workers, WaitEmpty(w) PROVE Inv'
  BY <1>17 DEF WaitEmpty
<1>18. ASSUME NEW w \in Workers, CheckAgain(w) PROVE Inv'
  BY <1>18 DEF CheckAgain
<1>19. ASSUME NEW w \in Workers, TryLock(w) PROVE Inv'
  BY <1>19 DEF TryLock
<1>20. ASSUME NEW w \in Workers, TakeFd(w) PROVE Inv'
  <2>1. CASE fds = <<>>
    BY <1>20, <2>1, ZenonT(60) DEF TakeFd
  <2>2. CASE fds # <<>>
    <3>1. Head(fds) \in Conns /\ active_fds # 0
      BY <2>2, HeadTailProperties, EmptySeq
    <3>2. /\ pc[w] = "take" /\ pc' = [pc EXCEPT ![w] = "shift"]
          /\ picked' = [picked EXCEPT ![w] = Head(fds)]
          /\ UNCHANGED <<clients, backlog, fds, mtx, empty_mtx, mpc, fd1, fd,
                         reg, responses, bytes, closed, operator, report,
                         phase>>
      BY <1>20, <3>1 DEF TakeFd
    <3> QED
      BY <2>2, <3>1, <3>2
  <2> QED
    BY <2>1, <2>2
<1>21. ASSUME NEW w \in Workers, ShiftFds(w) PROVE Inv'
  BY <1>21, HeadTailProperties DEF ShiftFds, SignalFull
<1>22. ASSUME NEW w \in Workers, Serve(w) PROVE Inv'
  BY <1>22 DEF Serve
<1>23. ASSUME NEW w \in Workers, LoadPages(w) PROVE Inv'
  BY <1>23 DEF LoadPages
<1>24. ASSUME NEW w \in Workers, StorePages(w) PROVE Inv'
  BY <1>24 DEF StorePages
<1>25. ASSUME NEW w \in Workers, LoadBytes(w) PROVE Inv'
  BY <1>25 DEF LoadBytes
<1>26. ASSUME NEW w \in Workers, StoreBytes(w) PROVE Inv'
  BY <1>26, ReplyAssumption DEF StoreBytes
<1>27. ASSUME NEW w \in Workers, CloseFd(w) PROVE Inv'
  BY <1>27 DEF CloseFd
<1>28. ASSUME NEW w \in Workers, TouchFreedPool(w) PROVE Inv'
  BY <1>28 DEF TouchFreedPool
<1>29. ASSUME NEW w \in Workers, SpuriousWakeEmpty(w) PROVE Inv'
  BY <1>29 DEF SpuriousWakeEmpty
<1>30. CASE ProcessDies
  BY <1>30 DEF ProcessDies
<1>31. CASE UNCHANGED vars
  BY <1>31 DEF vars
<1> QED
  BY <1>1, <1>2, <1>3, <1>4, <1>5, <1>6, <1>7, <1>8, <1>9, <1>10,
     <1>11, <1>12, <1>13, <1>14, <1>15, <1>16, <1>17, <1>18, <1>19, <1>20,
     <1>21, <1>22, <1>23, <1>24, <1>25, <1>26, <1>27, <1>28, <1>29, <1>30,
     <1>31
  DEF Next, OperatorStep, MainStep, WorkerStep, SpuriousWake

(* The variables keep their types in every execution (webserver.c,         *)
(* server_functions.c): no thread stores or closes a descriptor it does    *)
(* not have, and none shifts an empty buffer.                              *)
THEOREM TypeCorrect == Spec => []TypeOK
<1>1. Inv => TypeOK
  BY DEF Inv
<1> QED
  BY <1>1, InitInv, StepInv, PTL DEF Spec

-----------------------------------------------------------------------------
(* What the actions that are not about the buffer leave alone. *)

LEMMA WorkerKeepsBuffer ==
  ASSUME NEW w \in Workers,
         (WorkerStep(w) /\ ~ ShiftFds(w)) \/ TouchFreedPool(w)
           \/ SpuriousWakeEmpty(w)
  PROVE  UNCHANGED <<fds, mpc>>
BY DEF WorkerStep, LockEmpty, TestEmpty, WaitEmpty, CheckAgain, TryLock,
       TakeFd, Serve, LoadPages, StorePages, LoadBytes, StoreBytes, CloseFd,
       TouchFreedPool, SpuriousWakeEmpty, queueVars, mainVars

LEMMA OverflowStep == Inv /\ NoOverflow /\ [Next]_vars => NoOverflow'
<1> SUFFICES ASSUME Inv, NoOverflow, [Next]_vars PROVE NoOverflow'
  OBVIOUS
<1> USE FdBufferAssumption
    DEF NoOverflow, RoomOnceSeen, active_fds, Full, Filled, Shifted
<1>1. fds \in Seq(Conns) /\ Len(fds) \in Nat
  BY LenProperties DEF Inv, TypeOK
<1>2. CASE UNCHANGED <<fds, mpc>>
  BY <1>2
<1>3. CASE PutFd
  <2>1. fd1 \in Conns /\ Len(fds) < FDBUFFERSIZE
    BY <1>3 DEF PutFd, MainGoto, Inv, MainOwns
  <2>2. Len(fds') = Len(fds) + 1 /\ mpc' = "command"
    BY <1>1, <1>3, <2>1, AppendProperties DEF PutFd, MainGoto
  <2> QED
    BY <1>1, <2>1, <2>2
<1>4. CASE \E w \in Workers : ShiftFds(w)
  <2>1. PICK w \in Workers : ShiftFds(w)
    BY <1>4
  <2>2. fds # <<>>
    BY <2>1 DEF ShiftFds, WorkerGoto, Inv, WorkerSaw
  <2>3. Len(fds') = Len(fds) - 1
    BY <1>1, <2>1, <2>2, HeadTailProperties DEF ShiftFds
  <2>4. mpc' = mpc \/ mpc' = "testFull"
    BY <2>1 DEF ShiftFds, SignalFull
  <2> QED
    BY <1>1, <2>3, <2>4
<1>5. CASE TestFull
  BY <1>1, <1>5 DEF TestFull, MainGoto, queueVars
<1>6. CASE \/ WaitFull \/ AcceptClient \/ LockMtx \/ AcceptCommand
           \/ StatsPages \/ StatsBytes \/ EndSession \/ Shutdown
           \/ SpuriousWakeFull
  <2>1. /\ fds' = fds
        /\ mpc' \in {"accept", "lock", "put"} => mpc \in {"accept", "lock"}
    BY <1>6 DEF WaitFull, AcceptClient, LockMtx, AcceptCommand, StatsPages,
                StatsBytes, EndSession, Shutdown, SpuriousWakeFull, MainGoto,
                queueVars
  <2> QED
    BY <2>1
<1>7. CASE \/ OperatorConnects \/ Exit \/ ProcessDies
           \/ \E c \in Conns : Connect(c)
  BY <1>2, <1>7
  DEF OperatorConnects, Exit, ProcessDies, Connect, queueVars, mainVars
<1> QED
  BY <1>2, <1>3, <1>4, <1>5, <1>6, <1>7, WorkerKeepsBuffer
  DEF Next, OperatorStep, MainStep, SpuriousWake, vars

(* The buffer of FDBUFFERSIZE slots never overflows, whatever its size and *)
(* however many workers empty it (webserver.c:136-149): main alone fills   *)
(* it, so the room that its unlocked test saw is still there when it       *)
(* stores.                                                                 *)
THEOREM BufferNeverOverflows == Spec => []NoOverflow
<1>1. Init => NoOverflow
  BY FdBufferAssumption, EmptySeq, LenProperties
  DEF Init, NoOverflow, RoomOnceSeen, active_fds
<1> QED
  BY <1>1, InitInv, StepInv, OverflowStep, PTL DEF Spec

-----------------------------------------------------------------------------
(* Why no connection is left to a sleeping pool: buffer_empty_mtx lets one *)
(* worker at a time be between its test and its wait, and main's signal    *)
(* reaches every worker that is past it.                                   *)
AloneInTest ==
  \A w \in Workers : pc[w] \in {"testEmpty", "waitEmpty"} => empty_mtx = w
SomeoneUp ==
  phase = "up" /\ fds # <<>>
    => \E w \in Workers : pc[w] \notin {"waitEmpty", "sleepEmpty"}

LEMMA AloneStep == Inv /\ AloneInTest /\ [Next]_vars => AloneInTest'
<1> SUFFICES ASSUME Inv, AloneInTest, [Next]_vars PROVE AloneInTest'
  OBVIOUS
<1> USE DEF AloneInTest, WorkerGoto, EmptyMtxFree, IfBusy
<1>1. pc \in [Workers -> WorkerLabels]
  BY DEF Inv, TypeOK
<1>2. CASE UNCHANGED <<pc, empty_mtx>>
  BY <1>2
<1>3. CASE PutFd
  BY <1>1, <1>3 DEF PutFd, SignalEmpty
<1>4. ASSUME NEW w \in Workers, LockEmpty(w) PROVE AloneInTest'
  BY <1>1, <1>4, NamesAssumption DEF LockEmpty
<1>5. ASSUME NEW w \in Workers, TestEmpty(w) PROVE AloneInTest'
  BY <1>1, <1>5 DEF TestEmpty
<1>6. ASSUME NEW w \in Workers, WaitEmpty(w) PROVE AloneInTest'
  BY <1>1, <1>6 DEF WaitEmpty
<1>7. ASSUME NEW w \in Workers, empty_mtx' = empty_mtx,
             pc' = [pc EXCEPT ![w] = pc'[w]],
             pc'[w] \notin {"testEmpty", "waitEmpty"}
      PROVE  AloneInTest'
  BY <1>1, <1>7
<1>8. ASSUME NEW w \in Workers,
             \/ /\ WorkerStep(w)
                /\ ~ LockEmpty(w) /\ ~ TestEmpty(w) /\ ~ WaitEmpty(w)
             \/ TouchFreedPool(w) \/ SpuriousWakeEmpty(w)
      PROVE  AloneInTest'
  BY <1>1, <1>7, <1>8
  DEF WorkerStep, CheckAgain, TryLock, TakeFd, ShiftFds, Serve, LoadPages,
      StorePages, LoadBytes, StoreBytes, CloseFd, TouchFreedPool,
      SpuriousWakeEmpty, queueVars
<1>9. CASE \/ OperatorStep \/ (MainStep /\ ~ PutFd) \/ Exit \/ ProcessDies
           \/ SpuriousWakeFull \/ \E c \in Conns : Connect(c)
  BY <1>2, <1>9
  DEF OperatorStep, MainStep, OperatorConnects, StatsPages, StatsBytes,
      EndSession, Shutdown, TestFull, WaitFull, AcceptClient, LockMtx,
      AcceptCommand, Exit, ProcessDies, SpuriousWakeFull, Connect,
      queueVars, workerVars
<1> QED
  BY <1>2, <1>3, <1>4, <1>5, <1>6, <1>8, <1>9 DEF Next, SpuriousWake, vars

LEMMA SomeoneUpStep ==
  ASSUME NEW v1 \in Workers, NEW v2 \in Workers, v1 # v2
  PROVE  Inv /\ AloneInTest /\ SomeoneUp /\ [Next]_vars => SomeoneUp'
<1> SUFFICES ASSUME Inv, AloneInTest, SomeoneUp, [Next]_vars,
                    phase' = "up", fds' # <<>>
             PROVE  \E u \in Workers :
                      pc'[u] \notin {"waitEmpty", "sleepEmpty"}
  BY DEF SomeoneUp
<1> USE DEF WorkerGoto, SomeoneUp, IfBusy
<1>1. pc \in [Workers -> WorkerLabels]
  BY DEF Inv, TypeOK
<1>2. CASE UNCHANGED <<pc, fds, phase>>
  BY <1>2
<1>3. CASE PutFd
  <2>1. CASE \E w \in Workers : pc[w] = "sleepEmpty"
    BY <1>1, <1>3, <2>1 DEF PutFd, SignalEmpty
  <2>2. CASE ~ \E w \in Workers : pc[w] = "sleepEmpty"
    <3>1. pc' = pc
      BY <1>3, <2>2 DEF PutFd, SignalEmpty
    <3>2. pc[v1] # "waitEmpty" \/ pc[v2] # "waitEmpty"
      BY DEF AloneInTest
    <3> QED
      BY <2>2, <3>1, <3>2
  <2> QED
    BY <2>1, <2>2
<1>4. ASSUME NEW w \in Workers, TestEmpty(w)
      PROVE  \E u \in Workers : pc'[u] \notin {"waitEmpty", "sleepEmpty"}
  <2>1. fds' = fds /\ fds \in Seq(Conns)
    BY <1>4 DEF TestEmpty, Inv, TypeOK
  <2>2. active_fds # 0
    BY <2>1, EmptySeq DEF active_fds
  <2> QED
    BY <1>1, <1>4, <2>2 DEF TestEmpty
<1>5. ASSUME NEW w \in Workers, WaitEmpty(w)
      PROVE  \E u \in Workers : pc'[u] \notin {"waitEmpty", "sleepEmpty"}
  BY <1>1, <1>5 DEF WaitEmpty, commandVars
<1>6. ASSUME NEW w \in Workers,
             \/ WorkerStep(w) /\ ~ TestEmpty(w) /\ ~ WaitEmpty(w)
             \/ TouchFreedPool(w)
             \/ SpuriousWakeEmpty(w)
      PROVE  \E u \in Workers : pc'[u] \notin {"waitEmpty", "sleepEmpty"}
  <2>1. pc'[w] \notin {"waitEmpty", "sleepEmpty"}
    BY <1>1, <1>6
    DEF WorkerStep, LockEmpty, CheckAgain, TryLock, TakeFd, ShiftFds, Serve,
        LoadPages, StorePages, LoadBytes, StoreBytes, CloseFd, TouchFreedPool,
        SpuriousWakeEmpty
  <2> QED
    BY <2>1
<1>7. CASE Shutdown \/ Exit \/ ProcessDies
  BY <1>7 DEF Shutdown, Exit, ProcessDies
<1>8. CASE \/ OperatorConnects \/ StatsPages \/ EndSession
           \/ (MainStep /\ ~ PutFd)
           \/ SpuriousWakeFull \/ \E c \in Conns : Connect(c)
  BY <1>2, <1>8
  DEF MainStep, OperatorConnects, StatsPages, StatsBytes, EndSession, TestFull,
      WaitFull, AcceptClient, LockMtx, AcceptCommand, SpuriousWakeFull,
      Connect, queueVars, workerVars, commandVars
<1> QED
  BY <1>2, <1>3, <1>4, <1>5, <1>6, <1>7, <1>8
  DEF Next, OperatorStep, SpuriousWake, vars, queueVars, workerVars,
      commandVars

(* With two workers or more, the pool never sleeps on a connection, for    *)
(* any buffer size and any number of clients (webserver.c:22-33, 144-148). *)
(* One worker is not enough: it may miss main's only signal between its    *)
(* test and its wait.                                                      *)
THEOREM NoLostConnection ==
  ASSUME NEW v1 \in Workers, NEW v2 \in Workers, v1 # v2
  PROVE  Spec => []PoolSleepsOnlyWhileEmpty
<1>1. Init => AloneInTest /\ SomeoneUp
  BY DEF Init, AloneInTest, SomeoneUp
<1>2. SomeoneUp => PoolSleepsOnlyWhileEmpty
  BY DEF SomeoneUp, PoolSleepsOnlyWhileEmpty
<1> QED
  BY <1>1, <1>2, InitInv, StepInv, AloneStep, SomeoneUpStep, PTL DEF Spec
-----------------------------------------------------------------------------
(* Where a connection is.  The places exclude each other and leave none    *)
(* out, and no place has a connection twice.  For a connection to move     *)
(* from one place to the next, and not to be copied, main must have an     *)
(* empty fd1 outside the section that fills the buffer, a worker an empty  *)
(* fd outside the part that serves, and what it picked must still be the   *)
(* front of the buffer when the shift loop removes it.                     *)
Hands == {fd[w] : w \in Workers} \ {NoFd}
Apart ==
  /\ clients \cap (Range(backlog) \cup {fd1} \cup Range(fds) \cup Hands
                     \cup closed) = {}
  /\ Range(backlog) \cap ({fd1} \cup Range(fds) \cup Hands \cup closed) = {}
  /\ {fd1} \cap (Range(fds) \cup Hands \cup closed) = {}
  /\ Range(fds) \cap (Hands \cup closed) = {}
  /\ Hands \cap closed = {}
Nowhere == Conns \ (clients \cup Range(backlog) \cup {fd1} \cup Range(fds)
                      \cup Hands \cup closed)
OneHand == \A v, w \in Workers : fd[v] = fd[w] /\ fd[v] # NoFd => v = w
FrontPicked == \A w \in Workers : pc[w] = "shift" => picked[w] = Head(fds)
MainEmpty == mpc \notin {"lock", "put"} => fd1 = NoFd
HandEmpty ==
  \A w \in Workers : pc[w] \notin OwnerLabels \cup {"undefined"} => fd[w] = NoFd

Owners ==
  /\ Apart /\ Nowhere = {}
  /\ IsInjective(backlog) /\ IsInjective(fds) /\ OneHand
Carriers == FrontPicked /\ MainEmpty /\ HandEmpty

(* Everything but five actions leaves the connections where they are. *)
LEMMA MovingActions ==
  ASSUME [Next]_vars,
         ~ \E c \in Conns : Connect(c), ~ AcceptClient, ~ PutFd,
         ~ \E w \in Workers : ShiftFds(w) \/ CloseFd(w)
  PROVE  UNCHANGED <<clients, backlog, fd1, fds, fd, closed>>
BY DEF Next, OperatorStep, MainStep, WorkerStep, SpuriousWake,
       OperatorConnects, StatsPages, EndSession, Shutdown, TestFull, WaitFull,
       LockMtx, AcceptCommand, StatsBytes, Exit, ProcessDies, LockEmpty,
       TestEmpty, WaitEmpty, CheckAgain, TryLock, TakeFd, Serve, LoadPages,
       StorePages, LoadBytes, StoreBytes, TouchFreedPool, SpuriousWakeFull,
       SpuriousWakeEmpty, queueVars, mainVars, workerVars, countVars, vars

LEMMA CarriersStep == Inv /\ Carriers /\ [Next]_vars => Carriers'
<1> SUFFICES ASSUME Inv, Carriers, [Next]_vars PROVE Carriers'
  OBVIOUS
<1> USE DEF Carriers, FrontPicked, MainEmpty, HandEmpty, OwnerLabels,
            WorkerGoto, MainGoto, IfBusy, Counted
<1>1. /\ pc \in [Workers -> WorkerLabels]
      /\ picked \in [Workers -> Conns \cup {NoFd}]
      /\ fd \in [Workers -> Conns \cup {NoFd}]
  BY DEF Inv, TypeOK
<1>2. CASE UNCHANGED <<pc, picked, fd, fds, mpc, fd1>>
  BY <1>2
<1>3. CASE PutFd
  <2>1. \A w \in Workers : pc[w] # "shift"
    BY <1>3, NamesAssumption DEF PutFd, Inv, MainHolds, WorkerHolds
  <2>2. \A w \in Workers :
          pc'[w] = pc[w] \/ (pc'[w] = "lockEmpty" /\ pc[w] = "sleepEmpty")
    BY <1>1, <1>3 DEF PutFd, SignalEmpty
  <2> QED
    BY <1>3, <2>1, <2>2 DEF PutFd
<1>4. ASSUME NEW w \in Workers, ShiftFds(w) PROVE Carriers'
  <2>1. \A v \in Workers : pc[v] = "shift" => v = w
    BY <1>4, NamesAssumption DEF ShiftFds, Inv, WorkerHolds
  <2>2. mpc' = mpc \/ (mpc' = "testFull" /\ mpc = "sleepFull")
    BY <1>4 DEF ShiftFds, SignalFull
  <2> QED
    BY <1>1, <1>4, <2>1, <2>2 DEF ShiftFds
<1>5. ASSUME NEW w \in Workers, TakeFd(w) PROVE Carriers'
  BY <1>1, <1>5 DEF TakeFd, mainVars
<1>6. ASSUME NEW w \in Workers, CloseFd(w) PROVE Carriers'
  BY <1>1, <1>6 DEF CloseFd, mainVars, queueVars
<1>7. ASSUME NEW w \in Workers,
             \/ LockEmpty(w) \/ TestEmpty(w) \/ WaitEmpty(w) \/ CheckAgain(w)
             \/ TryLock(w) \/ Serve(w) \/ LoadPages(w) \/ StorePages(w)
             \/ LoadBytes(w) \/ StoreBytes(w) \/ TouchFreedPool(w)
             \/ SpuriousWakeEmpty(w)
      PROVE  Carriers'
  <2>1. /\ UNCHANGED <<picked, fd, fds, mpc, fd1>>
        /\ pc' = [pc EXCEPT ![w] = pc'[w]] /\ pc'[w] # "shift"
        /\ \/ pc'[w] \in OwnerLabels \cup {"undefined"}
           \/ pc[w] \notin OwnerLabels \cup {"undefined"}
    BY <1>1, <1>7
    DEF LockEmpty, TestEmpty, WaitEmpty, CheckAgain, TryLock, Serve,
        LoadPages, StorePages, LoadBytes, StoreBytes, TouchFreedPool,
        SpuriousWakeEmpty, queueVars, mainVars, PoolLabels
  <2> QED
    BY <1>1, <2>1
<1>8. CASE AcceptClient \/ LockMtx
  BY <1>8 DEF AcceptClient, LockMtx, workerVars
<1>9. CASE \/ OperatorConnects \/ StatsPages \/ StatsBytes \/ EndSession
           \/ Shutdown \/ TestFull \/ WaitFull \/ AcceptCommand \/ Exit
           \/ ProcessDies \/ SpuriousWakeFull \/ \E c \in Conns : Connect(c)
  <2>1. /\ UNCHANGED <<pc, picked, fd, fds, fd1>>
        /\ mpc' = mpc \/ mpc \notin {"lock", "put"}
    BY <1>9
    DEF OperatorConnects, StatsPages, StatsBytes, EndSession, Shutdown,
        TestFull, WaitFull, AcceptCommand, Exit, ProcessDies,
        SpuriousWakeFull, Connect, queueVars, mainVars, workerVars
  <2> QED
    BY <2>1
<1> QED
  BY <1>2, <1>3, <1>4, <1>5, <1>6, <1>7, <1>8, <1>9
  DEF Next, OperatorStep, MainStep, WorkerStep, SpuriousWake, vars

LEMMA OwnersStep == Inv /\ Carriers /\ Owners /\ [Next]_vars => Owners'
<1> SUFFICES ASSUME Inv, Carriers, Owners, [Next]_vars PROVE Owners'
  OBVIOUS
<1> USE NamesAssumption DEF Owners, Apart, Nowhere
<1>1. /\ clients \subseteq Conns /\ closed \subseteq Conns
      /\ backlog \in Seq(Conns) /\ fds \in Seq(Conns)
      /\ fd1 \in Conns \cup {NoFd}
      /\ fd \in [Workers -> Conns \cup {NoFd}]
  BY DEF Inv, TypeOK
<1>2. Range(backlog) \subseteq Conns /\ Range(fds) \subseteq Conns
  BY <1>1, RangeOfSeq
<1>3. CASE UNCHANGED <<clients, backlog, fd1, fds, fd, closed>>
  BY <1>3 DEF Hands, OneHand
<1>4. ASSUME NEW c \in Conns, Connect(c) PROVE Owners'
  <2>1. /\ c \in clients /\ clients' = clients \ {c}
        /\ backlog' = Append(backlog, c)
        /\ UNCHANGED <<fds, fd1, fd, closed>>
    BY <1>4 DEF Connect, mainVars, workerVars, countVars
  <2>2. /\ Range(backlog') = Range(backlog) \cup {c}
        /\ IsInjective(backlog')
    BY <1>1, <2>1, AppendRange
  <2>3. Hands' = Hands /\ OneHand'
    BY <2>1 DEF Hands, OneHand
  <2> QED
    BY <1>2, <2>1, <2>2, <2>3
<1>5. CASE AcceptClient
  <2>1. CASE backlog = <<>>
    BY <1>3, <1>5, <2>1 DEF AcceptClient, workerVars, countVars
  <2>2. CASE backlog # <<>>
    <3>1. /\ fd1 = NoFd /\ fd1' = Head(backlog) /\ backlog' = Tail(backlog)
          /\ UNCHANGED <<clients, fds, fd, closed>>
      BY <1>5, <2>2
      DEF AcceptClient, MainGoto, Carriers, MainEmpty, workerVars, countVars
    <3>2. /\ fd1' \in Range(backlog)
          /\ Range(backlog') = Range(backlog) \ {fd1'}
          /\ IsInjective(backlog')
      BY <1>1, <2>2, <3>1, TailRange
    <3>3. Hands' = Hands /\ OneHand'
      BY <3>1 DEF Hands, OneHand
    <3> QED
      BY <1>2, <3>1, <3>2, <3>3
  <2> QED
    BY <2>1, <2>2
<1>6. CASE PutFd
  <2>1. /\ fd1 \in Conns /\ fds' = Append(fds, fd1) /\ fd1' = NoFd
        /\ UNCHANGED <<clients, backlog, fd, closed>>
    BY <1>6 DEF PutFd, MainGoto, Filled, Inv, MainOwns, countVars
  <2>2. Range(fds') = Range(fds) \cup {fd1} /\ IsInjective(fds')
    BY <1>1, <2>1, AppendRange
  <2>3. Hands' = Hands /\ OneHand' /\ NoFd \notin Hands
    BY <2>1 DEF Hands, OneHand
  <2> QED
    BY <1>1, <1>2, <2>1, <2>2, <2>3
<1>7. ASSUME NEW w \in Workers, ShiftFds(w) PROVE Owners'
  <2>1. /\ pc[w] = "shift" /\ fds # <<>> /\ fds' = Tail(fds)
        /\ fd' = [fd EXCEPT ![w] = Head(fds)]
        /\ fd[w] = NoFd
        /\ UNCHANGED <<clients, backlog, fd1, closed>>
    BY <1>7 DEF ShiftFds, WorkerGoto, Shifted, Inv, WorkerSaw, Carriers,
                FrontPicked, HandEmpty, OwnerLabels, countVars
  <2>2. /\ Head(fds) \in Range(fds)
        /\ Range(fds') = Range(fds) \ {Head(fds)}
        /\ IsInjective(fds')
    BY <1>1, <2>1, TailRange
  <2>3. Hands' = Hands \cup {Head(fds)}
    BY <1>1, <1>2, <2>1, <2>2 DEF Hands
  <2>4. \A v \in Workers : fd[v] # Head(fds)
    BY <1>2, <2>2 DEF Hands
  <2>5. OneHand'
    BY <1>1, <2>1, <2>4 DEF OneHand
  <2> QED
    BY <1>2, <2>1, <2>2, <2>3, <2>5
<1>8. ASSUME NEW w \in Workers, CloseFd(w) PROVE Owners'
  <2>1. /\ fd[w] \in Conns /\ fd' = [fd EXCEPT ![w] = NoFd]
        /\ closed' = closed \cup {fd[w]}
        /\ UNCHANGED <<clients, backlog, fd1, fds>>
    BY <1>8 DEF CloseFd, Inv, WorkerOwns, OwnerLabels, queueVars, mainVars
  <2>2. Hands' = Hands \ {fd[w]}
    BY <1>1, <2>1 DEF Hands, OneHand
  <2>3. OneHand' /\ fd[w] \in Hands
    BY <1>1, <2>1 DEF OneHand, Hands
  <2> QED
    BY <2>1, <2>2, <2>3
<1> QED
  BY <1>3, <1>4, <1>5, <1>6, <1>7, <1>8, MovingActions

(* Apart places that hold a connection once are the places of OneOwner. *)
LEMMA OwnersAreOne == Inv /\ Owners => OneOwner
<1> SUFFICES ASSUME Inv, Owners, NEW c \in Conns
             PROVE  \E p \in Places(c) : Places(c) = {p}
  BY DEF OneOwner
<1> DEFINE B == {<<"backlog", i>> :
                   i \in {j \in 1..Len(backlog) : backlog[j] = c}}
           F == {<<"slot", i>> : i \in {j \in 1..Len(fds) : fds[j] = c}}
           W == {<<"worker", w>> : w \in {v \in Workers : fd[v] = c}}
           C == {<<"client">> : x \in {c} \cap clients}
           M == {<<"main">> : x \in {c} \cap {fd1}}
           Z == {<<"closed">> : x \in {c} \cap closed}
<1>1. backlog \in Seq(Conns) /\ fds \in Seq(Conns)
  BY DEF Inv, TypeOK
<1>2. Places(c) = C \cup B \cup M \cup F \cup W \cup Z
  BY Zenon DEF Places
<1>3. /\ c \in clients => C = {<<"client">>}
      /\ c \notin clients => C = {}
      /\ c = fd1 => M = {<<"main">>}
      /\ c # fd1 => M = {}
      /\ c \in closed => Z = {<<"closed">>}
      /\ c \notin closed => Z = {}
  OBVIOUS
<1>4. ASSUME c \in Range(backlog) PROVE \E p : B = {p}
  <2>1. PICK k \in 1..Len(backlog) : backlog[k] = c
    BY <1>1, <1>4, InRange
  <2>2. \A j \in 1..Len(backlog) : backlog[j] = c => j = k
    BY <1>1, <2>1, LenProperties DEF Owners, IsInjective
  <2>3. B = {<<"backlog", k>>}
    BY <2>1, <2>2
  <2> QED
    BY <2>3
<1>5. ASSUME c \in Range(fds) PROVE \E p : F = {p}
  <2>1. PICK k \in 1..Len(fds) : fds[k] = c
    BY <1>1, <1>5, InRange
  <2>2. \A j \in 1..Len(fds) : fds[j] = c => j = k
    BY <1>1, <2>1, LenProperties DEF Owners, IsInjective
  <2>3. F = {<<"slot", k>>}
    BY <2>1, <2>2
  <2> QED
    BY <2>3
<1>6. ASSUME c \in Hands PROVE \E p : W = {p}
  <2>1. PICK w \in Workers : fd[w] = c
    BY <1>6 DEF Hands
  <2>2. \A v \in Workers : fd[v] = c => v = w
    BY <2>1, NamesAssumption DEF Owners, OneHand
  <2>3. W = {<<"worker", w>>}
    BY <2>1, <2>2
  <2> QED
    BY <2>3
<1>7. /\ c \notin Range(backlog) => B = {}
      /\ c \notin Range(fds) => F = {}
      /\ c \notin Hands => W = {}
  <2>1. c # NoFd
    BY NamesAssumption
  <2>2. c \notin Range(backlog) => B = {}
    BY <1>1, InRange
  <2>3. c \notin Range(fds) => F = {}
    BY <1>1, InRange
  <2>4. c \notin Hands => W = {}
    BY <2>1 DEF Hands
  <2> QED
    BY <2>2, <2>3, <2>4
<1>8. \/ /\ c \in clients
         /\ c \notin Range(backlog) \cup {fd1} \cup Range(fds) \cup Hands
                     \cup closed
      \/ /\ c \in Range(backlog)
         /\ c \notin clients \cup {fd1} \cup Range(fds) \cup Hands \cup closed
      \/ /\ c = fd1
         /\ c \notin clients \cup Range(backlog) \cup Range(fds) \cup Hands
                     \cup closed
      \/ /\ c \in Range(fds)
         /\ c \notin clients \cup Range(backlog) \cup {fd1} \cup Hands
                     \cup closed
      \/ /\ c \in Hands
         /\ c \notin clients \cup Range(backlog) \cup {fd1} \cup Range(fds)
                     \cup closed
      \/ /\ c \in closed
         /\ c \notin clients \cup Range(backlog) \cup {fd1} \cup Range(fds)
                     \cup Hands
  BY DEF Owners, Apart, Nowhere
<1> HIDE DEF B, F, W, C, M, Z
<1>9. \E p : Places(c) = {p}
  BY <1>2, <1>3, <1>4, <1>5, <1>6, <1>7, <1>8
<1> QED
  BY <1>9

LEMMA InitOwners == Init => Carriers /\ Owners
<1>1. ASSUME Init PROVE Carriers
  BY <1>1 DEF Init, Carriers, FrontPicked, MainEmpty, HandEmpty
<1>2. ASSUME Init PROVE Owners
  <2>1. /\ Range(backlog) = {} /\ Range(fds) = {}
        /\ IsInjective(backlog) /\ IsInjective(fds)
    BY <1>2 DEF Init, Range, IsInjective
  <2>2. Hands = {} /\ OneHand
    BY <1>2 DEF Init, Hands, OneHand
  <2> QED
    BY <1>2, <2>1, <2>2, NamesAssumption DEF Init, Owners, Apart, Nowhere
<1> QED
  BY <1>1, <1>2

(* Every connection is in one place at any time, for any clients, workers  *)
(* and buffer (webserver.c:29-43, 142-149): it moves from one to the next  *)
(* and is closed once, by the worker that answered it.                     *)
THEOREM ConnectionsHaveOneOwner == Spec => []OneOwner
BY InitInv, StepInv, InitOwners, CarriersStep, OwnersStep, OwnersAreOne, PTL
DEF Spec

-----------------------------------------------------------------------------
(* The buffer is a bounded FIFO hand-off.  Only PutFd, ShiftFds and        *)
(* CloseFd move what the abstract queue sees; the other places of a        *)
(* connection are what makes it a new item when main puts it.              *)
LEMMA HandoffStep ==
  Inv /\ NoOverflow /\ Carriers /\ Owners /\ [Next]_vars
    => [Handoff!Next]_(Handoff!vars)
<1> SUFFICES ASSUME Inv, NoOverflow, Carriers, Owners, [Next]_vars
             PROVE  [Handoff!Next]_(Handoff!vars)
  OBVIOUS
<1>1. /\ fds \in Seq(Conns) /\ closed \subseteq Conns
      /\ fd \in [Workers -> Conns \cup {NoFd}]
  BY DEF Inv, TypeOK
<1>2. CASE PutFd
  <2>1. /\ fd1 \in Conns /\ fds' = Append(fds, fd1)
        /\ fd' = fd /\ closed' = closed
    BY <1>2 DEF PutFd, MainGoto, Filled, Inv, MainOwns, countVars
  <2>2. Handoff!HasRoom
    BY <1>2 DEF PutFd, MainGoto, NoOverflow, RoomOnceSeen, active_fds,
                Handoff!HasRoom
  <2>3. ~ Handoff!Queued(fd1)
    BY <1>1, InRange DEF Owners, Apart, Handoff!Queued
  <2>4. ~ Handoff!Held(fd1)
    BY <2>1, NamesAssumption DEF Owners, Apart, Hands, Handoff!Held
  <2>5. fd1 \notin closed
    BY DEF Owners, Apart
  <2>6. Handoff!Put(fd1)
    BY <2>1, <2>2, <2>3, <2>4, <2>5 DEF Handoff!Put
  <2> QED
    BY <2>1, <2>6 DEF Handoff!Next
<1>3. ASSUME NEW w \in Workers, ShiftFds(w)
      PROVE  [Handoff!Next]_(Handoff!vars)
  <2>1. /\ fds # <<>> /\ fds' = Tail(fds) /\ fd[w] = NoFd
        /\ fd' = [fd EXCEPT ![w] = Head(fds)]
        /\ closed' = closed
    BY <1>3 DEF ShiftFds, WorkerGoto, Shifted, Inv, WorkerSaw, Carriers,
                FrontPicked, HandEmpty, OwnerLabels, countVars
  <2>2. Handoff!Take(w)
    BY <2>1 DEF Handoff!Take
  <2> QED
    BY <2>2 DEF Handoff!Next
<1>4. ASSUME NEW w \in Workers, CloseFd(w)
      PROVE  [Handoff!Next]_(Handoff!vars)
  <2>1. /\ fd[w] # NoFd /\ closed' = closed \cup {fd[w]}
        /\ fd' = [fd EXCEPT ![w] = NoFd] /\ fds' = fds
    BY <1>4, NamesAssumption
    DEF CloseFd, Inv, WorkerOwns, OwnerLabels, queueVars
  <2>2. Handoff!Finish(w)
    BY <2>1 DEF Handoff!Finish
  <2> QED
    BY <2>2 DEF Handoff!Next
<1>5. CASE UNCHANGED <<fds, fd, closed>>
  BY <1>5 DEF Handoff!vars
<1>6. CASE AcceptClient \/ \E c \in Conns : Connect(c)
  BY <1>5, <1>6
  DEF AcceptClient, Connect, mainVars, workerVars, countVars
<1> QED
  BY <1>2, <1>3, <1>4, <1>5, <1>6, MovingActions

(* The server's threads, locks and stale tests implement the hand-off of   *)
(* HandoffQueue, for any clients, workers and size of the buffer           *)
(* (server_functions.c:39-56, webserver.c:136-149): each connection that   *)
(* is put is taken by one idle worker, in order, and finished by it.       *)
THEOREM PoolImplementsHandoff == Spec => ImplementsHandoff
<1>1. Init => Handoff!Init
  BY DEF Init, Handoff!Init
<1>2. Init => Inv /\ NoOverflow /\ Carriers /\ Owners
  BY InitInv, InitOwners, EmptySeq, FdBufferAssumption
  DEF Init, NoOverflow, RoomOnceSeen, active_fds
<1> QED
  BY <1>1, <1>2, StepInv, OverflowStep, CarriersStep, OwnersStep,
     HandoffStep, PTL
  DEF Spec, ImplementsHandoff, Handoff!Spec
-----------------------------------------------------------------------------
(* What the operator may be shown.  A connection is counted in two steps   *)
(* that other threads interrupt: each counter, and what a thread between   *)
(* load and store has of it, is bounded by what the connections past that  *)
(* store are worth.  A lost update only makes the counter less.            *)
Past(labels) ==
  {c \in Conns :
     /\ Reply[c] > 0
     /\ \/ c \in closed
        \/ \E w \in Workers : fd[w] = c /\ pc[w] \in labels}
PagesStored == Past({"loadBytes", "storeBytes", "close"})
BytesStored == Past({"close"})

PagesBounded ==
  /\ responses <= Cardinality(PagesStored)
  /\ report.pages <= Cardinality(PagesStored)
  /\ \A w \in Workers :
       pc[w] = "storePages" => reg[w] <= Cardinality(PagesStored)
BytesBounded ==
  /\ bytes <= SumFunctionOnSet(Reply, BytesStored)
  /\ report.bytes <= SumFunctionOnSet(Reply, BytesStored)
  /\ \A w \in Workers :
       pc[w] = "storeBytes" => reg[w] <= SumFunctionOnSet(Reply, BytesStored)
WorthCounting == \A w \in Workers : pc[w] \in CountLabels => Reply[fd[w]] > 0
Stats ==
  phase = "up" =>
    IsFiniteSet(Answered) /\ PagesBounded /\ BytesBounded /\ WorthCounting
LEMMA PastKept ==
  ASSUME NEW labels, closed' = closed,
         \A w \in Workers :
           \/ fd'[w] = fd[w] /\ (pc'[w] \in labels <=> pc[w] \in labels)
           \/ pc[w] \notin labels /\ pc'[w] \notin labels
  PROVE  Past(labels)' = Past(labels)
BY DEF Past

LEMMA AnsweredPast ==
  /\ Answered = Past(CountLabels \cup {"close"})
  /\ PagesStored \subseteq Answered /\ BytesStored \subseteq Answered
  /\ \A c \in Answered : Reply[c] > 0
BY DEF Answered, Past, PagesStored, BytesStored, CountLabels

(* How far counting has come does not change. *)
CountingKept ==
  /\ UNCHANGED <<Answered, PagesStored, BytesStored>>
  /\ \A w \in Workers : pc'[w] \in CountLabels =>
       pc[w] \in CountLabels /\ fd'[w] = fd[w]

LEMMA StatsStep ==
  Inv /\ Carriers /\ Owners /\ Stats /\ [Next]_vars => Stats'
<1> SUFFICES ASSUME Inv, Carriers, Owners, Stats, [Next]_vars, phase' = "up"
             PROVE  (IsFiniteSet(Answered) /\ PagesBounded /\ BytesBounded
                       /\ WorthCounting)'
  BY DEF Stats
<1> DEFINE Goal == (IsFiniteSet(Answered) /\ PagesBounded /\ BytesBounded
                       /\ WorthCounting)'
           Total == SumFunctionOnSet(Reply, BytesStored)
           Pages == Cardinality(PagesStored)
<1> USE DEF WorkerGoto, CountLabels
<1>1. /\ pc \in [Workers -> WorkerLabels] /\ reg \in [Workers -> Int]
      /\ fd \in [Workers -> Conns \cup {NoFd}]
      /\ responses \in Int /\ bytes \in Int
      /\ report \in [pages : Int, bytes : Int]
      /\ \A w \in Workers : pc[w] \in OwnerLabels => fd[w] \in Conns
  BY DEF Inv, TypeOK, WorkerOwns
<1>2. phase = "up"
  BY DEF Next, OperatorStep, MainStep, WorkerStep, SpuriousWake,
         OperatorConnects, StatsPages, EndSession, Shutdown, TestFull,
         WaitFull, AcceptClient, LockMtx, PutFd, AcceptCommand, StatsBytes,
         Exit, ProcessDies, LockEmpty, TestEmpty, WaitEmpty, CheckAgain,
         TryLock, TakeFd, ShiftFds, Serve, LoadPages, StorePages,
         LoadBytes, StoreBytes, CloseFd, TouchFreedPool, SpuriousWakeFull, SpuriousWakeEmpty, Connect,
         MainGoto, commandVars, vars
<1>3. IsFiniteSet(Answered) /\ PagesBounded /\ BytesBounded /\ WorthCounting
  BY <1>2 DEF Stats
<1>4. /\ IsFiniteSet(PagesStored) /\ Pages \in Nat
      /\ IsFiniteSet(BytesStored) /\ Total \in Int
  <2>1. IsFiniteSet(PagesStored) /\ IsFiniteSet(BytesStored)
    BY <1>3, AnsweredPast, FS_Subset
  <2>2. IntOn(Reply, BytesStored) /\ BytesStored \in SUBSET BytesStored
    BY ReplyAssumption DEF IntOn, BytesStored, Past
  <2> QED
    BY <2>1, <2>2, FS_CardinalityType, SumMonotone
<1>5. ASSUME CountingKept, UNCHANGED <<reg, responses, bytes, report>>,
             \A w \in Workers :
               pc'[w] \in {"storePages", "storeBytes"} => pc'[w] = pc[w]
      PROVE  Goal
  BY <1>3, <1>5
  DEF CountingKept, PagesBounded, BytesBounded, WorthCounting
<1>6. ASSUME closed' = closed,
             \A w \in Workers :
               \/ pc'[w] = pc[w] /\ fd'[w] = fd[w]
               \/ /\ pc[w] \notin CountLabels \cup {"close"}
                  /\ pc'[w] \notin CountLabels \cup {"close"}
      PROVE  CountingKept
  <2>1. \A labels \in SUBSET (CountLabels \cup {"close"}) :
          Past(labels)' = Past(labels)
    BY <1>6, PastKept
  <2>2. Answered' = Past(CountLabels \cup {"close"})'
    BY AnsweredPast DEF Answered, Past
  <2> QED
    BY <1>6, <2>1, <2>2, AnsweredPast
    DEF CountingKept, PagesStored, BytesStored
<1>7. CASE UNCHANGED vars
  BY <1>5, <1>6, <1>7 DEF vars
<1>8. CASE \/ OperatorConnects \/ EndSession \/ TestFull \/ WaitFull
           \/ AcceptClient \/ LockMtx \/ AcceptCommand \/ SpuriousWakeFull
           \/ \E c \in Conns : Connect(c)
  <2>1. UNCHANGED <<pc, fd, closed, reg, responses, bytes, report>>
    BY <1>8
    DEF OperatorConnects, EndSession, TestFull, WaitFull, AcceptClient,
        LockMtx, AcceptCommand, SpuriousWakeFull, Connect, workerVars,
        countVars, commandVars
  <2> QED
    BY <1>5, <1>6, <2>1
<1>9. CASE PutFd
  <2>1. /\ UNCHANGED <<fd, closed, reg, responses, bytes, report>>
        /\ \A w \in Workers :
             pc'[w] = pc[w] \/ (pc[w] = "sleepEmpty" /\ pc'[w] = "lockEmpty")
    BY <1>1, <1>9 DEF PutFd, SignalEmpty, countVars, commandVars
  <2> QED
    BY <1>5, <1>6, <2>1
<1>10. ASSUME NEW w \in Workers,
              \/ LockEmpty(w) \/ TestEmpty(w) \/ WaitEmpty(w) \/ CheckAgain(w)
              \/ TryLock(w) \/ TakeFd(w) \/ ShiftFds(w) \/ SpuriousWakeEmpty(w)
       PROVE  Goal
  <2>1. /\ UNCHANGED <<closed, reg, responses, bytes, report>>
        /\ pc' = [pc EXCEPT ![w] = pc'[w]]
        /\ pc[w] \notin CountLabels \cup {"close"}
        /\ pc'[w] \notin CountLabels \cup {"close"}
        /\ \A v \in Workers \ {w} : fd'[v] = fd[v]
    BY <1>1, <1>10
    DEF LockEmpty, TestEmpty, WaitEmpty, CheckAgain, TryLock, TakeFd,
        ShiftFds, SpuriousWakeEmpty, IfBusy, countVars, commandVars
  <2>2. \A v \in Workers :
          \/ pc'[v] = pc[v] /\ fd'[v] = fd[v]
          \/ /\ pc[v] \notin CountLabels \cup {"close"}
             /\ pc'[v] \notin CountLabels \cup {"close"}
    BY <1>1, <2>1
  <2> QED
    BY <1>5, <1>6, <2>1, <2>2
<1>11. CASE StatsPages \/ StatsBytes
  <2>1. /\ UNCHANGED <<pc, fd, closed, reg, responses, bytes>>
        /\ \/ report' = [report EXCEPT !.pages = responses]
           \/ report' = [report EXCEPT !.bytes = bytes]
    BY <1>11 DEF StatsPages, StatsBytes, workerVars, countVars
  <2>2. CountingKept
    BY <1>6, <2>1
  <2> QED
    BY <1>1, <1>3, <2>1, <2>2
    DEF CountingKept, PagesBounded, BytesBounded, WorthCounting
<1>12. \A w \in Workers : pc[w] \in OwnerLabels =>
         fd[w] \notin closed /\ \A v \in Workers : fd[v] = fd[w] => v = w
  BY <1>1, NamesAssumption DEF Owners, Apart, Hands, OneHand
<1>13. ASSUME NEW w \in Workers, Serve(w) PROVE Goal
  <2>1. /\ pc[w] = "serve" /\ fd[w] \in Conns
        /\ pc' = [pc EXCEPT ![w] = IF Reply[fd[w]] > 0 THEN "loadPages"
                                                      ELSE "close"]
        /\ UNCHANGED <<fd, closed, reg, responses, bytes, report>>
    BY <1>1, <1>13
    DEF Serve, Counted, OwnerLabels, countVars, commandVars
  <2>2. PagesStored' = PagesStored /\ BytesStored' = BytesStored
    BY <1>1, <2>1 DEF PagesStored, BytesStored, Past
  <2>3. Answered' \subseteq Answered \cup {fd[w]}
    BY <1>1, <2>1 DEF Answered
  <2>4. IsFiniteSet(Answered')
    BY <1>3, <2>3, FS_AddElement, FS_Subset
  <2>5. \A v \in Workers \ {w} : pc'[v] = pc[v]
    BY <1>1, <2>1
  <2>6. WorthCounting'
    BY <1>1, <1>3, <2>1, <2>5 DEF WorthCounting
  <2>7. pc'[w] \notin {"storePages", "storeBytes"}
    BY <1>1, <2>1
  <2>8. PagesBounded' /\ BytesBounded'
    BY <1>3, <2>1, <2>2, <2>5, <2>7 DEF PagesBounded, BytesBounded
  <2> QED
    BY <2>4, <2>6, <2>8
<1>14. ASSUME NEW w \in Workers, LoadPages(w) \/ LoadBytes(w) PROVE Goal
  <2>1. /\ UNCHANGED <<fd, closed, responses, bytes, report>>
        /\ \/ /\ pc[w] = "loadPages" /\ pc' = [pc EXCEPT ![w] = "storePages"]
              /\ reg' = [reg EXCEPT ![w] = responses]
           \/ /\ pc[w] = "loadBytes" /\ pc' = [pc EXCEPT ![w] = "storeBytes"]
              /\ reg' = [reg EXCEPT ![w] = bytes]
    BY <1>14 DEF LoadPages, LoadBytes, countVars, commandVars
  <2>2. UNCHANGED <<Answered, PagesStored, BytesStored>>
    BY <1>1, <2>1 DEF Answered, PagesStored, BytesStored, Past
  <2>3. \A v \in Workers \ {w} : pc'[v] = pc[v] /\ reg'[v] = reg[v]
    BY <1>1, <2>1
  <2>4. /\ pc'[w] = "storePages" => reg'[w] = responses
        /\ pc'[w] = "storeBytes" => reg'[w] = bytes
        /\ pc[w] \in CountLabels
    BY <1>1, <2>1
  <2>5. WorthCounting'
    BY <1>3, <2>1, <2>3, <2>4 DEF WorthCounting
  <2>6. PagesBounded' /\ BytesBounded'
    BY <1>3, <2>1, <2>2, <2>3, <2>4 DEF PagesBounded, BytesBounded
  <2> QED
    BY <1>3, <2>2, <2>5, <2>6
<1>15. ASSUME NEW w \in Workers, StorePages(w) PROVE Goal
  <2>1. /\ pc[w] = "storePages" /\ fd[w] \in Conns
        /\ pc' = [pc EXCEPT ![w] = "loadBytes"]
        /\ responses' = reg[w] + 1
        /\ UNCHANGED <<fd, closed, reg, bytes, report>>
    BY <1>1, <1>15 DEF StorePages, OwnerLabels, commandVars
  <2>2. Reply[fd[w]] > 0 /\ fd[w] \notin PagesStored
    BY <1>3, <1>12, <2>1
    DEF WorthCounting, OwnerLabels, PagesStored, Past
  <2>3. /\ Answered' = Answered /\ BytesStored' = BytesStored
        /\ PagesStored' = PagesStored \cup {fd[w]}
    BY <1>1, <2>1, <2>2 DEF Answered, PagesStored, BytesStored, Past
  <2>4. Cardinality(PagesStored') = Pages + 1
    BY <1>4, <2>2, <2>3, FS_AddElement
  <2>5. \A v \in Workers \ {w} : pc'[v] = pc[v]
    BY <1>1, <2>1
  <2>6. WorthCounting'
    BY <1>3, <2>1, <2>2, <2>5 DEF WorthCounting
  <2>7. PagesBounded'
    BY <1>1, <1>3, <1>4, <2>1, <2>4, <2>5 DEF PagesBounded
  <2>8. BytesBounded'
    BY <1>1, <1>3, <2>1, <2>3, <2>5 DEF BytesBounded
  <2> QED
    BY <1>3, <2>3, <2>6, <2>7, <2>8
<1>16. ASSUME NEW w \in Workers, StoreBytes(w) PROVE Goal
  <2>1. /\ pc[w] = "storeBytes" /\ fd[w] \in Conns
        /\ pc' = [pc EXCEPT ![w] = "close"]
        /\ bytes' = reg[w] + Reply[fd[w]]
        /\ UNCHANGED <<fd, closed, reg, responses, report>>
    BY <1>1, <1>16 DEF StoreBytes, OwnerLabels, commandVars
  <2>2. /\ Reply[fd[w]] \in Int /\ Reply[fd[w]] > 0
        /\ fd[w] \notin BytesStored
    BY <1>3, <1>12, <2>1, ReplyAssumption
    DEF WorthCounting, OwnerLabels, BytesStored, Past
  <2>3. /\ Answered' = Answered /\ PagesStored' = PagesStored
        /\ BytesStored' = BytesStored \cup {fd[w]}
    BY <1>1, <2>1, <2>2 DEF Answered, PagesStored, BytesStored, Past
  <2>4. IntOn(Reply, BytesStored \cup {fd[w]})
    BY <2>1, ReplyAssumption DEF IntOn, BytesStored, Past
  <2>5. SumFunctionOnSet(Reply, BytesStored') = Total + Reply[fd[w]]
    BY <1>4, <2>2, <2>3, <2>4, SumAddElement
  <2>6. \A v \in Workers \ {w} : pc'[v] = pc[v]
    BY <1>1, <2>1
  <2>7. WorthCounting'
    BY <1>1, <1>3, <2>1, <2>6 DEF WorthCounting
  <2>8. PagesBounded'
    BY <1>1, <1>3, <2>1, <2>3, <2>6 DEF PagesBounded
  <2>9. BytesBounded'
    BY <1>1, <1>3, <1>4, <2>1, <2>2, <2>5, <2>6 DEF BytesBounded
  <2> QED
    BY <1>3, <2>3, <2>7, <2>8, <2>9
<1>17. ASSUME NEW w \in Workers, CloseFd(w) PROVE Goal
  <2>1. /\ pc[w] = "close" /\ fd[w] \in Conns
        /\ pc' = [pc EXCEPT ![w] = "lockEmpty"]
        /\ fd' = [fd EXCEPT ![w] = NoFd] /\ closed' = closed \cup {fd[w]}
        /\ UNCHANGED <<reg, responses, bytes, report>>
    BY <1>1, <1>17 DEF CloseFd, OwnerLabels, commandVars
  <2>2. UNCHANGED <<Answered, PagesStored, BytesStored>>
    BY <1>1, <2>1, NamesAssumption
    DEF Answered, PagesStored, BytesStored, Past
  <2>3. CountingKept
    BY <1>1, <2>1, <2>2 DEF CountingKept
  <2> QED
    BY <1>1, <1>5, <2>1, <2>3
<1>18. CASE Shutdown \/ Exit \/ ProcessDies
  BY <1>18 DEF Shutdown, Exit, ProcessDies
<1>19. ASSUME NEW w \in Workers, TouchFreedPool(w) PROVE FALSE
  BY <1>2, <1>19 DEF TouchFreedPool
<1> QED
  BY <1>7, <1>8, <1>9, <1>10, <1>11, <1>13, <1>14, <1>15, <1>16, <1>17,
     <1>18, <1>19
  DEF Next, OperatorStep, MainStep, WorkerStep, SpuriousWake

(* STATS never reports more than was served, for any replies, clients and  *)
(* workers (webserver.c:40-41, 162-164), although no lock orders the       *)
(* counters and the reading of them.                                       *)
THEOREM StatsAreBounded == Spec => []StatsNeverOverreport
<1>1. Init => Stats
  <2> SUFFICES ASSUME Init PROVE Stats
    OBVIOUS
  <2>1. Answered = {} /\ PagesStored = {} /\ BytesStored = {}
    BY AnsweredPast DEF Init, Answered, CountLabels
  <2> QED
    BY <2>1, FS_EmptySet, SumEmpty
    DEF Init, Stats, PagesBounded, BytesBounded, WorthCounting, CountLabels
<1>2. Inv /\ Stats => StatsNeverOverreport
  <2> SUFFICES ASSUME Inv, Stats, phase = "up"
               PROVE  /\ report.pages <= Cardinality(Answered)
                      /\ report.bytes <= SumFunctionOnSet(Reply, Answered)
    BY DEF StatsNeverOverreport
  <2>1. IsFiniteSet(Answered) /\ PagesBounded /\ BytesBounded
    BY DEF Stats
  <2>2. report.pages \in Int /\ report.bytes \in Int
    BY DEF Inv, TypeOK
  <2>3. /\ Cardinality(PagesStored) \in Nat /\ Cardinality(Answered) \in Nat
        /\ Cardinality(PagesStored) <= Cardinality(Answered)
    BY <2>1, AnsweredPast, FS_Subset, FS_CardinalityType
  <2>4. /\ IntOn(Reply, Answered)
        /\ \A c \in Answered \ BytesStored : Reply[c] >= 0
    BY AnsweredPast, ReplyAssumption DEF IntOn, Answered
  <2>5. /\ SumFunctionOnSet(Reply, Answered) \in Int
        /\ SumFunctionOnSet(Reply, BytesStored) \in Int
        /\ SumFunctionOnSet(Reply, BytesStored)
             <= SumFunctionOnSet(Reply, Answered)
    BY <2>1, <2>4, AnsweredPast, SumMonotone
  <2> QED
    BY <2>1, <2>2, <2>3, <2>5 DEF PagesBounded, BytesBounded
<1> QED
  BY <1>1, <1>2, InitInv, StepInv, InitOwners, CarriersStep, OwnersStep,
     StatsStep, PTL
  DEF Spec
=============================================================================
