-------------------------- MODULE CrawlQueueProofs --------------------------
(***************************************************************************)
(* Proofs about CrawlQueue for any site, starting page and finite pool of  *)
(* threads; and, as the last section, about SiteGenerator, which makes the *)
(* sites that are crawled.                                                 *)
(***************************************************************************)
EXTENDS CrawlQueue, Sites, DataLemmas

(* What a thread relies on between two of its actions: from JQ_Pickjob to  *)
(* the end of the request it has a page, and between the lookup and the    *)
(* append of JQ_Addjob it still has the link it looked up.                 *)
HasPage ==
  \A t \in Threads :
    pc[t] \in ActiveLabels \cup {"activate"} => page[t] \in Pages
HasLink == \A t \in Threads : pc[t] = "append" => todo[t] # <<>>

Inv == TypeOK /\ HasPage /\ HasLink

LEMMA InitInv == Init => Inv
BY LenProperties, EmptySeq
DEF Init, Inv, TypeOK, HasPage, HasLink, ThreadLabels, IdleLabels, ActiveLabels

LEMMA StepInv == Inv /\ [Next]_vars => Inv'
<1> SUFFICES ASSUME Inv, [Next]_vars PROVE Inv'
  OBVIOUS
<1> USE SiteAssumption, NamesAssumption
    DEF Inv, TypeOK, HasPage, HasLink, ThreadLabels, IdleLabels, ActiveLabels,
        listVars, threadVars, countVars, mainVars, Goto, MainGoto, NoJobs,
        Following, AfterError, AfterLink, LockList, ListUnlocked, LinksAfter,
        Extended
<1>1. CASE THR_Init
  <2>1. <<Start>> \in Seq(Pages) /\ Len(<<Start>>) = 1
    OBVIOUS
  <2> QED
    BY <1>1, <2>1 DEF THR_Init
<1>2. CASE SearchJobs
  BY <1>2 DEF SearchJobs
<1>3. CASE SearchActive
  BY <1>3 DEF SearchActive
<1>4. CASE Answer
  BY <1>4 DEF Answer
<1>5. CASE Shutdown
  BY <1>5 DEF Shutdown
<1>6. CASE Exit
  BY <1>6 DEF Exit
<1>7. ASSUME NEW t \in Threads, LockEmpty(t) PROVE Inv'
  BY <1>7 DEF LockEmpty
<1>8. ASSUME NEW t \in Threads, TestEmpty(t) PROVE Inv'
  BY <1>8 DEF TestEmpty
<1>9. ASSUME NEW t \in Threads, WaitEmpty(t) PROVE Inv'
  BY <1>9 DEF WaitEmpty
<1>10. ASSUME NEW t \in Threads, JQ_Pickjob(t) PROVE Inv'
  <2>1. CASE next_job = 0
    BY <1>10, <2>1 DEF JQ_Pickjob
  <2>2. CASE next_job # 0
    <3>1. Len(queue) \in Nat /\ next_job \in 1..Len(queue)
      BY <2>2, LenProperties
    <3>2. queue[next_job] \in Pages
      BY <3>1, ElementOfSeq
    <3>3. next_job' \in 0..Len(queue)
      BY <1>10, <2>2, <3>1 DEF JQ_Pickjob
    <3>4. /\ pc' = [pc EXCEPT ![t] = "activate"]
          /\ page' = [page EXCEPT ![t] = queue[next_job]]
          /\ n_jobs' = n_jobs - 1
          /\ UNCHANGED <<queue, mtx, empty_mtx, todo, countVars, mainVars>>
      BY <1>10, <2>2 DEF JQ_Pickjob
    <3> QED
      BY <3>2, <3>3, <3>4
  <2> QED
    BY <2>1, <2>2
<1>11. ASSUME NEW t \in Threads, Activate(t) PROVE Inv'
  BY <1>11 DEF Activate
<1>12. ASSUME NEW t \in Threads, ProcessDies(t) PROVE Inv'
  BY <1>12 DEF ProcessDies
<1>13. ASSUME NEW t \in Threads, Fetch(t) PROVE Inv'
  BY <1>13 DEF Fetch
<1>14. ASSUME NEW t \in Threads, LengthUnknown(t) PROVE Inv'
  BY <1>14 DEF LengthUnknown
<1>15. ASSUME NEW t \in Threads, LoseLink(t) PROVE Inv'
  <2>1. Tail(todo[t]) \in Seq(Pages)
    BY <1>15, HeadTailProperties DEF LoseLink
  <2> QED
    BY <1>15, <2>1 DEF LoseLink
<1>16. ASSUME NEW t \in Threads, AddLookup(t) PROVE Inv'
  <2>1. Tail(todo[t]) \in Seq(Pages)
    BY <1>16, HeadTailProperties DEF AddLookup
  <2>2. CASE Queued(Head(todo[t]))
    BY <1>16, <2>1, <2>2, ZenonT(60) DEF AddLookup
  <2>3. CASE ~ Queued(Head(todo[t]))
    BY <1>16, <2>3 DEF AddLookup
  <2> QED
    BY <2>2, <2>3
<1>17. ASSUME NEW t \in Threads, AddAppend(t) PROVE Inv'
  <2>1. Head(todo[t]) \in Pages /\ Tail(todo[t]) \in Seq(Pages)
    BY <1>17, HeadTailProperties DEF AddAppend
  <2>2. /\ queue' \in Seq(Pages)
        /\ Len(queue) \in Nat /\ Len(queue') = Len(queue) + 1
    BY <1>17, <2>1, AppendProperties, LenProperties DEF AddAppend
  <2>3. next_job' \in 0..Len(queue')
    BY <1>17, <2>2 DEF AddAppend
  <2>4. /\ pc' \in [Threads -> ThreadLabels]
        /\ pc'[t] \in {"receive", "looping"}
        /\ \A u \in Threads \ {t} : pc'[u] = pc[u] \/ pc'[u] = "lockEmpty"
    BY <1>17 DEF AddAppend, SignalEmpty
  <2>5. /\ todo' = [todo EXCEPT ![t] = Tail(todo[t])] /\ mtx' = Free
        /\ n_jobs' = n_jobs + 1
        /\ UNCHANGED <<empty_mtx, page, countVars, mainVars>>
    BY <1>17 DEF AddAppend
  <2>6. TypeOK'
    BY <2>1, <2>2, <2>3, <2>4, <2>5
  <2>7. HasPage' /\ HasLink'
    BY <1>17, <2>4, <2>5 DEF AddAppend
  <2> QED
    BY <2>6, <2>7
<1>18. ASSUME NEW t \in Threads, ReceiveEnd(t) PROVE Inv'
  BY <1>18 DEF ReceiveEnd
<1>19. ASSUME NEW t \in Threads, Count(t) PROVE Inv'
  BY <1>19 DEF Count
<1>20. ASSUME NEW t \in Threads, Deactivate(t) PROVE Inv'
  BY <1>20 DEF Deactivate
<1>21. ASSUME NEW t \in Threads, SpuriousWake(t) PROVE Inv'
  BY <1>21 DEF SpuriousWake
<1>22. ASSUME NEW t \in Threads, TouchFreed(t) PROVE Inv'
  BY <1>22 DEF TouchFreed
<1>23. ASSUME NEW t \in Threads, CutLink(t) PROVE Inv'
  <2>1. PICK n \in CutNames \cup {NoName} :
          todo' = [todo EXCEPT ![t] = <<n>> \o Tail(todo[t])]
    BY <1>23 DEF CutLink
  <2>2. Tail(todo[t]) \in Seq(Pages) /\ <<n>> \in Seq(Pages) /\ <<n>> # <<>>
    BY <1>23, HeadTailProperties DEF CutLink
  <2>3. <<n>> \o Tail(todo[t]) \in Seq(Pages)
    BY <2>2, ConcatProperties
  <2> QED
    BY <1>23, <2>1, <2>3 DEF CutLink
<1>24. CASE UNCHANGED vars
  BY <1>24 DEF vars
<1> QED
  BY <1>1, <1>2, <1>3, <1>4, <1>5, <1>6, <1>7, <1>8, <1>9, <1>10, <1>11,
     <1>12, <1>13, <1>14, <1>15, <1>16, <1>17, <1>18, <1>19, <1>20, <1>21,
     <1>22, <1>23, <1>24
  DEF Next, MainStep, ThreadStep

(* The variables keep their types in every execution                       *)
(* (crawler_functions.c, webcrawler.c): in particular next_job is NULL or  *)
(* a node of the list, however many threads pick and add.                  *)
THEOREM TypeCorrect == Spec => []TypeOK
<1>1. Inv => TypeOK
  BY DEF Inv
<1> QED
  BY <1>1, InitInv, StepInv, PTL DEF Spec

-----------------------------------------------------------------------------
(* n_jobs counts the nodes from next_job on. *)

Left == IF next_job = 0 THEN 0 ELSE Len(queue) - next_job + 1

LEMMA LeftIsLen == TypeOK => Len(Waiting) = Left
<1> SUFFICES ASSUME TypeOK PROVE Len(Waiting) = Left
  OBVIOUS
<1>1. queue \in Seq(Pages) /\ Len(queue) \in Nat /\ next_job \in 0..Len(queue)
  BY LenProperties DEF TypeOK
<1>2. CASE next_job = 0
  BY <1>2, EmptySeq DEF Waiting, Left
<1>3. CASE next_job # 0
  <2>1. next_job \in 1..Len(queue)
    BY <1>1, <1>3
  <2>2. \A m \in next_job..Len(queue) : queue[m] \in Pages
    BY <1>1, <2>1, ElementOfSeq
  <2> QED
    BY <1>1, <1>3, <2>1, <2>2, SubSeqProperties DEF Waiting, Left
<1> QED
  BY <1>2, <1>3

Counted == n_jobs = Left

(* Only picking and adding move the list. *)
LEMMA ThreadKeepsList ==
  ASSUME NEW t \in Threads,
         \/ ThreadStep(t) /\ ~ JQ_Pickjob(t) /\ ~ AddAppend(t)
         \/ TouchFreed(t) \/ SpuriousWake(t)
  PROVE  UNCHANGED <<queue, next_job, n_jobs>>
BY DEF ThreadStep, LockEmpty, TestEmpty, WaitEmpty, Activate, ProcessDies,
       Fetch, LengthUnknown, LoseLink, CutLink, AddLookup, ReceiveEnd, Count,
       Deactivate, TouchFreed, SpuriousWake, listVars

LEMMA JobsStep == Inv /\ Counted /\ [Next]_vars => Counted'
<1> SUFFICES ASSUME Inv, n_jobs = Left, [Next]_vars PROVE n_jobs' = Left'
  BY DEF Counted
<1>1. queue \in Seq(Pages) /\ Len(queue) \in Nat /\ next_job \in 0..Len(queue)
  BY LenProperties DEF Inv, TypeOK
<1>2. CASE UNCHANGED <<queue, next_job, n_jobs>>
  BY <1>2 DEF Left
<1>3. CASE THR_Init
  BY <1>3 DEF THR_Init, Left
<1>4. ASSUME NEW t \in Threads, JQ_Pickjob(t) PROVE n_jobs' = Left'
  BY <1>1, <1>4 DEF JQ_Pickjob, Following, Left
<1>5. ASSUME NEW t \in Threads, AddAppend(t) PROVE n_jobs' = Left'
  <2>1. todo[t] # <<>> /\ todo[t] \in Seq(Pages)
    BY <1>5 DEF AddAppend, Inv, TypeOK, HasLink
  <2>2. Len(queue') = Len(queue) + 1
    BY <1>1, <1>5, <2>1, AppendProperties, HeadTailProperties DEF AddAppend
  <2>3. /\ n_jobs' = n_jobs + 1
        /\ next_job' = IF next_job = 0 THEN Len(queue) + 1 ELSE next_job
    BY <1>5 DEF AddAppend, Extended
  <2>4. CASE next_job = 0
    BY <1>1, <2>2, <2>3, <2>4 DEF Left
  <2>5. CASE next_job # 0
    BY <1>1, <2>2, <2>3, <2>5 DEF Left
  <2> QED
    BY <2>4, <2>5
<1>6. CASE MainStep
  BY <1>2, <1>6
  DEF MainStep, SearchJobs, SearchActive, Answer, Shutdown, Exit, listVars
<1> QED
  BY <1>2, <1>3, <1>4, <1>5, <1>6, ThreadKeepsList DEF Next, vars

(* n_jobs = 0 exactly when next_job is NULL, and otherwise the number of   *)
(* pages still to pick, for any site (crawler_functions.c:147-196).        *)
THEOREM JobsAreCounted == Spec => []JobsCounted
<1>1. Init => Counted
  BY DEF Init, Counted, Left
<1>2. Inv /\ Counted => JobsCounted
  BY LeftIsLen DEF Inv, Counted, JobsCounted
<1> QED
  BY <1>1, <1>2, InitInv, StepInv, JobsStep, PTL DEF Spec

-----------------------------------------------------------------------------
(* A page that waits always has a thread that will come for it. *)

Fresh == phase = "init" => \A t \in Threads : pc[t] = "lockEmpty"

LEMMA FreshStep == Fresh /\ [Next]_vars => Fresh'
BY DEF Fresh, Next, MainStep, ThreadStep, THR_Init, SearchJobs, SearchActive,
       Answer, Shutdown, Exit, LockEmpty, TestEmpty, WaitEmpty, JQ_Pickjob,
       Activate, ProcessDies, Fetch, LengthUnknown, LoseLink, CutLink,
       AddLookup, AddAppend, ReceiveEnd, Count, Deactivate, SpuriousWake,
       TouchFreed,
       Goto, MainGoto, mainVars, threadVars, vars

LEMMA AwakeStep ==
  ASSUME Threads # {}
  PROVE  Inv /\ Fresh /\ SomeoneAwake /\ [Next]_vars => SomeoneAwake'
<1> SUFFICES ASSUME Inv, Fresh, SomeoneAwake, [Next]_vars,
                    phase' = "up", n_jobs' > 0
             PROVE  \E t \in Threads : pc'[t] \notin {"wait", "sleep"}
  BY DEF SomeoneAwake
<1> USE DEF SomeoneAwake, Goto, NoJobs, AfterError, AfterLink
<1>1. pc \in [Threads -> ThreadLabels] /\ n_jobs \in Int
  BY DEF Inv, TypeOK
<1>2. CASE UNCHANGED <<pc, n_jobs, phase>>
  BY <1>2
<1>3. CASE THR_Init
  BY <1>3 DEF THR_Init, Fresh, threadVars
<1>4. CASE SearchJobs \/ SearchActive \/ Answer
  BY <1>2, <1>4 DEF SearchJobs, SearchActive, Answer, listVars, threadVars
<1>5. CASE Shutdown \/ Exit
  BY <1>5 DEF Shutdown, Exit
<1>6. ASSUME NEW t \in Threads, WaitEmpty(t)
      PROVE  \E u \in Threads : pc'[u] \notin {"wait", "sleep"}
  <2>1. phase = "up" /\ n_jobs > 0 /\ pc[t] = "wait"
    BY <1>6 DEF WaitEmpty, listVars
  <2>2. PICK u \in Threads : pc[u] \notin {"wait", "sleep"}
    BY <2>1
  <2>3. pc'[u] = pc[u]
    BY <1>1, <1>6, <2>1, <2>2 DEF WaitEmpty
  <2> QED
    BY <2>2, <2>3
<1>7. ASSUME NEW t \in Threads, TestEmpty(t)
      PROVE  pc'[t] \notin {"wait", "sleep"}
  BY <1>1, <1>7 DEF TestEmpty, listVars
<1>8. ASSUME NEW t \in Threads, AddAppend(t)
      PROVE  pc'[t] \notin {"wait", "sleep"}
  BY <1>1, <1>8 DEF AddAppend, SignalEmpty
<1>9. ASSUME NEW t \in Threads,
             \/ LockEmpty(t) \/ JQ_Pickjob(t) \/ Activate(t) \/ Fetch(t)
             \/ LengthUnknown(t) \/ LoseLink(t) \/ CutLink(t) \/ AddLookup(t)
             \/ ReceiveEnd(t) \/ Count(t) \/ Deactivate(t)
             \/ SpuriousWake(t) \/ TouchFreed(t)
      PROVE  pc'[t] \notin {"wait", "sleep"}
  BY <1>1, <1>9
  DEF LockEmpty, JQ_Pickjob, Activate, Fetch, LengthUnknown, LoseLink,
      CutLink, AddLookup, ReceiveEnd, Count, Deactivate, SpuriousWake,
      TouchFreed
<1>10. ASSUME NEW t \in Threads, ProcessDies(t) PROVE FALSE
  BY <1>10 DEF ProcessDies
<1> QED
  BY <1>2, <1>3, <1>4, <1>5, <1>6, <1>7, <1>8, <1>9, <1>10
  DEF Next, MainStep, ThreadStep, vars

(* While a page waits to be picked some thread is awake, for any site and  *)
(* any number of threads, even one (webcrawler.c:36-41,                    *)
(* crawler_functions.c:174-180): who adds a page is not asleep, and nobody *)
(* goes to sleep having seen n_jobs positive.                              *)
THEOREM NoPageForgotten ==
  ASSUME Threads # {} PROVE Spec => []SomeoneAwake
<1>1. Init => Fresh /\ SomeoneAwake
  BY DEF Init, Fresh, SomeoneAwake
<1> QED
  BY <1>1, InitInv, StepInv, FreshStep, AwakeStep, PTL DEF Spec

-----------------------------------------------------------------------------
(* active_threads is the number of threads between the two places that     *)
(* change it, as long as the process runs.                                 *)

Active == {t \in Threads : pc[t] \in ActiveLabels}
ActiveCounted ==
  phase \in {"init", "up"} => active_threads = Cardinality(Active)

LEMMA ActiveStep == Inv /\ ActiveCounted /\ [Next]_vars => ActiveCounted'
<1> SUFFICES ASSUME Inv, ActiveCounted, [Next]_vars, phase' \in {"init", "up"}
             PROVE  active_threads' = Cardinality(Active')
  BY DEF ActiveCounted
<1> USE DEF Goto, IdleLabels, ActiveLabels, NoJobs, AfterError, AfterLink
<1>1. pc \in [Threads -> ThreadLabels]
  BY DEF Inv, TypeOK
<1>2. IsFiniteSet(Active) /\ Cardinality(Active) \in Nat
  BY ThreadsAssumption, FS_Subset, FS_CardinalityType DEF Active
<1>3. ASSUME phase \in {"init", "up"}, active_threads' = active_threads,
             \A t \in Threads :
               pc'[t] \in ActiveLabels <=> pc[t] \in ActiveLabels
      PROVE  active_threads' = Cardinality(Active')
  <2>1. Active' = Active
    BY <1>3 DEF Active
  <2> QED
    BY <1>3, <2>1 DEF ActiveCounted
<1>4. ASSUME NEW t \in Threads, Activate(t)
      PROVE  active_threads' = Cardinality(Active')
  <2>1. t \notin Active /\ Active' = Active \cup {t}
    BY <1>1, <1>4 DEF Activate, Active
  <2>2. Cardinality(Active') = Cardinality(Active) + 1
    BY <1>2, <2>1, FS_AddElement
  <2> QED
    BY <1>4, <2>2 DEF Activate, ActiveCounted
<1>5. ASSUME NEW t \in Threads, Deactivate(t)
      PROVE  active_threads' = Cardinality(Active')
  <2>1. t \in Active /\ Active' = Active \ {t}
    BY <1>1, <1>5 DEF Deactivate, Active
  <2>2. Cardinality(Active') = Cardinality(Active) - 1
    BY <1>2, <2>1, FS_RemoveElement
  <2> QED
    BY <1>5, <2>2 DEF Deactivate, ActiveCounted
<1>6. ASSUME NEW t \in Threads, AddAppend(t)
      PROVE  active_threads' = Cardinality(Active')
  <2>1. /\ active_threads' = active_threads /\ phase = "up"
        /\ pc[t] = "append" /\ pc'[t] \in {"receive", "looping"}
        /\ \A u \in Threads \ {t} :
             pc'[u] = pc[u] \/ (pc[u] = "sleep" /\ pc'[u] = "lockEmpty")
    BY <1>1, <1>6 DEF AddAppend, SignalEmpty, countVars
  <2> QED
    BY <1>3, <2>1
<1>7. ASSUME NEW t \in Threads,
             \/ LockEmpty(t) \/ TestEmpty(t) \/ WaitEmpty(t) \/ JQ_Pickjob(t)
             \/ Fetch(t) \/ LengthUnknown(t) \/ LoseLink(t) \/ CutLink(t)
             \/ AddLookup(t) \/ ReceiveEnd(t) \/ Count(t) \/ SpuriousWake(t)
      PROVE  active_threads' = Cardinality(Active')
  <2>1. /\ active_threads' = active_threads /\ phase = "up"
        /\ pc' = [pc EXCEPT ![t] = pc'[t]]
        /\ pc'[t] \in ActiveLabels <=> pc[t] \in ActiveLabels
    BY <1>1, <1>7
    DEF LockEmpty, TestEmpty, WaitEmpty, JQ_Pickjob, Fetch, LengthUnknown,
        LoseLink, CutLink, AddLookup, ReceiveEnd, Count, SpuriousWake,
        countVars
  <2>2. \A u \in Threads : pc'[u] \in ActiveLabels <=> pc[u] \in ActiveLabels
    BY <1>1, <2>1
  <2> QED
    BY <1>3, <2>1, <2>2
<1>8. CASE THR_Init \/ SearchJobs \/ SearchActive \/ Answer \/ UNCHANGED vars
  BY <1>3, <1>8
  DEF THR_Init, SearchJobs, SearchActive, Answer, MainGoto, threadVars,
      countVars, vars
<1>9. CASE Shutdown \/ Exit
  BY <1>9 DEF Shutdown, Exit
<1>10. ASSUME NEW t \in Threads, ProcessDies(t) \/ TouchFreed(t) PROVE FALSE
  BY <1>10 DEF ProcessDies, TouchFreed, mainVars
<1> QED
  BY <1>4, <1>5, <1>6, <1>7, <1>8, <1>9, <1>10
  DEF Next, MainStep, ThreadStep

(* When the crawl is over both counters are zero, so SEARCH goes through,  *)
(* for any site and any number of threads (webcrawler.c:46-66, 206): every *)
(* path through the loop takes active_threads back.                        *)
THEOREM SearchOpens == Spec => []GateOpensWhenDone
<1>1. Init => Counted /\ ActiveCounted
  <2>1. Init => Active = {}
    BY DEF Init, Active, ActiveLabels
  <2> QED
    BY <2>1, FS_EmptySet DEF Init, Counted, Left, ActiveCounted
<1>2. Inv /\ Counted /\ ActiveCounted => GateOpensWhenDone
  <2> SUFFICES ASSUME Inv, Counted, ActiveCounted, Done
               PROVE  n_jobs = 0 /\ active_threads = 0
    BY DEF GateOpensWhenDone
  <2>1. Active = {}
    BY DEF Done, Active, IdleLabels, ActiveLabels
  <2> QED
    BY <2>1, FS_EmptySet DEF Counted, Left, Done, ActiveCounted
<1> QED
  BY <1>1, <1>2, InitInv, StepInv, JobsStep, ActiveStep, PTL DEF Spec
-----------------------------------------------------------------------------
(* Where a page is.  The list never has a page twice, so a page is picked  *)
(* once, and by one thread; the thread that is between the lookup and the  *)
(* append of JQ_Addjob holds jobs->mtx, so what it looked up is still not  *)
(* in the list when it adds it.                                            *)

PickedHeld == \A t \in Threads : page[t] # NoPage => page[t] \in Picked
OneHolder ==
  \A t, u \in Threads : page[t] = page[u] /\ page[t] # NoPage => t = u
IdleHasNone == \A t \in Threads : pc[t] \in IdleLabels => page[t] = NoPage
AppendsNew ==
  \A t \in Threads :
    pc[t] = "append" => mtx = t /\ Head(todo[t]) \notin Range(queue)
InitEmpty == phase = "init" => queue = <<>> /\ next_job = 0

Once ==
  /\ IsInjective(queue)
  /\ PickedHeld /\ OneHolder /\ IdleHasNone /\ AppendsNew /\ InitEmpty

(* How the list looks from the two sides of next_job. *)
Front == IF next_job = 0 THEN Len(queue) ELSE next_job - 1
Sides ==
  /\ Front \in 0..Len(queue)
  /\ Picked = {queue[m] : m \in 1..Front}
  /\ Picked \subseteq Range(queue) /\ Range(queue) \subseteq Pages
  /\ next_job = 0 => Picked = Range(queue) /\ Waiting = <<>>

LEMMA ListSides == TypeOK => Sides
<1> SUFFICES ASSUME TypeOK PROVE Sides
  OBVIOUS
<1>1. queue \in Seq(Pages) /\ Len(queue) \in Nat /\ next_job \in 0..Len(queue)
  BY LenProperties DEF TypeOK
<1>2. DOMAIN queue = 1..Len(queue) /\ Range(queue) \subseteq Pages
  BY <1>1, LenProperties, RangeOfSeq
<1>3. Len(queue) - Len(Waiting) = Front /\ Front \in 0..Len(queue)
  BY <1>1, LeftIsLen DEF Left, Front
<1>4. Picked = {queue[m] : m \in 1..Front}
  BY <1>3 DEF Picked
<1>5. Picked \subseteq Range(queue)
  BY <1>1, <1>2, <1>3, <1>4 DEF Range
<1>6. next_job = 0 => Picked = Range(queue) /\ Waiting = <<>>
  BY <1>2, <1>4 DEF Range, Waiting, Front
<1> QED
  BY <1>2, <1>3, <1>4, <1>5, <1>6 DEF Sides

LEMMA PickMoves ==
  ASSUME NEW t \in Threads, Inv, Inv', IsInjective(queue), JQ_Pickjob(t),
         next_job # 0
  PROVE  /\ queue' = queue /\ page' = [page EXCEPT ![t] = queue[next_job]]
         /\ queue[next_job] \in Pages /\ queue[next_job] \notin Picked
         /\ Picked' = Picked \cup {queue[next_job]}
         /\ Waiting # <<>> /\ Head(Waiting) = queue[next_job]
         /\ Waiting' = Tail(Waiting)
<1>1. queue \in Seq(Pages) /\ Len(queue) \in Nat /\ next_job \in 1..Len(queue)
  BY LenProperties DEF Inv, TypeOK
<1>2. /\ queue' = queue /\ page' = [page EXCEPT ![t] = queue[next_job]]
      /\ next_job' = IF next_job = Len(queue) THEN 0 ELSE next_job + 1
  BY DEF JQ_Pickjob, Following
<1>3. queue[next_job] \in Pages
  BY <1>1, ElementOfSeq
<1>4. /\ Picked = {queue[m] : m \in 1..next_job - 1}
      /\ DOMAIN queue = 1..Len(queue)
  BY <1>1, ListSides, LenProperties DEF Inv, Sides, Front
<1>5. Picked' = {queue[m] : m \in 1..next_job}
  <2>1. Sides'
    BY ListSides, PTL DEF Inv
  <2>2. Front' = next_job
    BY <1>1, <1>2 DEF Front
  <2> QED
    BY <1>2, <2>1, <2>2 DEF Sides
<1>6. queue[next_job] \notin Picked
  BY <1>1, <1>4 DEF IsInjective
<1>7. Picked' = Picked \cup {queue[next_job]}
  BY <1>1, <1>4, <1>5
<1>8. /\ Waiting = SubSeq(queue, next_job, Len(queue))
      /\ Head(Waiting) = queue[next_job]
      /\ Tail(Waiting) = SubSeq(queue, next_job + 1, Len(queue))
  BY <1>1, HeadTailOfSubSeq DEF Waiting
<1>9. Waiting # <<>>
  <2>1. Len(Waiting) = Len(queue) - next_job + 1
    BY <1>1, LeftIsLen DEF Inv, Left
  <2> QED
    BY <1>1, <2>1
<1>10. Waiting' = Tail(Waiting)
  <2>1. CASE next_job = Len(queue)
    <3>1. SubSeq(queue, next_job + 1, Len(queue)) = <<>>
      BY <1>1, <2>1, SubSeqEmpty
    <3> QED
      BY <1>2, <1>8, <2>1, <3>1 DEF Waiting
  <2>2. CASE next_job # Len(queue)
    BY <1>1, <1>2, <1>8, <2>2 DEF Waiting
  <2> QED
    BY <2>1, <2>2
<1> QED
  BY <1>2, <1>3, <1>6, <1>7, <1>8, <1>9, <1>10

LEMMA AppendMoves ==
  ASSUME NEW t \in Threads, Inv, Inv', AddAppend(t)
  PROVE  /\ Head(todo[t]) \in Pages /\ queue' = Append(queue, Head(todo[t]))
         /\ Range(queue') = Range(queue) \cup {Head(todo[t])}
         /\ Picked' = Picked
         /\ Waiting' = Append(Waiting, Head(todo[t]))
<1> DEFINE x == Head(todo[t])
           n == Len(queue)
<1>1. queue \in Seq(Pages) /\ n \in Nat /\ next_job \in 0..n
  BY LenProperties DEF Inv, TypeOK
<1>2. x \in Pages
  BY HeadTailProperties DEF AddAppend, Inv, TypeOK, HasLink
<1>3. /\ queue' = Append(queue, x)
      /\ next_job' = IF next_job = 0 THEN n + 1 ELSE next_job
  BY DEF AddAppend, Extended
<1>4. /\ queue' \in Seq(Pages) /\ Len(queue') = n + 1 /\ queue'[n + 1] = x
      /\ \A m \in 1..n : queue'[m] = queue[m]
      /\ Range(queue') = Range(queue) \cup {x}
  BY <1>1, <1>2, <1>3, AppendProperties, AppendRange
<1>5. Picked' = Picked
  <2>1. Sides /\ Sides'
    BY ListSides, PTL DEF Inv
  <2>2. Front' = Front
    BY <1>1, <1>3 DEF Front
  <2>3. \A m \in 1..Front : queue'[m] = queue[m]
    BY <1>1, <1>4, <2>1 DEF Sides
  <2> QED
    BY <2>1, <2>2, <2>3 DEF Sides
<1>6. Waiting' = Append(Waiting, x)
  <2>1. Waiting' = SubSeq(queue', next_job', n + 1)
    <3>1. next_job' # 0 /\ Len(queue') = n + 1
      BY <1>1, <1>3, <1>4
    <3> QED
      BY <3>1 DEF Waiting
  <2>2. CASE next_job = 0
    <3>1. SubSeq(queue', n + 1, n + 1) = <<queue'[n + 1]>>
      <4>1. SubSeq(queue', n + 1, n + 1)
              = <<queue'[n + 1]>> \o SubSeq(queue', n + 2, n + 1)
        BY <1>1, <1>4, SubSeqRecursiveFirst
      <4>2. SubSeq(queue', n + 2, n + 1) = <<>>
        BY <1>1, SubSeqEmpty
      <4>3. <<queue'[n + 1]>> \in Seq(Pages)
        BY <1>2, <1>4
      <4> QED
        BY <4>1, <4>2, <4>3, ConcatEmptySeq
    <3>2. Append(<<>>, x) = <<x>>
      OBVIOUS
    <3> QED
      BY <1>3, <1>4, <2>1, <2>2, <3>1, <3>2 DEF Waiting
  <2>3. CASE next_job # 0
    <3>1. next_job' = next_job /\ next_job \in 1..n
      BY <1>1, <1>3, <2>3
    <3>2. SubSeq(queue', next_job, n + 1)
            = SubSeq(queue', next_job, n) \o <<queue'[n + 1]>>
      <4>1. /\ next_job \in 1..Len(queue') /\ n + 1 \in next_job..Len(queue')
            /\ (n + 1) - 1 = n
        BY <1>1, <1>4, <3>1
      <4>2. SubSeq(queue', next_job, n + 1)
              = SubSeq(queue', next_job, (n + 1) - 1) \o <<queue'[n + 1]>>
        BY ONLY <1>4, <4>1, SubSeqRecursiveSecond
      <4> QED
        BY <4>1, <4>2
    <3>3. /\ SubSeq(queue', next_job, n) \in Seq(Pages)
          /\ SubSeq(queue, next_job, n) \in Seq(Pages)
          /\ SubSeq(queue', next_job, n) = SubSeq(queue, next_job, n)
      <4>1. /\ \A m \in next_job..n : queue'[m] = queue[m] /\ queue[m] \in Pages
        BY <1>1, <1>4, <3>1, ElementOfSeq
      <4>2. /\ SubSeq(queue', next_job, n) \in Seq(Pages)
            /\ Len(SubSeq(queue', next_job, n)) = n - next_job + 1
            /\ \A m \in 1..n - next_job + 1 :
                 SubSeq(queue', next_job, n)[m] = queue'[next_job + m - 1]
        BY <1>1, <3>1, <4>1, SubSeqProperties
      <4>3. /\ SubSeq(queue, next_job, n) \in Seq(Pages)
            /\ Len(SubSeq(queue, next_job, n)) = n - next_job + 1
            /\ \A m \in 1..n - next_job + 1 :
                 SubSeq(queue, next_job, n)[m] = queue[next_job + m - 1]
        BY <1>1, <3>1, <4>1, SubSeqProperties
      <4>4. \A m \in 1..n - next_job + 1 : next_job + m - 1 \in next_job..n
        BY <1>1, <3>1
      <4> QED
        BY <4>1, <4>2, <4>3, <4>4, SeqEqual
    <3> QED
      BY <1>2, <1>4, <2>1, <2>3, <3>1, <3>2, <3>3, AppendIsConcat, ZenonT(60)
      DEF Waiting
  <2> QED
    BY <2>2, <2>3
<1> QED
  BY <1>2, <1>3, <1>4, <1>5, <1>6

LEMMA InitMoves ==
  ASSUME TypeOK', THR_Init, InitEmpty
  PROVE  /\ queue = <<>> /\ queue' = <<Start>> /\ Range(queue') = {Start}
         /\ Picked = {} /\ Picked' = {}
         /\ Waiting = <<>> /\ Waiting' = Append(Waiting, Start)
<1>1. /\ queue = <<>> /\ next_job = 0 /\ queue' = <<Start>> /\ next_job' = 1
  BY DEF THR_Init, InitEmpty
<1>2. /\ Len(<<>>) = 0 /\ Len(<<Start>>) = 1
      /\ <<Start>> = Append(<<>>, Start)
      /\ SubSeq(<<Start>>, 1, 1) = <<Start>>
      /\ Range(<<Start>>) = {Start}
  <2>1. <<Start>> \in Seq(Pages) /\ Len(<<Start>>) = 1 /\ Len(<<>>) = 0
    BY SiteAssumption
  <2>2. <<Start>> = Append(<<>>, Start)
    OBVIOUS
  <2>3. SubSeq(<<Start>>, 1, 1) = <<Start>>
    BY <2>1, SubSeqFull
  <2>4. Range(<<Start>>) = {Start}
    <3>1. DOMAIN <<Start>> = {1} /\ <<Start>>[1] = Start
      OBVIOUS
    <3> QED
      BY <3>1 DEF Range
  <2> QED
    BY <2>1, <2>2, <2>3, <2>4
<1>3. Waiting = <<>> /\ Waiting' = <<Start>>
  BY <1>1, <1>2 DEF Waiting
<1>4. Picked = {} /\ Picked' = {}
  BY <1>1, <1>2, <1>3 DEF Picked
<1> QED
  BY <1>1, <1>2, <1>3, <1>4

LEMMA OnceStep == Inv /\ Inv' /\ Once /\ [Next]_vars => Once'
<1> SUFFICES ASSUME Inv, Inv', Once, [Next]_vars PROVE Once'
  OBVIOUS
<1> USE DEF Once, Goto, IdleLabels, NoJobs, AfterError, AfterLink
<1>1. /\ queue \in Seq(Pages) /\ pc \in [Threads -> ThreadLabels]
      /\ page \in [Threads -> Pages \cup {NoPage}]
      /\ todo \in [Threads -> Seq(Pages)]
  BY DEF Inv, TypeOK
<1>2. Sides /\ Sides'
  BY ListSides, PTL DEF Inv
<1>3. ASSUME UNCHANGED <<queue, next_job, page>>,
             phase' = "init" => phase = "init", AppendsNew',
             \A t \in Threads :
               pc'[t] \in IdleLabels => pc[t] \in IdleLabels \/ page[t] = NoPage
      PROVE  Once'
  <2>1. Picked' = Picked
    BY <1>3 DEF Picked, Waiting
  <2> QED
    BY <1>3, <2>1 DEF PickedHeld, OneHolder, IdleHasNone, InitEmpty
<1>4. ASSUME UNCHANGED <<queue, mtx, todo>>,
             \A t \in Threads : pc'[t] = "append" => pc[t] = "append"
      PROVE  AppendsNew'
  BY <1>4 DEF AppendsNew
<1>5. CASE THR_Init
  <2>1. /\ queue' = <<Start>> /\ Picked = {} /\ Picked' = {}
        /\ UNCHANGED <<page, pc>> /\ phase' = "up"
    BY <1>5, InitMoves DEF THR_Init, threadVars, Inv
  <2>2. \A t \in Threads : page[t] = NoPage
    BY <2>1 DEF PickedHeld
  <2>3. IsInjective(queue')
    BY <2>1 DEF IsInjective
  <2>4. \A t \in Threads : pc[t] # "append"
    BY <2>2, NamesAssumption DEF Inv, HasPage, ActiveLabels
  <2> QED
    BY <2>1, <2>2, <2>3, <2>4
    DEF PickedHeld, OneHolder, IdleHasNone, AppendsNew, InitEmpty
<1>6. CASE MainStep \/ UNCHANGED vars
  <2>1. /\ UNCHANGED <<queue, next_job, page, pc, mtx, todo>>
        /\ phase' = "init" => phase = "init"
    BY <1>6
    DEF MainStep, SearchJobs, SearchActive, Answer, Shutdown, Exit, MainGoto,
        listVars, threadVars, vars
  <2> QED
    BY <1>3, <1>4, <2>1
<1>7. ASSUME NEW t \in Threads, JQ_Pickjob(t) PROVE Once'
  <2>1. CASE next_job = 0
    <3>1. /\ UNCHANGED <<queue, next_job, page, mtx, todo, phase>>
          /\ pc' = [pc EXCEPT ![t] = "lockEmpty"] /\ pc[t] = "pick"
      BY <1>7, <2>1 DEF JQ_Pickjob, mainVars
    <3>2. \A u \in Threads :
            /\ pc'[u] = "append" => pc[u] = "append"
            /\ pc'[u] \in IdleLabels => pc[u] \in IdleLabels
      BY <1>1, <3>1
    <3> QED
      BY <1>3, <1>4, <3>1, <3>2
  <2>2. CASE next_job # 0
    <3> DEFINE p == queue[next_job]
    <3>1. /\ queue' = queue /\ page' = [page EXCEPT ![t] = p]
          /\ p \in Pages /\ p \notin Picked /\ Picked' = Picked \cup {p}
      BY <1>7, <2>2, PickMoves
    <3>2. /\ pc' = [pc EXCEPT ![t] = "activate"]
          /\ UNCHANGED <<mtx, todo, phase>> /\ phase = "up"
      BY <1>7, <2>2 DEF JQ_Pickjob, mainVars
    <3>3. AppendsNew'
      BY <1>1, <1>4, <3>1, <3>2
    <3> HIDE DEF p
    <3>4. PickedHeld' /\ OneHolder' /\ IdleHasNone'
      BY <1>1, <3>1, <3>2 DEF PickedHeld, OneHolder, IdleHasNone
    <3> QED
      BY <3>1, <3>2, <3>3, <3>4 DEF InitEmpty
  <2> QED
    BY <2>1, <2>2
<1>8. ASSUME NEW t \in Threads, AddAppend(t) PROVE Once'
  <2> DEFINE x == Head(todo[t])
  <2>1. /\ x \in Pages /\ queue' = Append(queue, x)
        /\ Range(queue') = Range(queue) \cup {x} /\ Picked' = Picked
    BY <1>8, AppendMoves
  <2>2. /\ pc[t] = "append" /\ UNCHANGED <<page, phase>> /\ phase = "up"
        /\ pc'[t] \in {"receive", "looping"}
        /\ \A u \in Threads \ {t} :
             pc'[u] = pc[u] \/ (pc[u] = "sleep" /\ pc'[u] = "lockEmpty")
    BY <1>1, <1>8 DEF AddAppend, SignalEmpty, mainVars
  <2>3. mtx = t /\ x \notin Range(queue)
    BY <2>2 DEF AppendsNew
  <2>4. \A u \in Threads : pc'[u] # "append"
    BY <2>2, <2>3 DEF AppendsNew
  <2>5. IsInjective(queue')
    BY <1>1, <2>1, <2>3, AppendRange
  <2>6. PickedHeld' /\ OneHolder' /\ IdleHasNone'
    BY <2>1, <2>2 DEF PickedHeld, OneHolder, IdleHasNone
  <2> QED
    BY <2>2, <2>4, <2>5, <2>6 DEF AppendsNew, InitEmpty
<1>9. ASSUME NEW t \in Threads, Deactivate(t) PROVE Once'
  <2>1. /\ UNCHANGED <<queue, next_job, mtx, todo, phase>>
        /\ pc' = [pc EXCEPT ![t] = "lockEmpty"]
        /\ page' = [page EXCEPT ![t] = NoPage]
    BY <1>9 DEF Deactivate, listVars, mainVars
  <2>2. Picked' = Picked
    BY <2>1 DEF Picked, Waiting
  <2>3. AppendsNew'
    BY <1>1, <1>4, <2>1
  <2> QED
    BY <1>1, <2>1, <2>2, <2>3
    DEF PickedHeld, OneHolder, IdleHasNone, InitEmpty
<1>10. ASSUME NEW t \in Threads, AddLookup(t) PROVE Once'
  <2>1. UNCHANGED <<queue, next_job, page, phase>> /\ mtx = Free
    BY <1>10 DEF AddLookup, mainVars
  <2>2. \A u \in Threads : pc[u] # "append"
    BY <2>1, NamesAssumption DEF AppendsNew
  <2>3. CASE Queued(Head(todo[t]))
    <3>1. pc' = [pc EXCEPT ![t] = AfterLink(t)]
      BY <1>10, <2>3 DEF AddLookup
    <3>2. \A u \in Threads :
            /\ pc'[u] # "append"
            /\ pc'[u] \in IdleLabels => pc[u] \in IdleLabels
      BY <1>1, <2>2, <3>1
    <3> QED
      BY <1>3, <2>1, <3>2 DEF AppendsNew
  <2>4. CASE ~ Queued(Head(todo[t]))
    <3>1. /\ pc' = [pc EXCEPT ![t] = "append"] /\ mtx' = t /\ todo' = todo
      BY <1>10, <2>4 DEF AddLookup, LockList
    <3>2. Head(todo[t]) \notin Range(queue)
      BY <1>1, <2>4, InRange DEF Queued
    <3>3. \A u \in Threads :
            /\ pc'[u] = "append" => u = t
            /\ pc'[u] \in IdleLabels => pc[u] \in IdleLabels
      BY <1>1, <2>2, <3>1
    <3> QED
      BY <1>3, <2>1, <3>1, <3>2, <3>3 DEF AppendsNew
  <2> QED
    BY <2>3, <2>4
<1>11. ASSUME NEW t \in Threads, LoseLink(t) \/ CutLink(t) \/ Fetch(t)
       PROVE  Once'
  <2>1. /\ UNCHANGED <<queue, next_job, page, phase, mtx>>
        /\ pc' = [pc EXCEPT ![t] = pc'[t]]
        /\ pc'[t] \in {"receive", "deactivate"}
        /\ \A u \in Threads \ {t} : todo'[u] = todo[u]
    BY <1>1, <1>11 DEF LoseLink, CutLink, Fetch, listVars, mainVars
  <2>2. AppendsNew'
    BY <1>1, <2>1 DEF AppendsNew
  <2>3. \A u \in Threads : pc'[u] \in IdleLabels => pc[u] \in IdleLabels
    BY <1>1, <2>1
  <2> QED
    BY <1>3, <2>1, <2>2, <2>3
<1>12. ASSUME NEW t \in Threads,
              \/ LockEmpty(t) \/ TestEmpty(t) \/ WaitEmpty(t) \/ Activate(t)
              \/ LengthUnknown(t) \/ ReceiveEnd(t) \/ Count(t)
              \/ SpuriousWake(t) \/ TouchFreed(t)
       PROVE  Once'
  <2>1. /\ UNCHANGED <<queue, next_job, page, phase, mtx, todo>>
        /\ pc' = [pc EXCEPT ![t] = pc'[t]]
        /\ pc'[t] # "append"
        /\ pc'[t] \in IdleLabels => pc[t] \in IdleLabels
    BY <1>1, <1>12
    DEF LockEmpty, TestEmpty, WaitEmpty, Activate, LengthUnknown, ReceiveEnd,
        Count, SpuriousWake, TouchFreed, listVars, mainVars
  <2>2. \A u \in Threads :
          /\ pc'[u] = "append" => pc[u] = "append"
          /\ pc'[u] \in IdleLabels => pc[u] \in IdleLabels
    BY <1>1, <2>1
  <2> QED
    BY <1>3, <1>4, <2>1, <2>2
<1>13. ASSUME NEW t \in Threads, ProcessDies(t) PROVE Once'
  <2>1. /\ UNCHANGED <<queue, next_job, page, pc, mtx, todo>>
        /\ phase' = "exited"
    BY <1>13 DEF ProcessDies, listVars, threadVars
  <2> QED
    BY <1>3, <1>4, <2>1
<1> QED
  BY <1>5, <1>6, <1>7, <1>8, <1>9, <1>10, <1>11, <1>12, <1>13
  DEF Next, ThreadStep

-----------------------------------------------------------------------------
(* The list is the queue of HandoffQueue, from next_job on. *)
LEMMA WaitingListed ==
  TypeOK => \A d \in 1..Len(Waiting) : Waiting[d] \in Range(queue)
<1> SUFFICES ASSUME TypeOK, NEW d \in 1..Len(Waiting)
             PROVE  Waiting[d] \in Range(queue)
  OBVIOUS
<1>1. queue \in Seq(Pages) /\ Len(queue) \in Nat /\ next_job \in 0..Len(queue)
  BY LenProperties DEF TypeOK
<1>2. next_job \in 1..Len(queue) /\ d \in 1..(Len(queue) - next_job + 1)
  BY <1>1, LeftIsLen DEF Left
<1>3. \A m \in next_job..Len(queue) : queue[m] \in Pages
  BY <1>1, <1>2, ElementOfSeq
<1>4. Waiting[d] = queue[next_job + d - 1]
  BY <1>1, <1>2, <1>3, SubSeqProperties DEF Waiting
<1>5. next_job + d - 1 \in 1..Len(queue) /\ DOMAIN queue = 1..Len(queue)
  BY <1>1, <1>2, LenProperties
<1> QED
  BY <1>4, <1>5 DEF Range

Finished == {p \in Picked : \A t \in Threads : page[t] # p}

LEMMA HandoffStep ==
  Inv /\ Inv' /\ Once /\ [Next]_vars => [Handoff!Next]_(Handoff!vars)
<1> SUFFICES ASSUME Inv, Inv', Once, [Next]_vars
             PROVE  [Handoff!Next]_(Handoff!vars)
  OBVIOUS
<1>1. /\ queue \in Seq(Pages) /\ pc \in [Threads -> ThreadLabels]
      /\ page \in [Threads -> Pages \cup {NoPage}]
  BY DEF Inv, TypeOK
<1>2. Sides
  BY ListSides DEF Inv
<1>3. CASE UNCHANGED <<queue, next_job, page>>
  BY <1>3 DEF Handoff!vars, Picked, Waiting
<1>4. ASSUME NEW x \in Pages, x \notin Range(queue),
             Waiting' = Append(Waiting, x), page' = page, Picked' = Picked
      PROVE  [Handoff!Next]_(Handoff!vars)
  <2>1. ~ Handoff!Queued(x)
    BY <1>4, WaitingListed DEF Handoff!Queued, Inv
  <2>2. ~ Handoff!Held(x)
    BY <1>2, <1>4, NamesAssumption
    DEF Handoff!Held, Once, PickedHeld, Sides
  <2>3. x \notin Finished /\ Finished' = Finished
    BY <1>2, <1>4 DEF Finished, Sides
  <2>4. Handoff!Put(x)
    BY <1>4, <2>1, <2>2, <2>3 DEF Handoff!Put, Handoff!HasRoom, Finished
  <2> QED
    BY <2>4 DEF Handoff!Next
<1>5. CASE THR_Init
  <2>1. /\ queue = <<>> /\ Picked = {} /\ Picked' = {}
        /\ Waiting' = Append(Waiting, Start) /\ page' = page
    BY <1>5, InitMoves DEF THR_Init, threadVars, Inv, Once
  <2>2. Start \in Pages /\ Range(queue) = {}
    BY <2>1, SiteAssumption DEF Range
  <2> QED
    BY <1>4, <2>1, <2>2
<1>6. ASSUME NEW t \in Threads, JQ_Pickjob(t), next_job # 0
      PROVE  [Handoff!Next]_(Handoff!vars)
  <2> DEFINE x == queue[next_job]
  <2>1. /\ page' = [page EXCEPT ![t] = x] /\ x \in Pages
        /\ Picked' = Picked \cup {x}
        /\ Waiting # <<>> /\ Head(Waiting) = x /\ Waiting' = Tail(Waiting)
    BY <1>6, PickMoves DEF Once
  <2>2. page[t] = NoPage
    BY <1>6 DEF JQ_Pickjob, Goto, Once, IdleHasNone, IdleLabels
  <2> HIDE DEF x
  <2>3. Finished' = Finished
    <3>1. x \notin Finished'
      BY <1>1, <2>1 DEF Finished
    <3>2. \A p \in Picked : p # x =>
            ((\A u \in Threads : page'[u] # p)
               <=> (\A u \in Threads : page[u] # p))
      BY <1>1, <1>2, <2>1, <2>2, NamesAssumption DEF Sides
    <3>3. x \notin Picked
      BY <1>6, PickMoves DEF Once, x
    <3> QED
      BY <2>1, <3>1, <3>2, <3>3 DEF Finished
  <2>4. Handoff!Take(t)
    BY <2>1, <2>2, <2>3 DEF Handoff!Take, Finished
  <2> QED
    BY <2>4 DEF Handoff!Next
<1>7. ASSUME NEW t \in Threads, AddAppend(t)
      PROVE  [Handoff!Next]_(Handoff!vars)
  <2>1. /\ Head(todo[t]) \in Pages /\ Picked' = Picked
        /\ Waiting' = Append(Waiting, Head(todo[t]))
    BY <1>7, AppendMoves
  <2>2. Head(todo[t]) \notin Range(queue) /\ page' = page
    BY <1>7 DEF AddAppend, Once, AppendsNew
  <2> QED
    BY <1>4, <2>1, <2>2
<1>8. ASSUME NEW t \in Threads, Deactivate(t)
      PROVE  [Handoff!Next]_(Handoff!vars)
  <2>1. /\ pc[t] = "deactivate" /\ page' = [page EXCEPT ![t] = NoPage]
        /\ UNCHANGED <<queue, next_job>>
    BY <1>8 DEF Deactivate, Goto, listVars
  <2>2. page[t] \in Pages
    BY <2>1 DEF Inv, HasPage, ActiveLabels
  <2>3. Picked' = Picked /\ Waiting' = Waiting
    BY <2>1 DEF Picked, Waiting
  <2>4. Finished' = Finished \cup {page[t]}
    <3>1. page[t] \in Picked
      BY <2>2, NamesAssumption DEF Once, PickedHeld
    <3>2. \A u \in Threads : page'[u] # page[t]
      BY <1>1, <2>1, <2>2, NamesAssumption DEF Once, OneHolder
    <3>3. \A p \in Picked : p # page[t] =>
            ((\A u \in Threads : page'[u] # p)
               <=> (\A u \in Threads : page[u] # p))
      BY <1>1, <1>2, <2>1, NamesAssumption DEF Sides
    <3> QED
      BY <2>3, <3>1, <3>2, <3>3 DEF Finished
  <2>5. Handoff!Finish(t)
    BY <2>1, <2>2, <2>3, <2>4, NamesAssumption DEF Handoff!Finish, Finished
  <2> QED
    BY <2>5 DEF Handoff!Next
<1>9. ASSUME NEW t \in Threads,
             \/ ThreadStep(t) /\ ~ JQ_Pickjob(t) /\ ~ AddAppend(t)
                  /\ ~ Deactivate(t)
             \/ TouchFreed(t) \/ SpuriousWake(t)
      PROVE  UNCHANGED <<queue, next_job, page>>
  BY <1>9
  DEF ThreadStep, LockEmpty, TestEmpty, WaitEmpty, Activate, ProcessDies,
      Fetch, LengthUnknown, LoseLink, CutLink, AddLookup, ReceiveEnd, Count,
      TouchFreed, SpuriousWake, listVars, threadVars
<1>10. CASE MainStep \/ UNCHANGED vars
  BY <1>3, <1>10
  DEF MainStep, SearchJobs, SearchActive, Answer, Shutdown, Exit, listVars,
      threadVars, vars
<1>11. ASSUME NEW t \in Threads, JQ_Pickjob(t), next_job = 0
       PROVE  UNCHANGED <<queue, next_job, page>>
  BY <1>11 DEF JQ_Pickjob
<1> QED
  BY <1>3, <1>5, <1>6, <1>7, <1>8, <1>9, <1>10, <1>11 DEF Next

LEMMA InitOnce == Init => Once /\ Handoff!Init
<1> SUFFICES ASSUME Init PROVE Once /\ Handoff!Init
  OBVIOUS
<1>1. /\ queue = <<>> /\ next_job = 0 /\ Waiting = <<>> /\ Len(<<>>) = 0
      /\ Picked = {} /\ page = [t \in Threads |-> NoPage]
  BY EmptySeq DEF Init, Waiting, Picked
<1>2. IsInjective(queue)
  BY <1>1 DEF IsInjective
<1> QED
  BY <1>1, <1>2
  DEF Init, Once, PickedHeld, OneHolder, IdleHasNone, AppendsNew, InitEmpty,
      Handoff!Init

(* The crawler's list, its two mutexes, its condition variable and its     *)
(* stale tests implement the hand-off of HandoffQueue for any site and any *)
(* finite pool of threads (crawler_functions.c:147-196,                    *)
(* webcrawler.c:35-70): each page is put once, taken by one idle thread,   *)
(* in the order of discovery, and finished by it.                          *)
THEOREM CrawlImplementsHandoff == Spec => ImplementsHandoff
<1> QED
  BY InitInv, StepInv, InitOnce, OnceStep, HandoffStep, PTL
  DEF Spec, ImplementsHandoff, Handoff!Spec

-----------------------------------------------------------------------------
(* What the crawl visits. *)

LEMMA Reach ==
  ASSUME NEW From \in SUBSET Pages
  PROVE  /\ Reachable(From) \subseteq Pages
         /\ From \subseteq Reachable(From)
         /\ \A p \in Reachable(From) \cap Exists :
              Range(Links[p]) \subseteq Reachable(From)
         /\ \A More \in SUBSET Pages :
              From \subseteq More => Reachable(From) \subseteq Reachable(More)
         /\ \A S \in SUBSET Pages :
              From \subseteq S /\ Closed(S) => Reachable(From) \subseteq S
<1>1. \A p \in Pages : Range(Links[p]) \subseteq Pages
  BY SiteAssumption, RangeOfSeq
<1>2. \A p \in Reachable(From) \cap Exists :
        Range(Links[p]) \subseteq Reachable(From)
  <2> SUFFICES ASSUME NEW p \in Reachable(From) \cap Exists,
                      NEW r \in Range(Links[p]), NEW S \in SUBSET Pages,
                      From \subseteq S, Closed(S)
               PROVE  r \in S
    BY <1>1 DEF Reachable
  <2>1. p \in S
    BY DEF Reachable
  <2> QED
    BY <2>1 DEF Closed
<1> QED
  BY <1>2 DEF Reachable

Roots == {Start} \cup IF lossy = {} THEN {} ELSE CutNames \cup {NoName}
OnlyReachable ==
  /\ Range(queue) \subseteq Reachable(Roots)
  /\ \A t \in Threads : Range(todo[t]) \subseteq Reachable(Roots)

LEMMA ReachStep ==
  Inv /\ Inv' /\ Once /\ OnlyReachable /\ [Next]_vars => OnlyReachable'
<1> SUFFICES ASSUME Inv, Inv', Once, OnlyReachable, [Next]_vars
             PROVE  OnlyReachable'
  OBVIOUS
<1>1. /\ queue \in Seq(Pages) /\ todo \in [Threads -> Seq(Pages)]
      /\ Roots \in SUBSET Pages /\ Roots' \in SUBSET Pages /\ Start \in Roots'
  BY SiteAssumption DEF Inv, TypeOK, Roots
<1>2. ASSUME lossy \subseteq lossy'
      PROVE  Reachable(Roots) \subseteq Reachable(Roots')
  <2>1. Roots \subseteq Roots'
    BY <1>2 DEF Roots
  <2> QED
    BY <1>1, <2>1, Reach
<1>3. ASSUME UNCHANGED <<queue, todo, lossy>> PROVE OnlyReachable'
  BY <1>3 DEF OnlyReachable, Roots
<1>4. ASSUME NEW t \in Threads, queue' = queue, lossy \subseteq lossy',
             todo' = [todo EXCEPT ![t] = todo'[t]],
             Range(todo'[t]) \subseteq Reachable(Roots')
      PROVE  OnlyReachable'
  BY <1>1, <1>2, <1>4 DEF OnlyReachable
<1>5. CASE THR_Init
  <2>1. Range(queue') = {Start} /\ todo' = todo /\ lossy' = lossy
    BY <1>5, InitMoves DEF THR_Init, threadVars, countVars, Inv, Once
  <2> QED
    BY <1>1, <1>2, <2>1, Reach DEF OnlyReachable
<1>6. CASE MainStep \/ UNCHANGED vars
  BY <1>3, <1>6
  DEF MainStep, SearchJobs, SearchActive, Answer, Shutdown, Exit, listVars,
      threadVars, countVars, vars
<1>7. ASSUME NEW t \in Threads, AddAppend(t) PROVE OnlyReachable'
  <2>1. /\ Range(queue') = Range(queue) \cup {Head(todo[t])}
        /\ todo' = [todo EXCEPT ![t] = Tail(@)] /\ lossy' = lossy
        /\ todo[t] # <<>>
    BY <1>7, AppendMoves DEF AddAppend, countVars, Inv, HasLink
  <2>2. /\ Head(todo[t]) \in Range(todo[t])
        /\ Range(Tail(todo[t])) \subseteq Range(todo[t])
    BY <1>1, <2>1, HeadTailRange
  <2> QED
    BY <1>1, <1>2, <2>1, <2>2 DEF OnlyReachable
<1>8. ASSUME NEW t \in Threads, AddLookup(t) \/ LoseLink(t)
      PROVE  OnlyReachable'
  <2>1. /\ queue' = queue /\ lossy \subseteq lossy' /\ todo[t] # <<>>
        /\ todo' = todo \/ todo' = [todo EXCEPT ![t] = Tail(todo[t])]
    BY <1>8 DEF AddLookup, LoseLink, LinksAfter, listVars, countVars
  <2>2. Range(Tail(todo[t])) \subseteq Range(todo[t])
    BY <1>1, <2>1, HeadTailRange
  <2> QED
    BY <1>1, <1>2, <2>1, <2>2 DEF OnlyReachable
<1>9. ASSUME NEW t \in Threads, CutLink(t) PROVE OnlyReachable'
  <2>1. PICK n \in CutNames \cup {NoName} :
          todo' = [todo EXCEPT ![t] = <<n>> \o Tail(todo[t])]
    BY <1>9 DEF CutLink
  <2>2. /\ queue' = queue /\ lossy' = lossy \cup {page[t]} /\ todo[t] # <<>>
    BY <1>9 DEF CutLink, listVars
  <2>3. n \in Roots' /\ n \in Pages
    BY <2>2, SiteAssumption DEF Roots
  <2>4. /\ Tail(todo[t]) \in Seq(Pages)
        /\ Range(Tail(todo[t])) \subseteq Range(todo[t])
    BY <1>1, <2>2, HeadTailRange
  <2>5. Range(<<n>> \o Tail(todo[t])) = {n} \cup Range(Tail(todo[t]))
    BY <2>3, <2>4, PrependRange
  <2>6. Range(todo[t]) \subseteq Reachable(Roots')
    BY <1>2, <2>2 DEF OnlyReachable
  <2>7. Range(todo'[t]) \subseteq Reachable(Roots')
    BY <1>1, <2>1, <2>3, <2>4, <2>5, <2>6, Reach
  <2> QED
    BY <1>1, <1>4, <2>1, <2>2, <2>7
<1>10. ASSUME NEW t \in Threads, Fetch(t) PROVE OnlyReachable'
  <2>1. /\ queue' = queue /\ lossy' = lossy
        /\ todo' = [todo EXCEPT ![t] = IF page[t] \in Exists
                                       THEN Links[page[t]] ELSE <<>>]
    BY <1>10 DEF Fetch, listVars, countVars
  <2>2. page[t] \in Reachable(Roots)
    <3>1. page[t] \in Pages /\ page[t] \in Picked
      BY <1>10, NamesAssumption
      DEF Fetch, Goto, Inv, HasPage, ActiveLabels, Once, PickedHeld
    <3> QED
      BY <3>1, ListSides DEF Sides, Inv, OnlyReachable
  <2>3. Range(<<>>) = {}
    BY DEF Range
  <2>4. Range(todo'[t]) \subseteq Reachable(Roots)
    BY <1>1, <2>1, <2>2, <2>3, Reach
  <2> QED
    BY <1>1, <1>2, <1>4, <2>1, <2>4
<1>11. ASSUME NEW t \in Threads,
              \/ ThreadStep(t) /\ ~ AddAppend(t) /\ ~ AddLookup(t)
                   /\ ~ LoseLink(t) /\ ~ CutLink(t) /\ ~ Fetch(t)
              \/ TouchFreed(t) \/ SpuriousWake(t)
       PROVE  OnlyReachable'
  <2>1. UNCHANGED <<queue, todo>> /\ lossy \subseteq lossy'
    BY <1>11
    DEF ThreadStep, LockEmpty, TestEmpty, WaitEmpty, JQ_Pickjob, Activate,
        ProcessDies, LengthUnknown, ReceiveEnd, Count, Deactivate,
        TouchFreed, SpuriousWake, listVars, threadVars, countVars
  <2> QED
    BY <1>2, <2>1 DEF OnlyReachable
<1> QED
  BY <1>5, <1>6, <1>7, <1>8, <1>9, <1>10, <1>11 DEF Next

-----------------------------------------------------------------------------
(* While every response comes through whole: the links of a page are in    *)
(* the list by the time its thread counts it, and downloads is the number  *)
(* of existing pages that their threads have counted.                      *)

Whole == lossy = {} /\ phase = "up"
StartListed == phase = "up" => Start \in Range(queue)
FinishedListed ==
  Whole => \A p \in Finished \cap Exists :
             Range(Links[p]) \subseteq Range(queue)
HeldListed ==
  Whole => \A t \in Threads : page[t] \in Exists =>
    /\ pc[t] \in {"receive", "append"} =>
         Range(Links[page[t]]) \subseteq Range(queue) \cup Range(todo[t])
    /\ pc[t] \in {"count", "deactivate"} =>
         Range(Links[page[t]]) \subseteq Range(queue)
ReceivesExisting ==
  Whole => \A t \in Threads :
    pc[t] \in {"receive", "append", "count"} => page[t] \in Exists
Downloaded ==
  {p \in Picked \cap Exists :
     \A t \in Threads : page[t] = p => pc[t] = "deactivate"}
DownloadsCounted ==
  Whole => IsFiniteSet(Downloaded) /\ downloads = Cardinality(Downloaded)
NoneYet == phase = "init" => downloads = 0

Exact ==
  /\ StartListed /\ FinishedListed /\ HeldListed /\ ReceivesExisting
  /\ DownloadsCounted /\ NoneYet

LEMMA ExactStep == Inv /\ Inv' /\ Once /\ Exact /\ [Next]_vars => Exact'
<1> SUFFICES ASSUME Inv, Inv', Once, Exact, [Next]_vars PROVE Exact'
  OBVIOUS
<1> USE DEF Goto, AfterError, AfterLink
<1>1. /\ queue \in Seq(Pages) /\ todo \in [Threads -> Seq(Pages)]
      /\ pc \in [Threads -> ThreadLabels]
      /\ page \in [Threads -> Pages \cup {NoPage}]
      /\ Picked \subseteq Range(queue) /\ Range(queue) \subseteq Pages
      /\ Exists \subseteq Pages /\ NoPage \notin Exists /\ NoPage \notin Pages
  BY ListSides, SiteAssumption, NamesAssumption DEF Inv, TypeOK, Sides
<1> DEFINE Quiet == ThreadLabels \ {"receive", "append", "count", "deactivate"}
(* Steps that end the crawl or lose a link, and steps that change none of  *)
(* it.                                                                     *)
<1>2. ASSUME phase' \notin {"init", "up"} PROVE Exact'
  BY <1>2
  DEF Exact, StartListed, FinishedListed, HeldListed, ReceivesExisting,
      DownloadsCounted, NoneYet, Whole
<1>3. ASSUME lossy' # {}, UNCHANGED <<queue, downloads, phase>> PROVE Exact'
  BY <1>3
  DEF Exact, StartListed, FinishedListed, HeldListed, ReceivesExisting,
      DownloadsCounted, NoneYet, Whole
<1>4. ASSUME UNCHANGED <<queue, next_job, page, todo, lossy, downloads, phase>>,
             \A u \in Threads :
               pc'[u] = pc[u] \/ (pc[u] \in Quiet /\ pc'[u] \in Quiet)
      PROVE  Exact'
  <2>1. Picked' = Picked /\ Finished' = Finished
    BY <1>4 DEF Picked, Waiting, Finished
  <2>2. Downloaded' = Downloaded
    BY <1>4, <2>1 DEF Downloaded
  <2>3. HeldListed' /\ ReceivesExisting'
    BY <1>4 DEF Exact, HeldListed, ReceivesExisting, Whole
  <2> QED
    BY <1>4, <2>1, <2>2, <2>3
    DEF Exact, StartListed, FinishedListed, DownloadsCounted, NoneYet, Whole
<1>5. CASE THR_Init
  <2>1. /\ Range(queue') = {Start} /\ Picked = {} /\ Picked' = {}
        /\ phase' = "up" /\ phase = "init"
        /\ UNCHANGED <<pc, page, downloads>>
    BY <1>5, InitMoves DEF THR_Init, threadVars, countVars, Inv, Once
  <2>2. Finished' = {} /\ Downloaded' = {} /\ downloads' = 0
    BY <2>1 DEF Finished, Downloaded, Exact, NoneYet
  <2>3. \A t \in Threads : page[t] \notin Pages
    BY <1>1, <2>1 DEF Once, PickedHeld
  <2>4. \A t \in Threads : pc'[t] \in Quiet
    BY <1>1, <2>1, <2>3 DEF Inv, HasPage, ActiveLabels
  <2> QED
    BY <2>1, <2>2, <2>4, FS_EmptySet
    DEF Exact, StartListed, FinishedListed, HeldListed, ReceivesExisting,
        DownloadsCounted, NoneYet
<1>6. CASE SearchJobs \/ SearchActive \/ Answer \/ UNCHANGED vars
  BY <1>4, <1>6
  DEF SearchJobs, SearchActive, Answer, listVars, threadVars, countVars, vars
<1>7. CASE Shutdown \/ Exit
  BY <1>2, <1>7 DEF Shutdown, Exit
<1>8. ASSUME NEW t \in Threads, ProcessDies(t) \/ TouchFreed(t) PROVE Exact'
  BY <1>2, <1>8 DEF ProcessDies, TouchFreed, mainVars
<1>9. ASSUME NEW t \in Threads, LengthUnknown(t) \/ LoseLink(t) \/ CutLink(t)
      PROVE  Exact'
  BY <1>3, <1>9 DEF LengthUnknown, LoseLink, CutLink, listVars, mainVars
<1>10. ASSUME NEW t \in Threads,
              \/ LockEmpty(t) \/ TestEmpty(t) \/ WaitEmpty(t) \/ Activate(t)
              \/ SpuriousWake(t) \/ (JQ_Pickjob(t) /\ next_job = 0)
       PROVE  Exact'
  <2>1. /\ UNCHANGED <<queue, next_job, page, todo, lossy, downloads, phase>>
        /\ pc' = [pc EXCEPT ![t] = pc'[t]]
        /\ pc[t] \in Quiet /\ pc'[t] \in Quiet
    BY <1>1, <1>10
    DEF LockEmpty, TestEmpty, WaitEmpty, Activate, SpuriousWake, JQ_Pickjob,
        listVars, countVars, mainVars, ThreadLabels, IdleLabels, ActiveLabels
  <2> QED
    BY <1>1, <1>4, <2>1
(* A page is picked: its thread has not asked for it yet. *)
<1>11. ASSUME NEW t \in Threads, JQ_Pickjob(t), next_job # 0 PROVE Exact'
  <2> DEFINE x == queue[next_job]
  <2>1. /\ page' = [page EXCEPT ![t] = x] /\ x \in Pages /\ queue' = queue
        /\ Picked' = Picked \cup {x} /\ x \notin Picked
    BY <1>11, PickMoves DEF Once
  <2>2. /\ page[t] = NoPage /\ pc' = [pc EXCEPT ![t] = "activate"]
        /\ UNCHANGED <<todo, lossy, downloads, phase>>
    BY <1>11
    DEF JQ_Pickjob, Once, IdleHasNone, IdleLabels, countVars, mainVars
  <2> HIDE DEF x
  <2>3. page'[t] = x /\ pc'[t] = "activate"
    BY <1>1, <2>1, <2>2
  <2>4. \A u \in Threads \ {t} : page'[u] = page[u] /\ pc'[u] = pc[u]
    BY <1>1, <2>1, <2>2
  <2>5. Finished' = Finished
    <3>1. \A p \in Picked : (\A u \in Threads : page'[u] # p)
                              <=> (\A u \in Threads : page[u] # p)
      BY <1>1, <2>1, <2>2, <2>3, <2>4
    <3> QED
      BY <2>1, <2>3, <3>1 DEF Finished
  <2>6. Downloaded' = Downloaded
    <3>1. \A p \in Picked :
            (\A u \in Threads : page'[u] = p => pc'[u] = "deactivate")
              <=> (\A u \in Threads : page[u] = p => pc[u] = "deactivate")
      BY <1>1, <2>1, <2>2, <2>3, <2>4
    <3> QED
      BY <2>1, <2>3, <3>1 DEF Downloaded
  <2>7. HeldListed' /\ ReceivesExisting'
    BY <2>1, <2>2, <2>3, <2>4 DEF Exact, HeldListed, ReceivesExisting, Whole
  <2> QED
    BY <2>1, <2>2, <2>5, <2>6, <2>7
    DEF Exact, StartListed, FinishedListed, DownloadsCounted, NoneYet, Whole
(* Steps of a thread that has a page. *)
<1>12. ASSUME NEW t \in Threads,
              UNCHANGED <<page, lossy, phase, downloads>>, Picked' = Picked,
              Range(queue) \subseteq Range(queue'),
             queue # queue' => phase = "up",
              \A u \in Threads \ {t} :
                /\ todo'[u] = todo[u]
                /\ pc'[u] = pc[u] \/ (pc[u] \in Quiet /\ pc'[u] \in Quiet),
              page[t] \in Exists
                => pc[t] # "deactivate" /\ pc'[t] # "deactivate",
              Whole => /\ pc'[t] \in {"receive", "append", "count"}
                            => page[t] \in Exists
                       /\ page[t] \in Exists /\ pc'[t] \in {"receive", "append"}
                            => Range(Links[page[t]])
                                 \subseteq Range(queue') \cup Range(todo'[t])
                       /\ page[t] \in Exists /\ pc'[t] = "count"
                            => Range(Links[page[t]]) \subseteq Range(queue')
       PROVE  Exact'
  <2>1. Finished' = Finished
    BY <1>12 DEF Finished
  <2>2. Downloaded' = Downloaded
    BY <1>12 DEF Downloaded
  <2>3. HeldListed'
    BY <1>12 DEF Exact, HeldListed, Whole
  <2>4. ReceivesExisting'
    BY <1>12 DEF Exact, ReceivesExisting, Whole
  <2> QED
    BY <1>12, <2>1, <2>2, <2>3, <2>4
    DEF Exact, StartListed, FinishedListed, DownloadsCounted, NoneYet, Whole
<1>13. ASSUME NEW t \in Threads, UNCHANGED <<queue, next_job>>
       PROVE  Picked' = Picked
  BY <1>13 DEF Picked, Waiting
<1>14. ASSUME NEW t \in Threads, Fetch(t) PROVE Exact'
  <2>1. /\ UNCHANGED <<queue, next_job, page, lossy, downloads, phase>>
        /\ pc[t] = "fetch" /\ pc' = [pc EXCEPT ![t] = pc'[t]]
        /\ pc'[t] = IF page[t] \in Exists THEN "receive" ELSE "deactivate"
        /\ page[t] \in Exists => todo'[t] = Links[page[t]]
        /\ \A u \in Threads \ {t} : todo'[u] = todo[u]
    BY <1>1, <1>14 DEF Fetch, listVars, countVars, mainVars
  <2> QED
    BY <1>1, <1>12, <1>13, <2>1
<1>15. ASSUME NEW t \in Threads, AddLookup(t) PROVE Exact'
  <2>1. /\ UNCHANGED <<queue, next_job, page, lossy, downloads, phase>>
        /\ pc[t] = "receive" /\ pc' = [pc EXCEPT ![t] = pc'[t]]
        /\ phase = "up" /\ todo[t] # <<>>
        /\ \A u \in Threads \ {t} : todo'[u] = todo[u]
    BY <1>1, <1>15 DEF AddLookup, countVars, mainVars
  <2>2. CASE Queued(Head(todo[t]))
    <3>1. todo'[t] = Tail(todo[t]) /\ pc'[t] \in {"receive", "looping"}
      BY <1>1, <1>15, <2>2 DEF AddLookup, LinksAfter
    <3>2. /\ Head(todo[t]) \in Range(queue)
          /\ Range(todo[t]) = {Head(todo[t])} \cup Range(Tail(todo[t]))
      BY <1>1, <2>1, <2>2, InRange, HeadTailRange DEF Queued
    <3>3. Whole /\ page[t] \in Exists =>
            Range(Links[page[t]]) \subseteq Range(queue) \cup Range(todo'[t])
      BY <2>1, <3>1, <3>2 DEF Exact, HeldListed
    <3>4. Whole => page[t] \in Exists
      BY <2>1 DEF Exact, ReceivesExisting
    <3> QED
      BY <1>1, <1>12, <1>13, <2>1, <3>1, <3>3, <3>4
  <2>3. CASE ~ Queued(Head(todo[t]))
    <3>1. todo' = todo /\ pc'[t] = "append"
      BY <1>1, <1>15, <2>3 DEF AddLookup
    <3>2. Whole => /\ page[t] \in Exists
                   /\ Range(Links[page[t]])
                        \subseteq Range(queue) \cup Range(todo[t])
      BY <2>1 DEF Exact, HeldListed, ReceivesExisting
    <3> QED
      BY <1>1, <1>12, <1>13, <2>1, <3>1, <3>2
  <2> QED
    BY <2>2, <2>3
<1>16. ASSUME NEW t \in Threads, AddAppend(t) PROVE Exact'
  <2>1. /\ Range(queue') = Range(queue) \cup {Head(todo[t])}
        /\ Picked' = Picked
    BY <1>16, AppendMoves
  <2>2. /\ UNCHANGED <<page, lossy, downloads, phase>> /\ phase = "up"
        /\ pc[t] = "append" /\ pc'[t] \in {"receive", "looping"}
        /\ \A u \in Threads \ {t} :
             pc'[u] = pc[u] \/ (pc[u] = "sleep" /\ pc'[u] = "lockEmpty")
        /\ todo'[t] = Tail(todo[t]) /\ todo[t] # <<>>
        /\ \A u \in Threads \ {t} : todo'[u] = todo[u]
    BY <1>1, <1>16
    DEF AddAppend, SignalEmpty, countVars, mainVars, Inv, HasLink
  <2>3. Range(todo[t]) = {Head(todo[t])} \cup Range(Tail(todo[t]))
    BY <1>1, <2>2, HeadTailRange
  <2>4. Whole => page[t] \in Exists
    BY <2>2 DEF Exact, ReceivesExisting
  <2>5. Whole => Range(Links[page[t]])
                   \subseteq Range(queue') \cup Range(todo'[t])
    BY <2>1, <2>2, <2>3, <2>4 DEF Exact, HeldListed
  <2>6. "sleep" \in Quiet /\ "lockEmpty" \in Quiet
    BY DEF ThreadLabels, IdleLabels
  <2> HIDE DEF Quiet
  <2> QED
    BY <1>12, <2>1, <2>2, <2>4, <2>5, <2>6
<1>17. ASSUME NEW t \in Threads, ReceiveEnd(t) PROVE Exact'
  <2>1. /\ UNCHANGED <<queue, next_job, page, todo, lossy, downloads, phase>>
        /\ pc[t] = "receive" /\ pc' = [pc EXCEPT ![t] = "count"]
        /\ todo[t] = <<>>
    BY <1>17 DEF ReceiveEnd, listVars, countVars, mainVars
  <2>2. Range(<<>>) = {}
    BY DEF Range
  <2>3. Whole => /\ page[t] \in Exists
                 /\ Range(Links[page[t]]) \subseteq Range(queue)
    BY <2>1, <2>2 DEF Exact, HeldListed, ReceivesExisting
  <2> QED
    BY <1>1, <1>12, <1>13, <2>1, <2>3
<1>18. ASSUME NEW t \in Threads, Count(t) PROVE Exact'
  <2>1. /\ UNCHANGED <<queue, next_job, page, todo, lossy, phase>>
        /\ pc[t] = "count" /\ pc' = [pc EXCEPT ![t] = "deactivate"]
        /\ downloads' = downloads + 1 /\ phase = "up"
    BY <1>18 DEF Count, listVars, mainVars
  <2>2. Picked' = Picked /\ Finished' = Finished
    BY <2>1 DEF Picked, Waiting, Finished
  <2>3. HeldListed' /\ ReceivesExisting'
    BY <1>1, <2>1 DEF Exact, HeldListed, ReceivesExisting, Whole
  <2>4. ASSUME Whole
        PROVE  IsFiniteSet(Downloaded') /\ downloads' = Cardinality(Downloaded')
    <3>1. page[t] \in Exists /\ page[t] \in Picked
      BY <1>1, <2>1, <2>4 DEF Exact, ReceivesExisting, Once, PickedHeld
    <3>2. \A u \in Threads \ {t} : page[u] # page[t]
      BY <1>1, <3>1 DEF Once, OneHolder
    <3>3. page[t] \notin Downloaded
      BY <2>1 DEF Downloaded
    <3>4. Downloaded' = Downloaded \cup {page[t]}
      BY <1>1, <2>1, <2>2, <3>1, <3>2 DEF Downloaded
    <3> QED
      BY <2>1, <2>4, <3>3, <3>4, FS_AddElement DEF Exact, DownloadsCounted
  <2> QED
    BY <2>1, <2>2, <2>3, <2>4
    DEF Exact, StartListed, FinishedListed, DownloadsCounted, NoneYet, Whole
<1>19. ASSUME NEW t \in Threads, Deactivate(t) PROVE Exact'
  <2>1. /\ UNCHANGED <<queue, next_job, todo, lossy, downloads, phase>>
        /\ pc[t] = "deactivate" /\ pc' = [pc EXCEPT ![t] = "lockEmpty"]
        /\ page' = [page EXCEPT ![t] = NoPage]
    BY <1>19 DEF Deactivate, listVars, mainVars
  <2>2. Picked' = Picked
    BY <2>1 DEF Picked, Waiting
  <2>3. page[t] \in Pages /\ page[t] \in Picked
    BY <1>1, <2>1 DEF Inv, HasPage, ActiveLabels, Once, PickedHeld
  <2>4. \A u \in Threads \ {t} : page[u] # page[t]
    BY <2>3, <1>1 DEF Once, OneHolder
  <2>5. Finished' = Finished \cup {page[t]}
    BY <1>1, <2>1, <2>2, <2>3, <2>4 DEF Finished
  <2>6. Downloaded' = Downloaded
    <3>1. \A p \in Picked :
            (\A u \in Threads : page'[u] = p => pc'[u] = "deactivate")
              <=> (\A u \in Threads : page[u] = p => pc[u] = "deactivate")
      BY <1>1, <2>1, <2>4
    <3> QED
      BY <2>2, <3>1 DEF Downloaded
  <2>7. Whole /\ page[t] \in Exists
          => Range(Links[page[t]]) \subseteq Range(queue)
    BY <2>1 DEF Exact, HeldListed
  <2>8. HeldListed' /\ ReceivesExisting'
    BY <1>1, <2>1 DEF Exact, HeldListed, ReceivesExisting, Whole
  <2> QED
    BY <2>1, <2>5, <2>6, <2>7, <2>8
    DEF Exact, StartListed, FinishedListed, DownloadsCounted, NoneYet, Whole
<1> QED
  BY <1>5, <1>6, <1>7, <1>8, <1>9, <1>10, <1>11, <1>14, <1>15, <1>16, <1>17,
     <1>18, <1>19
  DEF Next, MainStep, ThreadStep

(* The crawl visits only pages that can be reached from the starting URL   *)
(* or a cut name, and once it is over, with every response whole, all of   *)
(* the former, each counted once if it exists, for any site and any finite *)
(* pool of threads (webcrawler.c:35-70).                                   *)
THEOREM CrawlVisitsReachable == Spec => []CrawlExact
<1>1. Init => OnlyReachable /\ Exact
  <2> SUFFICES ASSUME Init PROVE OnlyReachable /\ Exact
    OBVIOUS
  <2>1. Range(<<>>) = {}
    BY DEF Range
  <2> QED
    BY <2>1
    DEF Init, OnlyReachable, Exact, StartListed, FinishedListed, HeldListed,
        ReceivesExisting, DownloadsCounted, NoneYet, Whole
<1>2. Inv /\ Once /\ OnlyReachable /\ Exact => CrawlExact
  <2> SUFFICES ASSUME Inv, Once, OnlyReachable, Exact PROVE CrawlExact
    OBVIOUS
  <2>1. ASSUME Done, lossy = {}
        PROVE  /\ Range(queue) = Reachable({Start})
               /\ downloads = Cardinality(Reachable({Start}) \cap Exists)
    <3>1. Whole /\ Picked = Range(queue) /\ Range(queue) \subseteq Pages
      BY <2>1, ListSides DEF Done, Whole, Sides, Inv
    <3>2. \A t \in Threads : page[t] \notin Pages
      BY <2>1, NamesAssumption DEF Done, Once, IdleHasNone
    <3>3. Finished = Range(queue) /\ Downloaded = Range(queue) \cap Exists
      BY <3>1, <3>2 DEF Finished, Downloaded
    <3>4. Start \in Range(queue) /\ Closed(Range(queue))
      BY <3>1, <3>3
      DEF Exact, StartListed, FinishedListed, Whole, Closed
    <3>5. Reachable({Start}) \subseteq Range(queue)
      <4>1. /\ {Start} \in SUBSET Pages /\ Range(queue) \in SUBSET Pages
            /\ {Start} \subseteq Range(queue)
        BY <3>1, <3>4, SiteAssumption
      <4> QED
        BY <3>4, <4>1, Reach
    <3>6. Range(queue) \subseteq Reachable({Start})
      BY <2>1 DEF OnlyReachable, Roots
    <3> QED
      BY <3>1, <3>3, <3>5, <3>6 DEF Exact, DownloadsCounted
  <2> QED
    BY <2>1 DEF CrawlExact, OnlyReachable, Roots
<1> QED
  BY <1>1, <1>2, InitInv, StepInv, InitOnce, OnceStep, ReachStep, ExactStep,
     PTL
  DEF Spec

-----------------------------------------------------------------------------
(* The sites that are crawled: SiteGenerator, for any numbers of sites and *)
(* of pages of a site.  It is an instance, since its actions have names of *)
(* CrawlQueue; what Sites defines is the same in the instance.             *)
Generator == INSTANCE SiteGenerator

LEMMA SameSites ==
  /\ Generator!f = f /\ Generator!q = q /\ Generator!AllPages = AllPages
  /\ \A s : Generator!Site(s) = Site(s)
  /\ \A n : Generator!FileOf(n) = FileOf(n)
  /\ \A s : Generator!Range(s) = Range(s)
BY DEF Generator!f, f, Generator!q, q, Generator!AllPages, AllPages,
       Generator!Site, Site, Generator!FileOf, FileOf, Generator!Range, Range

Current == P * i + j

LEMMA SizesAre ==
  /\ f \in Nat /\ f >= 1 /\ (P # 1 => f >= 2)
  /\ q \in Nat /\ q >= 1 /\ W * P \in Nat /\ W * P >= 1
<1>1. P \div 2 \in Nat /\ W \div 2 \in Nat /\ (P # 1 => P \div 2 >= 1)
  BY SizesAssumption
<1>2. W * P \in Nat /\ W * P >= 1
  BY SizesAssumption
<1> QED
  BY <1>1, <1>2 DEF f, q

LEMMA PageNumbers ==
  ASSUME NEW s \in 0..(W - 1), NEW x \in 0..(P - 1), NEW n, n = P * s + x
  PROVE  n \in AllPages /\ n \in Site(s) /\ n \div P = s
<1>1. P * s + P <= W * P
  <2>1. s + 1 <= W /\ s \in Nat
    BY SizesAssumption
  <2>2. PICK d \in Nat : W = (s + 1) + d
    <3>1. W - (s + 1) \in Nat /\ W = (s + 1) + (W - (s + 1))
      BY <2>1, SizesAssumption
    <3> QED
      BY <3>1
  <2>3. W * P = P * s + P + d * P /\ d * P >= 0
    BY <2>1, <2>2, SizesAssumption
  <2> QED
    BY <2>1, <2>3, SizesAssumption
<1>2. n \div P = s
  BY SizesAssumption
<1>3. P * s \in Nat /\ W * P \in Nat
  BY SizesAssumption
<1> QED
  BY <1>1, <1>2, <1>3, SizesAssumption DEF AllPages, Site

LEMMA PagesOfSite ==
  ASSUME NEW s \in 0..(W - 1), NEW n \in Site(s)
  PROVE  n \in AllPages
<1>1. P * s \in Nat
  BY SizesAssumption
<1>2. n - P * s \in 0..(P - 1) /\ n = P * s + (n - P * s)
  BY <1>1, SizesAssumption DEF Site
<1> QED
  BY <1>2, PageNumbers

LEMMA SiteOfPage ==
  ASSUME NEW n \in AllPages
  PROVE  n \in Nat /\ n \div P \in 0..(W - 1) /\ n + 1 \in 1..(W * P)
<1>1. n \in Nat /\ n < W * P /\ W * P \in Nat
  BY SizesAssumption DEF AllPages
<1>2. n \div P \in 0..(W - 1)
  BY <1>1, SizesAssumption
<1> QED
  BY <1>1, <1>2

-----------------------------------------------------------------------------
(* All names are drawn first, then page after page gets its links; with    *)
(* one page to a site the first link of all is drawn for ever.             *)
InTurn ==
  /\ Len(pagenames) <= W * P
  /\ Len(pagenames) < W * P => i = 0 /\ j = 0 /\ k = 0
  /\ i = W => j = 0 /\ k = 0
  /\ P = 1 => i = 0 /\ k = 0
(* The first link many of the page's links are drawn. *)
Drawn ==
  /\ \A n \in k..(f + q - 1) : links[n] = -1
  /\ \A n \in 0..(k - 1) :
       IF n < f THEN links[n] \in Site(i)
       ELSE links[n] \in AllPages \ Site(i)
  /\ \A n, m \in 0..(k - 1) : links[n] = links[m] => n = m
  /\ \A n \in 1..(k - 1) : n < f => links[n] # Current
(* From the second link on page_num is the page. *)
Numbered == k > 1 => page_num = Current
(* Each file has the pages of its name before the current one. *)
Ascending(file) == \A a, b \in DOMAIN file : a < b => file[a] < file[b]
Earlier(c, x) == {m \in 0..(c - 1) : FileOf(m) = x}
Filed ==
  \A x \in (0..(W - 1)) \X Numbers :
    Range(files[x]) = Earlier(Current, x) /\ Ascending(files[x])

GeneratorInv == SitesTypeOK /\ InTurn /\ Drawn /\ Numbered /\ Filed

(* The types without what is printed. *)
Types ==
  /\ pagenames \in Seq(Numbers)
  /\ files \in [(0..(W - 1)) \X Numbers -> Seq(AllPages)]
  /\ i \in 0..W /\ j \in 0..(P - 1) /\ k \in 0..(f + q)
  /\ links \in [0..(f + q - 1) -> AllPages \cup {-1}]
  /\ page_num \in AllPages
  /\ incoming \subseteq AllPages
Said == said \in {"nothing", "every"}

LEMMA TypesAre == SitesTypeOK <=> Types /\ Said
BY DEF SitesTypeOK, Types, Said

LEMMA GeneratorInit ==
  ASSUME Generator!Init PROVE GeneratorInv
<1>1. /\ pagenames = <<>> /\ i = 0 /\ j = 0 /\ k = 0 /\ page_num = 0
      /\ incoming = {} /\ said = "nothing"
      /\ files = [x \in (0..(W - 1)) \X Numbers |-> <<>>]
      /\ links = [n \in 0..(f + q - 1) |-> -1]
  BY SameSites DEF Generator!Init, Generator!NoLinks
<1>2. Current = 0
  BY <1>1, SizesAssumption DEF Current
<1>3. Types
  <2>1. 0 \in AllPages
    BY SizesAre DEF AllPages
  <2>2. <<>> \in Seq(Numbers) /\ <<>> \in Seq(AllPages)
    BY EmptySeq
  <2>3. 0 \in 0..W /\ 0 \in 0..(P - 1) /\ 0 \in 0..(f + q)
    BY SizesAre, SizesAssumption
  <2> QED
    BY <1>1, <2>1, <2>2, <2>3 DEF Types
<1>4. Said
  BY <1>1 DEF Said
<1>5. InTurn
  <2>1. Len(pagenames) = 0
    BY <1>1, EmptySeq
  <2> QED
    BY <1>1, <2>1, SizesAre, SizesAssumption DEF InTurn
<1>6. Drawn
  BY <1>1, SizesAre DEF Drawn
<1>7. Numbered
  BY <1>1 DEF Numbered
<1>8. Filed
  <2> SUFFICES ASSUME NEW x \in (0..(W - 1)) \X Numbers
               PROVE  Range(files[x]) = Earlier(Current, x) /\ Ascending(files[x])
    BY DEF Filed
  <2>1. PICK e : e = files[x]
    OBVIOUS
  <2>2. DOMAIN e = {}
    <3>1. e = <<>>
      BY <1>1, <2>1
    <3> QED
      BY <3>1
  <2>3. Range(e) = {} /\ Ascending(e)
    BY <2>2 DEF Range, Ascending
  <2>4. Earlier(Current, x) = {}
    BY <1>2 DEF Earlier
  <2> QED
    BY <2>1, <2>3, <2>4
<1> QED
  BY <1>3, <1>4, <1>5, <1>6, <1>7, <1>8, TypesAre DEF GeneratorInv

(* The current page, while the links are drawn. *)
LEMMA CurrentIs ==
  ASSUME GeneratorInv, Generator!Linking
  PROVE  /\ Current \in AllPages /\ Current \div P = i
         /\ i \in 0..(W - 1) /\ Len(pagenames) = W * P
<1>1. i \in 0..(W - 1) /\ j \in 0..(P - 1) /\ Len(pagenames) = W * P
  BY TypesAre, SizesAssumption DEF GeneratorInv, Types, Generator!Linking
<1> QED
  BY <1>1, PageNumbers DEF Current

(* A name that is drawn. *)
LEMMA GeneratorDrawName ==
  ASSUME GeneratorInv, Generator!DrawName PROVE GeneratorInv'
<1>1. PICK x \in Numbers : pagenames' = Append(pagenames, x)
  BY DEF Generator!DrawName
<1>2. /\ Len(pagenames) < W * P
      /\ UNCHANGED <<files, i, j, k, links, page_num, incoming, said>>
  BY DEF Generator!DrawName
<1>3. Types /\ Said /\ InTurn /\ Drawn /\ Numbered /\ Filed
  BY TypesAre DEF GeneratorInv
<1>4. pagenames' \in Seq(Numbers) /\ Len(pagenames') = Len(pagenames) + 1
      /\ Len(pagenames) \in Nat
  BY <1>1, <1>3, AppendProperties, LenProperties DEF Types
<1>5. i = 0 /\ j = 0 /\ k = 0
  BY <1>2, <1>3 DEF InTurn
<1>6. Types' /\ Said'
  BY <1>2, <1>3, <1>4 DEF Types, Said
<1>7. InTurn'
  BY <1>2, <1>4, <1>5, SizesAre, SizesAssumption DEF InTurn
<1>8. Current' = Current /\ Current = 0
  BY <1>2, <1>5, SizesAssumption DEF Current
<1>9. Drawn' /\ Numbered'
  BY <1>2, <1>3, <1>8 DEF Drawn, Numbered
<1>10. Filed'
  <2> SUFFICES ASSUME NEW y \in (0..(W - 1)) \X Numbers
               PROVE  /\ Range(files[y]) = Earlier(Current, y)'
                      /\ Ascending(files[y])
    BY <1>2 DEF Filed, Ascending
  <2>1. Earlier(Current, y) = {} /\ Earlier(Current, y)' = {}
    BY <1>8 DEF Earlier
  <2> QED
    BY <1>3, <2>1 DEF Filed
<1> QED
  BY <1>6, <1>7, <1>9, <1>10, TypesAre DEF GeneratorInv, SitesTypeOK, Types,
       Said

(* A link that is drawn: no matter how, if it is none of those before, and *)
(* of the site or of another as its place says.                            *)
LEMMA GeneratorPlace ==
  ASSUME GeneratorInv, Generator!Linking, P # 1,
         k \in 0..(f + q - 1),
         NEW x \in AllPages, Generator!Place(x),
         k < f => x \in Site(i),
         ~ (k < f) => x \notin Site(i),
         x \notin Range(links), k >= 1 /\ k < f => x # Current,
         page_num' \in AllPages, k >= 1 => page_num' = Current
  PROVE  GeneratorInv'
<1>1. /\ links' = [links EXCEPT ![k] = x] /\ incoming' = incoming \cup {x}
      /\ k' = k + 1
      /\ UNCHANGED <<pagenames, files, i, j, said>>
  BY DEF Generator!Place, Generator!nameVars
<1>2. Types /\ Said /\ InTurn /\ Drawn /\ Numbered /\ Filed
  BY TypesAre DEF GeneratorInv
<1>3. /\ f \in Nat /\ q \in Nat /\ f >= 1 /\ q >= 1
      /\ k \in Nat
  BY SizesAre
<1>4. DOMAIN links = 0..(f + q - 1)
      /\ links \in [0..(f + q - 1) -> AllPages \cup {-1}]
  BY <1>2 DEF Types
<1>5. /\ links' \in [0..(f + q - 1) -> AllPages \cup {-1}]
      /\ links'[k] = x
      /\ \A n \in 0..(f + q - 1) : n # k => links'[n] = links[n]
  BY <1>1, <1>4
<1>6. Types' /\ Said'
  BY <1>1, <1>2, <1>3, <1>5 DEF Types, Said
<1>7. InTurn'
  BY <1>1, <1>2, SizesAssumption DEF InTurn, Generator!Linking, Types
<1>8. Current' = Current
  BY <1>1 DEF Current
<1>9. Drawn'
  <2>1. \A n \in k'..(f + q - 1) : links'[n] = -1
    BY <1>1, <1>2, <1>3, <1>5 DEF Drawn
  <2>2. ASSUME NEW n \in 0..(k' - 1)
        PROVE  IF n < f THEN links'[n] \in Site(i)
               ELSE links'[n] \in AllPages \ Site(i)
    <3>1. CASE n = k
      BY <1>5, <3>1
    <3>2. CASE n # k
      <4>1. n \in 0..(k - 1) /\ n \in 0..(f + q - 1)
        BY <1>1, <1>3, <3>2
      <4> QED
        BY <1>2, <1>5, <3>2, <4>1 DEF Drawn
    <3> QED
      BY <3>1, <3>2
  <2>3. ASSUME NEW n \in 0..(k' - 1), NEW m \in 0..(k' - 1),
               links'[n] = links'[m]
        PROVE  n = m
    <3>1. \A a \in 0..(k' - 1) :
            /\ a \in 0..(f + q - 1)
            /\ a # k => a \in 0..(k - 1)
      BY <1>1, <1>3
    <3>2. \A a \in 0..(f + q - 1) : links[a] # x
      BY <1>4 DEF Range
    <3>3. \A a, b \in 0..(k - 1) : links[a] = links[b] => a = b
      BY ONLY <1>2 DEF Drawn
    <3>4. /\ n \in 0..(f + q - 1) /\ m \in 0..(f + q - 1)
          /\ n # k => n \in 0..(k - 1)
          /\ m # k => m \in 0..(k - 1)
      BY <3>1
    <3>5. /\ n = k => links'[n] = x
          /\ m = k => links'[m] = x
          /\ n # k => links'[n] = links[n] /\ links[n] # x
          /\ m # k => links'[m] = links[m] /\ links[m] # x
      BY ONLY <1>5, <3>2, <3>4
    <3> QED
      BY ONLY <2>3, <3>3, <3>4, <3>5
  <2>4. ASSUME NEW n \in 1..(k' - 1), n < f PROVE links'[n] # Current
    <3>1. CASE n = k
      BY <1>5, <2>4, <3>1
    <3>2. CASE n # k
      <4>1. n \in 1..(k - 1) /\ n \in 0..(f + q - 1)
        BY <1>1, <1>3, <3>2
      <4> QED
        BY <1>2, <1>5, <2>4, <3>2, <4>1 DEF Drawn
    <3> QED
      BY <3>1, <3>2
  <2>5. Site(i)' = Site(i)
    BY <1>1 DEF Site
  <2> QED
    BY <1>1, <1>8, <2>1, <2>2, <2>3, <2>4, <2>5 DEF Drawn
<1>10. Numbered'
  BY <1>1, <1>3, <1>8 DEF Numbered
<1>11. Filed'
  <2>1. \A y : Earlier(Current, y)' = Earlier(Current, y)
    BY <1>1, <1>8 DEF Earlier, FileOf
  <2> QED
    BY <1>1, <1>2, <2>1 DEF Filed, Ascending
<1> QED
  BY <1>6, <1>7, <1>9, <1>10, <1>11 DEF GeneratorInv, SitesTypeOK, Types, Said

LEMMA GeneratorDrawFirst ==
  ASSUME GeneratorInv, Generator!DrawFirst PROVE GeneratorInv'
<1>1. /\ Generator!Linking /\ k = 0 /\ page_num' = page_num
  BY SameSites DEF Generator!DrawFirst
<1>2. PICK x \in Site(i) \ {i} : Generator!Place(x)
  BY SameSites DEF Generator!DrawFirst
<1>3. x \in AllPages
  BY <1>1, <1>2, CurrentIs, PagesOfSite
<1>4. P # 1
  <2> SUFFICES ASSUME P = 1 PROVE FALSE
    OBVIOUS
  <2>1. i = 0
    BY DEF GeneratorInv, InTurn
  <2> QED
    BY <1>2, <2>1 DEF Site
<1>5. f \in Nat /\ q \in Nat /\ f >= 1 /\ q >= 1
  BY SizesAre
<1>6. x \notin Range(links)
  <2>1. \A n \in DOMAIN links : links[n] = -1
    BY <1>1, TypesAre DEF GeneratorInv, Drawn, Types
  <2> QED
    BY <1>3, <2>1 DEF Range, AllPages
<1>7. page_num' \in AllPages
  BY <1>1, TypesAre DEF GeneratorInv, Types
<1> QED
  BY <1>1, <1>2, <1>3, <1>4, <1>5, <1>6, <1>7, GeneratorPlace

LEMMA GeneratorDrawInternal ==
  ASSUME GeneratorInv, Generator!DrawInternal PROVE GeneratorInv'
<1>1. /\ Generator!Linking /\ k \in 1..(f - 1) /\ page_num' = Current
  BY SameSites DEF Generator!DrawInternal, Generator!PageNum, Current
<1>2. PICK x \in Site(i) \ ({Current} \cup Range(links)) :
        Generator!Place(x)
  BY SameSites DEF Generator!DrawInternal, Generator!Candidates,
       Generator!PageNum, Current, Generator!Range, Range
<1>3. x \in AllPages /\ Current \in AllPages
  BY <1>1, <1>2, CurrentIs, PagesOfSite
<1>4. f \in Nat /\ q \in Nat /\ f >= 1 /\ q >= 1
  BY SizesAre
<1>5. P # 1
  BY <1>1 DEF GeneratorInv, InTurn
<1> QED
  BY <1>1, <1>2, <1>3, <1>4, <1>5, GeneratorPlace

LEMMA GeneratorDrawExternal ==
  ASSUME GeneratorInv, Generator!DrawExternal PROVE GeneratorInv'
<1>1. /\ Generator!Linking /\ k \in f..(f + q - 1)
      /\ page_num' = page_num
  BY SameSites DEF Generator!DrawExternal
<1>2. PICK x \in AllPages \ (Site(i) \cup Range(links)) :
        Generator!Place(x)
  BY SameSites DEF Generator!DrawExternal, Generator!Others, Generator!Range,
       Range
<1>3. f \in Nat /\ q \in Nat /\ f >= 1 /\ q >= 1
  BY SizesAre
<1>4. P # 1
  BY <1>1, <1>3 DEF GeneratorInv, InTurn
<1>5. f >= 2
  BY <1>4, SizesAre
<1>6. page_num' = Current /\ page_num' \in AllPages
  BY <1>1, <1>3, <1>5, TypesAre DEF GeneratorInv, Numbered, Types
<1> QED
  BY <1>1, <1>2, <1>3, <1>4, <1>6, GeneratorPlace

(* A page that is written goes to the file of its name, behind the pages   *)
(* that are there.                                                         *)
LEMMA AppendAscends ==
  ASSUME NEW s \in Seq(Nat), NEW c \in Nat, Ascending(s),
         \A x \in Range(s) : x < c, NEW a, a = Append(s, c)
  PROVE  Ascending(a)
<1>1. /\ Len(s) \in Nat /\ DOMAIN s = 1..Len(s) /\ DOMAIN a = 1..(Len(s) + 1)
      /\ (\A d \in 1..Len(s) : a[d] = s[d]) /\ a[Len(s) + 1] = c
  BY AppendProperties, LenProperties
<1>2. \A d \in 1..Len(s) : s[d] < c
  BY <1>1 DEF Range
<1> QED
  BY <1>1, <1>2 DEF Ascending

LEMMA GeneratorWritePage ==
  ASSUME GeneratorInv, Generator!WritePage PROVE GeneratorInv'
<1>1. /\ Generator!Linking /\ k = f + q
      /\ files' = [files EXCEPT ![FileOf(page_num)] = Append(@, Current)]
      /\ links' = [n \in 0..(f + q - 1) |-> -1]
      /\ k' = 0 /\ j' = (j + 1) % P
      /\ i' = IF j = P - 1 THEN i + 1 ELSE i
      /\ UNCHANGED <<pagenames, page_num, incoming, said>>
  BY SameSites DEF Generator!WritePage, Generator!Emptied, Generator!NoLinks,
       Current
<1>2. Types /\ Said /\ InTurn /\ Drawn /\ Numbered /\ Filed
  BY TypesAre DEF GeneratorInv
<1>3. f \in Nat /\ q \in Nat /\ f >= 1 /\ q >= 1
  BY SizesAre
<1>4. /\ Current \in AllPages /\ Current \div P = i
      /\ i \in 0..(W - 1) /\ Len(pagenames) = W * P /\ j \in 0..(P - 1)
  BY <1>1, <1>2, CurrentIs DEF Types
<1>5. page_num = Current
  BY <1>1, <1>2, <1>3 DEF Numbered
<1>6. j' \in 0..(P - 1) /\ i' \in 0..W /\ Current' = Current + 1
      /\ (i' = W => j' = 0)
  <2>1. P * i \in Nat /\ P * (i + 1) = P * i + P
    BY <1>4, SizesAssumption
  <2>2. CASE j = P - 1
    <3>1. j' = 0
      <4>1. P % P = 0 /\ j + 1 = P
        BY <2>2, SizesAssumption
      <4> QED
        BY <1>1, <4>1
    <3> QED
      BY <1>1, <1>4, <2>1, <2>2, <3>1, SizesAssumption DEF Current
  <2>3. CASE j # P - 1
    <3>1. j' = j + 1
      <4>1. j + 1 \in 0..(P - 1)
        BY <1>4, <2>3, SizesAssumption
      <4>2. (j + 1) % P = j + 1
        BY <4>1, SizesAssumption
      <4> QED
        BY <1>1, <4>2
    <3> QED
      BY <1>1, <1>4, <2>1, <2>3, <3>1, SizesAssumption DEF Current
  <2> QED
    BY <2>2, <2>3
<1>7. PICK y : y = FileOf(Current)
  OBVIOUS
<1>8. y \in (0..(W - 1)) \X Numbers
  <2>1. Current + 1 \in 1..Len(pagenames)
    BY <1>4, SiteOfPage
  <2>2. pagenames[Current + 1] \in Numbers
    BY <1>2, <2>1, ElementOfSeq DEF Types
  <2> QED
    BY <1>4, <1>7, <2>2 DEF FileOf
<1>9. /\ files' \in [(0..(W - 1)) \X Numbers -> Seq(AllPages)]
      /\ files'[y] = Append(files[y], Current)
      /\ \A x \in (0..(W - 1)) \X Numbers : x # y => files'[x] = files[x]
  <2>1. files[y] \in Seq(AllPages)
    BY <1>2, <1>8 DEF Types
  <2>2. Append(files[y], Current) \in Seq(AllPages)
    BY <1>4, <2>1, AppendProperties
  <2> QED
    BY <1>1, <1>2, <1>5, <1>7, <1>8, <2>2 DEF Types
<1>10. Types' /\ Said'
  <2>1. links' \in [0..(f + q - 1) -> AllPages \cup {-1}]
    BY <1>1
  <2> QED
    BY <1>1, <1>2, <1>3, <1>6, <1>9, <2>1 DEF Types, Said
<1>11. P # 1
  BY <1>1, <1>2, <1>3 DEF InTurn
<1>12. InTurn'
  BY <1>1, <1>2, <1>4, <1>6, <1>11, SizesAssumption DEF InTurn
<1>13. Drawn' /\ Numbered'
  BY <1>1, <1>3 DEF Drawn, Numbered
<1>14. Filed'
  <2> SUFFICES ASSUME NEW x \in (0..(W - 1)) \X Numbers
               PROVE  /\ Range(files'[x]) = Earlier(Current, x)'
                      /\ Ascending(files'[x])
    BY DEF Filed, Ascending
  <2>1. PICK c \in Nat : c = Current
    BY <1>4, SiteOfPage
  <2>2. Earlier(Current, x)' = {m \in 0..c : FileOf(m) = x}
    <3>1. \A m : FileOf(m)' = FileOf(m)
      BY <1>1 DEF FileOf
    <3>2. Current' - 1 = c
      BY <1>6, <2>1
    <3> QED
      BY <3>1, <3>2 DEF Earlier
  <2>3. Range(files[x]) = {m \in 0..(c - 1) : FileOf(m) = x}
        /\ Ascending(files[x])
    BY <1>2, <2>1 DEF Filed, Earlier
  <2>4. 0..c = (0..(c - 1)) \cup {c} /\ c \notin 0..(c - 1)
    BY <2>1
  <2>5. CASE x = y
    <3>1. files[y] \in Seq(AllPages) /\ c \in AllPages
      BY <1>2, <1>4, <1>8, <2>1 DEF Types
    <3>2. files'[x] = Append(files[x], c)
      BY <1>9, <2>1, <2>5
    <3>3. Range(files'[x]) = Range(files[x]) \cup {c}
      BY <2>5, <3>1, <3>2, AppendRange
    <3>4. Range(files'[x]) = {m \in 0..c : FileOf(m) = x}
      BY <1>7, <2>1, <2>3, <2>4, <2>5, <3>3
    <3>5. files[x] \in Seq(Nat)
      <4>1. AllPages \subseteq Nat
        BY SiteOfPage
      <4> QED
        BY <2>5, <3>1, <4>1, SeqMonotonic
    <3>6. \A m \in Range(files[x]) : m < c
      BY <2>1, <2>3
    <3>7. Ascending(files'[x])
      BY <2>3, <3>2, <3>5, <3>6, AppendAscends
    <3> QED
      BY <2>2, <3>4, <3>7
  <2>6. CASE x # y
    <3>1. FileOf(c) # x
      BY <1>7, <2>1, <2>6
    <3> QED
      BY <1>9, <2>2, <2>3, <2>4, <2>6, <3>1
  <2> QED
    BY <2>5, <2>6
<1> QED
  BY <1>10, <1>12, <1>13, <1>14 DEF GeneratorInv, SitesTypeOK, Types, Said

LEMMA GeneratorReport ==
  ASSUME GeneratorInv, Generator!Report \/ UNCHANGED Generator!vars
  PROVE  GeneratorInv'
<1>1. UNCHANGED <<pagenames, files, i, j, k, links, page_num, incoming>>
  BY DEF Generator!Report, Generator!vars, Generator!nameVars
<1>2. Types /\ Said /\ InTurn /\ Drawn /\ Numbered /\ Filed
  BY TypesAre DEF GeneratorInv
<1>3. Said'
  BY <1>2 DEF Generator!Report, Generator!vars, Generator!nameVars, Said
<1>4. Types' /\ InTurn' /\ Drawn' /\ Numbered'
  BY <1>1, <1>2 DEF Types, InTurn, Drawn, Numbered, Current, Site
<1>5. Filed'
  <2>1. \A y : Earlier(Current, y)' = Earlier(Current, y)
    BY <1>1 DEF Earlier, FileOf, Current
  <2> QED
    BY <1>1, <1>2, <2>1 DEF Filed, Ascending
<1> QED
  BY <1>3, <1>4, <1>5 DEF GeneratorInv, SitesTypeOK, Types, Said

LEMMA GeneratorHolds == Generator!Spec => []GeneratorInv
<1>1. Generator!Init => GeneratorInv
  BY GeneratorInit
<1>2. GeneratorInv /\ [Generator!Next]_Generator!vars => GeneratorInv'
  BY GeneratorDrawName, GeneratorDrawFirst, GeneratorDrawInternal,
       GeneratorDrawExternal, GeneratorWritePage, GeneratorReport
  DEF Generator!Next
<1> QED
  BY <1>1, <1>2, PTL DEF Generator!Spec

(* The types: whatever is drawn, a link is one of the pages or -1, and a   *)
(* page is appended to a file of a site (webcreator.sh:133-199).           *)
THEOREM GeneratorTypes == Generator!Spec => []SitesTypeOK
<1>1. GeneratorInv => SitesTypeOK
  BY DEF GeneratorInv
<1> QED
  BY <1>1, GeneratorHolds, PTL

(* A page is written with f links to its site and q to others, no two of   *)
(* them equal, and only the first may lead to the page itself              *)
(* (webcreator.sh:133-196).                                                *)
THEOREM LinksAreRight == Generator!Spec => []LinksRight
<1>1. GeneratorInv => LinksRight
  <2> SUFFICES ASSUME GeneratorInv, k = f + q PROVE LinksRight
    BY DEF LinksRight
  <2>1. f \in Nat /\ q \in Nat /\ f >= 1 /\ q >= 1
    BY SizesAre
  <2>2. Drawn
    BY DEF GeneratorInv
  <2>3. \A n \in 0..(f - 1) : links[n] \in Site(i)
    BY <2>1, <2>2 DEF Drawn
  <2>4. \A n \in f..(f + q - 1) :
          links[n] \in AllPages \ Site(i)
    BY <2>1, <2>2 DEF Drawn
  <2>5. \A n, m \in 0..(f + q - 1) : links[n] = links[m] => n = m
    <3> SUFFICES ASSUME NEW n \in 0..(f + q - 1),
                        NEW m \in 0..(f + q - 1), links[n] = links[m]
                 PROVE  n = m
      OBVIOUS
    <3>1. n \in 0..(k - 1) /\ m \in 0..(k - 1)
      BY <2>1
    <3>2. \A a, b \in 0..(k - 1) : links[a] = links[b] => a = b
      BY ONLY <2>2 DEF Drawn
    <3> QED
      BY ONLY <3>1, <3>2, links[n] = links[m]
  <2>6. \A n \in 1..(f - 1) : links[n] # P * i + j
    BY <2>1, <2>2 DEF Drawn, Current
  <2> QED
    BY <2>3, <2>4, <2>5, <2>6 DEF LinksRight
<1> QED
  BY <1>1, GeneratorHolds, PTL

(* In the end each file has just the pages whose name it is, in their      *)
(* order, although the number of the page is set only between its links    *)
(* and is the page before until then (webcreator.sh:79-110, 142-143,       *)
(* 183-199).                                                               *)
THEOREM FilesAreRight == Generator!Spec => []FilesRight
<1>1. GeneratorInv => FilesRight
  <2> SUFFICES ASSUME GeneratorInv, i = W, NEW n \in AllPages,
                      NEW file, file = files[FileOf(n)]
               PROVE  /\ Range(file) = {m \in AllPages :
                                         FileOf(m) = FileOf(n)}
                      /\ \A a, b \in DOMAIN file : a < b => file[a] < file[b]
    BY DEF FilesRight
  <2>1. Types /\ InTurn /\ Filed
    BY TypesAre DEF GeneratorInv
  <2>2. Len(pagenames) = W * P /\ j = 0 /\ Current = W * P
    <3>1. W # 0
      BY SizesAssumption
    <3>2. Len(pagenames) \in Nat /\ W * P \in Nat /\ P * W = W * P
      BY <2>1, LenProperties, SizesAssumption DEF Types
    <3> QED
      BY <2>1, <3>1, <3>2 DEF InTurn, Current
  <2>3. FileOf(n) \in (0..(W - 1)) \X Numbers
    <3>1. n + 1 \in 1..Len(pagenames) /\ n \div P \in 0..(W - 1)
      BY <2>2, SiteOfPage
    <3>2. pagenames[n + 1] \in Numbers
      BY <2>1, <3>1, ElementOfSeq DEF Types
    <3> QED
      BY <3>1, <3>2 DEF FileOf
  <2> QED
    BY <2>1, <2>2, <2>3 DEF Filed, Earlier, Ascending, AllPages
<1> QED
  BY <1>1, GeneratorHolds, PTL
=============================================================================
