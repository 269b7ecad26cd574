----------------------------- MODULE CrawlQueue -----------------------------
(***************************************************************************)
(* The crawl (webcrawler.c with crawler_functions.c): threads pick pages   *)
(* from a list that only grows, request them, add the links they find to   *)
(* the list, and sleep when it holds no page to pick; the main thread      *)
(* decides from two counters whether a SEARCH may be answered yet.         *)
(*                                                                         *)
(* Grain of atomicity: one action per access to memory another thread may  *)
(* read or write at the same time.  All sections under jobs->mtx block, so *)
(* JQ_Pickjob is one action; JQ_Addjob is two, the lookup and the append,  *)
(* because the lock between them is what keeps a page from being added     *)
(* twice.  The sections under active_mtx and counter_mtx are one action.   *)
(* STATS only reads and is left out, and with it the count of bytes.  What *)
(* a response cut by the network does to the links is taken from           *)
(* HttpExchange.                                                           *)
(***************************************************************************)
EXTENDS Integers, Sequences, FiniteSets, Functions

CONSTANTS
  Pages,         \* pages the links name
  Start,         \* starting_URL
  Links,         \* Links[p]: the links of page p in the order of its text
  Exists,        \* the pages the server answers with 200 and some text
  CutNames,      \* what reads may leave of the name in a link
  NoName,        \* nothing but the quote or "../" is left of it
  Threads,       \* threads of the crawler
  NoPage,        \* no page
  Free           \* an unlocked mutex

ASSUME SiteAssumption ==
  /\ Start \in Pages
  /\ Links \in [Pages -> Seq(Pages)]
  /\ Exists \subseteq Pages
  /\ CutNames \subseteq Pages /\ NoName \in Pages
ASSUME NamesAssumption == NoPage \notin Pages /\ Free \notin Threads
ASSUME ThreadsAssumption == IsFiniteSet(Threads)

VARIABLES
  queue,           \* the pages of the list from head to rear
  next_job,        \* position of next_job in the list, 0 for NULL
  n_jobs,          \* jobs->n_jobs
  mtx,             \* the holder of jobs->mtx between two actions
  empty_mtx,       \* the holder of jobs->empty_queue_mtx
  pc,              \* pc[t]: label of thread t
  page,            \* page[t]: requested_page of thread t
  todo,            \* todo[t]: links of page[t] still to come
  active_threads,  \* thr_info->active_threads
  downloads,       \* thr_info->downloads
  lossy,           \* pages whose response did not come through whole
  mpc,             \* label of the main thread
  phase            \* "init", "up", "freed" after THR_free, "exited"

listVars == <<queue, next_job, n_jobs, mtx>>
threadVars == <<empty_mtx, pc, page, todo>>
countVars == <<active_threads, downloads, lossy>>
mainVars == <<mpc, phase>>
vars == <<queue, next_job, n_jobs, mtx, empty_mtx, pc, page, todo,
          active_threads, downloads, lossy, mpc, phase>>

(* Labels at which a thread has no page ... *)
IdleLabels == {"lockEmpty", "test", "wait", "sleep", "pick"}
(* ... has one and is counted in active_threads ... *)
ActiveLabels == {"fetch", "receive", "append", "looping", "count",
                 "deactivate"}
(* ... all of them, with "activate" between the two. *)
ThreadLabels == IdleLabels \cup ActiveLabels \cup {"activate", "undefined"}

Init ==
  /\ queue = <<>>
  /\ next_job = 0
  /\ n_jobs = 0
  /\ mtx = Free
  /\ empty_mtx = Free
  /\ pc = [t \in Threads |-> "lockEmpty"]
  /\ page = [t \in Threads |-> NoPage]
  /\ todo = [t \in Threads |-> <<>>]
  /\ active_threads = 0
  /\ downloads = 0
  /\ lossy = {}
  /\ mpc = "session"
  /\ phase = "init"

(* THR_Init: the starting URL is added before there are threads. *)
THR_Init ==
  /\ phase = "init"
  /\ phase' = "up"
  /\ queue' = <<Start>>
  /\ next_job' = 1
  /\ n_jobs' = 1
  /\ UNCHANGED <<mtx, threadVars, countVars, mpc>>

-----------------------------------------------------------------------------
(* The threads: crawler_thread_function.                                   *)
(*                                                                         *)
(* An operator X_Y just before X is a defect of X, used to check that the  *)
(* properties would notice it; no action uses it.                          *)

Goto(t, from, to) ==
  /\ phase = "up"
  /\ pc[t] = from
  /\ pc' = [pc EXCEPT ![t] = to]

LockEmpty(t) ==
  /\ Goto(t, "lockEmpty", "test")
  /\ empty_mtx = Free
  /\ empty_mtx' = t
  /\ UNCHANGED <<listVars, page, todo, countVars, mainVars>>

NoJobs_OffByOne == n_jobs <= 1
NoJobs == n_jobs = 0

(* while(n_jobs==0): the test, without jobs->mtx; the unlock if it fails. *)
TestEmpty(t) ==
  /\ Goto(t, "test", IF NoJobs THEN "wait" ELSE "pick")
  /\ empty_mtx' = IF NoJobs THEN empty_mtx ELSE Free
  /\ UNCHANGED <<listVars, page, todo, countVars, mainVars>>

(* pthread_cond_wait on empty_queue: from here on a signal reaches t. *)
WaitEmpty(t) ==
  /\ Goto(t, "wait", "sleep")
  /\ empty_mtx' = Free
  /\ UNCHANGED <<listVars, page, todo, countVars, mainVars>>

(* pthread_cond_wait may return without a signal. *)
SpuriousWake(t) ==
  /\ Goto(t, "sleep", "lockEmpty")
  /\ UNCHANGED <<listVars, empty_mtx, page, todo, countVars, mainVars>>

Following_NoEnd == next_job + 1
Following == IF next_job = Len(queue) THEN 0 ELSE next_job + 1

(* NULL, and back to the loop, if another thread was faster. *)
JQ_Pickjob(t) ==
  /\ mtx = Free
  /\ IF next_job = 0
     THEN /\ Goto(t, "pick", "lockEmpty")
          /\ UNCHANGED <<next_job, n_jobs, page>>
     ELSE /\ Goto(t, "pick", "activate")
          /\ n_jobs' = n_jobs - 1
          /\ page' = [page EXCEPT ![t] = queue[next_job]]
          /\ next_job' = Following
  /\ UNCHANGED <<queue, mtx, empty_mtx, todo, countVars, mainVars>>

Activate(t) ==
  /\ Goto(t, "activate", "fetch")
  /\ active_threads' = active_threads + 1
  /\ UNCHANGED <<listVars, empty_mtx, page, todo, downloads, lossy, mainVars>>

(* socket or connect fails: exit(1) of the whole process.  Or a response   *)
(* is cut where strcmp, atoi, fputs or check_links get NULL, or the file   *)
(* of the page cannot be opened and fputs gets NULL.                       *)
ProcessDies(t) ==
  /\ phase = "up"
  /\ pc[t] \in {"fetch", "receive"}
  /\ phase' = "exited"
  /\ UNCHANGED <<listVars, threadVars, countVars, mpc>>

AfterError_Leaves == "lockEmpty"
AfterError == "deactivate"

(* GET and the first chunk: 200 and the page follows, or 404/403 and -1. *)
Fetch(t) ==
  /\ Goto(t, "fetch", IF page[t] \in Exists THEN "receive" ELSE AfterError)
  /\ todo' = [todo EXCEPT ![t] = IF page[t] \in Exists THEN Links[page[t]]
                                                       ELSE <<>>]
  /\ UNCHANGED <<listVars, empty_mtx, page, countVars, mainVars>>

(* The response ends before its length is known, or its first read ends    *)
(* before it: ReceiveResponse returns an uninitialised variable, positive  *)
(* (as in ReceiveEnd) or not.                                              *)
LengthUnknown(t) ==
  /\ \/ Goto(t, "fetch", "count")
     \/ Goto(t, "fetch", "deactivate")
     \/ Goto(t, "receive", "deactivate") /\ todo[t] = <<>>
  /\ lossy' = lossy \cup {page[t]}
  /\ UNCHANGED <<listVars, empty_mtx, page, todo, active_threads, downloads,
                 mainVars>>

(* A response cut short, or a read that ends in the tag: a link not seen.  *)
LoseLink(t) ==
  /\ Goto(t, "receive", "receive")
  /\ todo[t] # <<>>
  /\ todo' = [todo EXCEPT ![t] = Tail(@)]
  /\ lossy' = lossy \cup {page[t]}
  /\ UNCHANGED <<listVars, empty_mtx, page, active_threads, downloads,
                 mainVars>>

(* A read that ends in the name: its beginning is taken for the link. *)
CutLink(t) ==
  /\ Goto(t, "receive", "receive")
  /\ todo[t] # <<>>
  /\ Head(todo[t]) \notin CutNames \cup {NoName}
  /\ \E n \in CutNames \cup {NoName} :
       todo' = [todo EXCEPT ![t] = <<n>> \o Tail(@)]
  /\ lossy' = lossy \cup {page[t]}
  /\ UNCHANGED <<listVars, empty_mtx, page, active_threads, downloads,
                 mainVars>>

Queued(p) == \E i \in 1..Len(queue) : queue[i] = p

LockList_Ignored(t) == mtx' = mtx
LockList(t) == mtx' = t
ListUnlocked_Forgotten(t) == mtx' = t
ListUnlocked(t) == mtx' = Free
LinksAfter_Stops(t) == <<>>
LinksAfter(t) == Tail(todo[t])

(* Where check_links goes after a link: an empty name does not move it on, *)
(* so that it finds the same link again, for ever.                         *)
AfterLink(t) == IF Head(todo[t]) = NoName THEN "looping" ELSE "receive"

(* check_links finds a link; JQ_Addjob locks the list and looks it up. *)
AddLookup(t) ==
  /\ todo[t] # <<>>
  /\ mtx = Free
  /\ IF Queued(Head(todo[t]))
     THEN /\ Goto(t, "receive", AfterLink(t))
          /\ todo' = [todo EXCEPT ![t] = LinksAfter(t)]
          /\ ListUnlocked(t)
     ELSE /\ Goto(t, "receive", "append")
          /\ LockList(t)
          /\ UNCHANGED todo
  /\ UNCHANGED <<queue, next_job, n_jobs, empty_mtx, page, countVars,
                 mainVars>>

(* pthread_cond_signal on empty_queue, by thread t going on to label to. *)
SignalEmpty(t, to) ==
  LET moved == [pc EXCEPT ![t] = to]
      sleepers == {u \in Threads : pc[u] = "sleep"}
  IN IF sleepers = {} THEN pc' = moved
     ELSE \E u \in sleepers : pc' = [moved EXCEPT ![u] = "lockEmpty"]

Extended_KeepsNull == next_job
Extended == IF next_job = 0 THEN Len(queue) + 1 ELSE next_job

(* JQ_Addjob: a new node at the rear, also the next job if there was none. *)
AddAppend(t) ==
  /\ phase = "up"
  /\ pc[t] = "append"
  /\ queue' = Append(queue, Head(todo[t]))
  /\ n_jobs' = n_jobs + 1
  /\ next_job' = Extended
  /\ SignalEmpty(t, AfterLink(t))
  /\ mtx' = Free
  /\ todo' = [todo EXCEPT ![t] = Tail(@)]
  /\ UNCHANGED <<empty_mtx, page, countVars, mainVars>>

(* read returns 0: the length announced by the header is returned. *)
ReceiveEnd(t) ==
  /\ Goto(t, "receive", "count")
  /\ todo[t] = <<>>
  /\ UNCHANGED <<listVars, empty_mtx, page, todo, countVars, mainVars>>

Count(t) ==
  /\ Goto(t, "count", "deactivate")
  /\ downloads' = downloads + 1
  /\ UNCHANGED <<listVars, empty_mtx, page, todo, active_threads, lossy,
                 mainVars>>

Deactivate(t) ==
  /\ Goto(t, "deactivate", "lockEmpty")
  /\ active_threads' = active_threads - 1
  /\ page' = [page EXCEPT ![t] = NoPage]
  /\ UNCHANGED <<listVars, empty_mtx, todo, downloads, lossy, mainVars>>

-----------------------------------------------------------------------------
(* The main thread: SEARCH and SHUTDOWN of a command session.              *)

MainGoto(from, to) ==
  /\ phase = "up"
  /\ mpc = from
  /\ mpc' = to

(* SEARCH: n_jobs>0, read without a lock ... *)
SearchJobs ==
  /\ MainGoto("session", IF n_jobs > 0 THEN "busy" ELSE "gate")
  /\ UNCHANGED <<listVars, threadVars, countVars, phase>>

(* ... and only then active_threads>0. *)
SearchActive ==
  /\ MainGoto("gate", IF active_threads > 0 THEN "busy" ELSE "search")
  /\ UNCHANGED <<listVars, threadVars, countVars, phase>>

(* "Crawling still in progress", or the query goes to the executor. *)
Answer ==
  /\ MainGoto("busy", "session") \/ MainGoto("search", "session")
  /\ UNCHANGED <<listVars, threadVars, countVars, phase>>

(* SHUTDOWN: THR_free first, exit(1) after it; the threads run on. *)
Shutdown ==
  /\ MainGoto("session", "session")
  /\ phase' = "freed"
  /\ UNCHANGED <<listVars, threadVars, countVars>>

(* A thread uses the list or thr_info once freed: undefined behaviour,     *)
(* after which nothing is claimed of that thread.  Only a sleeping thread  *)
(* does not; a fetching one uses the freed name of its page.               *)
TouchFreed(t) ==
  /\ phase = "freed"
  /\ pc[t] \notin {"sleep", "undefined"}
  /\ pc' = [pc EXCEPT ![t] = "undefined"]
  /\ UNCHANGED <<listVars, empty_mtx, page, todo, countVars, mainVars>>

Exit ==
  /\ phase = "freed"
  /\ phase' = "exited"
  /\ UNCHANGED <<listVars, threadVars, countVars, mpc>>

-----------------------------------------------------------------------------
ThreadStep(t) ==
  \/ LockEmpty(t) \/ TestEmpty(t) \/ WaitEmpty(t) \/ JQ_Pickjob(t)
  \/ Activate(t) \/ ProcessDies(t) \/ Fetch(t) \/ LengthUnknown(t)
  \/ LoseLink(t) \/ CutLink(t) \/ AddLookup(t) \/ AddAppend(t)
  \/ ReceiveEnd(t) \/ Count(t) \/ Deactivate(t)

MainStep == SearchJobs \/ SearchActive \/ Answer \/ Shutdown \/ Exit

Next ==
  \/ THR_Init
  \/ MainStep
  \/ \E t \in Threads : ThreadStep(t) \/ SpuriousWake(t) \/ TouchFreed(t)

Spec == Init /\ [][Next]_vars

(* The scheduler runs every thread that can run, and the server closes     *)
(* every connection in the end.  Nobody owes a command or a spurious wake. *)
Fairness == WF_vars(THR_Init) /\ \A t \in Threads : WF_vars(ThreadStep(t))

FairSpec == Spec /\ Fairness

-----------------------------------------------------------------------------
TypeOK ==
  /\ queue \in Seq(Pages)
  /\ next_job \in 0..Len(queue)
  /\ n_jobs \in Int
  /\ mtx \in Threads \cup {Free}
  /\ empty_mtx \in Threads \cup {Free}
  /\ pc \in [Threads -> ThreadLabels]
  /\ page \in [Threads -> Pages \cup {NoPage}]
  /\ todo \in [Threads -> Seq(Pages)]
  /\ active_threads \in Int
  /\ downloads \in Int
  /\ lossy \subseteq Pages
  /\ mpc \in {"session", "gate", "busy", "search"}
  /\ phase \in {"init", "up", "freed", "exited"}

(* The nodes not picked yet. *)
Waiting == IF next_job = 0 THEN <<>> ELSE SubSeq(queue, next_job, Len(queue))

(* n_jobs, which threads test before they sleep and SEARCH tests, counts   *)
(* the nodes from next_job on, which JQ_Pickjob takes: were they to differ, *)
(* threads would sleep on work or spin on none                             *)
(* (crawler_functions.c:147-196).                                          *)
JobsCounted == n_jobs = Len(Waiting)

(* The threads, mutexes and stale tests together implement an unbounded    *)
(* FIFO hand-off: every page is added once and goes to one thread, once,   *)
(* in the order of discovery (crawler_functions.c:147-196).                *)
Picked == {queue[i] : i \in 1..(Len(queue) - Len(Waiting))}
Handoff == INSTANCE HandoffQueue WITH
  Items <- Pages, Takers <- Threads, Capacity <- -1, Unbounded <- -1,
  None <- NoPage, queue <- Waiting, hand <- page,
  done <- {p \in Picked : \A t \in Threads : page[t] # p}
ImplementsHandoff == Handoff!Spec

(* While a page waits to be picked, some thread is neither asleep nor      *)
(* about to be: the unlocked test of n_jobs may cost a thread its wakeup,  *)
(* but the thread that added the page comes back for it                    *)
(* (webcrawler.c:36-41, crawler_functions.c:174-180).                      *)
SomeoneAwake ==
  phase = "up" /\ n_jobs > 0
    => \E t \in Threads : pc[t] \notin {"wait", "sleep"}

(* Nothing is left to pick and no thread has a page. *)
Done ==
  phase = "up" /\ next_job = 0 /\ \A t \in Threads : pc[t] \in IdleLabels

(* Once the crawl is over SEARCH is let through: both counters are back at *)
(* zero on every path, the error returns of ReceiveResponse included       *)
(* (webcrawler.c:46-66, 206).                                              *)
GateOpensWhenDone == Done => n_jobs = 0 /\ active_threads = 0

(* The pages reachable by links from the pages of From. *)
Closed(S) == \A p \in S \cap Exists : Range(Links[p]) \subseteq S
Reachable(From) ==
  {p \in Pages : \A S \in SUBSET Pages : From \subseteq S /\ Closed(S) => p \in S}

(* The crawl visits only pages reachable from the starting URL and, if a   *)
(* response was cut, from what was left of a name; and when it is over and *)
(* every response came through whole, it has visited all of the former and *)
(* counted each one that exists exactly once (webcrawler.c:35-70).         *)
CrawlExact ==
  /\ Range(queue) \subseteq
       Reachable({Start} \cup IF lossy = {} THEN {} ELSE CutNames \cup {NoName})
  /\ Done /\ lossy = {} =>
       /\ Range(queue) = Reachable({Start})
       /\ downloads = Cardinality(Reachable({Start}) \cap Exists)

(* The crawl comes to an end, lost wakeups and lost links included, unless *)
(* the process does first or a thread hangs on a link of no name           *)
(* (webcrawler.c:35-70, crawler_functions.c:27-36).  That needs a server   *)
(* that closes every connection in the end, as Fairness says; it does not  *)
(* close the one whose request was cut (HttpExchange).                     *)
CrawlEnds ==
  <>(Done \/ phase \notin {"init", "up"} \/ \E t \in Threads : pc[t] = "looping")

-----------------------------------------------------------------------------
(* README.md:24, "If crawler is still in download process informs the      *)
(* user": a SEARCH goes to the executor only when the crawl is over.       *)
SearchOnlyWhenDone == phase = "up" /\ mpc = "search" => Done
=============================================================================
