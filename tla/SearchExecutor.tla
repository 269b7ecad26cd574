--------------------------- MODULE SearchExecutor ---------------------------
(***************************************************************************)
(* SEARCH and SHUTDOWN of the crawler's command port once the crawl is     *)
(* over (webcrawler.c), the job executor they start (jobExecutor.c) and    *)
(* its worker processes, joined by pipes.  What a worker finds for a query *)
(* is given; it is computed in SearchIndex.                                *)
(*                                                                         *)
(* Grain of atomicity: one action per read or write of a pipe or a socket. *)
(* readInt and readString retry until data come, so values that are all    *)
(* read in that way are one item of a pipe (a directory count with its     *)
(* names, a query with its words, a row number with its text).  Two reads  *)
(* of the executor do not retry: the one of an answer's first word and the *)
(* one of a file's first row number.                                       *)
(***************************************************************************)
EXTENDS Integers, Sequences, FiniteSets

CONSTANTS
  MaxWorkers,   \* numWorkers before it is lowered to the directories (3)
  NoDirs,       \* lines of the docfile: directories of save_dir
  Numbers,      \* descriptor numbers that accept may give to a session
  Results,      \* Results[q][w]: rows in each file worker w finds for query q
  MaxQueries,   \* bound: queries
  MaxSessions,  \* bound: command sessions
  PipeSize      \* items a pipe from a worker holds

ASSUME SizesAssumption ==
  /\ MaxWorkers \in Nat \ {0} /\ NoDirs \in Nat \ {0}
  /\ MaxQueries \in Nat /\ MaxSessions \in Nat /\ PipeSize \in Nat \ {0}

NumWorkers == IF NoDirs < MaxWorkers THEN NoDirs ELSE MaxWorkers
Workers == 0..(NumWorkers - 1)
Queries == 1..MaxQueries

ASSUME NumbersAssumption == Numbers \subseteq Nat
ASSUME ResultsAssumption ==
  Results \in [Queries -> [Workers -> Seq(Nat \ {0})]]

VARIABLES
  session,   \* the session main reads commands from, 0 for none
  sessions,  \* sessions accepted so far
  fd_command,\* the number of its descriptor
  gone,      \* sessions whose operator has closed the connection
  asker,     \* asker[q]: the session that asked query q
  phase,     \* crawler: "up", "opening" the pipe, "exited", "killed"
  inherited, \* the session connection the executor inherited by fork
  c2e,       \* Crawler2Executor
  e2w,       \* e2w[w]: Executor2Worker<w>
  w2e,       \* w2e[w]: Worker2Executor<w>
  epc,       \* label of the executor
  ei,        \* its loop variable i
  socketfd,  \* the number it got for the query
  query,     \* the query it handles, the last one if it waits
  left,      \* files of the current answer still to read: no - j
  got,       \* got[w]: query of the last answer taken from worker w
  found,     \* some worker has a result for the query
  late,      \* late[w]: deadlines that worker w missed
  reset,     \* the inherited connection has been written to when closed
  concluded, \* queries for which the "replied on time" line was sent
  wpc,       \* wpc[w]: label of worker w
  sending,   \* sending[w]: what is left to write of its answer
  indexed    \* indexed[w]: directories it was given

crawlerVars == <<session, sessions, fd_command, gone, asker, phase,
                 inherited>>
queryVars == <<socketfd, query>>
collectVars == <<left, got, found, late, reset, concluded>>
workerVars == <<wpc, sending, indexed>>
vars == <<session, sessions, fd_command, gone, asker, phase, inherited, c2e,
          e2w, w2e, epc, ei, socketfd, query, left, got, found, late,
          reset, concluded, wpc, sending, indexed>>

(* What a pipe carries: q is the query it belongs to, n a number. *)
Item(type, q, n) == [type |-> type, query |-> q, n |-> n]
NoSession == [number |-> -1, session |-> 0]

Init ==
  /\ session = 0 /\ sessions = 0 /\ fd_command = -1
  /\ gone = {} /\ asker = <<>> /\ phase = "up"
  /\ inherited = NoSession
  /\ c2e = <<>>
  /\ e2w = [w \in Workers |-> <<>>]
  /\ w2e = [w \in Workers |-> <<>>]
  /\ epc = "off" /\ ei = 0 /\ socketfd = -1 /\ query = 0 /\ left = 0
  /\ got = [w \in Workers |-> 0]
  /\ found = FALSE
  /\ late = [w \in Workers |-> 0]
  /\ reset = FALSE /\ concluded = 0
  /\ wpc = [w \in Workers |-> "openRead"]
  /\ sending = [w \in Workers |-> <<>>]
  /\ indexed = [w \in Workers |-> {}]

-----------------------------------------------------------------------------
(* The crawler's main thread and its operators.                            *)
(*                                                                         *)
(* An operator X_Y just before X is a defect of X, used to check that the  *)
(* properties would notice it; no action uses it.                          *)

Accept ==
  /\ phase = "up" /\ session = 0 /\ sessions < MaxSessions
  /\ sessions' = sessions + 1
  /\ session' = sessions + 1
  /\ fd_command' \in Numbers
  /\ UNCHANGED <<gone, asker, phase, inherited, c2e, e2w, w2e, epc, ei,
                 queryVars, collectVars, workerVars>>

(* An operator closes the connection, before or after the answer. *)
Leave ==
  /\ session # 0
  /\ gone' = gone \cup {session}
  /\ UNCHANGED <<session, sessions, fd_command, asker, phase, inherited, c2e,
                 e2w, w2e, epc, ei, queryVars, collectVars, workerVars>>

(* read returns 0: main closes its descriptor. *)
EndSession ==
  /\ phase = "up" /\ session \in gone
  /\ session' = 0
  /\ UNCHANGED <<sessions, fd_command, gone, asker, phase, inherited, c2e,
                 e2w, w2e, epc, ei, queryVars, collectVars, workerVars>>

(* A query goes to the executor as the number of the descriptor and the    *)
(* text up to the newline, one carriage return at its end.                 *)
Request(q) == <<Item("fd", q, fd_command), Item("search", q, 1)>>

(* SEARCH, the crawl being over: the first one starts the executor, which  *)
(* keeps the descriptors open at this moment; a later one finds nobody at  *)
(* the other end if the executor has died, and SIGPIPE ends the crawler.   *)
Search ==
  /\ phase = "up" /\ session # 0
  /\ Len(asker) + 1 \in Queries
  /\ asker' = Append(asker, session)
  /\ IF epc = "off"
     THEN /\ phase' = "opening"
          /\ epc' = "openCrawler"
          /\ inherited' = [number |-> fd_command, session |-> session]
          /\ UNCHANGED c2e
     ELSE /\ phase' = IF epc = "killed" THEN "killed" ELSE phase
          /\ c2e' = IF epc = "killed" THEN c2e
                    ELSE c2e \o Request(Len(asker) + 1)
          /\ UNCHANGED <<epc, inherited>>
  /\ UNCHANGED <<session, sessions, fd_command, gone, e2w, w2e, ei,
                 queryVars, collectVars, workerVars>>

(* open of the pipe for writing returns once the executor reads it. *)
OpenPipe ==
  /\ phase = "opening" /\ epc # "openCrawler"
  /\ phase' = "up"
  /\ c2e' = c2e \o Request(Len(asker))
  /\ UNCHANGED <<session, sessions, fd_command, gone, asker, inherited, e2w,
                 w2e, epc, ei, queryVars, collectVars, workerVars>>

(* SHUTDOWN: the command alone, its line end of two characters included.   *)
Shutdown ==
  /\ phase = "up" /\ session # 0
  /\ phase' = "exited"
  /\ c2e' = IF epc \in {"off", "killed"} THEN c2e
            ELSE Append(c2e, Item("shutdown", 0, 2))
  /\ UNCHANGED <<session, sessions, fd_command, gone, asker, inherited, e2w,
                 w2e, epc, ei, queryVars, collectVars, workerVars>>

-----------------------------------------------------------------------------
(* The executor: start.                                                    *)

OpenCrawler ==
  /\ epc = "openCrawler"
  /\ epc' = "openWrite"
  /\ UNCHANGED <<crawlerVars, c2e, e2w, w2e, ei, queryVars, collectVars,
                 workerVars>>

(* open for writing waits for the worker's end; open for reading does not. *)
OpenWrite ==
  /\ epc = "openWrite" /\ wpc[ei] # "openRead"
  /\ epc' = "openRead"
  /\ UNCHANGED <<crawlerVars, c2e, e2w, w2e, ei, queryVars, collectVars,
                 workerVars>>

(* The loop over the workers goes on at label again, or ends at label after. *)
NextWorker_OneTooMany(again, after) ==
  /\ epc' = IF ei + 1 <= NumWorkers THEN again ELSE after
  /\ ei' = IF ei + 1 <= NumWorkers THEN ei + 1 ELSE 0
NextWorker(again, after) ==
  /\ epc' = IF ei + 1 < NumWorkers THEN again ELSE after
  /\ ei' = IF ei + 1 < NumWorkers THEN ei + 1 ELSE 0

OpenRead ==
  /\ epc = "openRead"
  /\ NextWorker("openWrite", "deal")
  /\ UNCHANGED <<crawlerVars, c2e, e2w, w2e, queryVars, collectVars,
                 workerVars>>

(* The first NoDirs % NumWorkers workers get one directory more. *)
DirCount_NoRemainder(w) == NoDirs \div NumWorkers
DirCount(w) == (NoDirs \div NumWorkers)
               + (IF w < NoDirs % NumWorkers THEN 1 ELSE 0)

(* Directory d goes to worker d % NumWorkers, in the order of the docfile. *)
DirsOf(w) ==
  LET dealt[d \in 0..NoDirs] ==
        IF d = 0 THEN <<>>
        ELSE IF (d - 1) % NumWorkers = w
             THEN Append(dealt[d - 1], Item("name", 0, d - 1))
             ELSE dealt[d - 1]
  IN dealt[NoDirs]

sendDirectoryInfo ==
  /\ epc = "deal"
  /\ epc' = "ready"
  /\ e2w' = [w \in Workers |-> <<Item("DIRNAMES", 0, DirCount(w))>>
                               \o DirsOf(w)]
  /\ UNCHANGED <<crawlerVars, c2e, w2e, ei, queryVars, collectVars,
                 workerVars>>

AwaitReady ==
  /\ epc = "ready" /\ w2e[ei] # <<>>
  /\ w2e' = [w2e EXCEPT ![ei] = Tail(@)]
  /\ NextWorker("ready", "readFd")
  /\ UNCHANGED <<crawlerVars, c2e, e2w, queryVars, collectVars, workerVars>>

-----------------------------------------------------------------------------
(* The executor: commands.                                                 *)

(* readInt takes four bytes: the whole of a number, but the first four     *)
(* letters of a command that no number precedes.                           *)
IntOf(item) == IF item.type = "fd" THEN item.n ELSE -1
RestOf(item) == IF item.type = "fd" THEN <<>>
                ELSE <<[item EXCEPT !.type = "tail of a command"]>>

ReadFd ==
  /\ epc = "readFd" /\ c2e # <<>>
  /\ socketfd' = IntOf(Head(c2e))
  /\ c2e' = RestOf(Head(c2e)) \o Tail(c2e)
  /\ epc' = "readCommand"
  /\ UNCHANGED <<crawlerVars, e2w, w2e, ei, query, collectVars, workerVars>>

(* The end of the line is cut off before the command is compared with one  *)
(* that still has it.                                                      *)
Stripped(item) == [item EXCEPT !.n = 0]
ExitCommand == Item("shutdown", 0, 2)

ReadCommand ==
  /\ epc = "readCommand" /\ c2e # <<>>
  /\ c2e' = Tail(c2e)
  /\ LET command == Stripped(Head(c2e)) IN
       /\ epc' = CASE command = ExitCommand -> "exited"
                   [] command.type = "search" -> "send"
                   [] OTHER -> "readFd"
       /\ query' = IF command.type = "search" THEN command.query ELSE query
       /\ e2w' = IF command = ExitCommand
                 THEN [w \in Workers |-> Append(e2w[w], Item("exit", 0, 0))]
                 ELSE e2w
  /\ UNCHANGED <<crawlerVars, w2e, ei, socketfd, collectVars, workerVars>>

(* "/search", the number of words and the words, to all workers. *)
SendQuery ==
  /\ epc = "send"
  /\ epc' = "sleep"
  /\ e2w' = [w \in Workers |-> Append(e2w[w], Item("search", query, 0))]
  /\ UNCHANGED <<crawlerVars, c2e, w2e, ei, queryVars, collectVars,
                 workerVars>>

(* sleep(3): whatever the workers have done in that time. *)
Deadline ==
  /\ epc = "sleep"
  /\ epc' = "collect"
  /\ found' = FALSE
  /\ UNCHANGED <<crawlerVars, c2e, e2w, w2e, ei, queryVars, left, got, late,
                 reset, concluded, workerVars>>

-----------------------------------------------------------------------------
(* The executor: answers.                                                  *)

AfterNores_Kept(items) == items
AfterNores(items) == Tail(items)

(* The first word of an answer: none yet, NORES, or RES_EXIST with the     *)
(* number of files.                                                        *)
Collect ==
  /\ epc = "collect"
  /\ \/ /\ w2e[ei] = <<>>
        /\ late' = [late EXCEPT ![ei] = @ + 1]
        /\ NextWorker("collect", "conclude")
        /\ UNCHANGED <<w2e, got, left, found>>
     \/ /\ w2e[ei] # <<>>
        /\ got' = [got EXCEPT ![ei] = Head(w2e[ei]).query]
        /\ IF Head(w2e[ei]).type = "NORES"
           THEN /\ w2e' = [w2e EXCEPT ![ei] = AfterNores(@)]
                /\ NextWorker("collect", "conclude")
                /\ UNCHANGED <<left, found>>
           ELSE /\ w2e' = [w2e EXCEPT ![ei] = Tail(@)]
                /\ left' = Head(w2e[ei]).n
                /\ found' = TRUE
                /\ epc' = "file"
                /\ UNCHANGED ei
        /\ UNCHANGED late
  /\ UNCHANGED <<crawlerVars, c2e, e2w, queryVars, reset, concluded,
                 workerVars>>

(* The session a line reaches.  The number means something in this process *)
(* only if it is that of the connection it inherited: another one that     *)
(* accept may give is, of the two lowest that were free then, that of the  *)
(* docfile or the command pipe here, and writing to those fails.           *)
Reached == IF socketfd = inherited.number THEN inherited.session ELSE 0

(* write to the socket.  The peer of a closed connection answers the first *)
(* write with a reset, and a write after the reset raises SIGPIPE.         *)
Write(next) ==
  \/ /\ next
     /\ reset' = (reset \/ Reached \in gone)
  \/ /\ reset /\ Reached # 0
     /\ epc' = "killed"
     /\ UNCHANGED <<ei, reset, concluded>>

(* A line of a result is sent, and the executor goes on to label to. *)
ShowLine(to) ==
  Write(epc' = to /\ UNCHANGED <<ei, concluded>>)

(* The path and the number of its rows. *)
ReadFile ==
  /\ epc = "file" /\ w2e[ei] # <<>>
  /\ w2e' = [w2e EXCEPT ![ei] = Tail(@)]
  /\ ShowLine("first")
  /\ UNCHANGED <<crawlerVars, c2e, e2w, queryVars, left, got, found,
                 late, workerVars>>

(* The first row number: if it has not come yet, no2 keeps an old value    *)
(* or none, and from here on nothing is claimed of what the executor reads. *)
FirstRow ==
  /\ epc = "first"
  /\ epc' = IF w2e[ei] = <<>> THEN "garbled" ELSE "rows"
  /\ UNCHANGED <<crawlerVars, c2e, e2w, w2e, ei, queryVars, collectVars,
                 workerVars>>

ReadRow ==
  /\ epc = "rows" /\ w2e[ei] # <<>> /\ Head(w2e[ei]).type = "row"
  /\ w2e' = [w2e EXCEPT ![ei] = Tail(@)]
  /\ ShowLine("rows")
  /\ UNCHANGED <<crawlerVars, c2e, e2w, queryVars, left, got, found,
                 late, workerVars>>

(* -1: on to the next file, or to the next worker. *)
EndOfFile ==
  /\ epc = "rows" /\ w2e[ei] # <<>> /\ Head(w2e[ei]).type = "-1"
  /\ w2e' = [w2e EXCEPT ![ei] = Tail(@)]
  /\ left' = left - 1
  /\ IF left > 1 THEN epc' = "file" /\ UNCHANGED ei
     ELSE NextWorker("collect", "conclude")
  /\ UNCHANGED <<crawlerVars, c2e, e2w, queryVars, got, found, late,
                 reset, concluded, workerVars>>

(* "n/m workers replied on time", and without any result "No results found". *)
Conclude ==
  /\ epc = "conclude"
  /\ Write(/\ concluded' = concluded + 1
           /\ epc' = IF found THEN "readFd" ELSE "none found"
           /\ UNCHANGED ei)
  /\ UNCHANGED <<crawlerVars, c2e, e2w, w2e, queryVars, left, got, found,
                 late, workerVars>>

NoResultsFound ==
  /\ epc = "none found"
  /\ Write(/\ epc' = "readFd"
           /\ UNCHANGED <<ei, concluded>>)
  /\ UNCHANGED <<crawlerVars, c2e, e2w, w2e, queryVars, left, got, found,
                 late, workerVars>>

-----------------------------------------------------------------------------
(* The workers.                                                            *)

OpenWorkerRead(w) ==
  /\ epc # "off" /\ wpc[w] = "openRead"
  /\ wpc' = [wpc EXCEPT ![w] = "openWrite"]
  /\ UNCHANGED <<crawlerVars, c2e, e2w, w2e, epc, ei, queryVars, collectVars,
                 sending, indexed>>

(* The executor has the reading end of worker w's pipe open. *)
OpenAtExecutor(w) ==
  /\ epc # "openCrawler"
  /\ epc \in {"openWrite", "openRead"} => w < ei

OpenWorkerWrite(w) ==
  /\ wpc[w] = "openWrite" /\ OpenAtExecutor(w)
  /\ wpc' = [wpc EXCEPT ![w] = "command"]
  /\ UNCHANGED <<crawlerVars, c2e, e2w, w2e, epc, ei, queryVars, collectVars,
                 sending, indexed>>

(* A file of an answer: its path, its rows, -1. *)
File_NoEnd(q, rows) ==
  <<Item("file", q, rows)>> \o [r \in 1..rows |-> Item("row", q, r)]
File(q, rows) ==
  <<Item("file", q, rows)>> \o [r \in 1..rows |-> Item("row", q, r)]
  \o <<Item("-1", q, 0)>>

(* SendSearchResults. *)
Answer(q, w) ==
  LET rows == Results[q][w]
      files[n \in 0..Len(rows)] ==
        IF n = 0 THEN <<>> ELSE files[n - 1] \o File(q, rows[n])
  IN IF rows = <<>> THEN <<Item("NORES", q, 0)>>
     ELSE <<Item("RES_EXIST", q, Len(rows))>> \o files[Len(rows)]

(* The worker's loop: the names of its directories, all of them before it  *)
(* goes on, a query, or the end.  Any other word is ignored.               *)
WorkerCommand(w) ==
  /\ wpc[w] = "command" /\ sending[w] = <<>> /\ e2w[w] # <<>>
  /\ LET command == Head(e2w[w])
         taken == IF command.type = "DIRNAMES" THEN command.n + 1 ELSE 1
     IN /\ Len(e2w[w]) >= taken
        /\ e2w' = [e2w EXCEPT ![w] = SubSeq(@, taken + 1, Len(@))]
        /\ indexed' = [indexed EXCEPT
             ![w] = @ \cup {e2w[w][k].n : k \in 2..taken}]
        /\ sending' = [sending EXCEPT
             ![w] = CASE command.type = "DIRNAMES" -> <<Item("READY", 0, 0)>>
                      [] command.type = "search" -> Answer(command.query, w)
                      [] OTHER -> @]
        /\ wpc' = [wpc EXCEPT
             ![w] = IF command.type = "exit" THEN "exited" ELSE @]
  /\ UNCHANGED <<crawlerVars, c2e, w2e, epc, ei, queryVars, collectVars>>

(* write waits while the pipe is full; without a reader it is SIGPIPE. *)
WorkerWrite(w) ==
  /\ wpc[w] = "command" /\ sending[w] # <<>>
  /\ IF epc = "killed"
     THEN /\ wpc' = [wpc EXCEPT ![w] = "killed"]
          /\ UNCHANGED <<w2e, sending>>
     ELSE /\ Len(w2e[w]) < PipeSize
          /\ w2e' = [w2e EXCEPT ![w] = Append(@, Head(sending[w]))]
          /\ sending' = [sending EXCEPT ![w] = Tail(@)]
          /\ UNCHANGED wpc
  /\ UNCHANGED <<crawlerVars, c2e, e2w, epc, ei, queryVars, collectVars,
                 indexed>>

-----------------------------------------------------------------------------
CrawlerStep == Accept \/ EndSession \/ Search \/ OpenPipe \/ Shutdown

ExecutorStep ==
  \/ OpenCrawler \/ OpenWrite \/ OpenRead \/ sendDirectoryInfo \/ AwaitReady
  \/ ReadFd \/ ReadCommand \/ SendQuery \/ Deadline
  \/ Collect \/ ReadFile \/ FirstRow \/ ReadRow \/ EndOfFile \/ Conclude
  \/ NoResultsFound

WorkerStep(w) ==
  OpenWorkerRead(w) \/ OpenWorkerWrite(w) \/ WorkerCommand(w) \/ WorkerWrite(w)

Next == CrawlerStep \/ Leave \/ ExecutorStep \/ \E w \in Workers : WorkerStep(w)

Spec == Init /\ [][Next]_vars

(* Every process that can run is run; nobody owes a command. *)
Fairness ==
  /\ WF_vars(OpenPipe) /\ WF_vars(ExecutorStep)
  /\ \A w \in Workers : WF_vars(WorkerStep(w))

FairSpec == Spec /\ Fairness

-----------------------------------------------------------------------------
StartLabels == {"off", "openCrawler", "openWrite", "openRead", "deal",
                "ready"}
CollectLabels == {"collect", "file", "first", "rows"}
ExecutorLabels == StartLabels \cup CollectLabels \cup
  {"readFd", "readCommand", "send", "sleep", "conclude", "none found",
   "garbled", "killed", "exited"}

Items == [type : {"fd", "search", "shutdown", "tail of a command", "DIRNAMES",
                  "name", "exit", "READY", "NORES", "RES_EXIST", "file",
                  "row", "-1"},
          query : Nat, n : Int]

TypeOK ==
  /\ session \in Nat /\ sessions \in Nat /\ session <= sessions
  /\ fd_command \in Int
  /\ gone \subseteq 1..sessions
  /\ asker \in Seq(1..sessions)
  /\ phase \in {"up", "opening", "exited", "killed"}
  /\ inherited \in [number : Int, session : Nat]
  /\ c2e \in Seq(Items)
  /\ e2w \in [Workers -> Seq(Items)]
  /\ w2e \in [Workers -> Seq(Items)]
  /\ epc \in ExecutorLabels
  /\ ei \in Workers
  /\ socketfd \in Int /\ query \in Nat /\ left \in Nat
  /\ got \in [Workers -> Nat]
  /\ found \in BOOLEAN /\ late \in [Workers -> Nat]
  /\ reset \in BOOLEAN /\ concluded \in Nat
  /\ wpc \in [Workers -> {"openRead", "openWrite", "command", "exited",
                          "killed"}]
  /\ sending \in [Workers -> Seq(Items)]
  /\ indexed \in [Workers -> SUBSET (0..NoDirs - 1)]

(* A query is handed out and its answers are being read, and the loop has  *)
(* not come to worker w yet.                                               *)
Awaited(w) ==
  \/ epc \in {"send", "sleep"}
  \/ epc = "collect" /\ w >= ei
  \/ epc \in {"file", "first", "rows"} /\ w > ei

(* A worker that misses a deadline answers every later query one behind:   *)
(* none of its answers is lost or taken twice, so the answer taken for a   *)
(* query is off by exactly the deadlines missed (jobExecutor.c:276-303).   *)
LagIsMissedDeadlines ==
  epc \notin {"garbled", "killed"} =>
    \A w \in Workers :
      got[w] + late[w] = IF Awaited(w) THEN query - 1 ELSE query

(* The counts sent before the directories agree with how they are dealt:   *)
(* once the workers are ready every directory is indexed, by one worker    *)
(* (parentMessages.c:19-42, jobExecutor.c:109-130).                        *)
EveryDirectoryIndexed ==
  epc \notin StartLabels =>
    /\ UNION {indexed[w] : w \in Workers} = 0..NoDirs - 1
    /\ \A v, w \in Workers : v # w => indexed[v] \cap indexed[w] = {}

(* Every query that was asked is concluded, late workers, full pipes and   *)
(* the opening of pipes in turn included, unless the executor has died or  *)
(* lost its place in a stream (jobExecutor.c:65-202, 212-316).  A worker   *)
(* does not die here, as it may of the lists that it has freed             *)
(* (SearchIndex).                                                          *)
EveryQueryConcluded ==
  \A q \in Queries :
    Len(asker) >= q
      ~> concluded >= q \/ epc \in {"garbled", "killed"} \/ phase = "killed"
=============================================================================
