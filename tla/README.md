# A TLA+ model of the web server, the crawler and their search engine

The program has three executables and a script.
`myhttpd` (`webserver.c`, `server_functions.c`) serves the pages of a directory;
`mycrawler` (`webcrawler.c`, `crawler_functions.c`) downloads everything that is
reachable from a starting page and then answers `SEARCH` through `jobExecutor`
(`jobExecutor.c`, `jobexec/`), a master with worker processes that index the
downloaded files; `webcreator.sh` generates the sites. Both `myhttpd` and
`mycrawler` take `STATS` and `SHUTDOWN` on a command port, and both run a pool of
threads started by `threadpool.c`.

## Inventory

| component | state | operations | interacts with |
|---|---|---|---|
| server pool (`webserver.c`, `BFR_*`, `FDR_free`) | buffer of descriptors `fds/active_fds`, three mutexes, two conditions, counters `responses/bytes` | main: wait for room, accept, store, command session; worker: wait for a descriptor, `BFR_PickFd`, answer, count, close | clients, operator, threads share the buffer |
| HTTP exchange (`read_request`, `send_response*`, `GET`, `ReceiveResponse`) | the byte stream of a connection, the file being written | 256-byte chunks sent and read, status and length parsed, links found | server worker and crawler thread |
| crawl queue (`JQ_*`, `THR_*`, `crawler_thread_function`) | linked list of pages, `next_job`, `n_jobs`, `active_threads`, `downloads`, two list mutexes, a condition | pick, request, add the links found, count | threads share the list, main reads the counters |
| crawler descriptors (`ReceiveResponse`, `crawler_thread_function`) | the process's descriptor table | a thread's socket is closed twice | threads and main share the table |
| crawler commands (`main` of `webcrawler.c`) | the command session, `jobexecutor_exec`, the pipe | `STATS`, `SEARCH` gate, start of the executor, `SHUTDOWN` | operator, crawl counters, executor |
| search executor (`jobExecutor.c`, `parentMessages.c`, `childMessages.c`, `functions.c`) | a pipe each way per worker, the command pipe | directories dealt out, query sent to all workers, three seconds' wait, answers read one by one | crawler main, workers |
| index (`trie.c`, `invindex.c`, `CombineSearchResults`) | a trie of words, each with a posting list of files and rows | insert a text, search a word, merge the words of a query, free | a worker process |
| site generator (`webcreator.sh`) | arrays of names and links | draws names and links at random, writes the pages | the file system |
| thread pool (`threadpool.c`) | array of thread ids | starts n threads | server and crawler |

The hard parts: conditions signalled without the mutex of the waiter and tests made
without the mutex of the data, so wakeups get lost; a `trylock` whose failure must
not lose a connection; counters updated or read without a lock; memory freed under
running threads; a decision taken from two counters read one after the other;
descriptors closed twice; an executor protocol whose deadline lets a late answer
meet the next query; fixed-size chunks over a stream; and an index that gives out
its own lists.

What makes each component correct:

* server pool: every accepted connection is answered once, by one worker, in order;
  the buffer never overflows; no connection waits while all sleep; statistics.
* crawl queue: every page reachable from the start is fetched exactly once; the crawl
  ends, and `SEARCH` is let through after it and not before.
* HTTP exchange: the file saved is the file served and every link in it is followed, as
  long as reads give whole chunks; a read that gives less loses or shortens something but
  invents nothing; neither side waits for ever.
* descriptors: a thread uses and closes only what it opened, and gives it back once.
* executor: no answer is lost or taken twice, and the one taken for a query is off by the
  deadlines missed only; every query is concluded.
* index: a search gives the rows that hold a word, files and rows in order, and
  gives the same again when repeated.
* generator: it terminates, with the required numbers of distinct links, and every page
  in its file.

## Modules

* `HandoffQueue`: what a work queue promises: items are put at the rear of a FIFO
  queue (of limited length or not), each is taken by one idle taker, and leaves the
  taker's hands by being finished. No locks, conditions, counters.
* `ServerPool`: the server pool, thread by thread. `mpc` and `pc[w]` are the places in
  `main` and in `server_thread_function` with `BFR_PickFd` inlined; a waiter on a
  condition is a thread at `sleepFull` or `sleepEmpty`; `fds` is
  `pool->fds[0 .. active_fds-1]`. `Reply[c]` is what `send_response` returns for
  connection `c` (the size of the page, 0 for 403, -1 for 404). The process may die in an
  answer or in a command session (`ProcessDies`): `SIGPIPE` when the client has gone, `NULL`
  for a word that the request does not have, or for the page's file when descriptors have
  run out, since served pages are never closed. The operator's commands and `SHUTDOWN`
  (memory freed before `exit`) are actions.
* `CrawlQueue`: the crawl. `queue` is the list from `head`, `next_job` a position in it
  (0 for `NULL`), so the list keeps the pages already picked, as in the code. The
  server is the function from a page to its links, and what a cut response may do to them
  is what `HttpExchange` shows: a link is not seen (`LoseLink`), or the beginning of its name
  is taken for a link (`CutLink`; with nothing but `../` left the thread finds the same link
  for ever, label `looping`), `length` is returned uninitialised, positive or not
  (`LengthUnknown`), or the process dies of a `NULL` (`ProcessDies`, also when a socket cannot
  be had). `main` appears with the two reads that guard `SEARCH` and with `SHUTDOWN`.
* `HttpExchange`: one request and its response, a crawler thread (`GET`, `ReceiveResponse`,
  `check_links`) and a server thread (`read_request`, `send_response`) over a connection.
  `stream[e]` is what has been written to an end and not read; `Read` takes any number of
  symbols from one to a chunk; `Visible` is the C string that an array then holds. Text is a
  sequence of symbols (pieces of words, small enough that it does not matter to the code
  where in one a read ends): `Refused`, `Opened`, `LengthIn`, `EndOfRequest`, `PageOf` are what
  `strtok`, `strcmp`, `atoi` and `strstr` make of it. The close of the server with zeros of the
  request unread may lose the end of the response. `read_request` returns memory that nobody
  has written when the first read does not begin with `Get` (`ReuseMemory`). Neither `fopen` is
  taken to succeed: the server's may fail at any page and kills it (`OpenFails`), the crawler's
  fails for the names outside `Storable`, since `makedir` makes one directory only (a name
  without a directory becomes a directory itself), and the first chunk of the page kills
  the crawler then. Pages are assumed to have no `href=""` (`LinksAssumption`), of which `strtok`
  would skip both quotes; those of `webcreator.sh` name a page in every link.
* `CrawlerFds`: the descriptor numbers of the crawler. `table[n]` is what a number stands
  for; `socket`, `fopen` and `accept` take the lowest that is free; every `write`, `read` and
  `close` reaches whatever has the number at that moment, which after the two closes of
  one socket (`crawler_functions.c:100`, `webcrawler.c:67`) may be somebody else's. A `read` that
  waits keeps its connection (`waits`). `exposed` remembers the pages for which a number was
  given out while another variable still held it.
* `SearchExecutor`: everything that happens between a `SEARCH` that has passed the gate and
  the last line of its answer: command sessions, the fork of the executor, the opening of
  the pipes (who waits for whom), the directories dealt out, the query, the three seconds,
  the answers. Labels of the executor are the places in its `main`; `c2e`, `e2w`, `w2e` are
  the named pipes. Values read by the retrying `readInt` and `readString` travel as one item;
  the two plain reads, which may find nothing, are actions of their own. What a worker finds
  is the constant `Results`. `inherited` is the one connection that means the same in both
  processes. Once the executor has lost its place in a stream (`garbled`) the model stops
  claiming anything of it.
* `SearchIndex`: one worker: texts into the index, a query's lists merged, the answer sent
  file by file with the number and the line of each row, lists freed. What a worker does on
  `/exit` is left out, since the executor never sends it. The trie is a map here. Once freed memory is read, `pc` is
  `undefined` and nothing more is claimed. Its `df` counts the words of a list while texts
  are inserted, which nobody reads, and is left out there; the merged list has it.
* `WordIndex`: what the trie promises: a map from words to sets of entries, in which an
  insertion adds to one word.
* `Trie`: the same worker one level down: the nodes, `otherLetter`, `rest`, and the walks of
  `List_insert` and `inList`. `Entries(w)` is the map that the nodes stand for.
* `Sites`: what `webcreator.sh` keeps while it makes the sites, and what must be true of them.
* `SiteGenerator`: its steps. A page is a number, as in the script; `DrawName`,
  `DrawFirst`, `DrawInternal` and `DrawExternal` are the accepted draws of its loops (a
  rejected one changes nothing), `WritePage` what is appended to the file of `page_num`,
  `Report` the line printed in the end.
* `MCServerPool`, `MCCrawlQueue`, `MCHttpExchange`, `MCCrawlerFds`, `MCSearchExecutor`,
  `MCSearchIndex`, `MCTrie`, `MCSiteGenerator`: instances for TLC.
* `ServerPoolProofs`, `CrawlQueueProofs`, `HttpExchangeProofs`, `CrawlerFdsProofs`,
  `SearchExecutorProofs`, `SearchIndexProofs`, `TrieProofs`: the theorems about each component, with the
  lemmas they rest on (those about `SiteGenerator` are the last section of `CrawlQueueProofs`);
  `DataLemmas`: what several of them need about ranges, induction and
  sums.

Grain: one action for each access to memory that another thread may access at the same
time. A section under a mutex that all users take by blocking is one action, or two
where the test in it and the change in it are what the mutex protects; a section entered
by `trylock` is entered and left by actions of its own, since a failed attempt can be
observed. The builds are unoptimised (`gcc -g3` in the Makefile), so `responses++` is a
load and a store.

Operators named `X_Y` just before an operator `X` are defects of `X` kept to check
that the properties notice them. They stand for: a test for room or for work that is
off by one, an unlock or a lock forgotten, a descriptor used after a failed `trylock`, a
shift that drops the wrong slot, a stack for a queue, a reset forgotten at the end of
the list or on the error path, links skipped, errors counted as pages; a loop over the
workers that goes one too far, an answer left in the pipe, a remainder not dealt out, an
end of file not sent; a row added twice, a walk that stops behind its place, a pair
swapped, a last row not sent; a word that ends too late, a new node that is put before its
equal, cuts off its list or points back, a word entered at its prefixes, too; an array not
emptied, an end of the request looked for in the wrong place, a status forgotten; a pointer
that keeps its old value, a file not closed, the wrong number closed, an error path that
closes nothing; a link to the page itself, a page beyond the last, links or the page's number
left over from the page before.

## Runs

| run | bounds | shows |
|---|---|---|
| `MCServerPool.cfg` | 2 workers, 3 connections (two pages, one 404), 2 slots | `TypeOK`, `NoOverflow`, `OneOwner`, `StatsNeverOverreport`, `PoolSleepsOnlyWhileEmpty`, that the pool implements `HandoffQueue`, and `EveryConnectionAnswered` under `FairSpec` |
| `MCServerPoolMain.cfg` | as the first | refutes `MainWaitsOnlyWhileFull`: a worker makes room between main's test and its wait, its signal is lost, and main is asleep although a slot is free; if the workers have taken the rest by then, nobody is left to wake it |
| `MCCrawlQueue.cfg` | 3 threads; 3 pages: one links to itself and to the others, one to the third, which is missing; any link may be lost, cut to the third or to nothing | `TypeOK`, `JobsCounted`, `SomeoneAwake`, `GateOpensWhenDone`, `CrawlExact`, that the list implements `HandoffQueue`, and `CrawlEnds` under `FairSpec` |
| `MCCrawlQueueSearch.cfg` | 2 threads, the same site | refutes `SearchOnlyWhenDone`: a thread has taken the last page and is not yet counted in `active_threads`, so both reads give 0 |
| `MCHttpExchange.cfg` | chunks of 8 symbols; a page of two lines with a link each, one of a single line longer than a chunk with a link across its end, one forbidden, one missing, one that the crawler cannot store; every read of every length | `TypeOK`, `ExchangeExact`, `DeathOnlyByCut`, `NothingInvented`, and `ExchangeEnds` under `FairSpec` |
| `MCCrawlerFds.cfg` | 2 threads (symmetric), 3 pages, one of them missing, 2 command sessions | `TypeOK`, `KeepsItsNumbers`, `SavedItsText`, `NoNumberLeaks` |
| `MCCrawlerFdsStored.cfg` | the same | refutes `PageIsStored`: the second close of one thread hits the socket of another, which saves an empty page although the answer was 200 |
| `MCSearchExecutor.cfg` | 2 workers, 3 directories, 3 queries, 2 sessions on one number, as `accept` gives the lowest, 2 items in a pipe | `TypeOK`, `LagIsMissedDeadlines`, `EveryDirectoryIndexed`, and `EveryQueryConcluded` under `FairSpec` |
| `MCSearchIndex.cfg` | 2 words, 2 files of 2 lines, or one of 3 beside a fixed one, lines of 4 kinds; 2 queries of at most 2 words | `TypeOK`, `IndexExact`, `MergedInOrder`, `AnswerExact` |
| `MCSearchIndexAgain.cfg` | the same | refutes `QueriesKeepIndex`: a second query for the word of the first reads the list that was freed |
| `MCTrie.cfg` | 3 letters, words of 1 or 2, 3 insertions | `TypeOK`, `ListsAscending`, `SearchExact`, that the nodes implement `WordIndex`, and `OperationsEnd` under `FairSpec` |
| `MCSiteGenerator.cfg` | 2 sites of 3 pages, 2 random numbers | `SitesTypeOK`, `LinksRight`, `FilesRight`, and `GeneratorEnds` under `FairSpec` |

More disagreements with what the comments say, or with what was meant, show in the models and have no run:

* A pool of one worker sleeps on a connection if main's signal falls between the worker's
  test and its wait; `NoLostConnection` is therefore proved for two workers or more.
* `pool->responses++` overlaps with itself (`LoadPages`, `StorePages`) and loses pages, so the
  "responses sent" of `server_functions.h:7` is a lower bound; `StatsNeverOverreport` is
  what holds.
* The first row number of a file is read without retry (`jobExecutor.c:293`): if the worker
  is still on its way to it, the executor is out of step with the stream (`garbled`).
* `SHUTDOWN` never ends the executor and its workers: the crawler sends it without the
  descriptor that every command is preceded by, and the executor compares with a line end it
  has just removed (`jobExecutor.c:217-219`), so the label `exited` is not reachable.
* The executor is sent the number of the session's descriptor (`jobExecutor.c:214`), and writes
  to what has that number in its own process, where only the session open at the fork
  exists: the answer for a later session goes to the first one or to nobody.
* A worker that answers after the three seconds is answered for by the next query, which
  reads what is left in the pipe (`jobExecutor.c:276-281`): the lag of `LagIsMissedDeadlines`.
* Rows are numbered without the markup lines when they are indexed (`trie.c:29`) and with them
  when they are sent (`childMessages.c:68`), where `invindex.h:7` says of the number "every node
  is the offset row from the start of file". The line shown is another one than that which
  holds the word as soon as markup comes before it, as many lines higher as there are lines
  of markup: that is what `IndexExact` and `AnswerExact` say of the code.
* A page answered with 200 whose name is not of the form `siteX/pageX_Y.html` of the
  program's own README kills the crawler (`crawler_functions.c:77,94`), and a thousandth page
  may kill the server (`server_functions.c:69,78`); `DeathOnlyByCut` names the first and leaves
  the second aside.
* `webcreator.sh` compares the first link of a page with the number of the site (155), so a
  page may link to itself; a random number that was drawn before ends the loop and stays
  (84-92), so two pages of a site may be written to one file; `inc = 1` (211) calls a command,
  and "Every page has at least one incoming link" is printed in any case (`Report`).
* A thread of the crawler whose link is cut behind `../` finds the same link for ever
  (`crawler_functions.c:27-36`) and `SEARCH` is refused from then on.

Why the bounds are enough: the buffer fills, wraps past empty and fills again with three
connections and two slots; two workers are the fewest that compete for `trylock`, and one
more than sleeps when a wakeup is lost; with two slots main may have to wait for room for the third.
Three crawler threads let one miss a wakeup while a second adds and a third picks. In the
crawl the pages bound everything, since no page is added twice; a page that links to itself, one
that two pages link to and one that is missing are the cases `JQ_Addjob` and the error path tell
apart. In the exchange a chunk of 8 symbols holds the header, whose 6 symbols leave room for
zeros, and a request, whose zeros may be left unread; the pages have a line shorter than a
chunk and one longer. Two threads are enough for a number to change hands between two closes,
the third page makes one of them come back for more, and sessions take numbers, too; the
table has a number for every socket, file and session at once. Three pages to a site and two
sites are the fewest for which the generator ends, so a candidate too few shows. Three directories for two
workers leave a remainder; with three queries a worker can miss two deadlines and catch up
neither; every worker finds something for one query and nothing for another, and the longest
answer is longer than a pipe. A file of three lines has room for markup before, between and
after text; two words give equal, interleaved and disjoint lists. Three insertions of two
letters reach the front, the middle and the end of a list at both levels. All runs say
`CHECK_DEADLOCK FALSE`: a server without clients and a crawler that has finished wait
for ever, and a process that has exited, or a worker that has answered its last query, does
nothing.

Fairness: weak fairness of each thread's own steps, that is, the operating system runs
every thread that can run. In the server this includes `Serve`: a client that has
connected sends its request (a client that never does holds a worker in `read_request`
for ever, and with it, if all workers are held, the buffer). That the process dies in an
answer is possible and not fair: `EveryConnectionAnswered` holds unless it does, or is shut down. In the crawler it includes
the steps of a response: the server closes every connection in the end, except that a thread at
`looping` never leaves it, which `CrawlEnds` says. That is an assumption about the server: as
`HttpExchange` shows, a request cut between its two line ends leaves both sides waiting, and
the crawl with them. In the exchange each of the two threads runs,
and what is written arrives. In the generator a loop that draws at random hits an acceptable
number in the end, if there is one. `CrawlerFds` has safety properties only. The executor and each
worker are processes that the system runs whenever they can (that the freed lists of
`SearchIndex` may kill a worker is left out there); the crawler's `open` of the
pipe returns once the executor has opened it. Main is assumed
to run unless it waits for the operator. Neither clients, commands nor spurious wakeups
are assumed to come. Mutexes need only weak fairness here: the liveness properties hold with
it.

## Proofs

TLAPS proves the following for all values of the constants under the `ASSUME`s of the
modules, which say that names are distinct, that names that can be stored are names, that no
page has an empty link, that the buffer has at least one slot and replies
are integers, that links lead to pages and threads are finitely many, that a chunk holds a header,
that pages have names of their own and lines that are not empty and have no zeros in them, that there are a worker,
a directory and room for an item in a pipe, that letters and row numbers are numbers, and that
there are a site and a page of a site. Each
safety property is proved by an invariant that contains it, holds at first and is kept by
every action; the lemma that says the latter has one step for each action.

Server pool (`ServerPoolProofs`):

* `TypeCorrect`. The type invariant is not inductive alone: closing, storing and shifting
  need that the thread has a connection and the buffer an element. `Inv` adds what a thread
  relies on between two of its actions: main at `lock` or `put` has a connection, whoever is
  inside a section of `pool->mtx` holds it, and a worker that is about to shift has seen a
  buffer that is not empty.
* `BufferNeverOverflows`. `NoOverflow` carries its own strengthening `RoomOnceSeen`: only main
  fills, so room seen by the unlocked test remains.
* `NoLostConnection`, for two workers or more. The strengthening is `AloneInTest` (a worker
  between its test and its wait holds `buffer_empty_mtx`) and `SomeoneUp` (a connection in the
  buffer implies a worker that neither sleeps nor is about to). When main's signal finds nobody
  asleep, at most one worker is about to sleep.
* `ConnectionsHaveOneOwner`. `Owners` names the places a connection can be in and says that
  they are apart; `Carriers`, that a worker about to shift has the front of the buffer and that
  hands are empty where nothing is carried.
* `PoolImplementsHandoff`: with these, every step is a step of `HandoffQueue` or a stutter.
* `StatsAreBounded`: for each counter, its value plus what is still to be added, and also what
  each worker has loaded, is at most the sum over the connections that were answered. Sums over
  finite sets are recursive functions on numbers of elements (`DataLemmas`).

Crawl (`CrawlQueueProofs`):

* `TypeCorrect`, with `HasPage` and `HasLink` as strengthening.
* `JobsAreCounted`: `n_jobs` against the length of the rest of the list, by way of `Left`, its
  arithmetic form.
* `NoPageForgotten`, for one thread or more: here no second thread is needed, since the one
  that adds is awake.
* `SearchOpens`: `active_threads` is the cardinality of the set of threads between `++` and
  `--` (`ActiveCounted`), hence 0 when the crawl is over.
* `CrawlImplementsHandoff`: `Once` says that no page is in the list twice and that each
  picked page has one holder or none.
* `CrawlVisitsReachable`: the list contains only what follows from its roots, and every page
  that is finished has its links in the list, a held one those that are no longer in `todo`; so
  once nothing waits and nobody holds a page, the list is closed under links.

HTTP exchange (`HttpExchangeProofs`):

* `TypeCorrect`, by way of `Base`: what arrays show before their first zero is text, and the
  arrays are empty whenever a read begins.
* `ExchangeIsExact` and `DeathIsByCut` rest on `Whole`, which says where an exchange without a
  short read is: before the request, with the request or the header as the only chunk in a
  stream, or on the way through the page (`Serving`). There the stream to the crawler is
  the chunks of some lines or parts of lines `ps`, and what was saved, `ps` and `rest`, one after the other,
  are the page (`Moving`). A chunk that is read is therefore one piece, whose visible part is
  the piece itself (`Piece` leaves room for a zero). If the links fit their lines, the links found,
  those of `ps` and those of `rest` are those of the page in the same way: a line in which every link
  is closed and that does not end in `<a` has the same links alone as in its page
  (`LinksFit`, `LinksSplit`). A crawler whose `fopen` failed comes no further than the first chunk
  (`Failed`), and a server that dies at `fseek` leaves the crawler with nothing (`Lost`). Sequences of sequences are flattened and cut by the lemmas of `DataLemmas`.
* `NothingIsInvented` is about reads of any length, requests that are cut and responses that a
  reset cuts. Whatever was written is a part of `Sent`, so each symbol that is not a zero has a place
  in it. `Located` says that nothing is sent yet, or that the page was refused, or
  that the exchange is `Traced`: what was saved and then the stream have increasing places
  in `Sent`, all before the lines still to be sent (`HasPlaces`), and whatever lies between two zeros of
  the stream lies in `Sent` in one piece (`Runs`). A read, a reset or a lost write only
  drops symbols, which keeps both; a chunk adds a piece behind the last place, and its zero ends the
  piece (`EndsInZero`). Because of the places the search of `PlaceOfLast` finds all that was saved
  (`PartByPlaces`); because of the pieces a link that `check_links` sees is the beginning of one of the page
  (`LinkKnown`). A refused page makes no file and no link however its status line is cut, since
  its second word is `40`, or missing.

Descriptors (`CrawlerFdsProofs`):

* `TypeCorrect` and `NumbersAreGivenBack`: whatever stands in the table is in a variable that
  will still be closed (`NotLost`), and there are more numbers than such variables, so one is
  always free.
* `NumbersAreKept`: a page that is not `exposed` is what stands behind its thread's number, and
  behind nobody else's (`Keeps`, `Stands`).
* `PagesAreSaved`: for such a page the connection, the pending text and the file are, at each
  label, what an undisturbed exchange would have made of them (`Proceeds`).

Search executor (`SearchExecutorProofs`):

* `AnswersLagByMissedDeadlines` and `TypeCorrect` rest on one invariant of the streams: what a
  worker still has to write and what is in its pipe, one after the other, is a sequence of
  whole answers after the rest of the one that is being read (`Walk`, `Joined`, `Fits`), to
  consecutive queries that end where the worker's requests begin (`Chain`). `Commands` says the
  same of the pipe from the crawler. Concatenations are taken apart by induction on their
  length (`WalkJoin`, `FilesExist`).
* `DirectoriesAreDealt`: the numbers dealt to a worker are those with its remainder
  (`DirsOfExact`).

Index (`SearchIndexProofs`, `TrieProofs`):

* `IndexIsExact`. Every entry is a row that was read and holds the word (`Sound`); every such
  row is an entry unless its word is still to come in the line at hand (`Complete`); and
  lists have one node for each file, with ascending rows and true counts (`Fine`).
* `MergeIsOrdered` and `AnswersAreExact`. That the lines shown are those of `ShownFor` follows from
  the rows sent, since a row and its file determine the line (`SentOf`, `InShown`). While a query is merged the rows of its words so far
  are those of the merged list and those still to be inserted (`Merging`). That one pass over a
  file finds all its rows needs that they ascend; it is proved by induction on the lines
  (`AllPassed`).
* `SearchesAreExact`, `ListsAreAscending`. No variable says which beginning of a word a node
  stands for, so the invariant says that there is a function `name` that does: injective,
  siblings linked in the order of their letters (`Linked`), each beginning of an inserted word
  with its node (`Filled`). An insertion of a node extends `name` by one (`PlaceGood`).
* `TrieImplementsIndex`: the walk of `Lookup` along letters ends at the node with that name
  (`EntriesExact`), so the map of `WordIndex` is read off the nodes.

Site generator (the last section of `CrawlQueueProofs`, which extends `Sites`; its steps are those of the
instance `Generator` of `SiteGenerator`, since their names are also those of `CrawlQueue`):

* `GeneratorTypes`. That pages, sites and numbers stay in their ranges is arithmetic about
  `P * i + j` (`PageNumbers`, `SiteOfPage`); what it needs besides is `InTurn`: links are drawn
  only when all names are, and with one page to a site the first link is drawn for ever.
* `LinksAreRight`, by way of `Drawn`: the first `k` links are as `LinksRight` wants them and the others
  are `-1`. That each page starts with an empty array is what `WritePage` leaves behind.
* `FilesAreRight`. `Filed` says of every moment what `FilesRight` says of the end: a file has the pages
  before the current one with its name, ascending. A page is written to the file of `page_num`,
  which is set only from the second internal link on and is the page before until then; `Numbered` says
  that it is the current page once two links are drawn. There is a second internal link
  unless a site has one page, and then, by `InTurn`, nothing is written at all.

What the library has as theorems about predicates (induction over numbers, over finite sets)
is stated in `DataLemmas` about sets instead: a set of numbers that contains 0 and successors
contains all, and recursive functions exist (`SetInduction`, `Recursion`). For that reason the
recursions in the models that proofs are about are functions.

Only model-checked: the liveness properties (`EveryConnectionAnswered`, `CrawlEnds`,
`EveryQueryConcluded`, `OperationsEnd`, `ExchangeEnds`, `GeneratorEnds`), which rest on fairness and
are out of the prover's reach. Every other property of a passing run is a theorem.

## Not modelled

Argument parsing and the setup of sockets, whose failures end the process before there is
any state; the uptime in `STATS`; dates and headers; `printf`. `MaxCount`, `MinCount`,
`CountTextBWL`, `CountTotalBWL`, `openPipes`, `query_word`, the printing of the trie and
the declared but undefined `TP_addjob`, `TP_pickjob` have no caller. `THR_Init` signals
`empty_queue` before it is initialised and `FDR_free` does not destroy `buffer_empty`:
neither can be seen by another thread. Width of the counters: they overflow after 2^31
pages only. `STATS` of the crawler and the refusal of other commands change no state, and a command
is taken to arrive in one read, as a line that is typed does. Of a command session `CrawlerFds` has
the descriptor, not the commands. In
`HttpExchange` the client keeps its connection open until it has its answer, so the end of file in
`read_request` does not happen, and neither does `found_LF`, which takes a full chunk that ends in
a line end. The server's descriptors have no table: that one is lost with each page
(`server_functions.c:69`) shows only as an `fopen` that may fail at any time. The lines of text that
`webcreator.sh` copies with `sed` are left out (each boundary line comes twice).
The worker's branch for `/exit` (`jobExecutor.c`) is not in `SearchIndex`: no process sends it.
`SearchExecutor` assumes at least one directory: a crawl that saved nothing leaves none, and
the executor divides by zero. Pipes towards the executor's workers and from the crawler are
unbounded: a query has a few hundred bytes and a pipe 64 KiB, so that only a score of queries
waiting for one late worker would fill it. Of the numbers that `accept` may give a second
session only the connection inherited by the executor can be written to there. The
lengths of rows, paths and words against the 256-byte buffers are not modelled.

## Plan

Done: the models above, their runs, and the proofs of all safety properties that hold.

Left: the hazards without a property; `PROJECT.json` says of each why it has none.
