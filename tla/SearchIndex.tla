---------------------------- MODULE SearchIndex ----------------------------
(***************************************************************************)
(* What a worker process of the job executor does with the files of its    *)
(* directories and with a query: it puts every word of a file into an      *)
(* inverted index (trie.c, invindex.c), merges the posting lists of the    *)
(* words of a query into one (functions.c), sends the rows                 *)
(* (childMessages.c), and frees the lists (jobExecutor.c:131-168).         *)
(*                                                                         *)
(* The process is sequential: an action is one pass of a loop.  The trie   *)
(* is a map from words to posting lists here; its letters are in Trie.  A  *)
(* path is a number and strcmp the order of numbers.                       *)
(***************************************************************************)
EXTENDS Integers, Sequences, SequencesExt

CONSTANTS
  Words,       \* words of the files and of the queries
  Paths,       \* the files of the worker's directories
  Files,       \* the contents they may have: a set of [Paths -> Seq(Lines)]
  MaxWords,    \* bound: words of a query
  MaxQueries   \* bound: queries

(* A line that begins with '<' and does not end there is markup. *)
Lines == [markup : BOOLEAN, words : Seq(Words)]

ASSUME PathsAssumption == Paths \subseteq Nat
ASSUME FilesAssumption == Files \subseteq [Paths -> Seq(Lines)]
ASSUME BoundsAssumption == MaxWords \in Nat /\ MaxQueries \in Nat

VARIABLES
  text,     \* the contents of the files
  unread,   \* files that readdir has not returned yet
  path,     \* the file being read or sent
  at,       \* lines of it read so far
  row,      \* the variable row of insertTextIntoTrie
  words,    \* the words of the line that strtok has not returned yet
  index,    \* index[w]: the posting list at the end of w in the trie
  freed,    \* words whose list was freed and is still in the trie
  query,    \* the words of the query
  next,     \* the loop variable j over them
  todo,     \* path and row pairs of the current word still to merge
  merged,   \* final_result: df and a posting list, empty for NULL
  sent,     \* what has been written of the answer: path, count and rows
  queries,  \* queries received
  pc        \* "files", "line", "words", "command", "combine", "rows",
            \* "send", "free", "undefined"

readVars == <<unread, path, at, row, words, index>>
answerVars == <<query, next, todo, merged, sent>>
vars == <<text, unread, path, at, row, words, index, freed, query, next, todo,
          merged, sent, queries, pc>>

(* A node of a posting list, and a list with its number of nodes. *)
Node(p, f, rows) == [path |-> p, fr |-> f, offsets |-> rows]
NoResult == [df |-> 0, list |-> <<>>]

Init ==
  /\ text \in Files
  /\ unread = Paths
  /\ path = 0 /\ at = 0 /\ row = 0
  /\ words = <<>>
  /\ index = [w \in Words |-> <<>>]
  /\ freed = {}
  /\ query = <<>> /\ next = 1 /\ todo = <<>>
  /\ merged = NoResult
  /\ sent = <<>>
  /\ queries = 0
  /\ pc = "files"

-----------------------------------------------------------------------------
(* DIRNAMES: the files into the index.                                     *)
(*                                                                         *)
(* An operator X_Y just before X is a defect of X, used to check that the  *)
(* properties would notice it; no action uses it.                          *)

(* The next file of the directories, in any order, or READY. *)
NextFile ==
  /\ pc = "files"
  /\ IF unread = {}
     THEN pc' = "command" /\ UNCHANGED <<unread, path, at, row>>
     ELSE /\ \E p \in unread : path' = p /\ unread' = unread \ {p}
          /\ at' = 0
          /\ row' = 0
          /\ pc' = "line"
  /\ UNCHANGED <<text, words, index, freed, answerVars, queries>>

(* getline: the end of the file, a line of markup, or words. *)
ReadLine ==
  /\ pc = "line"
  /\ IF at = Len(text[path])
     THEN pc' = "files" /\ UNCHANGED <<at, words>>
     ELSE /\ at' = at + 1
          /\ IF text[path][at + 1].markup
             THEN UNCHANGED <<words, pc>>
             ELSE words' = text[path][at + 1].words /\ pc' = "words"
  /\ UNCHANGED <<text, unread, path, row, index, freed, answerVars, queries>>

NewNode(list, p, r) == Append(list, Node(p, 1, <<r>>))

(* The row again in the last node, which is about path p. *)
Again_NoTest(last, r) ==
  [last EXCEPT !.fr = @ + 1, !.offsets = Append(@, r)]
Again(last, r) ==
  [last EXCEPT !.fr = @ + 1,
               !.offsets = IF Last(@) = r THEN @ ELSE Append(@, r)]

invIndex_Update(list, p, r) ==
  IF list = <<>> \/ Last(list).path # p THEN NewNode(list, p, r)
  ELSE Append(Front(list), Again(Last(list), r))

Trie_Insert(w, p, r) == [index EXCEPT ![w] = invIndex_Update(@, p, r)]

InsertWord ==
  /\ pc = "words" /\ words # <<>>
  /\ index' = Trie_Insert(Head(words), path, row)
  /\ words' = Tail(words)
  /\ UNCHANGED <<text, unread, path, at, row, freed, answerVars, queries, pc>>

EndLine ==
  /\ pc = "words" /\ words = <<>>
  /\ row' = row + 1
  /\ pc' = "line"
  /\ UNCHANGED <<text, unread, path, at, words, index, freed, answerVars,
                 queries>>

-----------------------------------------------------------------------------
(* /search.                                                                *)

ReceiveQuery ==
  /\ pc = "command" /\ queries < MaxQueries
  /\ \E n \in 0..MaxWords : \E q \in [1..n -> Words] : query' = q
  /\ queries' = queries + 1
  /\ next' = 1
  /\ todo' = <<>>
  /\ merged' = NoResult
  /\ sent' = <<>>
  /\ pc' = "combine"
  /\ UNCHANGED <<text, readVars, freed>>

(* A posting list as the loops of CombineSearchResults run over it. *)
RowsOf_Swapped(node) ==
  [k \in 1..Len(node.offsets) |-> <<node.offsets[k], node.path>>]
RowsOf(node) ==
  [k \in 1..Len(node.offsets) |-> <<node.path, node.offsets[k]>>]
Pairs(list) == FlattenSeq([i \in 1..Len(list) |-> RowsOf(list[i])])

(* The next word: its list is the one in the trie, and if a query has      *)
(* freed it before, what is read now is undefined.                         *)
CombineWord ==
  /\ pc = "combine"
  /\ IF next > Len(query)
     THEN pc' = "send" /\ UNCHANGED <<next, todo>>
     ELSE /\ todo' = Pairs(index[query[next]])
          /\ next' = next + 1
          /\ pc' = IF query[next] \in freed THEN "undefined" ELSE "rows"
  /\ UNCHANGED <<text, readVars, freed, query, merged, sent, queries>>

(* The position at which the walk along ascending keys stops for key n. *)
Position_Behind(keys, n) ==
  CHOOSE i \in 1..(Len(keys) + 1) :
    /\ \A j \in 1..(i - 1) : keys[j] <= n
    /\ i <= Len(keys) => keys[i] > n
Position(keys, n) ==
  CHOOSE i \in 1..(Len(keys) + 1) :
    /\ \A j \in 1..(i - 1) : keys[j] < n
    /\ i <= Len(keys) => keys[i] >= n

PathsOf(list) == [i \in 1..Len(list) |-> list[i].path]

(* A row into the offsets of a node, unless it is there. *)
AddRow(node, r) ==
  LET k == Position(node.offsets, r)
  IN IF k <= Len(node.offsets) /\ node.offsets[k] = r THEN node
     ELSE [node EXCEPT !.fr = @ + 1, !.offsets = InsertAt(@, k, r)]

ResultsInvertedIndexUpdate(result, p, r) ==
  LET i == Position(PathsOf(result.list), p)
  IN IF i <= Len(result.list) /\ result.list[i].path = p
     THEN [result EXCEPT !.list[i] = AddRow(@, r)]
     ELSE [df |-> result.df + 1,
           list |-> InsertAt(result.list, i, Node(p, 1, <<r>>))]

CombineRow ==
  /\ pc = "rows"
  /\ IF todo = <<>>
     THEN pc' = "combine" /\ UNCHANGED <<todo, merged>>
     ELSE /\ merged' = ResultsInvertedIndexUpdate(merged, Head(todo)[1],
                                                  Head(todo)[2])
          /\ todo' = Tail(todo)
          /\ UNCHANGED pc
  /\ UNCHANGED <<text, readVars, freed, query, next, sent, queries>>

(* The loop over the lines of a file with a pointer into the offsets:      *)
(* offsets passed after n lines.                                           *)
Passed(p, offsets) ==
  LET passed[n \in 0..Len(text[p])] ==
        IF n = 0 THEN 0
        ELSE LET k == passed[n - 1]
             IN IF k < Len(offsets) /\ offsets[k + 1] = n - 1 THEN k + 1 ELSE k
  IN passed[Len(text[p])]

(* A row that is sent: its number, and the line of the file that getline   *)
(* gives under this number, where lines of markup count as any other.      *)
Row(p, r) == <<r, text[p][r + 1]>>

Rows_NotLast(node) ==
  [k \in 1..Passed(node.path, Front(node.offsets)) |->
     Row(node.path, node.offsets[k])]
Rows(node) ==
  [k \in 1..Passed(node.path, node.offsets) |->
     Row(node.path, node.offsets[k])]

(* Nothing but NORES, or df and then, file by file, path, fr and rows. *)
SendFile ==
  /\ pc = "send"
  /\ IF Len(sent) = Len(merged.list)
     THEN pc' = "free" /\ UNCHANGED sent
     ELSE /\ LET node == merged.list[Len(sent) + 1]
             IN sent' = Append(sent, [path |-> node.path, fr |-> node.fr,
                                      rows |-> Rows(node)])
          /\ UNCHANGED pc
  /\ UNCHANGED <<text, readVars, freed, query, next, todo, merged, queries>>

Found == {w \in Range(query) : index[w] # <<>>}
Twice == \E j, k \in 1..Len(query) :
           j < k /\ query[j] = query[k] /\ index[query[j]] # <<>>

(* The lists that Trie_Search returned are freed, and so is each index; a  *)
(* word that the query has twice gives its index to free twice.            *)
FreeResults ==
  /\ pc = "free"
  /\ freed' = freed \cup Found
  /\ pc' = IF Twice THEN "undefined" ELSE "command"
  /\ UNCHANGED <<text, readVars, answerVars, queries>>

(* The third command, /exit, is never sent: the executor compares what it  *)
(* was sent with a line end that it has just removed (jobExecutor.c:217).  *)
Next ==
  \/ NextFile \/ ReadLine \/ InsertWord \/ EndLine
  \/ ReceiveQuery \/ CombineWord \/ CombineRow \/ SendFile \/ FreeResults

Spec == Init /\ [][Next]_vars

-----------------------------------------------------------------------------
Nodes == [path : Paths, fr : Nat, offsets : Seq(Nat)]
SentFiles == [path : Paths, fr : Nat, rows : Seq(Nat \X Lines)]

TypeOK ==
  /\ text \in Files
  /\ unread \subseteq Paths
  /\ path \in Nat /\ at \in Nat /\ row \in Nat
  /\ words \in Seq(Words)
  /\ index \in [Words -> Seq(Nodes)]
  /\ freed \subseteq Words
  /\ query \in Seq(Words) /\ next \in 1..(Len(query) + 1)
  /\ todo \in Seq(Paths \X Nat)
  /\ merged \in [df : Nat, list : Seq(Nodes)]
  /\ sent \in Seq(SentFiles)
  /\ queries \in 0..MaxQueries
  /\ pc \in {"files", "line", "words", "command", "combine", "rows", "send",
             "free", "undefined"}

(* The row under which line n of file p is indexed: its offset from the    *)
(* start of the file, less the lines of markup above it.  (invindex.h:7    *)
(* says of it "the offset row from the start of file".)                    *)
MarkupAbove(p, n) == Cardinality({m \in 1..(n - 1) : text[p][m].markup})
RowOf(p, n) == n - 1 - MarkupAbove(p, n)
Holds(w, p, n) == ~ text[p][n].markup /\ w \in Range(text[p][n].words)
Holding(w) ==
  UNION {{<<p, RowOf(p, n)>> : n \in {m \in 1..Len(text[p]) : Holds(w, p, m)}} :
         p \in Paths}

Ascending(seq) == \A i \in 1..(Len(seq) - 1) : seq[i] < seq[i + 1]

(* The index is exact: the list of a word has, for every line that holds   *)
(* it, the line's offset from the start of the file less the markup above  *)
(* it, and no other row; one node for a file, the rows in order and once   *)
(* (trie.c:16-62, invindex.c:7-66).                                        *)
Indexed == pc \notin {"files", "line", "words"}
IndexExact ==
  Indexed => \A w \in Words :
    /\ Range(Pairs(index[w])) = Holding(w)
    /\ IsInjective(PathsOf(index[w]))
    /\ \A i \in 1..Len(index[w]) : Ascending(index[w][i].offsets)

(* The merged list is in order of paths and rows, without repetition, and  *)
(* its counts, by which the executor knows how much to read, are those of  *)
(* its nodes and rows (invindex.c:85-160).                                 *)
MergedInOrder ==
  /\ merged.df = Len(merged.list)
  /\ Ascending(PathsOf(merged.list))
  /\ \A i \in 1..Len(merged.list) :
       /\ Ascending(merged.list[i].offsets)
       /\ merged.list[i].fr = Len(merged.list[i].offsets)

(* The lines the answer shows for word w: for each line that holds it, the *)
(* one as many lines above as there are lines of markup above it.          *)
ShownFor(w) ==
  UNION {{<<p, RowOf(p, n), text[p][n - MarkupAbove(p, n)]>> :
            n \in {m \in 1..Len(text[p]) : Holds(w, p, m)}} : p \in Paths}
Shown ==
  UNION {{<<sent[i].path, x[1], x[2]>> : x \in Range(sent[i].rows)} :
         i \in 1..Len(sent)}

(* Each line that holds a word of the query is answered by one row and     *)
(* nothing else is; as many rows as announced are sent: the single pass    *)
(* over a file misses none.  The line sent is the line that holds the word *)
(* if no markup is above it.  Otherwise it is another one, as many lines   *)
(* higher as there are lines of markup above, since rows are numbered with *)
(* the markup here and without it in the index (trie.c:29-33,              *)
(* functions.c:81-100, childMessages.c:39-86).                             *)
AnswerExact ==
  pc = "free" =>
    /\ Shown = UNION {ShownFor(w) : w \in Range(query)}
    /\ Len(sent) = merged.df
    /\ \A i \in 1..Len(sent) : Len(sent[i].rows) = sent[i].fr

-----------------------------------------------------------------------------
(* README.md:2: the crawler "is capable for answering queries", one after  *)
(* another: no query reads a list that an earlier one has freed.           *)
QueriesKeepIndex ==
  pc = "combine" /\ next <= Len(query) => query[next] \notin freed
=============================================================================
