---------------------------- MODULE HttpExchange ----------------------------
(***************************************************************************)
(* One request and its answer: a crawler thread (GET, ReceiveResponse and  *)
(* check_links of crawler_functions.c) and a server thread (read_request   *)
(* and send_response of server_functions.c) over a connection.  Both write *)
(* chunks of BUFFERSIZE bytes, padded with zeros, and both take it that a  *)
(* read gives back one such chunk; a stream owes them no more than some    *)
(* bytes in their order.                                                   *)
(*                                                                         *)
(* Text is a sequence of symbols, pieces of a word small enough that it    *)
(* makes no difference to the code where in a piece a read ends.  A symbol *)
(* stands for the blanks and line ends that follow it, too.  Lines without *)
(* effect (Date, Server, Host) are left out.                               *)
(***************************************************************************)
EXTENDS Naturals, Sequences, FiniteSets, SequencesExt

CONSTANTS
  BUFFERSIZE,   \* length of a chunk in symbols
  Names,        \* names of pages
  Spelling,     \* Spelling[n]: the two symbols a name consists of
  Text,         \* Text[n]: the lines of page n, for the pages that exist
  Forbidden,    \* pages that exist and cannot be read
  Storable      \* names fopen finds a place for in save_dir, after makedir

Nul == "nul"
LinkStart == <<"<a", " href=\"">>
Quote == "\">"
Up == <<"..", "/">>
Reserved == {Nul, "<a", " href=\"", Quote, "..", "/", "Ge", "t", "HTTP/1.1",
             "\r\n", "20", "0", "40", "3", "4", "Content-Length:", "12", "34",
             "html"}

(* makedir makes the first directory of a name and no other, and for a name *)
(* without one a directory of that very name, which cannot be opened for   *)
(* writing: only names of the form siteX/pageX_Y.html can be stored.       *)
ASSUME StorableAssumption == Storable \subseteq Names
ASSUME SizeAssumption == BUFFERSIZE \in Nat /\ BUFFERSIZE >= 8
ASSUME PagesAssumption ==
  /\ DOMAIN Text \subseteq Names
  /\ Forbidden \subseteq Names \ DOMAIN Text
  /\ DOMAIN Spelling = Names
  /\ \A n \in Names :
       /\ Spelling[n] = <<Spelling[n][1], Spelling[n][2]>>
       /\ ToSet(Spelling[n]) \cap Reserved = {}
  /\ \A m, n \in Names : Spelling[m] = Spelling[n] => m = n
  /\ \A n \in DOMAIN Text :
       /\ Text[n] \in Seq(ToSet(Text[n]))
       /\ \A line \in ToSet(Text[n]) :
            line \in Seq(ToSet(line)) /\ line # <<>> /\ Nul \notin ToSet(line)

VARIABLES
  asked,    \* the page the crawler asks for
  stream,   \* stream[e]: written to end e and not read yet
  buffer,   \* buffer[e]: the array that end e reads into
  cpc,      \* label of the crawler thread
  fp,       \* the file opened for the page: FALSE for NULL
  saved,    \* what has been written to it
  found,    \* the links handed to JQ_Addjob, in order
  length,   \* the variable length of ReceiveResponse, or what it returned
  spc,      \* label of the server thread; "nofile": its process is dead
  file,     \* what read_request returns; Unset until it is assigned
  rest,     \* lines of the page still to be sent
  short     \* ends that got less than a chunk from a read (for properties)

crawlerVars == <<cpc, fp, saved, found, length>>
serverVars == <<spc, file, rest>>
vars == <<asked, stream, buffer, crawlerVars, serverVars, short>>

Ends == {"crawler", "server"}
Unset == <<"unset">>
Blank == [i \in 1..BUFFERSIZE |-> Nul]

(* The piece in an array of zeros, as it is written. *)
Chunk(piece) ==
  [i \in 1..BUFFERSIZE |-> IF i <= Len(piece) THEN piece[i] ELSE Nul]

(* The text before the first symbol x, or all of it. *)
Before(text, x) ==
  SubSeq(text, 1, Min({i \in DOMAIN text : text[i] = x} \cup {Len(text) + 1}) - 1)
UpTo(text, n) == SubSeq(text, 1, Min({n, Len(text)}))

Visible_Array(bytes) == bytes
(* A C string: what is before the first zero. *)
Visible(bytes) == Before(bytes, Nul)

Header == <<"HTTP/1.1", "20", "0", "Content-Length:", "12", "34">>
Request(n) == Chunk(<<"Ge", "t">> \o Spelling[n] \o <<"HTTP/1.1", "\r\n", "\r\n">>)

Init ==
  /\ asked \in Names
  /\ stream = [e \in Ends |-> <<>>]
  /\ buffer = [e \in Ends |-> Blank]
  /\ cpc = "get" /\ fp = FALSE /\ saved = <<>> /\ found = <<>>
  /\ length = "undefined"
  /\ spc = "read" /\ file = Unset /\ rest = <<>>
  /\ short = {}

-----------------------------------------------------------------------------
(* The stream.  An operator X_Y just before X is a defect of X, used to    *)
(* check that the properties would notice it; no action uses it.           *)

(* The array of end e after a read of n symbols into it. *)
Received(e, n) ==
  [i \in 1..BUFFERSIZE |-> IF i <= n THEN stream[e][i] ELSE buffer[e][i]]

Cleared_Kept(e, n) == [buffer EXCEPT ![e] = Received(e, n)]
(* bzero after the chunk has been used. *)
Cleared(e, n) == [buffer EXCEPT ![e] = Blank]

(* read(2) by end e: from one symbol to as many as there are. *)
Read(e, n) ==
  /\ n <= Len(stream[e])
  /\ stream' = [stream EXCEPT ![e] = SubSeq(@, n + 1, Len(@))]
  /\ buffer' = Cleared(e, n)
  /\ short' = IF n < BUFFERSIZE THEN short \cup {e} ELSE short

Write(e, bytes) == stream' = [stream EXCEPT ![e] = @ \o bytes]

-----------------------------------------------------------------------------
(* The server thread.                                                      *)

EndOfRequest_OwnLine(text) == text = <<"\r\n">>
(* strstr(request2,"\r\n\r\n").  found_LF never counts: it takes a full    *)
(* chunk that ends in a line end, and GET's ends in zeros.                 *)
EndOfRequest(text) ==
  \E i \in 1..(Len(text) - 1) : text[i] = "\r\n" /\ text[i + 1] = "\r\n"

(* The word after Get. *)
PageOf(text) == SubSeq(UpTo(text, 4), 3, Len(UpTo(text, 4)))

(* One turn of the loop of read_request.  strtok gives NULL if there is no *)
(* word or none after Get, and strcmp or strcpy do not survive that.       *)
ReadRequest(n) ==
  /\ spc = "read"
  /\ Read("server", n)
  /\ LET text == Visible(Received("server", n))
         get == IsPrefix(<<"Ge", "t">>, text)
     IN IF text = <<>> \/ (get /\ Len(text) = 2)
        THEN spc' = "crashed" /\ UNCHANGED file
        ELSE /\ file' = IF get THEN PageOf(text) ELSE file
             /\ spc' = IF EndOfRequest(text) THEN "respond" ELSE "read"
  /\ UNCHANGED <<asked, crawlerVars, rest>>

(* The page the request names, if the server can answer it with 200. *)
Served == {n \in DOMAIN Text : file = Spelling[n]}

(* read_request returns memory nobody has written to: empty, when the path *)
(* is that of the root directory, or with an earlier page's name in it.    *)
ReuseMemory ==
  /\ spc = "respond"
  /\ file = Unset
  /\ file' \in {<<>>} \cup {Spelling[n] : n \in DOMAIN Text}
  /\ UNCHANGED <<asked, stream, buffer, crawlerVars, spc, rest, short>>

(* send_response_200: the header.  The root directory has no lines. *)
SendOk ==
  /\ spc = "respond"
  /\ Served # {} \/ file = <<>>
  /\ Write("crawler", Chunk(Header))
  /\ rest' = IF file = <<>> THEN <<>> ELSE Text[CHOOSE n \in Served : TRUE]
  /\ spc' = "send"
  /\ UNCHANGED <<asked, buffer, crawlerVars, file, short>>

(* send_response_200 with no descriptor left for the page, served pages     *)
(* never being closed: fseek gets NULL, and the process is gone.           *)
OpenFails ==
  /\ spc = "respond"
  /\ Served # {} \/ file = <<>>
  /\ spc' = "nofile"
  /\ UNCHANGED <<asked, stream, buffer, crawlerVars, file, rest, short>>

(* send_response_304, for 403, and send_response_404: one write. *)
SendError ==
  /\ spc = "respond"
  /\ file \notin {Unset, <<>>}
  /\ Served = {}
  /\ Write("crawler", Chunk(<<"HTTP/1.1", "40",
       IF \E n \in Forbidden : file = Spelling[n] THEN "3" ELSE "4", "html">>))
  /\ spc' = "close"
  /\ UNCHANGED <<asked, buffer, crawlerVars, file, rest, short>>

(* fgets: a line, or as much of it as the array holds. *)
Piece(line) == UpTo(line, BUFFERSIZE - 1)

(* send_response_200: a line of the page.  What is written to a crawler    *)
(* that has exited is lost.                                                *)
SendLine ==
  /\ spc = "send"
  /\ rest # <<>>
  /\ LET piece == Piece(Head(rest))
         left == SubSeq(Head(rest), Len(piece) + 1, Len(Head(rest)))
     IN /\ rest' = (IF left = <<>> THEN <<>> ELSE <<left>>) \o Tail(rest)
        /\ IF cpc = "crashed" THEN UNCHANGED stream
                              ELSE Write("crawler", Chunk(piece))
  /\ UNCHANGED <<asked, buffer, crawlerVars, spc, file, short>>

(* A write to a crawler that has exited: SIGPIPE, which nobody handles. *)
Sigpipe ==
  /\ spc = "send"
  /\ rest # <<>>
  /\ cpc = "crashed"
  /\ spc' = "killed"
  /\ UNCHANGED <<asked, stream, buffer, crawlerVars, file, rest, short>>

(* close(fd).  Unread zeros of the request make it a reset, and what is    *)
(* still on its way to the crawler may not get there.                      *)
CloseServer ==
  /\ spc = "close" \/ (spc = "send" /\ rest = <<>>)
  /\ spc' = "closed"
  /\ \E k \in 0..Len(stream["crawler"]) :
       /\ stream["server"] = <<>> => k = Len(stream["crawler"])
       /\ stream' = [stream EXCEPT !["crawler"] = SubSeq(@, 1, k)]
  /\ UNCHANGED <<asked, buffer, crawlerVars, file, rest, short>>

-----------------------------------------------------------------------------
(* The crawler thread.                                                     *)

GET ==
  /\ cpc = "get"
  /\ cpc' = "header"
  /\ Write("server", Request(asked))
  /\ UNCHANGED <<asked, buffer, fp, saved, found, length, serverVars, short>>

Refused_Only404(status) == status = <<"40", "4">>
Refused(status) == status \in {<<"40", "4">>, <<"40", "3">>}

Opened_Forgotten(status) == FALSE
(* The status line that makes ReceiveResponse open the file. *)
Opened(status) == status = <<"20", "0">>

(* The number after Content-Length, which a read may have cut short. *)
LengthIn(text) ==
  CASE Len(text) < 4 -> "undefined" [] Len(text) = 5 -> "cut" [] OTHER -> "whole"

(* chunk==0: the words of the first read.  Without a status strcmp, and    *)
(* without a number atoi, gets NULL.  A status that is cut is no status.   *)
ReadHeader(n) ==
  /\ cpc = "header"
  /\ Read("crawler", n)
  /\ LET text == Visible(Received("crawler", n))
         status == SubSeq(UpTo(text, 3), 2, Len(UpTo(text, 3)))
     IN IF Len(text) = 1 \/ (Opened(status) /\ Len(text) = 4)
        THEN cpc' = "crashed" /\ UNCHANGED <<fp, length>>
        ELSE /\ fp' = (Opened(status) /\ asked \in Storable)
             /\ cpc' = IF Refused(status) THEN "done" ELSE "data"
             /\ length' = CASE Refused(status) -> "-1"
                            [] Opened(status) -> LengthIn(text)
                            [] OTHER -> length
  /\ UNCHANGED <<asked, saved, found, serverVars>>

(* check_links: what is between the quotes of every link of the text, or   *)
(* from the quote to the end of the text.                                  *)
LinkPlaces(text) ==
  {i \in 1..(Len(text) - 1) : <<text[i], text[i + 1]>> = LinkStart}
Target(text, i) == Before(SubSeq(text, i + 2, Len(text)), Quote)
(* No page has href="": strtok would skip the second quote, too, and give  *)
(* the text behind it.  webcreator.sh names a page in every link.          *)
ASSUME LinksAssumption ==
  \A n \in DOMAIN Text : \A line \in ToSet(Text[n]) : \A i \in LinkPlaces(line) :
    i + 2 <= Len(line) => line[i + 2] # Quote
(* A leading "../" is dropped. *)
Stripped(target) ==
  IF IsPrefix(Up, target) THEN SubSeq(target, 3, Len(target)) ELSE target
Targets(text) ==
  FlattenSeq([i \in DOMAIN text |->
     IF i \in LinkPlaces(text) THEN <<Target(text, i)>> ELSE <<>>])

(* The links of the text as far as the search gets: if nothing follows the *)
(* quote strtok gives NULL; if nothing follows "../" the search starts     *)
(* again at the same link, for ever.                                       *)
check_links(text) ==
  LET targets == Targets(text)
  IN UpTo(targets, Min({k \in DOMAIN targets : targets[k] \in {<<>>, Up}}
                       \cup {Len(targets)}))

(* Any further read, the header's rest included: check_links first, then   *)
(* fputs, which does not survive a NULL file.                              *)
ReadData(n) ==
  /\ cpc = "data"
  /\ Read("crawler", n)
  /\ \E text \in {Visible(Received("crawler", n))} : \E seen \in {check_links(text)} :
       LET bad == seen # <<>> /\ Last(seen) \in {<<>>, Up}
       IN /\ found' = found \o [k \in DOMAIN seen |-> Stripped(seen[k])]
          /\ cpc' = IF bad /\ Last(seen) = Up THEN "looping"
                    ELSE IF bad \/ ~fp THEN "crashed" ELSE "data"
          /\ saved' = IF bad \/ ~fp THEN saved ELSE saved \o text
  /\ UNCHANGED <<asked, fp, length, serverVars>>

(* read gives 0, or fails after a reset: the file and the socket are       *)
(* closed and length is returned, whatever it is by then.                  *)
ReadEnd ==
  /\ cpc \in {"header", "data"}
  /\ stream["crawler"] = <<>>
  /\ spc \in {"closed", "crashed", "nofile"}
  /\ cpc' = "done"
  /\ UNCHANGED <<asked, stream, buffer, fp, saved, found, length, serverVars, short>>

-----------------------------------------------------------------------------
CrawlerStep ==
  GET \/ ReadEnd \/ \E n \in 1..BUFFERSIZE : ReadHeader(n) \/ ReadData(n)
ServerStep ==
  \/ \E n \in 1..BUFFERSIZE : ReadRequest(n)
  \/ ReuseMemory \/ SendOk \/ OpenFails \/ SendError \/ SendLine \/ Sigpipe \/ CloseServer

Next == CrawlerStep \/ ServerStep

Spec == Init /\ [][Next]_vars

(* Each process runs whenever it can; what is written arrives. *)
FairSpec == Spec /\ WF_vars(CrawlerStep) /\ WF_vars(ServerStep)

-----------------------------------------------------------------------------
Symbols ==
  Reserved \cup (UNION {ToSet(Spelling[n]) : n \in Names})
           \cup (UNION {UNION {ToSet(line) : line \in ToSet(Text[n])} :
                         n \in DOMAIN Text})

TypeOK ==
  /\ asked \in Names
  /\ stream \in [Ends -> Seq(Symbols)]
  /\ buffer \in [Ends -> Seq(Symbols)]
  /\ cpc \in {"get", "header", "data", "done", "crashed", "looping"}
  /\ fp \in BOOLEAN
  /\ saved \in Seq(Symbols \ {Nul})
  /\ found \in Seq(Seq(Symbols \ {Nul}))
  /\ length \in {"undefined", "cut", "whole", "-1"}
  /\ spc \in {"read", "respond", "send", "close", "closed", "crashed",
              "killed", "nofile"}
  /\ file = Unset \/ file \in Seq(Symbols \ {Nul})
  /\ rest \in Seq(Seq(Symbols \ {Nul}))
  /\ short \subseteq Ends

(* What the page is and what it links to, in one piece. *)
WholeText == [n \in DOMAIN Text |-> FlattenSeq(Text[n])]
LinksOf ==
  [n \in DOMAIN Text |->
     LET targets == Targets(WholeText[n])
     IN [k \in DOMAIN targets |-> Stripped(targets[k])]]

(* Every link lies on one line that fits into the array, so that fgets     *)
(* keeps it whole; the pages of webcreator.sh are of this kind.            *)
KeepsLinks(line) ==
  /\ LinkPlaces(line) # {} => Len(line) < BUFFERSIZE
  /\ \A i \in LinkPlaces(line) :
       /\ \E j \in (i + 2)..Len(line) : line[j] = Quote
       /\ Target(line, i) \notin {<<>>, Up}
  /\ line[Len(line)] # "<a"
LinksFit == [n \in DOMAIN Text |-> \A line \in ToSet(Text[n]) : KeepsLinks(line)]

(* When every read gives a whole chunk, the file saved is the file served, *)
(* lines longer than a chunk included, each of its links is followed once  *)
(* and in order, and its length is returned; for 404 and 403 nothing is    *)
(* saved and -1 is returned; and of a server that died when it opened the  *)
(* page nothing is saved and whatever was in length is returned            *)
(* (crawler_functions.c:52-102).                                           *)
ExchangeExact ==
  cpc = "done" /\ short = {} =>
    IF asked \notin DOMAIN Text
    THEN ~fp /\ saved = <<>> /\ found = <<>> /\ length = "-1"
    ELSE IF spc = "nofile"
    THEN ~fp /\ saved = <<>> /\ found = <<>> /\ length = "undefined"
    ELSE /\ fp = (asked \in Storable) /\ saved = WholeText[asked]
         /\ LinksFit[asked] => found = LinksOf[asked]
         /\ length = "whole"

(* Neither process dies by what it reads, nor spins on a link, except when *)
(* a read gave less than a chunk, a link lies across the end of one, or a  *)
(* page is there whose name the crawler cannot open a file for: no other   *)
(* NULL reaches strcmp, strcpy, atoi, fputs or token[0]                    *)
(* (crawler_functions.c:31-33, 67-94, server_functions.c:157-165).  That   *)
(* the server dies at fseek, whatever it reads, once it is out of          *)
(* descriptors (label "nofile") is not excluded.                           *)
DeathOnlyByCut ==
  cpc \in {"crashed", "looping"} \/ spc \in {"crashed", "killed"}
    => \/ short # {}
       \/ asked \in DOMAIN Text \ Storable
       \/ \E n \in Served : ~LinksFit[n]

(* What s still needs of t: the place in t of its last symbol when each is *)
(* looked for behind the one before, Len(t) + 1 if there is none.          *)
PlaceOfLast(s, t) ==
  LET place[k \in 0..Len(s)] ==
        IF k = 0 THEN 0
        ELSE Min({j \in (place[k - 1] + 1)..Len(t) : t[j] = s[k]} \cup {Len(t) + 1})
  IN place[Len(s)]
IsPartOf(s, t) == PlaceOfLast(s, t) <= Len(t)

(* What the server has sent or will send, without the zeros. *)
Sent ==
  Header \o (IF Served = {} THEN <<>> ELSE WholeText[CHOOSE n \in Served : TRUE])

(* However reads cut the response, nothing is saved twice, out of order or *)
(* from elsewhere: the file is a part of what was sent.  And each link     *)
(* followed is the beginning of a link of that page or of its "../".  So   *)
(* a cut may lose pages and ask for ones that do not exist, but it never   *)
(* joins two pieces of text (crawler_functions.c:19-37, 57-102).           *)
NothingInvented ==
  /\ IsPartOf(saved, Sent)
  /\ \A k \in DOMAIN found :
       \/ IsPrefix(found[k], Up)
       \/ \E n \in Served : \E link \in ToSet(LinksOf[n]) : IsPrefix(found[k], link)

(* The exchange comes to an end, however the response is cut, if the       *)
(* server gets the request in one read; with the request cut between its   *)
(* two line ends both processes wait for the other                         *)
(* (server_functions.c:155-177, crawler_functions.c:66).                   *)
ExchangeEnds ==
  <>(cpc \in {"done", "crashed", "looping"} \/ "server" \in short)
=============================================================================
