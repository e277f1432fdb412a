------------------------------ MODULE HttpRequest ------------------------------
(***************************************************************************)
(* handle_connection and handle_get of ALP-listings/chapter-11/server.c    *)
(* with module_open and module_close of module.c: what a child of          *)
(* HttpServer does with its connection, the page (Pages) included.         *)
(*                                                                         *)
(* A request is a sequence of cells: a word is two, <<word, 1>> and        *)
(* <<word, 2>>, so that a read may end inside it; an end of line is CrLf.  *)
(* The buffer keeps what a shorter read leaves of the one before.          *)
(***************************************************************************)
EXTENDS Pages, FiniteSets

CONSTANTS Requests,   \* what clients send
          BufSize,    \* sizeof (buffer), in cells: 256 bytes
          Libraries,  \* the .so files: page -> whether it has module_generate
          Malformed   \* urls without a leading slash, or with another one

VARIABLES request, unread, buffer, words, cuts

connVars == <<request, unread, buffer, words, cuts>>
reqVars  == <<connVars, pageVars>>

CrLf == <<"CRLF", 0>>
Nul  == <<"NUL", 0>>
Junk == <<"junk", 0>>  \* what the stack holds where nothing was stored

Init == /\ PagesInit
        /\ at = "read" /\ url = "junk"
        /\ end \in {"waits", "closes", "resets"}
        /\ request \in Requests /\ unread = request
        /\ buffer = [i \in 1..BufSize |-> Junk]
        /\ words = <<>>
        /\ cuts = {}

(* sscanf "%s %s %s": any white space separates, and the last word may be  *)
(* cut by the end of the read.                                             *)
Heads(cells)  == {i \in DOMAIN cells : cells[i][2] = 1}
Nth(n, heads) == CHOOSE i \in heads : Cardinality({h \in heads : h < i}) = n - 1

Words(cells) == LET heads == Heads(cells)
                    n == Cardinality(heads)
                IN  [i \in 1..(IF n > 3 THEN 3 ELSE n) |->
                       IF Nth(i, heads) = Len(cells) THEN "cut" ELSE cells[Nth(i, heads)][1]]

Overlay(cells) == [i \in 1..BufSize |-> IF i <= Len(cells) THEN cells[i] ELSE buffer[i]]

(* The first read takes at most all but one cell, for a NUL.               *)
Read == /\ at = "read"
        /\ \/ /\ end # "waits" /\ unread = <<>>
              /\ at' = IF end = "closes" THEN "done" ELSE "exit1"
              /\ UNCHANGED connVars
           \/ /\ end = "resets" /\ at' = "exit1" /\ UNCHANGED connVars
           \/ \E k \in 1..(BufSize - 1) :
                /\ k <= Len(unread)
                /\ buffer' = Overlay(Append(SubSeq(unread, 1, k), Nul))
                /\ words' = Words(SubSeq(unread, 1, k))
                /\ unread' = SubSeq(unread, k + 1, Len(unread))
                /\ cuts' = {k}
                /\ at' = "scan"
                /\ UNCHANGED request
        /\ UNCHANGED <<url, sent, end, df, sigchld, rows, vecSize>>

(* strstr stops at the first NUL; without one, or past what was stored, it *)
(* may find anything.                                                      *)
Text == LET nuls == {i \in 1..BufSize : buffer[i] = Nul}
        IN  1..(IF nuls = {} THEN BufSize ELSE CHOOSE i \in nuls : \A j \in nuls : i <= j)

(* Mutation: the blank line is looked for at the start of the buffer only. *)
FoundFirst == buffer[1] = CrLf /\ buffer[2] = CrLf

Found == \E i \in Text : i + 1 \in Text /\ buffer[i] = CrLf /\ buffer[i + 1] = CrLf
Strays == \A i \in Text : buffer[i] # Nul

(* A last read that failed (the stray bytes were there before it) makes    *)
(* the child give up.                                                      *)
Scan == /\ at = "scan"
        /\ \/ Found \/ Strays
        /\ \/ at' = "answer"
           \/ ~Found /\ end = "resets" /\ at' = "done"
        /\ UNCHANGED <<sent, connVars>> /\ Plain

(* The loop: at the end of the connection, or after an error, read returns *)
(* without having stored anything and the same buffer is searched again.   *)
ReadMore == /\ at = "scan" /\ ~Found
            /\ \/ end = "closes" /\ unread = <<>> /\ UNCHANGED connVars
               \/ end = "resets" /\ UNCHANGED connVars
               \/ \E k \in 1..BufSize :
                    /\ k <= Len(unread)
                    /\ buffer' = Overlay(SubSeq(unread, 1, k))
                    /\ unread' = SubSeq(unread, k + 1, Len(unread))
                    /\ cuts' = cuts \cup {Len(request) - Len(unread')}
                    /\ UNCHANGED <<request, words>>
            /\ UNCHANGED <<at, sent>> /\ Plain

(* dlopen and dlsym: a library without the symbol is closed again.         *)
ModuleOpen(page) == page \in DOMAIN Libraries /\ Libraries[page]

HandleGet(page) == IF page \in Malformed \/ ~ModuleOpen(page) THEN "not_found" ELSE "ok"

Understood(w) == Len(w) = 3 /\ w[3] \in {"HTTP/1.0", "HTTP/1.1"}

(* Mutation: each read is parsed, not only the first. *)
AnswerLast(w) == LET v == Words(buffer)
                 IN  IF ~Understood(v) THEN "bad_request" ELSE IF v[1] # "GET" THEN "bad_method" ELSE HandleGet(v[2])

(* The protocol is tested before the method; a word sscanf did not find is *)
(* whatever the array held.                                                *)
Answer(w) == IF ~Understood(w) THEN "bad_request" ELSE IF w[1] # "GET" THEN "bad_method" ELSE HandleGet(w[2])

(* Of bad_request_response, a pointer, only sizeof bytes are sent.         *)
Respond == /\ at = "answer"
           /\ LET a == Answer(words)
              IN  /\ url' = IF a = "ok" THEN words[2] ELSE url
                  /\ Sends(<<IF a = "bad_request" THEN "HTTP/1.0" ELSE a>>, IF a = "ok" THEN "generate" ELSE "done")
           /\ UNCHANGED <<end, df, sigchld, rows, vecSize, connVars>>

(* module_close, close and exit.                                           *)
Finish == at = "done" /\ at' = "exit0" /\ UNCHANGED <<sent, connVars>> /\ Plain

Page == Generate /\ UNCHANGED connVars

Next == Read \/ Scan \/ ReadMore \/ Respond \/ Page \/ Finish

Spec == Init /\ [][Next]_reqVars /\ WF_reqVars(Next)
-------------------------------------------------------------------------------
TypeOK == /\ at \in Ended \cup {"read", "scan", "answer", "generate", "fork", "forked", "waitpid",
                                "page_end", "free", "done"}
          /\ Len(buffer) = BufSize /\ cuts \subseteq 1..Len(request) /\ Len(words) <= 3

Blank(i) == i + 1 <= Len(request) /\ request[i] = CrLf /\ request[i + 1] = CrLf

(* A request whose first three words arrive whole in the first read gets   *)
(* the answer the whole of it deserves, however the rest of it is cut into *)
(* reads that overwrite one another (server.c:145-178); the bad ones get 8 *)
(* bytes.                                                                  *)
AnswersTheRequest ==
  sent # <<>> /\ "cut" \notin {words[i] : i \in DOMAIN words} /\ Len(words) = Len(Words(request)) =>
    LET w == Words(request)
    IN  /\ sent[1] = "HTTP/1.0" <=> Len(w) < 3 \/ w[3] \notin {"HTTP/1.0", "HTTP/1.1"}
        /\ sent[1] = "ok" => w[1] = "GET" /\ w[2] = url /\ Libraries[w[2]]
        /\ sent[1] = "bad_method" <=> sent[1] # "HTTP/1.0" /\ w[1] # "GET"

(* A client that was told 200 OK and whose child comes to its end (or dies *)
(* in the free of processes.c:317) has a page from start to end; a page of *)
(* processes longer than writev takes is missing altogether.               *)
PageWhole ==
  /\ at \in {"exit0", "crashed"} /\ sent # <<>> /\ sent[1] = "ok" =>
       \/ sent[Len(sent)] \in {"end", "error_page"} /\ (sent[2] = "start" \/ Len(sent) = 2)
       \/ url = "/processes" /\ sent = <<"ok">> /\ Len(rows) + 2 > IovMax
  /\ at = "exit0" /\ url = "/diskfree" /\ end = "waits" => Len(sent) = 4 /\ sent[3] \in {"body", "no_df"}

(* vec always has room for the next row and the end of the page            *)
(* (processes.c:290-308).                                                  *)
VectorHolds == Len(rows) + 2 <= vecSize

(* The child comes to an end when the blank line is not cut by the end of  *)
(* a read; nothing else ends the loop, the end of the connection included. *)
EndsAtBlankLine ==
  (unread = <<>> /\ \E i \in 1..Len(request) : Blank(i) /\ i \notin cuts) ~> at \in Ended

(* "If it did, there's a problem with the connection, so give up"          *)
(* (server.c:154-155): a connection that has ended ends its child.         *)
GivesUp == (end # "waits" /\ unread = <<>>) ~> at \in Ended
===============================================================================
