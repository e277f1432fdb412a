--------------------------------- MODULE MCHttp ---------------------------------
(***************************************************************************)
(* The server that accepts connections (HttpServer) and what a child does  *)
(* with one (HttpRequest, Pages): `program' says which module runs, the    *)
(* variables of the other rest.                                            *)
(***************************************************************************)
EXTENDS HttpServer

CONSTANTS Requests, BufSize, MaxProcesses, VecSize, IovMax

(* processes.c's vec has room for the start and the end of the page.       *)
ASSUME PageAssumption == VecSize \in Nat /\ VecSize >= 2 /\ IovMax \in Nat
ASSUME RequestsAssumption == (\A r \in Requests : r \in Seq(STRING \X Nat)) /\ BufSize \in Nat

VARIABLES program, rat, url, sent, end, df, sigchld, rows, vecSize, request, unread, buffer, words, cuts

Word(w) == <<<<w, 1>>, <<w, 2>>>>
Line    == <<<<"CRLF", 0>>>>

Request(method, page, protocol) == Word(method) \o Word(page) \o Word(protocol) \o Line \o Line

(* Good requests for every page, pages that are not there or malformed, a  *)
(* wrong method, a wrong protocol, a missing one, a header, a lone word.   *)
SampleRequests ==
  {Request("GET", p, "HTTP/1.0") : p \in {"/time", "/issue", "/diskfree", "/processes", "/none", "/libc", "time"}}
  \cup {Request("POST", "/time", "HTTP/1.1"), Request("GET", "/time", "HTCPCP/1.0"),
        Word("GET") \o Word("/time") \o Line \o Line, Word("GET"),
        Word("GET") \o Word("/time") \o Word("HTTP/1.1") \o Line \o Word("Host:") \o Line \o Line}

Libraries == [p \in {"/time", "/issue", "/diskfree", "/processes", "/libc"} |-> p # "/libc"]

R == INSTANCE HttpRequest WITH at <- rat, Malformed <- {"time"}

reqVars == <<rat, url, sent, end, df, sigchld, rows, vecSize, request, unread, buffer, words, cuts>>
allVars == <<program, serverVars, reqVars>>

ServerRests  == /\ at = "exited" /\ handling = FALSE /\ pending = FALSE /\ queue = <<>> /\ stopped = FALSE
                /\ current = CHOOSE c \in Clients : TRUE
                /\ conn = [c \in Clients |-> "refused"] /\ holders = [c \in Clients |-> {}]
                /\ child = [c \in Clients |-> "reaped"]
RequestRests == /\ rat = "none" /\ url = "junk" /\ sent = <<>> /\ end = "waits" /\ df = "none" /\ sigchld = FALSE
                /\ rows = <<>> /\ vecSize = VecSize /\ request = <<>> /\ unread = <<>> /\ buffer = <<>>
                /\ words = <<>> /\ cuts = {}

MCInit == \/ program = "server" /\ Init /\ RequestRests
          \/ program = "request" /\ R!Init /\ ServerRests

MCNext == /\ UNCHANGED program
          /\ \/ program = "server" /\ Next /\ UNCHANGED reqVars
             \/ program = "request" /\ R!Next /\ UNCHANGED serverVars

MCSpec == MCInit /\ [][MCNext]_allVars /\ Fairness /\ WF_reqVars(R!Next)

-------------------------------------------------------------------------------
(* HttpRequest: the request is answered as it deserves (server.c:145-178). *)
AnswersTheRequest == program = "request" => R!AnswersTheRequest

(* HttpRequest: a page is whole, in order, or missing altogether, and vec  *)
(* always has room for its next row (processes.c:290-308).                 *)
PageWhole == program = "request" => R!PageWhole /\ R!VectorHolds

(* HttpRequest: a blank line that is not cut ends the loop (server.c:152). *)
EndsAtBlankLine == R!EndsAtBlankLine

(* HttpRequest: the end of the connection ends the child (server.c:154).   *)
GivesUp == program = "request" /\ end # "waits" /\ unread = <<>> ~> rat \in R!Ended
===============================================================================
