------------------------------ MODULE SocketServer ------------------------------
(***************************************************************************)
(* socket-server.c and socket-client.c of ALP-listings/chapter-5: each     *)
(* client writes the length of its text and the text to a local socket;    *)
(* the server prints them, one connection after the other, until a client  *)
(* has sent "quit".  A text is short enough to be written, and read, at    *)
(* once.                                                                   *)
(***************************************************************************)
EXTENDS Naturals, Sequences
LOCAL INSTANCE Functions

CONSTANTS Clients, Quitters,  \* the clients, and those whose text is "quit"
          Slow                \* those that need not come to an end

VARIABLES server,   \* "setup", "accept", "length", "text", "close", "returned",
                    \* "adrift" (serving no connection) or "crashed"
          serving,  \* the client being served
          quit,     \* client_sent_quit_message
          backlog,  \* connections made and not accepted
          client,   \* client -> "start", "connected", "length", "text" or "closed"
          wire,     \* client -> what it has written and was not read
          printed   \* whose text was printed; "junk" for what malloc gave

sockVars == <<server, serving, quit, backlog, client, wire, printed>>

Init == /\ server = "setup" /\ quit = FALSE /\ backlog = <<>> /\ printed = <<>>
        /\ serving \in Clients
        /\ wire = [c \in Clients |-> <<>>] /\ client = [c \in Clients |-> "start"]

Step(from, to) == server = from /\ server' = to

(* socket, bind, listen: the name is free.                                 *)
Listen == Step("setup", "accept") /\ UNCHANGED <<serving, quit, backlog, client, wire, printed>>

(* accept is told of room for a name by a variable nobody has set.  A      *)
(* negative one makes it fail, and the connection it took is closed; the   *)
(* -1 it returns is served like any other.                                 *)
Accept == /\ backlog # <<>> /\ backlog' = Tail(backlog)
          /\ \/ Step("accept", "length") /\ serving' = Head(backlog)
             \/ Step("accept", "adrift") /\ UNCHANGED serving
          /\ UNCHANGED <<quit, client, wire, printed>>

(* read of -1 is -1 and not the 0 that ends the loop: server prints what   *)
(* malloc gives it, over and over, unless that is NULL or reads "quit".    *)
Drifts == /\ printed' = IF "junk" \in Range(printed) THEN printed ELSE Append(printed, "junk")
          /\ \/ Step("adrift", "adrift") /\ UNCHANGED quit
             \/ Step("adrift", "crashed") /\ UNCHANGED quit
             \/ Step("adrift", "close") /\ quit' = TRUE
          /\ UNCHANGED <<serving, backlog, client, wire>>

Readable == wire[serving] # <<>> \/ client[serving] = "closed"
Take     == wire' = [wire EXCEPT ![serving] = IF @ = <<>> THEN @ ELSE Tail(@)]

(* No bytes: the client has closed the connection.  A read of a connection *)
(* does not fail, the server having written nothing to it.                 *)
ReadLength == /\ Readable /\ Take
              /\ Step("length", IF wire[serving] = <<>> THEN "close" ELSE "text")
              /\ UNCHANGED <<serving, quit, backlog, client, printed>>

(* The text is compared with "quit" after it was freed, when something     *)
(* else may stand there: the server may miss it; and it may find it where  *)
(* no text came.                                                           *)
ReadText == /\ Readable /\ Take
            /\ printed' = Append(printed, IF wire[serving] = <<>> THEN "junk" ELSE serving)
            /\ \/ Step("text", "length") /\ UNCHANGED quit
               \/ /\ serving \in Quitters \/ wire[serving] = <<>>
                  /\ Step("text", "close") /\ quit' = TRUE
            /\ UNCHANGED <<serving, backlog, client>>

(* Mutation: the next connection is not waited for. *)
CloseOnce == /\ Step("close", "returned")
             /\ UNCHANGED <<serving, quit, backlog, client, wire, printed>>

(* close, and while (!client_sent_quit_message); then the socket and its   *)
(* file are removed.                                                       *)
CloseConnection == /\ Step("close", IF quit THEN "returned" ELSE "accept")
                   /\ UNCHANGED <<serving, quit, backlog, client, wire, printed>>

-------------------------------------------------------------------------------
Queued(c)  == \E i \in DOMAIN backlog : backlog[i] = c
Accepted(c) == c = serving /\ server \in {"length", "text"}

Goes(c, from, to) == client[c] = from /\ client' = [client EXCEPT ![c] = to]

(* Without a listening socket connect fails, which nobody looks at; nor do *)
(* the writes that then come to nothing.                                   *)
Connect(c) == /\ IF server \in {"setup", "returned", "crashed"} THEN Goes(c, "start", "closed") /\ UNCHANGED backlog
                 ELSE Goes(c, "start", "connected") /\ backlog' = Append(backlog, c)
              /\ UNCHANGED <<server, serving, quit, wire, printed>>

(* To a connection the server has closed a write is the client's end.      *)
Write(c, from, what) == /\ IF Queued(c) \/ Accepted(c)
                           THEN Goes(c, from, what) /\ wire' = [wire EXCEPT ![c] = Append(@, what)]
                           ELSE Goes(c, from, "closed") /\ UNCHANGED wire
                        /\ UNCHANGED <<server, serving, quit, backlog, printed>>

WriteText(c) == Write(c, "connected", "length") \/ Write(c, "length", "text")

CloseSocket(c) == Goes(c, "text", "closed") /\ UNCHANGED <<server, serving, quit, backlog, wire, printed>>

(* A client may be killed.                                                 *)
Dies(c) == /\ client[c] \in {"connected", "length"}
           /\ client' = [client EXCEPT ![c] = "closed"]
           /\ UNCHANGED <<server, serving, quit, backlog, wire, printed>>

Server    == Listen \/ Accept \/ Drifts \/ ReadLength \/ ReadText \/ CloseConnection
Client(c) == Connect(c) \/ WriteText(c) \/ CloseSocket(c)

Next == Server \/ \E c \in Clients : Client(c) \/ Dies(c)

Fairness == WF_sockVars(Server) /\ \A c \in Clients \ Slow : WF_sockVars(Client(c))

Spec == Init /\ [][Next]_sockVars /\ Fairness
-------------------------------------------------------------------------------
Printed(c) == \E i \in DOMAIN printed : printed[i] = c
Stuck      == server \in {"length", "text"} /\ serving \in Slow /\ client[serving] # "closed"
Lost       == server \in {"adrift", "crashed"}

(* A client that has written its text is printed, even if others die in    *)
(* the middle of theirs, unless the server has returned because of a quit, *)
(* waits for ever for one that is slow, as it serves one at a time, or has *)
(* lost a connection that accept did not like.                             *)
TextsPrinted == <>[](Stuck \/ Lost) \/ \A c \in Clients : client[c] = "text" ~> (Printed(c) \/ (server = "returned" /\ quit))
===============================================================================
