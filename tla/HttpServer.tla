------------------------------ MODULE HttpServer ------------------------------
(***************************************************************************)
(* server_run of ALP-listings/chapter-11/server.c: a process that accepts  *)
(* connections and forks a child for each, with a SIGCHLD handler that     *)
(* calls wait once.  sigaction is called with no flags: accept is          *)
(* interrupted by the handler (EINTR), SIGCHLD is blocked while the        *)
(* handler runs and at most one is pending, and a child that is stopped    *)
(* sends it too.                                                           *)
(*                                                                         *)
(* Every client connects once and has at most one child, so both go by the *)
(* client's name.  What a child does between its first steps and the end   *)
(* of its connection is handle_connection, the module HttpRequest; for a   *)
(* client of Slow it need not return.                                      *)
(***************************************************************************)
EXTENDS Naturals, Sequences

CONSTANTS Clients,  \* the clients, each with one connection
          Slow,     \* those whose connection may stay open for ever
          Faults    \* whether socket, bind, listen, accept and fork may fail

ASSUME SlowAssumption == Slow \subseteq Clients /\ Faults \in BOOLEAN

VARIABLES at,        \* where server_run is
          current,   \* the connection in hand, when at is "fork" or "close"
          handling,  \* the handler has been entered and has not yet waited
          pending,   \* a SIGCHLD is pending
          queue,     \* connections made and not accepted
          conn,      \* client -> how far its connection is
          holders,   \* client -> processes with a descriptor of its connection
          child,     \* client -> the state of the process forked for it
          stopped    \* some child has been stopped by a signal (history)

serverVars == <<at, current, handling, pending, queue, conn, holders, child, stopped>>

Places      == {"setup", "accept", "fork", "close", "exited"}
Connections == {"away", "queued", "accepted", "refused"}
ChildStates == {"none", "started", "serving", "stopped", "closed", "zombie", "reaped"}

TypeOK == /\ at \in Places /\ current \in Clients /\ {handling, pending, stopped} \subseteq BOOLEAN
          /\ conn \in [Clients -> Connections] /\ child \in [Clients -> ChildStates]
          /\ holders \in [Clients -> SUBSET {"server", "child"}] /\ queue \in Seq(Clients)

Init == /\ at = "setup" /\ handling = FALSE /\ pending = FALSE /\ queue = <<>> /\ stopped = FALSE
        /\ current \in Clients
        /\ conn = [c \in Clients |-> "away"]
        /\ holders = [c \in Clients |-> {}]
        /\ child = [c \in Clients |-> "none"]

(* A child copies every descriptor of the server; the listening socket is  *)
(* open while the server or a child that has not closed its copy lives.    *)
Unstarted == {c \in Clients : child[c] = "started"}
Listening == at \in {"accept", "fork", "close"} \/ Unstarted # {}

(* A client connects: it is queued if somebody holds the listening socket. *)
Connect(c) == /\ conn[c] = "away"
              /\ conn' = [conn EXCEPT ![c] = IF Listening THEN "queued" ELSE "refused"]
              /\ queue' = IF Listening THEN Append(queue, c) ELSE queue
              /\ UNCHANGED <<at, current, handling, pending, holders, child, stopped>>

(* exit of the server, by system_error: its descriptors are closed.  When  *)
(* nobody else holds the listening socket the queued clients are reset.    *)
Refuse(held) == IF held = {} THEN /\ queue' = <<>>
                                  /\ conn' = [c \in Clients |-> IF conn[c] = "queued" THEN "refused" ELSE conn[c]]
                             ELSE UNCHANGED <<queue, conn>>

SystemError == /\ at' = "exited"
               /\ pending' = FALSE
               /\ holders' = [c \in Clients |-> holders[c] \ {"server"}]
               /\ child' = [c \in Clients |-> IF child[c] = "zombie" THEN "reaped" ELSE child[c]]
               /\ Refuse(Unstarted)
               /\ UNCHANGED <<current, handling, stopped>>

Runs == at # "exited" /\ ~handling

Setup == /\ at = "setup" /\ Runs
         /\ \/ at' = "accept" /\ UNCHANGED <<current, handling, pending, queue, conn, holders, child, stopped>>
            \/ Faults /\ SystemError

Accept == /\ at = "accept" /\ Runs
          /\ \/ /\ queue # <<>>
                /\ current' = Head(queue)
                /\ queue' = Tail(queue)
                /\ conn' = [conn EXCEPT ![Head(queue)] = "accepted"]
                /\ holders' = [holders EXCEPT ![Head(queue)] = {"server"}]
                /\ at' = "fork"
                /\ UNCHANGED <<handling, pending, child, stopped>>
             \/ Faults /\ SystemError

Fork == /\ at = "fork" /\ Runs
        /\ \/ /\ child' = [child EXCEPT ![current] = "started"]
              /\ holders' = [holders EXCEPT ![current] = @ \cup {"child"}]
              /\ at' = "close"
              /\ UNCHANGED <<current, handling, pending, queue, conn, stopped>>
           \/ Faults /\ SystemError

(* Mutation: the server keeps its copy of the connection open. *)
KeepConnection == /\ at = "close" /\ Runs
                  /\ at' = "accept"
                  /\ UNCHANGED <<current, handling, pending, queue, conn, holders, child, stopped>>

CloseConnection == /\ at = "close" /\ Runs
                   /\ holders' = [holders EXCEPT ![current] = @ \ {"server"}]
                   /\ at' = "accept"
                   /\ UNCHANGED <<current, handling, pending, queue, conn, child, stopped>>

(* clean_up_child_process.  A pending SIGCHLD interrupts the server        *)
(* wherever it is, accept included (EINTR: continue); wait takes any one   *)
(* dead child, returns at once when there are no children, and blocks when *)
(* all of them are alive.                                                  *)
Deliver == /\ pending /\ Runs
           /\ pending' = FALSE
           /\ handling' = TRUE
           /\ UNCHANGED <<at, current, queue, conn, holders, child, stopped>>

Zombies  == {c \in Clients : child[c] = "zombie"}
Children == {c \in Clients : child[c] \notin {"none", "reaped"}}

(* Mutation: one call of the handler takes all the dead. *)
ReapAll(c) == /\ child' = [d \in Clients |-> IF child[d] = "zombie" THEN "reaped" ELSE child[d]]
              /\ handling' = FALSE

Reap(c) == /\ child' = [child EXCEPT ![c] = "reaped"]
           /\ handling' = FALSE

Wait == /\ handling /\ at # "exited"
        /\ \/ \E c \in Zombies : Reap(c)
           \/ Children = {} /\ handling' = FALSE /\ UNCHANGED child
        /\ UNCHANGED <<at, current, pending, queue, conn, holders, stopped>>

(* The child closes stdin, stdout and its copy of the listening socket,    *)
(* handles the connection, closes it and exits.  Its death, and its being  *)
(* stopped, raise SIGCHLD; when the server is gone, init takes the dead.   *)
ChildStarts(c) == /\ child[c] = "started"
                  /\ child' = [child EXCEPT ![c] = "serving"]
                  /\ IF at = "exited" THEN Refuse(Unstarted \ {c}) ELSE UNCHANGED <<queue, conn>>
                  /\ UNCHANGED <<at, current, handling, pending, holders, stopped>>

ChildCloses(c) == /\ child[c] = "serving"
                  /\ child' = [child EXCEPT ![c] = "closed"]
                  /\ holders' = [holders EXCEPT ![c] = @ \ {"child"}]
                  /\ UNCHANGED <<at, current, handling, pending, queue, conn, stopped>>

ChildExits(c) == /\ child[c] = "closed"
                 /\ child' = [child EXCEPT ![c] = IF at = "exited" THEN "reaped" ELSE "zombie"]
                 /\ pending' = (at # "exited")
                 /\ UNCHANGED <<at, current, handling, queue, conn, holders, stopped>>

(* ^Z and fg, or any SIGSTOP and SIGCONT, in the middle of a connection.   *)
Stop(c) == /\ child[c] = "serving"
           /\ child' = [child EXCEPT ![c] = "stopped"]
           /\ stopped' = TRUE
           /\ pending' = (at # "exited")
           /\ UNCHANGED <<at, current, handling, queue, conn, holders>>

Continue(c) == /\ child[c] = "stopped"
               /\ child' = [child EXCEPT ![c] = "serving"]
               /\ pending' = (at # "exited")
               /\ UNCHANGED <<at, current, handling, queue, conn, holders, stopped>>

ServerStep == Setup \/ Accept \/ Fork \/ CloseConnection \/ Deliver \/ Wait
ChildStep(c) == ChildStarts(c) \/ ChildCloses(c) \/ ChildExits(c) \/ Continue(c)

Next == ServerStep \/ \E c \in Clients : Connect(c) \/ ChildStep(c) \/ Stop(c)

(* The scheduler runs the server and the children; no fault has to happen, *)
(* and a slow client's child need not come to the end of its connection.   *)
Fairness == /\ WF_serverVars(ServerStep /\ at' # "exited")
            /\ \A c \in Clients : WF_serverVars(ChildStarts(c) \/ ChildExits(c) \/ Continue(c))
            /\ \A c \in Clients \ Slow : WF_serverVars(ChildCloses(c))

Spec == Init /\ [][Next]_serverVars /\ Fairness
-------------------------------------------------------------------------------
(* The handler's wait (server.c:76) never blocks the server: unless a      *)
(* child has been stopped, there is a dead child to take for each SIGCHLD, *)
(* the one being handled and the one pending, however many coalesced.      *)
WaitNeverBlocks == ~stopped => /\ handling => Zombies # {}
                               /\ handling /\ pending => \E c, d \in Zombies : c # d

(* Every client that connects is let go, served or refused, whatever the   *)
(* others do and however slow they are, unless a child has been stopped:   *)
(* the answer ends with the connection, so it is the last descriptor closed,*)
(* the server's or the child's, that lets the client go.                   *)
LetGo == \A c \in Clients \ Slow :
           conn[c] = "queued" ~> \/ conn[c] = "refused" \/ stopped
                                 \/ conn[c] = "accepted" /\ holders[c] = {}
===============================================================================
