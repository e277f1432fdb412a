------------------------------- MODULE RemotePipe -------------------------------
(***************************************************************************)
(* Remote pipes of dsh (prog2/special.c): shells that run lines with "))"  *)
(* port, whose last command is a child that listens, accepts one           *)
(* connection and writes to it (dserver), and lines with "((" host port,   *)
(* whose first command is a child that connects and reads (dclient).  All  *)
(* of them name the same host and port.  A shell waits for its child, so a *)
(* shell and its child are one here; what the commands of a line do among  *)
(* themselves is RunSpecial.                                               *)
(***************************************************************************)
EXTENDS Naturals, Sequences

CONSTANTS Shells,
          Chunks,   \* what a writing command writes
          MaxLines  \* bound: lines typed in each shell

VARIABLES at,     \* shell -> where its child is, "prompt" when there is none
          typed,  \* shell -> lines typed
          port,   \* the shell whose child has bound the port, "free" or "time_wait"
          queue,  \* connections to it that nobody has accepted
          peer,   \* writing shell -> the shell that reads its connection
          conn,   \* reading shell -> "none", "queued", "up", "eof" or "reset"
          sent,   \* reading shell -> chunks written to its connection
          got     \* reading shell -> chunks its command has read

remoteVars == <<at, typed, port, queue, peer, conn, sent, got>>

Nobody == "nobody"
All(x) == [s \in Shells |-> x]

Init == /\ at = All("prompt") /\ typed = All(0) /\ port = "free" /\ queue = <<>>
        /\ peer = All(Nobody) /\ conn = All("none") /\ sent = All(0) /\ got = All(0)

Goes(s, from, to) == at[s] = from /\ at' = [at EXCEPT ![s] = to]

(* A line with "))" or one with "((".                                      *)
Type(s) == /\ typed[s] < MaxLines /\ typed' = [typed EXCEPT ![s] = @ + 1]
           /\ Goes(s, "prompt", "bind") \/ Goes(s, "prompt", "connect")
           /\ conn' = [conn EXCEPT ![s] = "none"]
           /\ sent' = [sent EXCEPT ![s] = 0] /\ got' = [got EXCEPT ![s] = 0]
           /\ UNCHANGED <<port, queue, peer>>

-------------------------------------------------------------------------------
(* dserver.  A port in use is reported and no more: listen then takes a    *)
(* port of the kernel's choice, where nobody ever connects.                *)
Bind(s) == /\ Goes(s, "bind", IF port = "free" THEN "listen" ELSE "astray")
           /\ port' = IF port = "free" THEN s ELSE port
           /\ UNCHANGED <<typed, queue, peer, conn, sent, got>>

Listen(s) == Goes(s, "listen", "accept") /\ UNCHANGED <<typed, port, queue, peer, conn, sent, got>>

Accept(s) == /\ queue # <<>> /\ Goes(s, "accept", "write")
             /\ peer' = [peer EXCEPT ![s] = Head(queue)]
             /\ conn' = [conn EXCEPT ![Head(queue)] = "up"]
             /\ queue' = Tail(queue)
             /\ UNCHANGED <<typed, port, sent, got>>

Write(s) == /\ at[s] = "write" /\ peer[s] # Nobody /\ sent[peer[s]] < Chunks
            /\ sent' = [sent EXCEPT ![peer[s]] = @ + 1]
            /\ UNCHANGED <<at, typed, port, queue, peer, conn, got>>

(* The command is done, or a write to a reader that has gone kills it.     *)
Written(s) == peer[s] # Nobody => sent[peer[s]] = Chunks

(* Mutation: the shell itself holds the sockets, which outlive the command. *)
WriterKeepsSockets(s) == Written(s) /\ Goes(s, "write", "prompt") /\ UNCHANGED <<typed, port, queue, peer, conn, sent, got>>

(* The end of the command closes both sockets it has inherited: its reader *)
(* is at the end of the file, and who was never accepted is reset.  The    *)
(* port cannot be bound again for a while.                                 *)
WriterEnds(s) == /\ Written(s) /\ Goes(s, "write", "prompt")
                 /\ conn' = [r \in Shells |-> IF r = peer[s] THEN "eof" ELSE IF conn[r] = "queued" THEN "reset" ELSE conn[r]]
                 /\ peer' = [peer EXCEPT ![s] = Nobody]
                 /\ port' = "time_wait" /\ queue' = <<>>
                 /\ UNCHANGED <<typed, sent, got>>

PortFreed == port = "time_wait" /\ port' = "free" /\ UNCHANGED <<at, typed, queue, peer, conn, sent, got>>

-------------------------------------------------------------------------------
(* dclient: connect succeeds once somebody listens, and is not repeated;   *)
(* the command reads from the socket whether it is connected or not.       *)
Listening == port \in Shells /\ at[port] \in {"accept", "write"}

Connect(s) == /\ Goes(s, "connect", "read")
              /\ queue' = IF Listening THEN Append(queue, s) ELSE queue
              /\ conn' = [conn EXCEPT ![s] = IF Listening THEN "queued" ELSE "none"]
              /\ UNCHANGED <<typed, port, peer, sent, got>>

Read(s) == /\ at[s] = "read" /\ got[s] < sent[s]
           /\ got' = [got EXCEPT ![s] = @ + 1]
           /\ UNCHANGED <<at, typed, port, queue, peer, conn, sent>>

(* The end of the file, or an error.                                       *)
ReaderEnds(s) == /\ conn[s] \in {"none", "reset"} \/ (conn[s] = "eof" /\ got[s] = sent[s])
                 /\ Goes(s, "read", "prompt")
                 /\ UNCHANGED <<typed, port, queue, peer, conn, sent, got>>

(* A command that does not read to the end, as head.                       *)
ReaderLeaves(s) == /\ got[s] > 0 /\ Goes(s, "read", "prompt")
                   /\ peer' = [w \in Shells |-> IF peer[w] = s THEN Nobody ELSE peer[w]]
                   /\ UNCHANGED <<typed, port, queue, conn, sent, got>>

Child(s) == Bind(s) \/ Listen(s) \/ Accept(s) \/ Write(s) \/ WriterEnds(s) \/ Connect(s) \/ Read(s) \/ ReaderEnds(s)

Next == PortFreed \/ \E s \in Shells : Type(s) \/ Child(s) \/ ReaderLeaves(s)

Fairness == \A s \in Shells : WF_remoteVars(Child(s))

Spec == Init /\ [][Next]_remoteVars /\ Fairness
-------------------------------------------------------------------------------
(* A shell that connects always comes back to its prompt, in time or too   *)
(* early or behind another reader; and one that listens does, once         *)
(* somebody has connected.  With nobody to connect accept waits for ever   *)
(* (special.c:479), and so does a shell that found the port in use.        *)
BothReturn == \A s \in Shells : /\ at[s] \in {"connect", "read"} ~> at[s] = "prompt"
                                /\ (at[s] = "accept" /\ queue # <<>>) ~> at[s] = "prompt"
===============================================================================
