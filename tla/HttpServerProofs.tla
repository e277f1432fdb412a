---------------------------- MODULE HttpServerProofs ----------------------------
(***************************************************************************)
(* Proofs about the HTTP server.  The SIGCHLD handler of HttpServer never  *)
(* blocks, for any set of clients: signals coalesce and each is answered   *)
(* by one wait, so the invariant counts both ways at once, a dead child    *)
(* for the signal being handled and another for the one pending; that a    *)
(* fork makes no dead child alive again needs that every connection is     *)
(* accepted once.  The pages of HttpRequest are whole or missing, for any  *)
(* number of processes.  And a request is answered as the whole of it      *)
(* deserves, however it is cut into reads, if its first three words arrive *)
(* in the first.                                                           *)
(***************************************************************************)
EXTENDS MCHttp, SequenceTheorems, FiniteSetTheorems, WellFoundedInduction, TLAPS

Two(S) == \E c, d \in S : c # d

(* A connection waits in the queue once, and has a child only after.       *)
Once == /\ \A c \in Clients : child[c] # "none" => conn[c] = "accepted"
        /\ at = "fork" => conn[current] = "accepted" /\ child[current] = "none"
        /\ \A i \in 1..Len(queue) : conn[queue[i]] = "queued"
        /\ \A i, j \in 1..Len(queue) : queue[i] = queue[j] => i = j

(* As many dead children as signals, up to two; and a server that has      *)
(* exited is in no handler.                                                *)
Covered == /\ at = "exited" => ~handling /\ ~pending
           /\ ~stopped => /\ handling \/ pending => Zombies # {}
                          /\ handling /\ pending => Two(Zombies)

IInv == TypeOK /\ Once /\ Covered

LEMMA InitIInv == Init => IInv
<1> SUFFICES ASSUME Init PROVE IInv
  OBVIOUS
<1>1. conn \in [Clients -> Connections] /\ child \in [Clients -> ChildStates]
  BY DEF Init, Connections, ChildStates
<1>2. holders \in [Clients -> SUBSET {"server", "child"}] /\ queue \in Seq(Clients)
  BY DEF Init
<1>3. at \in Places /\ current \in Clients /\ {handling, pending, stopped} \subseteq BOOLEAN
  BY DEF Init, Places
<1>4. TypeOK
  BY <1>1, <1>2, <1>3 DEF TypeOK
<1>5. Once
  BY DEF Init, Once
<1>6. Covered
  BY DEF Init, Covered
<1> QED BY <1>4, <1>5, <1>6 DEF IInv

(* The two ways a queue loses its connections when its server is gone.     *)
LEMMA RefuseOnce ==
  ASSUME TypeOK, Once, NEW held, Refuse(held),
         \A c \in Clients : child'[c] # "none" => child[c] # "none",
         child' \in [Clients -> ChildStates], at' # "fork"
  PROVE  conn' \in [Clients -> Connections] /\ queue' \in Seq(Clients) /\ Once'
<1>1. CASE held = {}
  <2>1. queue' = <<>> /\ conn' = [c \in Clients |-> IF conn[c] = "queued" THEN "refused" ELSE conn[c]]
    BY <1>1 DEF Refuse
  <2>2. conn' \in [Clients -> Connections] /\ queue' \in Seq(Clients)
    BY <2>1 DEF TypeOK, Connections
  <2>3. \A c \in Clients : child'[c] # "none" => conn'[c] = "accepted"
    BY <2>1 DEF Once
  <2> QED BY <2>1, <2>2, <2>3 DEF Once
<1>2. CASE held # {}
  BY <1>2 DEF Refuse, TypeOK, Once
<1> QED BY <1>1, <1>2

LEMMA ExitKeeps ==
  ASSUME IInv, SystemError, ~handling
  PROVE  IInv'
<1>1. /\ UNCHANGED <<handling, stopped, current>> /\ pending' = FALSE /\ at' = "exited"
      /\ child' = [c \in Clients |-> IF child[c] = "zombie" THEN "reaped" ELSE child[c]]
      /\ holders' = [c \in Clients |-> holders[c] \ {"server"}]
      /\ Refuse(Unstarted)
  BY DEF SystemError
<1>2. child' \in [Clients -> ChildStates]
  BY <1>1 DEF IInv, TypeOK, ChildStates
<1>3. \A c \in Clients : child'[c] # "none" => child[c] # "none"
  BY <1>1
<1>4. conn' \in [Clients -> Connections] /\ queue' \in Seq(Clients) /\ Once'
  BY <1>1, <1>2, <1>3, RefuseOnce DEF IInv
<1>5. holders' \in [Clients -> SUBSET {"server", "child"}]
  BY <1>1 DEF IInv, TypeOK
<1>6. {handling', pending', stopped'} \subseteq BOOLEAN
  BY <1>1 DEF IInv, TypeOK
<1>7. TypeOK'
  BY <1>1, <1>2, <1>4, <1>5, <1>6 DEF IInv, TypeOK, Places
<1>8. Covered'
  BY <1>1 DEF Covered
<1> QED BY <1>4, <1>7, <1>8 DEF IInv

LEMMA SetupKeeps == ASSUME IInv, Setup PROVE IInv'
<1>1. CASE SystemError
  BY <1>1, ExitKeeps DEF Setup, Runs
<1>2. CASE ~SystemError
  <2>1. at' = "accept" /\ UNCHANGED <<current, handling, pending, queue, conn, holders, child, stopped>>
    BY <1>2 DEF Setup
  <2> QED BY <2>1 DEF Setup, Runs, IInv, TypeOK, Once, Covered, Zombies, Places
<1> QED BY <1>1, <1>2

LEMMA AcceptKeeps == ASSUME IInv, Accept PROVE IInv'
<1>1. CASE SystemError
  BY <1>1, ExitKeeps DEF Accept, Runs
<1>2. CASE ~SystemError
  <2>1. /\ queue # <<>> /\ current' = Head(queue) /\ queue' = Tail(queue) /\ at' = "fork"
        /\ conn' = [conn EXCEPT ![Head(queue)] = "accepted"]
        /\ holders' = [holders EXCEPT ![Head(queue)] = {"server"}]
        /\ UNCHANGED <<handling, pending, child, stopped>>
    BY <1>2 DEF Accept
  <2>2. queue \in Seq(Clients) /\ Head(queue) = queue[1] /\ 1 \in 1..Len(queue) /\ Head(queue) \in Clients
        /\ queue' \in Seq(Clients) /\ Len(queue') = Len(queue) - 1
        /\ \A i \in 1..Len(queue') : i + 1 \in 1..Len(queue) /\ queue'[i] = queue[i + 1]
    BY <2>1 DEF IInv, TypeOK
  <2>3. conn[Head(queue)] = "queued" /\ child[Head(queue)] = "none"
    BY <2>2 DEF IInv, Once
  <2>4. TypeOK'
    <3>1. conn' \in [Clients -> Connections]
      BY <2>1, <2>2 DEF IInv, TypeOK, Connections
    <3>2. holders' \in [Clients -> SUBSET {"server", "child"}]
      BY <2>1, <2>2 DEF IInv, TypeOK
    <3> QED BY <3>1, <3>2, <2>1, <2>2 DEF IInv, TypeOK, Places
  <2>5. \A i \in 1..Len(queue') : queue'[i] # Head(queue) /\ queue'[i] \in Clients
    BY <2>2 DEF IInv, Once
  <2>6. \A c \in Clients : conn'[c] = IF c = Head(queue) THEN "accepted" ELSE conn[c]
    BY <2>1 DEF IInv, TypeOK
  <2>7. \A i \in 1..Len(queue') : conn'[queue'[i]] = "queued"
    BY <2>2, <2>5, <2>6 DEF IInv, Once
  <2>8. \A i, j \in 1..Len(queue') : queue'[i] = queue'[j] => i = j
    BY <2>2 DEF IInv, Once
  <2>9. \A c \in Clients : child'[c] # "none" => conn'[c] = "accepted"
    BY <2>1, <2>6 DEF IInv, Once
  <2>10. conn'[current'] = "accepted" /\ child'[current'] = "none"
    BY <2>1, <2>2, <2>3, <2>6
  <2>12. Once'
    BY <2>7, <2>8, <2>9, <2>10 DEF Once
  <2>11. Covered'
    BY <2>1 DEF Accept, Runs, IInv, Covered, Zombies
  <2> QED BY <2>4, <2>11, <2>12 DEF IInv
<1> QED BY <1>1, <1>2

LEMMA ForkKeeps == ASSUME IInv, Fork PROVE IInv'
<1>1. CASE SystemError
  BY <1>1, ExitKeeps DEF Fork, Runs
<1>2. CASE ~SystemError
  <2>1. /\ at = "fork" /\ at' = "close" /\ child' = [child EXCEPT ![current] = "started"]
        /\ holders' = [holders EXCEPT ![current] = @ \cup {"child"}]
        /\ UNCHANGED <<current, handling, pending, queue, conn, stopped>>
    BY <1>2 DEF Fork
  <2>2. TypeOK'
    BY <2>1 DEF IInv, TypeOK, Places, ChildStates
  <2>3. current \in Clients /\ conn[current] = "accepted" /\ child[current] = "none"
    BY <2>1 DEF IInv, TypeOK, Once
  <2>4. \A c \in Clients : child'[c] = IF c = current THEN "started" ELSE child[c]
    BY <2>1 DEF IInv, TypeOK
  <2>5. Once'
    BY <2>1, <2>3, <2>4 DEF IInv, Once
  <2>6. Zombies' = Zombies
    BY <2>3, <2>4 DEF Zombies
  <2>7. Covered'
    BY <2>1, <2>6 DEF IInv, Covered, Fork, Runs
  <2> QED BY <2>2, <2>5, <2>7 DEF IInv
<1> QED BY <1>1, <1>2

LEMMA CloseKeeps == ASSUME IInv, CloseConnection PROVE IInv'
<1>1. /\ at = "close" /\ at' = "accept" /\ holders' = [holders EXCEPT ![current] = @ \ {"server"}]
      /\ UNCHANGED <<current, handling, pending, queue, conn, child, stopped>>
  BY DEF CloseConnection
<1>2. holders' \in [Clients -> SUBSET {"server", "child"}]
  BY <1>1 DEF IInv, TypeOK
<1>3. TypeOK'
  BY <1>1, <1>2 DEF IInv, TypeOK, Places
<1> QED BY <1>1, <1>3 DEF IInv, Once, Covered, Zombies

LEMMA DeliverKeeps == ASSUME IInv, Deliver PROVE IInv'
<1>1. /\ pending /\ ~handling /\ at # "exited" /\ ~pending' /\ handling'
      /\ pending' \in BOOLEAN /\ handling' \in BOOLEAN
      /\ UNCHANGED <<at, current, queue, conn, holders, child, stopped>>
  BY DEF Deliver, Runs
<1>2. TypeOK' /\ Once'
  BY <1>1 DEF IInv, TypeOK, Once
<1>3. Covered'
  BY <1>1 DEF IInv, Covered, Zombies
<1> QED BY <1>2, <1>3 DEF IInv

(* What the steps of a child have in common: it was forked and stays so.   *)
LEMMA ChildMoves ==
  ASSUME IInv, NEW c \in Clients, NEW s \in ChildStates \ {"none"}, child[c] # "none",
         child' = [child EXCEPT ![c] = s], UNCHANGED <<at, current, conn, queue>>
  PROVE  /\ child' \in [Clients -> ChildStates] /\ Once'
         /\ \A d \in Clients : child'[d] = IF d = c THEN s ELSE child[d]
<1>1. /\ child' \in [Clients -> ChildStates]
      /\ \A d \in Clients : child'[d] = IF d = c THEN s ELSE child[d]
  BY DEF IInv, TypeOK
<1>2. Once'
  BY <1>1 DEF IInv, Once
<1> QED BY <1>1, <1>2

(* wait takes one of the dead: the other of the two, if a signal is        *)
(* pending, is left for it.                                                *)
LEMMA WaitKeeps == ASSUME IInv, Wait PROVE IInv'
<1>1. /\ handling /\ at # "exited" /\ handling' = FALSE
      /\ UNCHANGED <<at, current, pending, queue, conn, holders, stopped>>
  BY DEF Wait, Reap
<1>2. CASE UNCHANGED child /\ Children = {}
  <2>1. Zombies = {}
    BY <1>2 DEF Children, Zombies
  <2>2. TypeOK' /\ Once'
    BY <1>1, <1>2 DEF IInv, TypeOK, Once
  <2>3. Covered'
    BY <1>1, <2>1 DEF IInv, Covered
  <2> QED BY <2>2, <2>3 DEF IInv
<1>3. CASE \E c \in Zombies : Reap(c)
  <2>1. PICK c \in Zombies : Reap(c)
    BY <1>3
  <2>2. c \in Clients /\ child[c] = "zombie"
    BY DEF Zombies
  <2>3. /\ child' \in [Clients -> ChildStates] /\ Once'
        /\ \A d \in Clients : child'[d] = IF d = c THEN "reaped" ELSE child[d]
    BY <1>1, <2>1, <2>2, ChildMoves DEF Reap, ChildStates
  <2>4. TypeOK'
    BY <1>1, <2>3 DEF IInv, TypeOK
  <2>6. Zombies' = Zombies \ {c}
    BY <2>3 DEF Zombies
  <2>7. ASSUME ~stopped, pending PROVE Zombies' # {}
    BY <1>1, <2>6, <2>7 DEF IInv, Covered, Two
  <2>8. Covered'
    BY <1>1, <2>7 DEF Covered
  <2> QED BY <2>3, <2>4, <2>8 DEF IInv
<1> QED BY <1>2, <1>3 DEF Wait

LEMMA ConnectKeeps == ASSUME IInv, NEW c \in Clients, Connect(c) PROVE IInv'
<1>1. /\ conn[c] = "away" /\ UNCHANGED <<at, current, handling, pending, holders, child, stopped>>
      /\ conn' = [conn EXCEPT ![c] = IF Listening THEN "queued" ELSE "refused"]
      /\ queue' = IF Listening THEN Append(queue, c) ELSE queue
  BY DEF Connect
<1>2. conn' \in [Clients -> Connections] /\ \A d \in Clients \ {c} : conn'[d] = conn[d]
  BY <1>1 DEF IInv, TypeOK, Connections
<1>3. queue' \in Seq(Clients)
  BY <1>1 DEF IInv, TypeOK
<1>4. TypeOK'
  BY <1>1, <1>2, <1>3 DEF IInv, TypeOK
<1>5. child[c] = "none" /\ \A i \in 1..Len(queue) : queue[i] \in Clients \ {c}
  BY <1>1 DEF IInv, TypeOK, Once
<1>6. at = "fork" => current # c
  BY <1>1 DEF IInv, Once
<1>7. CASE Listening
  <2>1. queue' = Append(queue, c) /\ conn'[c] = "queued"
    BY <1>1, <1>7 DEF IInv, TypeOK
  <2>2. queue \in Seq(Clients)
    BY DEF IInv, TypeOK
  <2>3. Len(queue') = Len(queue) + 1 /\ queue'[Len(queue) + 1] = c /\ \A i \in 1..Len(queue) : queue'[i] = queue[i]
    BY <2>1, <2>2
  <2>4. \A i \in 1..Len(queue') : i \in 1..Len(queue) \/ i = Len(queue) + 1
    BY <2>2, <2>3
  <2>5. \A i \in 1..Len(queue') : conn'[queue'[i]] = "queued"
    BY <1>2, <1>5, <2>1, <2>3, <2>4 DEF IInv, Once
  <2>6. \A i, j \in 1..Len(queue') : queue'[i] = queue'[j] => i = j
    BY <1>5, <2>3, <2>4 DEF IInv, Once
  <2> QED BY <1>1, <1>2, <1>4, <1>5, <1>6, <2>5, <2>6 DEF IInv, TypeOK, Once, Covered, Zombies
<1>8. CASE ~Listening
  <2>1. queue' = queue
    BY <1>1, <1>8
  <2> QED BY <1>1, <1>2, <1>4, <1>5, <1>6, <2>1 DEF IInv, TypeOK, Once, Covered, Zombies
<1> QED BY <1>7, <1>8

LEMMA ChildStartsKeeps == ASSUME IInv, NEW c \in Clients, ChildStarts(c) PROVE IInv'
<1>1. /\ child[c] = "started" /\ child' = [child EXCEPT ![c] = "serving"]
      /\ UNCHANGED <<at, current, handling, pending, holders, stopped>>
  BY DEF ChildStarts
<1>2. /\ child' \in [Clients -> ChildStates]
      /\ \A d \in Clients : child'[d] = IF d = c THEN "serving" ELSE child[d]
  BY <1>1 DEF IInv, TypeOK, ChildStates
<1>3. conn' \in [Clients -> Connections] /\ queue' \in Seq(Clients) /\ Once'
  <2>1. CASE at = "exited"
    <3>1. Refuse(Unstarted \ {c})
      BY <2>1 DEF ChildStarts
    <3>2. \A d \in Clients : child'[d] # "none" => child[d] # "none"
      BY <1>1, <1>2
    <3> QED BY <1>1, <1>2, <2>1, <3>1, <3>2, RefuseOnce DEF IInv
  <2>2. CASE at # "exited"
    <3>1. UNCHANGED <<queue, conn>>
      BY <2>2 DEF ChildStarts
    <3> QED BY <1>1, <3>1, ChildMoves DEF IInv, TypeOK, ChildStates
  <2> QED BY <2>1, <2>2
<1>4. TypeOK'
  BY <1>1, <1>2, <1>3 DEF IInv, TypeOK
<1>5. Zombies' = Zombies
  BY <1>1, <1>2 DEF Zombies
<1>6. Covered'
  BY <1>1, <1>5 DEF IInv, Covered
<1> QED BY <1>3, <1>4, <1>6 DEF IInv

LEMMA ChildClosesKeeps == ASSUME IInv, NEW c \in Clients, ChildCloses(c) PROVE IInv'
<1>1. /\ child[c] = "serving" /\ child' = [child EXCEPT ![c] = "closed"]
      /\ holders' = [holders EXCEPT ![c] = @ \ {"child"}]
      /\ UNCHANGED <<at, current, handling, pending, queue, conn, stopped>>
  BY DEF ChildCloses
<1>2. /\ child' \in [Clients -> ChildStates] /\ Once'
      /\ \A d \in Clients : child'[d] = IF d = c THEN "closed" ELSE child[d]
  BY <1>1, ChildMoves DEF ChildStates
<1>3. holders' \in [Clients -> SUBSET {"server", "child"}]
  BY <1>1 DEF IInv, TypeOK
<1>4. TypeOK'
  BY <1>1, <1>2, <1>3 DEF IInv, TypeOK
<1>5. Zombies' = Zombies
  BY <1>1, <1>2 DEF Zombies
<1>6. Covered'
  BY <1>1, <1>5 DEF IInv, Covered
<1> QED BY <1>2, <1>4, <1>6 DEF IInv

(* A death adds a dead child and at most one signal.                       *)
LEMMA ChildExitsKeeps == ASSUME IInv, NEW c \in Clients, ChildExits(c) PROVE IInv'
<1> DEFINE s == IF at = "exited" THEN "reaped" ELSE "zombie"
<1>1. /\ child[c] = "closed" /\ child' = [child EXCEPT ![c] = s]
      /\ pending' = (at # "exited")
      /\ UNCHANGED <<at, current, handling, queue, conn, holders, stopped>>
  BY DEF ChildExits
<1>2. /\ child' \in [Clients -> ChildStates] /\ Once'
      /\ \A d \in Clients : child'[d] = IF d = c THEN s ELSE child[d]
  <2>1. s \in ChildStates \ {"none"}
    BY DEF ChildStates
  <2> HIDE DEF s
  <2> QED BY <1>1, <2>1, ChildMoves
<1>3. TypeOK'
  BY <1>1, <1>2 DEF IInv, TypeOK
<1>4. ASSUME at = "exited" PROVE Covered'
  BY <1>1, <1>4 DEF IInv, Covered
<1>5. ASSUME at # "exited" PROVE Covered'
  <2>1. c \notin Zombies /\ Zombies' = Zombies \cup {c}
    BY <1>1, <1>2, <1>5 DEF Zombies
  <2>2. ASSUME ~stopped, handling PROVE Two(Zombies')
    BY <2>1, <2>2 DEF IInv, Covered, Two
  <2>3. Zombies' # {} /\ (~stopped /\ handling => Two(Zombies'))
    BY <2>1, <2>2
  <2> QED BY <1>1, <1>5, <2>3 DEF Covered, Two
<1> QED BY <1>2, <1>3, <1>4, <1>5 DEF IInv

(* Only a child that was stopped is continued.                             *)
Remembered == \A c \in Clients : child[c] = "stopped" => stopped

LEMMA StopKeeps == ASSUME IInv, Remembered, NEW c \in Clients, Stop(c) \/ Continue(c) PROVE IInv'
<1>1. PICK s \in {"serving", "stopped"} : child' = [child EXCEPT ![c] = s]
  BY DEF Stop, Continue
<1>2. /\ child[c] \in {"serving", "stopped"} /\ pending' = (at # "exited")
      /\ UNCHANGED <<at, current, handling, queue, conn, holders>>
      /\ stopped' = TRUE
  BY DEF Stop, Continue, Remembered, IInv, TypeOK
<1>3. /\ child' \in [Clients -> ChildStates] /\ Once'
      /\ \A d \in Clients : child'[d] = IF d = c THEN s ELSE child[d]
  BY <1>1, <1>2, ChildMoves DEF ChildStates
<1>4. TypeOK'
  BY <1>2, <1>3 DEF IInv, TypeOK
<1>5. Covered'
  BY <1>2 DEF IInv, Covered
<1> QED BY <1>3, <1>4, <1>5 DEF IInv

LEMMA ServerRemembers == ASSUME IInv, Remembered, ServerStep PROVE Remembered'
<1>1. stopped' = stopped
  BY DEF ServerStep, Setup, Accept, Fork, CloseConnection, Deliver, Wait, SystemError
<1>2. ASSUME NEW c \in Clients, child'[c] = "stopped" PROVE child[c] = "stopped"
  <2>1. CASE SystemError
    BY <1>2, <2>1 DEF SystemError
  <2>2. CASE UNCHANGED child
    BY <1>2, <2>2
  <2>3. CASE child' = [child EXCEPT ![current] = "started"]
    BY <1>2, <2>3 DEF IInv, TypeOK
  <2>4. CASE \E d \in Zombies : Reap(d)
    BY <1>2, <2>4 DEF IInv, TypeOK, Reap, Zombies
  <2> QED BY <2>1, <2>2, <2>3, <2>4 DEF ServerStep, Setup, Accept, Fork, CloseConnection, Deliver, Wait
<1> QED BY <1>1, <1>2 DEF Remembered

LEMMA ChildRemembers ==
  ASSUME IInv, Remembered, NEW c \in Clients, Connect(c) \/ ChildStep(c) \/ Stop(c)
  PROVE  Remembered'
<1>1. CASE stopped' = TRUE
  BY <1>1 DEF Remembered
<1>2. CASE stopped' # TRUE
  <2>1. stopped' = stopped
    BY <1>2 DEF Connect, ChildStep, ChildStarts, ChildCloses, ChildExits, Stop, Continue
  <2>2. ~Stop(c)
    BY <1>2 DEF Stop
  <2>3. \/ UNCHANGED child
        \/ \E s \in ChildStates \ {"stopped"} : child' = [child EXCEPT ![c] = s]
    BY <2>2 DEF Connect, ChildStep, ChildStarts, ChildCloses, ChildExits, Continue, ChildStates
  <2> QED BY <2>1, <2>3 DEF Remembered, IInv, TypeOK
<1> QED BY <1>1, <1>2

-------------------------------------------------------------------------------
(* The SIGCHLD handler of server_run (server.c:73-77) never blocks the     *)
(* accept loop, for any number of clients and any coalescing of signals,   *)
(* unless a child has been stopped.                                        *)
THEOREM HandlerReturns == Spec => []WaitNeverBlocks
<1>1. Init => IInv /\ Remembered
  BY InitIInv DEF Init, Remembered
<1>2. IInv /\ Remembered /\ [Next]_serverVars => (IInv /\ Remembered)'
  <2> SUFFICES ASSUME IInv, Remembered, [Next]_serverVars
               PROVE  IInv' /\ Remembered'
    OBVIOUS
  <2>1. CASE ServerStep
    BY <2>1, SetupKeeps, AcceptKeeps, ForkKeeps, CloseKeeps, DeliverKeeps, WaitKeeps, ServerRemembers DEF ServerStep
  <2>2. ASSUME NEW c \in Clients, Connect(c) \/ ChildStep(c) \/ Stop(c)
        PROVE  IInv' /\ Remembered'
    BY <2>2, ConnectKeeps, ChildStartsKeeps, ChildClosesKeeps, ChildExitsKeeps, StopKeeps, ChildRemembers DEF ChildStep
  <2>3. CASE UNCHANGED serverVars
    BY <2>3 DEF serverVars, IInv, TypeOK, Once, Covered, Zombies, Two, Remembered
  <2> QED BY <2>1, <2>2, <2>3 DEF Next
<1>3. IInv => WaitNeverBlocks
  BY DEF IInv, Covered, Two, WaitNeverBlocks
<1> QED BY <1>1, <1>2, <1>3, PTL DEF Spec
-------------------------------------------------------------------------------
(***************************************************************************)
(* The child that answers a request.  What it has sent is told by where it *)
(* is, and df runs only while the child is about to wait for it, so that a *)
(* child that gets to the end of its page has df's part of it.             *)
(***************************************************************************)
PageUrls == {"/time", "/issue", "/diskfree", "/processes"}

(* What can be sent: answers, and parts of pages.                          *)
Parts == {"HTTP/1.0", "bad_method", "not_found", "ok", "start", "body", "end", "error_page", "error_message",
          "no_df", "row", "ERROR"}

Told == sent = <<"ok">> /\ url \in PageUrls /\ (rows = <<>> \/ url = "/processes")

(* Of diskfree's page, all but the end; df's part may be lost to a client  *)
(* that is no longer there.                                                *)
Started == Len(sent) >= 2 /\ sent[1] = "ok" /\ sent[2] = "start"

DfSpoke == /\ Started
           /\ \/ Len(sent) = 3 /\ sent[3] \in {"body", "no_df"}
              \/ end # "waits" /\ Len(sent) = 2

Listed == /\ url = "/processes"
          /\ IF Len(rows) + 2 <= IovMax THEN Started /\ Len(sent) >= 3 /\ sent[Len(sent)] = "end" ELSE sent = <<"ok">>

Complete == \/ /\ Len(sent) >= 2 /\ sent[Len(sent)] \in {"end", "error_page"}
               /\ sent[2] = "start" \/ Len(sent) = 2
            \/ url = "/processes" /\ sent = <<"ok">> /\ Len(rows) + 2 > IovMax

Answered == /\ sent # <<>> /\ sent[1] = "ok" => Complete
            /\ url = "/diskfree" /\ end = "waits" => Len(sent) = 4 /\ sent[3] \in {"body", "no_df"}

PageTyped == /\ sent \in Seq(Parts)
             /\ rows \in Seq(Parts) /\ vecSize \in Nat
             /\ rat \in {"read", "scan", "answer", "generate", "fork", "forked", "waitpid", "page_end", "free",
                         "done", "exit0", "exit1", "crashed", "killed"}

Unsaid == sent = <<>> /\ rows = <<>> /\ url = "junk"

PageSoFar ==
  /\ rat \in {"read", "scan", "answer"} => Unsaid
  /\ rat = "generate" => Told
  /\ rat = "fork" => url = "/diskfree" /\ Started /\ Len(sent) = 2
  /\ rat \in {"forked", "waitpid"} => /\ url = "/diskfree"
                                      /\ \/ df = "running" /\ Started /\ Len(sent) = 2
                                         \/ df # "running" /\ DfSpoke
  /\ rat = "page_end" => url = "/diskfree" /\ DfSpoke /\ df # "running"
  /\ rat = "free" => Listed
  /\ rat \in {"done", "exit0", "crashed"} => Answered /\ df # "running"
  /\ rat \in {"read", "scan", "answer", "generate", "fork", "free"} => df # "running"

PageInv == PageTyped /\ PageSoFar /\ R!VectorHolds

LEMMA PageStarts == ASSUME R!Init PROVE PageInv
<1>1. rows \in Seq(Parts) /\ Len(rows) = 0 /\ vecSize = VecSize /\ sent \in Seq(Parts)
  BY DEF R!Init, R!PagesInit
<1> QED
  BY <1>1, PageAssumption DEF R!Init, R!PagesInit, PageInv, PageTyped, PageSoFar, Unsaid, R!VectorHolds

(* A step that ends the child without a page, or before it.                *)
LEMMA GivesUpKeeps ==
  ASSUME PageInv, sent' \in Seq(Parts), UNCHANGED <<url, end, df, rows, vecSize>>, rat' \in {"killed", "exit1"}
  PROVE  PageInv'
BY DEF PageInv, PageTyped, PageSoFar, R!VectorHolds

(* What is sent follows what was.                                          *)
LEMMA SendsAll ==
  ASSUME NEW parts \in Seq(Parts), NEW goes, R!Sends(parts, goes), sent \in Seq(Parts)
  PROVE  \/ rat' = "killed" /\ sent' = sent
         \/ /\ rat' = goes /\ sent' \in Seq(Parts) /\ Len(sent') = Len(sent) + Len(parts)
            /\ \A i \in 1..Len(sent) : sent'[i] = sent[i]
            /\ \A i \in 1..Len(parts) : sent'[Len(sent) + i] = parts[i]
<1>1. CASE rat' = "killed" /\ sent' = sent
  BY <1>1
<1>2. CASE rat' = goes /\ sent' = sent \o parts
  <2>1. /\ sent' \in Seq(Parts) /\ Len(sent') = Len(sent) + Len(parts)
        /\ \A i \in 1..Len(sent') : sent'[i] = IF i <= Len(sent) THEN sent[i] ELSE parts[i - Len(sent)]
    BY <1>2, ConcatProperties
  <2> QED
    BY <1>2, <2>1
<1> QED
  BY <1>1, <1>2 DEF R!Sends

LEMMA SendsOne ==
  ASSUME NEW part \in Parts, NEW goes, R!Sends(<<part>>, goes), sent \in Seq(Parts)
  PROVE  \/ rat' = "killed" /\ sent' = sent
         \/ /\ rat' = goes /\ sent' \in Seq(Parts) /\ Len(sent') = Len(sent) + 1
            /\ \A i \in 1..Len(sent) : sent'[i] = sent[i]
            /\ sent'[Len(sent')] = part
<1> DEFINE parts == <<part>>
<1>1. parts \in Seq(Parts) /\ Len(parts) = 1 /\ parts[1] = part /\ 1 \in 1..1
  OBVIOUS
<1> HIDE DEF parts
<1>2. CASE rat' = "killed" /\ sent' = sent
  BY <1>2
<1>3. CASE ~(rat' = "killed" /\ sent' = sent)
  <2>1. /\ rat' = goes /\ sent' \in Seq(Parts) /\ Len(sent') = Len(sent) + Len(parts)
        /\ \A i \in 1..Len(sent) : sent'[i] = sent[i]
        /\ \A i \in 1..Len(parts) : sent'[Len(sent) + i] = parts[i]
    BY <1>1, <1>3, SendsAll DEF parts
  <2>2. sent'[Len(sent) + 1] = part
    BY <1>1, <2>1
  <2> QED
    BY <1>1, <2>1, <2>2
<1> QED
  BY <1>2, <1>3

LEMMA AppendFacts ==
  ASSUME NEW seq \in Seq(Parts), NEW part \in Parts
  PROVE  /\ Append(seq, part) \in Seq(Parts) /\ Len(Append(seq, part)) = Len(seq) + 1
         /\ \A i \in 1..Len(seq) : Append(seq, part)[i] = seq[i]
         /\ Append(seq, part)[Len(seq) + 1] = part
<1>1. Append(seq, part) \in Seq(Parts)
  OBVIOUS
<1>2. Len(Append(seq, part)) = Len(seq) + 1
  OBVIOUS
<1>3. \A i \in 1..Len(seq) : Append(seq, part)[i] = seq[i]
  OBVIOUS
<1>4. Append(seq, part)[Len(seq) + 1] = part
  OBVIOUS
<1> QED
  BY <1>1, <1>2, <1>3, <1>4

(* The third part of a page follows the first two.                         *)
LEMMA ThirdPart ==
  ASSUME NEW seq \in Seq(Parts), NEW part \in Parts, Len(seq) = 2
  PROVE  /\ Append(seq, part) \in Seq(Parts) /\ Len(Append(seq, part)) = 3
         /\ Append(seq, part)[3] = part /\ Append(seq, part)[1] = seq[1] /\ Append(seq, part)[2] = seq[2]
<1>1. PICK longer : longer = Append(seq, part)
  OBVIOUS
<1>2. /\ longer \in Seq(Parts) /\ Len(longer) = Len(seq) + 1
      /\ \A i \in 1..Len(seq) : longer[i] = seq[i]
      /\ longer[Len(seq) + 1] = part
  BY <1>1, AppendFacts
<1>3. 1 \in 1..Len(seq) /\ 2 \in 1..Len(seq) /\ Len(seq) + 1 = 3
  OBVIOUS
<1>4. Len(longer) = 3 /\ longer[3] = part /\ longer[1] = seq[1] /\ longer[2] = seq[2]
  BY <1>2, <1>3
<1> QED
  BY <1>1, <1>2, <1>4

LEMMA ReadKeeps == ASSUME PageInv, R!Read \/ R!Scan \/ R!ReadMore PROVE PageInv'
<1>1. /\ UNCHANGED <<url, sent, end, df, rows, vecSize>>
      /\ rat \in {"read", "scan"}
      /\ rat' \in {"read", "scan", "answer", "done", "exit1"}
  BY DEF R!Read, R!Scan, R!ReadMore, R!Plain
<1>2. Unsaid /\ df # "running"
  BY <1>1 DEF PageInv, PageSoFar
<1>3. Answered'
  BY <1>1, <1>2 DEF Answered, Unsaid
<1> QED
  BY <1>1, <1>2, <1>3 DEF PageInv, PageTyped, PageSoFar, Unsaid, R!VectorHolds

(* The child is told to make a page only of a library there is.            *)
LEMMA RespondKeeps == ASSUME PageInv, R!Respond PROVE PageInv'
<1> DEFINE a == R!Answer(words)
<1>1. /\ rat = "answer" /\ UNCHANGED <<end, df, rows, vecSize>>
      /\ url' = IF a = "ok" THEN words[2] ELSE url
      /\ \/ rat' = "killed" /\ sent' = sent
         \/ /\ rat' = IF a = "ok" THEN "generate" ELSE "done"
            /\ sent' = sent \o <<IF a = "bad_request" THEN "HTTP/1.0" ELSE a>>
  BY DEF R!Respond, R!Sends
<1>2. Unsaid /\ df # "running"
  BY <1>1 DEF PageInv, PageSoFar
<1>3. CASE rat' = "killed" /\ sent' = sent
  BY <1>1, <1>3 DEF PageInv, PageTyped, PageSoFar, R!VectorHolds
<1>4. CASE sent' # sent /\ a = "ok"
  <2>1. words[2] \in PageUrls
    BY <1>4 DEF R!Answer, R!HandleGet, R!ModuleOpen, Libraries, PageUrls
  <2>2. sent' = <<"ok">> /\ url' = words[2] /\ rat' = "generate"
    BY <1>1, <1>2, <1>4 DEF Unsaid
  <2>3. sent' \in Seq(Parts)
    BY <2>2 DEF Parts
  <2> QED
    BY <1>1, <1>2, <2>1, <2>2, <2>3 DEF PageInv, PageTyped, PageSoFar, Unsaid, Told, R!VectorHolds
<1>5. CASE sent' # sent /\ a # "ok"
  <2>1. a \in {"bad_request", "bad_method", "not_found"}
    BY <1>5 DEF R!Answer, R!HandleGet
  <2> HIDE DEF a
  <2>2. PICK said \in Parts \ {"ok"} : sent' = <<said>> /\ url' = url /\ rat' = "done"
    <3> DEFINE said == IF a = "bad_request" THEN "HTTP/1.0" ELSE a
    <3>1. said \in Parts \ {"ok"}
      BY <2>1 DEF Parts
    <3>2. sent' = <<said>> /\ url' = url /\ rat' = "done"
      BY <1>1, <1>2, <1>5 DEF Unsaid
    <3> QED
      BY <3>1, <3>2
  <2>4. sent' \in Seq(Parts) /\ sent'[1] # "ok"
    BY <2>2
  <2>3. Answered'
    BY <1>2, <2>2, <2>4 DEF Answered, Unsaid
  <2> QED
    BY <1>1, <1>2, <2>2, <2>3, <2>4 DEF PageInv, PageTyped, PageSoFar, R!VectorHolds
<1> QED
  BY <1>1, <1>3, <1>4, <1>5

(* A page that is not diskfree's is written at once.                       *)
LEMMA OnePageKeeps ==
  ASSUME PageInv, NEW parts \in Seq(Parts), R!Sends(parts, "done"), rat = "generate", url # "/diskfree",
         UNCHANGED <<url, end, df, rows, vecSize>>, Len(parts) > 0, parts[Len(parts)] \in {"end", "error_page"},
         parts[1] = "start" \/ Len(parts) = 1
  PROVE  PageInv'
<1>1. Told /\ df # "running" /\ sent \in Seq(Parts)
  BY DEF PageInv, PageSoFar, PageTyped
<1>2. Len(sent) = 1 /\ sent[1] = "ok"
  BY <1>1 DEF Told
<1>3. CASE rat' = "killed" /\ sent' = sent
  BY <1>1, <1>3, GivesUpKeeps
<1>4. CASE rat' # "killed"
  <2>1. /\ rat' = "done" /\ sent' \in Seq(Parts) /\ Len(sent') = 1 + Len(parts)
        /\ sent'[1] = "ok" /\ \A i \in 1..Len(parts) : sent'[1 + i] = parts[i]
    BY <1>1, <1>2, <1>4, SendsAll
  <2>2. Len(parts) \in 1..Len(parts) /\ 1 \in 1..Len(parts)
    OBVIOUS
  <2>3. sent'[Len(sent')] \in {"end", "error_page"} /\ (sent'[2] = "start" \/ Len(sent') = 2) /\ Len(sent') >= 2
    BY <2>1, <2>2
  <2>4. Answered'
    BY <2>3 DEF Answered, Complete
  <2> QED
    BY <1>1, <2>1, <2>4 DEF PageInv, PageTyped, PageSoFar, R!VectorHolds
<1> QED
  BY <1>1, <1>3, <1>4, SendsAll

LEMMA TimeKeeps == ASSUME PageInv, R!Time PROVE PageInv'
<1> DEFINE parts == <<"start", "body", "end">>
<1>1. parts \in Seq(Parts) /\ Len(parts) > 0 /\ parts[Len(parts)] = "end" /\ parts[1] = "start"
  BY DEF Parts
<1> QED
  BY <1>1, OnePageKeeps DEF R!Time, R!Plain

LEMMA IssueKeeps == ASSUME PageInv, R!Issue PROVE PageInv'
<1>1. rat = "generate" /\ url = "/issue" /\ UNCHANGED <<url, end, df, rows, vecSize>>
  BY DEF R!Issue, R!Plain
<1>2. CASE rat' = "exit1" /\ UNCHANGED sent
  BY <1>1, <1>2, GivesUpKeeps DEF PageInv, PageTyped
<1>3. CASE R!Sends(<<"error_page">>, "done")
  <2> DEFINE parts == <<"error_page">>
  <2>1. parts \in Seq(Parts) /\ Len(parts) = 1 /\ parts[Len(parts)] = "error_page"
    BY DEF Parts
  <2> HIDE DEF parts
  <2> QED
    BY <1>1, <1>3, <2>1, OnePageKeeps DEF parts
<1>4. ASSUME NEW body \in {"body", "error_message"}, R!Sends(<<"start", body, "end">>, "done") PROVE PageInv'
  <2> DEFINE parts == <<"start", body, "end">>
  <2>1. body \in Parts /\ "start" \in Parts /\ "end" \in Parts
    BY DEF Parts
  <2>2. /\ parts \in Seq(Parts) /\ Len(parts) = 3 /\ Len(parts) > 0
        /\ parts[Len(parts)] = "end" /\ parts[1] = "start"
    BY <2>1
  <2> HIDE DEF parts
  <2> QED
    BY <1>1, <1>4, <2>2, OnePageKeeps DEF parts
<1> QED
  BY <1>2, <1>3, <1>4 DEF R!Issue

(* diskfree: df speaks once, before its parent goes on.                    *)
LEMMA DiskKeeps == ASSUME PageInv, R!DiskStart \/ R!DiskFork \/ R!CallWaitpid \/ R!Waitpid PROVE PageInv'
<1>1. CASE R!DiskStart
  <2>1. /\ rat = "generate" /\ url = "/diskfree" /\ UNCHANGED <<url, end, df, rows, vecSize>>
        /\ R!Sends(<<"start">>, "fork") /\ "start" \in Parts
    BY <1>1 DEF R!DiskStart, R!Plain, Parts
  <2>2. Told /\ sent \in Seq(Parts) /\ df # "running"
    BY <2>1 DEF PageInv, PageSoFar, PageTyped
  <2>3. Len(sent) = 1 /\ sent[1] = "ok"
    BY <2>2 DEF Told
  <2>4. CASE rat' = "killed" /\ sent' = sent
    BY <2>1, <2>2, <2>4, GivesUpKeeps
  <2>5. CASE rat' # "killed"
    <3>1. /\ rat' = "fork" /\ sent' \in Seq(Parts) /\ Len(sent') = 2 /\ sent'[1] = "ok"
          /\ sent'[2] = "start"
      BY <2>1, <2>2, <2>3, <2>5, SendsOne
    <3>2. Started'
      BY <2>1, <3>1 DEF Started
    <3> QED
      BY <2>1, <2>2, <3>1, <3>2 DEF PageInv, PageTyped, PageSoFar, R!VectorHolds
  <2> QED
    BY <2>1, <2>2, <2>4, <2>5, SendsOne
<1>2. CASE R!DiskFork
  <2>1. /\ rat = "fork" /\ UNCHANGED <<url, sent, end, rows, vecSize>>
        /\ rat' = "exit1" \/ (rat' = "forked" /\ df' = "running")
    BY <1>2 DEF R!DiskFork
  <2>2. url' = "/diskfree" /\ Started' /\ Len(sent') = 2
    BY <2>1 DEF PageInv, PageSoFar, Started
  <2> QED
    BY <2>1, <2>2 DEF PageInv, PageTyped, PageSoFar, R!VectorHolds
<1>3. CASE R!CallWaitpid
  BY <1>3 DEF R!CallWaitpid, R!Plain, PageInv, PageTyped, PageSoFar, R!VectorHolds, DfSpoke, Started
<1>4. CASE R!Waitpid
  BY <1>4 DEF R!Waitpid, PageInv, PageTyped, PageSoFar, R!VectorHolds, DfSpoke, Started
<1> QED
  BY <1>1, <1>2, <1>3, <1>4

(* df's part comes after the start, and only while it is waited for.       *)
LEMMA DfKeeps == ASSUME PageInv, R!DfRuns PROVE PageInv'
<1>1. /\ df = "running" /\ df' = "zombie" /\ UNCHANGED <<rat, url, end, rows, vecSize>>
      /\ \/ \E part \in {"body", "no_df"} : part \in Parts /\ sent' = Append(sent, part)
         \/ end # "waits" /\ sent' = sent
  BY DEF R!DfRuns, Parts
<1>2. rat \in {"forked", "waitpid", "exit1", "killed"}
  BY <1>1 DEF PageInv, PageTyped, PageSoFar
<1>5. \A part \in Parts : sent \in Seq(Parts) => Append(sent, part) \in Seq(Parts)
  BY AppendProperties
<1>3. sent \in Seq(Parts) /\ sent' \in Seq(Parts)
  BY <1>1, <1>5 DEF PageInv, PageTyped
<1>4. ASSUME rat \in {"forked", "waitpid"} PROVE url = "/diskfree" /\ DfSpoke'
  <2>1. url = "/diskfree" /\ Started /\ Len(sent) = 2
    BY <1>1, <1>4 DEF PageInv, PageSoFar
  <2>2. CASE end # "waits" /\ sent' = sent
    BY <1>1, <2>1, <2>2 DEF DfSpoke, Started
  <2>3. ASSUME NEW part \in {"body", "no_df"}, part \in Parts, sent' = Append(sent, part) PROVE DfSpoke'
    <3>1. Len(sent') = 3 /\ sent'[3] = part /\ sent'[1] = sent[1] /\ sent'[2] = sent[2]
      BY <1>3, <2>1, <2>3, ThirdPart
    <3>2. Started'
      BY <2>1, <3>1 DEF Started
    <3> QED
      BY <3>1, <3>2 DEF DfSpoke
  <2> QED
    BY <1>1, <2>1, <2>2, <2>3
<1> QED
  BY <1>1, <1>2, <1>3, <1>4 DEF PageInv, PageTyped, PageSoFar, R!VectorHolds

LEMMA HandlerKeeps == ASSUME PageInv, R!Handler PROVE PageInv'
<1>1. /\ df' = (IF df = "zombie" THEN "reaped" ELSE df) /\ UNCHANGED <<rat, url, sent, end, rows, vecSize>>
  BY DEF R!Handler
<1>2. df' = "running" <=> df = "running"
  BY <1>1
<1>3. /\ Unsaid' <=> Unsaid
      /\ Told' <=> Told
      /\ Listed' <=> Listed
      /\ Started' <=> Started
      /\ DfSpoke' <=> DfSpoke
      /\ Answered' <=> Answered
  BY <1>1 DEF Unsaid, Told, Listed, Started, DfSpoke, Answered, Complete
<1> QED
  BY <1>1, <1>2, <1>3 DEF PageInv, PageTyped, PageSoFar, R!VectorHolds

LEMMA DiskEndKeeps == ASSUME PageInv, R!DiskEnd PROVE PageInv'
<1>1. /\ rat = "page_end" /\ UNCHANGED <<url, end, df, rows, vecSize>>
      /\ R!Sends(<<"end">>, "done") /\ "end" \in Parts
  BY DEF R!DiskEnd, R!Plain, Parts
<1>2. DfSpoke /\ df # "running" /\ sent \in Seq(Parts) /\ url = "/diskfree"
  BY <1>1 DEF PageInv, PageSoFar, PageTyped
<1>3. CASE rat' = "killed" /\ sent' = sent
  BY <1>1, <1>2, <1>3, GivesUpKeeps
<1>4. CASE rat' # "killed"
  <2>1. /\ rat' = "done" /\ sent' \in Seq(Parts) /\ Len(sent') = Len(sent) + 1
        /\ \A i \in 1..Len(sent) : sent'[i] = sent[i]
        /\ sent'[Len(sent')] = "end"
    BY <1>1, <1>2, <1>4, SendsOne
  <2>5. PICK n \in Nat : n = Len(sent)
    BY <1>2
  <2>6. n >= 2 /\ 1 \in 1..n /\ 2 \in 1..n
    BY <1>2, <2>5 DEF DfSpoke, Started
  <2>7. sent'[1] = sent[1] /\ sent'[2] = sent[2]
    BY <2>1, <2>5, <2>6
  <2>2. sent'[Len(sent')] = "end" /\ Len(sent') >= 2 /\ sent'[1] = "ok" /\ sent'[2] = "start"
    BY <1>2, <2>1, <2>5, <2>6, <2>7 DEF DfSpoke, Started
  <2>3. ASSUME end' = "waits" PROVE Len(sent') = 4 /\ sent'[3] \in {"body", "no_df"}
    <3>1. Len(sent) = 3 /\ sent[3] \in {"body", "no_df"}
      BY <1>1, <1>2, <2>3 DEF DfSpoke
    <3>2. 3 \in 1..n /\ n = 3
      BY <2>5, <3>1
    <3>3. sent'[3] = sent[3]
      BY <2>1, <2>5, <3>2
    <3> QED
      BY <2>1, <3>1, <3>3
  <2>4. Answered'
    BY <2>2, <2>3 DEF Answered, Complete
  <2> QED
    BY <1>1, <1>2, <2>1, <2>4 DEF PageInv, PageTyped, PageSoFar, R!VectorHolds
<1> QED
  BY <1>1, <1>2, <1>3, <1>4, SendsOne

-------------------------------------------------------------------------------
(* vec is doubled when a row leaves no room but for one more.              *)
LEMMA VectorGrows == ASSUME NEW used \in Nat, NEW size \in Nat, used + 2 <= size
                     PROVE  (used + 1) + 2 <= IF used + 1 = size - 1 THEN 2 * size ELSE size
OBVIOUS

(* processes: a row more, or the end for want of a name.                   *)
LEMMA ListKeeps == ASSUME PageInv, R!ListProcess PROVE PageInv'
<1>1. /\ rat = "generate" /\ url = "/processes" /\ UNCHANGED <<url, sent, end, df>>
      /\ \/ rat' = "exit1" /\ UNCHANGED <<rows, vecSize>>
         \/ /\ rat' = rat
            /\ \E row \in {"row", "ERROR"} : rows' = Append(rows, row)
            /\ vecSize' = IF Len(rows) + 1 = vecSize - 1 THEN 2 * vecSize ELSE vecSize
  BY DEF R!ListProcess, R!Format, R!Grown
<1>2. Told /\ df # "running" /\ rows \in Seq(Parts) /\ vecSize \in Nat /\ Len(rows) + 2 <= vecSize
  BY <1>1 DEF PageInv, PageSoFar, PageTyped, R!VectorHolds
<1>3. CASE rat' = "exit1"
  BY <1>1, <1>2, <1>3 DEF PageInv, PageTyped, PageSoFar, R!VectorHolds
<1>4. CASE rat' = rat
  <2>4. PICK row \in {"row", "ERROR"} : rows' = Append(rows, row)
    BY <1>1, <1>4
  <2>5. row \in Parts
    BY DEF Parts
  <2>1. rows' \in Seq(Parts) /\ Len(rows') = Len(rows) + 1 /\ Len(rows) \in Nat
    BY <1>2, <2>4, <2>5
  <2>2. Len(rows') + 2 <= vecSize' /\ vecSize' \in Nat
    BY <1>1, <1>2, <1>4, <2>1, VectorGrows
  <2>3. Told'
    BY <1>1, <1>2 DEF Told
  <2> QED
    BY <1>1, <1>2, <1>4, <2>1, <2>2, <2>3 DEF PageInv, PageTyped, PageSoFar, R!VectorHolds
<1> QED
  BY <1>1, <1>3, <1>4

LEMMA ConcatFacts ==
  ASSUME NEW seq \in Seq(Parts), NEW more \in Seq(Parts)
  PROVE  /\ seq \o more \in Seq(Parts) /\ Len(seq \o more) = Len(seq) + Len(more)
         /\ \A i \in 1..Len(seq) : (seq \o more)[i] = seq[i]
         /\ \A i \in 1..Len(more) : (seq \o more)[Len(seq) + i] = more[i]
<1>1. seq \o more \in Seq(Parts) /\ Len(seq \o more) = Len(seq) + Len(more)
  OBVIOUS
<1>2. \A i \in 1..Len(seq) : (seq \o more)[i] = seq[i]
  OBVIOUS
<1>3. \A i \in 1..Len(more) : (seq \o more)[Len(seq) + i] = more[i]
  OBVIOUS
<1> QED
  BY <1>1, <1>2, <1>3

(* The rows between the start and the end of the page.                     *)
LEMMA Framed ==
  ASSUME NEW seq \in Seq(Parts), NEW first \in Parts, NEW last \in Parts
  PROVE  LET page == (<<first>> \o seq) \o <<last>>
         IN  /\ page \in Seq(Parts) /\ Len(page) = Len(seq) + 2 /\ Len(seq) \in Nat
             /\ page[1] = first /\ page[Len(seq) + 2] = last
<1> DEFINE head == <<first>>
           tail == <<last>>
           begun == head \o seq
           page == begun \o tail
<1>1. head \in Seq(Parts) /\ Len(head) = 1 /\ head[1] = first /\ tail \in Seq(Parts) /\ Len(tail) = 1 /\ tail[1] = last
  OBVIOUS
<1> HIDE DEF head, tail
<1>2. /\ begun \in Seq(Parts) /\ Len(begun) = 1 + Len(seq) /\ Len(seq) \in Nat
      /\ \A i \in 1..Len(head) : begun[i] = head[i]
  BY <1>1, ConcatFacts
<1>3. begun[1] = first
  BY <1>1, <1>2
<1> HIDE DEF begun
<1>4. /\ page \in Seq(Parts) /\ Len(page) = Len(begun) + Len(tail)
      /\ \A i \in 1..Len(begun) : page[i] = begun[i]
      /\ \A i \in 1..Len(tail) : page[Len(begun) + i] = tail[i]
  BY <1>1, <1>2, ConcatFacts
<1> HIDE DEF page
<1>7. 1 \in 1..Len(begun) /\ 1 \in 1..Len(tail) /\ Len(begun) + 1 = Len(seq) + 2
  BY <1>1, <1>2
<1>8. page[1] = first /\ page[Len(seq) + 2] = last /\ Len(page) = Len(seq) + 2
  BY <1>1, <1>3, <1>4, <1>7
<1> QED
  BY <1>2, <1>4, <1>8 DEF page, begun, head, tail

LEMMA WritePageKeeps == ASSUME PageInv, R!WritePage PROVE PageInv'
<1> DEFINE parts == (<<"start">> \o rows) \o <<"end">>
<1>1. /\ rat = "generate" /\ url = "/processes" /\ UNCHANGED <<url, end, df, rows, vecSize>>
      /\ IF Len(rows) + 2 <= IovMax THEN R!Sends(parts, "free") ELSE rat' = "free" /\ UNCHANGED sent
  BY DEF R!WritePage, R!Plain
<1>2. Told /\ df # "running" /\ rows \in Seq(Parts) /\ sent \in Seq(Parts)
  BY <1>1 DEF PageInv, PageSoFar, PageTyped
<1>3. CASE Len(rows) + 2 <= IovMax
  <2>1. parts \in Seq(Parts) /\ Len(parts) = Len(rows) + 2 /\ Len(rows) \in Nat
        /\ parts[1] = "start" /\ parts[Len(rows) + 2] = "end"
    <3>1. "start" \in Parts /\ "end" \in Parts
      BY DEF Parts
    <3> QED
      BY <1>2, <3>1, Framed
  <2>3. Len(sent) = 1 /\ sent[1] = "ok"
    BY <1>2 DEF Told
  <2> HIDE DEF parts
  <2>4. CASE rat' = "killed" /\ sent' = sent
    BY <1>1, <1>2, <2>4, GivesUpKeeps
  <2>5. CASE rat' # "killed"
    <3>1. /\ rat' = "free" /\ sent' \in Seq(Parts) /\ Len(sent') = 1 + Len(parts) /\ sent'[1] = "ok"
          /\ \A i \in 1..Len(parts) : sent'[1 + i] = parts[i]
      BY <1>1, <1>2, <1>3, <2>1, <2>3, <2>5, SendsAll
    <3>2. 1 \in 1..Len(parts) /\ Len(rows) + 2 \in 1..Len(parts)
      BY <2>1
    <3>3. sent'[2] = "start" /\ Len(sent') = Len(rows) + 3 /\ sent'[Len(rows) + 3] = "end"
      BY <2>1, <3>1, <3>2
    <3>4. Listed'
      BY <1>1, <1>3, <2>1, <3>1, <3>3 DEF Listed, Started
    <3> QED
      BY <1>1, <1>2, <3>1, <3>4 DEF PageInv, PageTyped, PageSoFar, R!VectorHolds
  <2> QED
    BY <1>1, <1>2, <1>3, <2>1, <2>4, <2>5, SendsAll
<1>4. CASE ~(Len(rows) + 2 <= IovMax)
  <2>1. Listed'
    BY <1>1, <1>2, <1>4 DEF Listed, Told
  <2> QED
    BY <1>1, <1>2, <1>4, <2>1 DEF PageInv, PageTyped, PageSoFar, R!VectorHolds
<1> QED
  BY <1>3, <1>4

LEMMA ListedWhole == ASSUME Listed, rows \in Seq(Parts) PROVE Answered
<1>1. CASE Len(rows) + 2 <= IovMax
  BY <1>1 DEF Answered, Complete, Listed, Started
<1>2. CASE ~(Len(rows) + 2 <= IovMax)
  <2>1. Len(rows) + 2 > IovMax
    BY <1>2, PageAssumption
  <2> QED
    BY <1>2, <2>1 DEF Answered, Complete, Listed
<1> QED
  BY <1>1, <1>2

LEMMA FreeKeeps == ASSUME PageInv, R!FreeRows \/ R!Finish PROVE PageInv'
<1>1. /\ UNCHANGED <<url, sent, end, df, rows, vecSize>>
      /\ \/ rat = "free" /\ rat' \in {"done", "crashed"}
         \/ rat = "done" /\ rat' = "exit0"
  BY DEF R!FreeRows, R!Finish, R!Plain
<1>2. Answered /\ df # "running"
  BY <1>1, ListedWhole DEF PageInv, PageTyped, PageSoFar
<1>3. Answered'
  BY <1>1, <1>2 DEF Answered, Complete
<1> QED
  BY <1>1, <1>2, <1>3 DEF PageInv, PageTyped, PageSoFar, R!VectorHolds

LEMMA PageNext == ASSUME PageInv, R!Next PROVE PageInv'
BY ReadKeeps, RespondKeeps, TimeKeeps, IssueKeeps, DiskKeeps, DfKeeps, HandlerKeeps, DiskEndKeeps, ListKeeps,
   WritePageKeeps, FreeKeeps DEF R!Next, R!Page, R!Generate

LEMMA PageRests == ASSUME PageInv, UNCHANGED reqVars PROVE PageInv'
<1>1. UNCHANGED <<rat, url, sent, end, df, rows, vecSize>>
  BY DEF reqVars
<1> QED
  BY <1>1 DEF PageInv, PageTyped, PageSoFar, R!VectorHolds, Unsaid, Told, Listed, Started, DfSpoke, Answered,
                Complete

(* Whichever way the child came to its end, what it has sent is known.     *)
LEMMA PageHolds == ASSUME PageInv PROVE R!PageWhole /\ R!VectorHolds
<1>1. rat \in {"exit0", "crashed"} => Answered
  BY DEF PageInv, PageSoFar
<1> QED
  BY <1>1 DEF PageInv, Answered, Complete, R!PageWhole

(***************************************************************************)
(* For any number of processes and any sizes of vec and of what writev     *)
(* takes: the page of a client that was told 200 OK, and whose child comes *)
(* to its end, is whole or missing altogether, df's part of diskfree       *)
(* included, and vec always has room for its next row (diskfree.c,         *)
(* processes.c:290-317).                                                   *)
(***************************************************************************)
THEOREM PagesAreWhole == MCSpec => []PageWhole
<1> DEFINE Holds == program = "request" => PageInv
<1>1. MCInit => Holds
  BY PageStarts DEF MCInit
<1>2. Holds /\ [MCNext]_allVars => Holds'
  BY PageNext, PageRests DEF MCNext, allVars
<1>3. Holds => PageWhole
  BY PageHolds DEF PageWhole
<1> QED
  BY <1>1, <1>2, <1>3, PTL DEF MCSpec
-------------------------------------------------------------------------------
(* Every set of naturals that is not empty has a least one: the ordering   *)
(* of the finite sets by inclusion is well-founded, and 0..n grows with n. *)
LEMMA LeastNatural ==
  ASSUME NEW S, S \subseteq Nat, S # {}
  PROVE  \E x \in S : \A y \in S : x <= y
<1> DEFINE Ups == {0..n : n \in S}
<1>1. IsWellFoundedOn(StrictSubsetOrdering(Nat), FiniteSubsetsOf(Nat))
  BY FS_StrictSubsetOrderingWellFounded
<1>2. \A n \in S : 0..n \in SUBSET Nat /\ IsFiniteSet(0..n)
  BY FS_Interval
<1>3. Ups \subseteq FiniteSubsetsOf(Nat) /\ Ups # {}
  BY <1>2 DEF FiniteSubsetsOf
<1>4. PICK u \in Ups : \A v \in Ups : ~ (<<v, u>> \in StrictSubsetOrdering(Nat))
  BY <1>1, <1>3, WFMin
<1>5. PICK x \in S : u = 0..x
  BY <1>4
<1>6. ASSUME NEW y \in S PROVE x <= y
  <2> SUFFICES ASSUME y < x PROVE FALSE
    BY <1>5, <1>6
  <2>1. 0..y \in Ups /\ 0..y \in SUBSET Nat /\ 0..x \in SUBSET Nat
    BY <1>2
  <2>2. 0..y \subseteq 0..x /\ 0..y # 0..x
    BY <1>6
  <2>3. <<0..y, u>> \in StrictSubsetOrdering(Nat)
    BY <2>1, <2>2, <1>5 DEF StrictSubsetOrdering
  <2> QED BY <2>1, <2>3, <1>4
<1> QED BY <1>6

(* The words of a read.  An element's place among finitely many positions  *)
(* is the number of those before it: there is one for every place, and no  *)
(* other.                                                                  *)
LEMMA SameSize == \A S : R!Cardinality(S) = Cardinality(S)
BY DEF R!Cardinality, Cardinality

LEMMA PlacesAre ==
  ASSUME NEW m \in Nat, NEW heads, heads \subseteq 1..m
  PROVE  /\ IsFiniteSet(heads) /\ Cardinality(heads) \in Nat
         /\ \A h \in heads : h \in Nat /\ 1 <= h /\ h <= m
         /\ \A t : IsFiniteSet({h \in heads : h < t}) /\ Cardinality({h \in heads : h < t}) \in Nat
<1>1. IsFiniteSet(1..m)
  BY FS_Interval
<1>2. IsFiniteSet(heads)
  BY <1>1, FS_Subset
<1>3. \A t : {h \in heads : h < t} \subseteq heads
  OBVIOUS
<1>4. \A t : IsFiniteSet({h \in heads : h < t})
  BY <1>2, <1>3, FS_Subset
<1>5. \A h \in heads : h \in 1..m
  OBVIOUS
<1> QED
  BY <1>2, <1>4, <1>5, FS_CardinalityType

(* The number of the positions before one.                                 *)
Rank(t, heads) == Cardinality({h \in heads : h < t})

LEMMA PlaceTaken ==
  ASSUME NEW m \in Nat, NEW heads, heads \subseteq 1..m, NEW n \in Nat \ {0}, n <= Cardinality(heads)
  PROVE  \E i \in heads : Rank(i, heads) = n - 1
<1> DEFINE Below(t) == {h \in heads : h < t}
           T == {t \in Nat : Cardinality(Below(t)) >= n}
<1>1. \A h \in heads : h \in Nat /\ 1 <= h /\ h <= m
  BY PlacesAre
<1>2. \A t \in Nat : IsFiniteSet(Below(t)) /\ Cardinality(Below(t)) \in Nat
  BY PlacesAre
<1>3. m + 1 \in T
  <2>1. \A h \in heads : h < m + 1
    BY <1>1
  <2>2. Below(m + 1) = heads
    BY <2>1
  <2> QED
    BY <2>2
<1>4. PICK t \in T : \A y \in T : t <= y
  BY <1>3, LeastNatural
<1>5. t # 0
  <2>1. \A h \in heads : ~(h < 0)
    BY <1>1
  <2>2. Below(0) = {}
    BY <2>1
  <2> QED
    BY <2>2, FS_EmptySet
<1>6. t - 1 \in Nat /\ t - 1 \notin T
  BY <1>4, <1>5
<1>7. Cardinality(Below(t - 1)) < n /\ Cardinality(Below(t - 1)) \in Nat /\ Cardinality(Below(t)) >= n
  BY <1>2, <1>4, <1>6
<1>8. t - 1 \in heads
  <2> SUFFICES ASSUME t - 1 \notin heads PROVE FALSE
    OBVIOUS
  <2>1. \A h \in heads : h < t <=> h < t - 1
    BY <1>1, <1>6
  <2>2. Below(t) = Below(t - 1)
    BY <2>1
  <2> QED
    BY <1>7, <2>2
<1>9. Cardinality(Below(t - 1)) = n - 1
  <2>0. \A h \in heads : h < t <=> h < t - 1 \/ h = t - 1
    BY <1>1, <1>6
  <2>1. Below(t) = Below(t - 1) \cup {t - 1} /\ t - 1 \notin Below(t - 1)
    BY <1>6, <1>8, <2>0
  <2>2. Cardinality(Below(t)) = Cardinality(Below(t - 1)) + 1
    BY <1>2, <1>6, <2>1, FS_AddElement
  <2> QED
    BY <1>7, <2>2
<1> QED
  BY <1>8, <1>9 DEF Rank

LEMMA PlaceOnce ==
  ASSUME NEW m \in Nat, NEW heads, heads \subseteq 1..m, NEW i \in heads, NEW j \in heads,
         Rank(i, heads) = Rank(j, heads)
  PROVE  i = j
<1>1. ASSUME NEW a \in heads, NEW b \in heads, a < b
      PROVE  Rank(a, heads) < Rank(b, heads)
  <2> DEFINE A == {h \in heads : h < a}
             B == {h \in heads : h < b}
  <2>1. IsFiniteSet(B)
    BY PlacesAre
  <2>2. A \subseteq B /\ A # B
    <3>1. a \in B /\ a \notin A
      BY <1>1
    <3>2. \A h \in heads : h \in Nat
      BY PlacesAre
    <3>3. \A h \in heads : h < a => h < b
      BY <1>1, <3>2
    <3> QED
      BY <3>1, <3>3
  <2> QED
    BY <2>1, <2>2, FS_Subset, FS_CardinalityType DEF Rank
<1>2. Rank(i, heads) \in Nat /\ Rank(j, heads) \in Nat
  BY PlacesAre DEF Rank
<1>3. ~(i < j) /\ ~(j < i)
  BY <1>1, <1>2
<1>4. i \in Nat /\ j \in Nat
  BY PlacesAre
<1> QED
  BY <1>3, <1>4

(* The word at a place is the one that Nth finds there.                    *)
LEMMA NthIs ==
  ASSUME NEW m \in Nat, NEW heads, heads \subseteq 1..m, NEW i \in heads,
         NEW n, Rank(i, heads) = n - 1
  PROVE  R!Nth(n, heads) = i
<1>1. R!Nth(n, heads) = CHOOSE j \in heads : Rank(j, heads) = n - 1
  BY SameSize, Zenon DEF R!Nth, Rank
<1>2. \A j \in heads : Rank(j, heads) = n - 1 => j = i
  <2> SUFFICES ASSUME NEW j \in heads, Rank(j, heads) = n - 1 PROVE j = i
    OBVIOUS
  <2>1. Rank(j, heads) = Rank(i, heads)
    BY Zenon
  <2> QED
    BY <2>1, PlaceOnce, Zenon
<1>3. \E j \in heads : Rank(j, heads) = n - 1
  BY Zenon
<1>4. R!Nth(n, heads) \in heads /\ Rank(R!Nth(n, heads), heads) = n - 1
  BY <1>1, <1>3, Zenon
<1> QED
  BY <1>2, <1>4, Zenon

(* What a request, or a part of one, is made of.                           *)
Cells == Seq(STRING \X Nat)

(* If all its words are found in a part of a request, and none is cut,     *)
(* they are the request's words.                                           *)
LEMMA WordsOfAPart ==
  ASSUME NEW s \in Cells, NEW k \in 1..Len(s), NEW p, p = SubSeq(s, 1, k),
         Len(R!Words(p)) = Len(R!Words(s)),
         \A n \in 1..Len(R!Words(p)) : R!Words(p)[n] # "cut"
  PROVE  R!Words(p) = R!Words(s)
<1>1. Len(s) \in Nat /\ DOMAIN s = 1..Len(s) /\ DOMAIN p = 1..k /\ Len(p) = k /\ \A i \in 1..k : p[i] = s[i]
  BY DEF Cells
<1>k. k \in Nat /\ k <= Len(s)
  BY <1>1
<1> DEFINE hs == R!Heads(s)
           hp == R!Heads(p)
<1>2. hs \subseteq 1..Len(s) /\ hp \subseteq 1..k /\ \A i \in 1..k : i \in hp <=> i \in hs
  BY <1>1 DEF R!Heads
<1>3. IsFiniteSet(hs) /\ IsFiniteSet(hp) /\ Cardinality(hs) \in Nat /\ Cardinality(hp) \in Nat
  BY <1>1, <1>2, PlacesAre
<1>4. R!Cardinality(hs) = Cardinality(hs) /\ R!Cardinality(hp) = Cardinality(hp)
  BY SameSize
<1> DEFINE np == IF Cardinality(hp) > 3 THEN 3 ELSE Cardinality(hp)
           ns == IF Cardinality(hs) > 3 THEN 3 ELSE Cardinality(hs)
<1>5. np \in Nat /\ ns \in Nat /\ np <= Cardinality(hp)
  BY <1>3
<1>6. /\ R!Words(p) = [n \in 1..np |-> IF R!Nth(n, hp) = Len(p) THEN "cut" ELSE p[R!Nth(n, hp)][1]]
      /\ R!Words(s) = [n \in 1..ns |-> IF R!Nth(n, hs) = Len(s) THEN "cut" ELSE s[R!Nth(n, hs)][1]]
  BY <1>4 DEF R!Words
<1> HIDE DEF np, ns, hp, hs
<1>7. np = ns /\ Len(R!Words(p)) = np
  BY <1>5, <1>6
<1>8. ASSUME NEW n \in 1..np
      PROVE  (IF R!Nth(n, hp) = Len(p) THEN "cut" ELSE p[R!Nth(n, hp)][1])
               = (IF R!Nth(n, hs) = Len(s) THEN "cut" ELSE s[R!Nth(n, hs)][1])
  <2>1. PICK i \in hp : Rank(i, hp) = n - 1
    <3>1. n \in Nat \ {0} /\ n <= Cardinality(hp)
      BY <1>3, <1>5
    <3> QED
      BY <1>2, <1>k, <3>1, PlaceTaken
  <2>2. R!Nth(n, hp) = i
    BY <1>2, <1>k, <2>1, NthIs
  <2>3. i \in 1..k /\ i \in hs
    BY <1>2
  <2>4. Rank(i, hs) = Rank(i, hp)
    <3>1. \A h \in hs : h < i => h \in 1..k
      BY <1>1, <1>2, <2>3
    <3>2. \A h \in hp : h \in 1..k
      BY <1>2
    <3>3. {h \in hs : h < i} = {h \in hp : h < i}
      BY <1>2, <3>1, <3>2
    <3> QED
      BY <3>3, Zenon DEF Rank
  <2>5. R!Nth(n, hs) = i
    <3>1. Rank(i, hs) = n - 1
      BY <2>1, <2>4, Zenon
    <3> QED
      BY <1>1, <1>2, <2>3, <3>1, NthIs
  <2>6. i # k
    BY <1>1, <1>6, <1>7, <2>2
  <2>7. i # Len(s)
    BY <1>k, <2>3, <2>6
  <2> QED
    BY <1>1, <2>2, <2>3, <2>5, <2>6, <2>7
<1> QED
  BY <1>6, <1>7, <1>8

(* A read has at most three words.                                         *)
LEMMA WordsAtMost ==
  ASSUME NEW s \in Cells, NEW k \in 1..Len(s)
  PROVE  Len(R!Words(SubSeq(s, 1, k))) \in 0..3 /\ DOMAIN R!Words(SubSeq(s, 1, k)) = 1..Len(R!Words(SubSeq(s, 1, k)))
<1> DEFINE p == SubSeq(s, 1, k)
<1>1. k \in Nat /\ DOMAIN p = 1..k
  BY DEF Cells
<1>2. R!Heads(p) \subseteq 1..k
  BY <1>1 DEF R!Heads
<1>3. R!Cardinality(R!Heads(p)) \in Nat
  BY <1>1, <1>2, PlacesAre, SameSize
<1> DEFINE n == IF R!Cardinality(R!Heads(p)) > 3 THEN 3 ELSE R!Cardinality(R!Heads(p))
           word(i) == IF R!Nth(i, R!Heads(p)) = Len(p) THEN "cut" ELSE p[R!Nth(i, R!Heads(p))][1]
<1>4. n \in 0..3
  BY <1>3
<1>5. R!Words(p) = [i \in 1..n |-> word(i)]
  BY DEF R!Words
<1> HIDE DEF n, word
<1>6. Len(R!Words(p)) = n /\ DOMAIN R!Words(p) = 1..n
  BY <1>4, <1>5
<1> QED
  BY <1>4, <1>6
(***************************************************************************)
(* What a child answers was decided by the words of its first read, which  *)
(* no later read changes, and stays the first thing it has sent.           *)
(***************************************************************************)
Begun == \E k \in 1..Len(request) : words = R!Words(SubSeq(request, 1, k))

Said(a) == IF a = "bad_request" THEN "HTTP/1.0" ELSE a

Replied == sent[1] = Said(R!Answer(words)) /\ (R!Answer(words) = "ok" => url = words[2])

AskInv == /\ request \in Cells
          /\ rat = "read" => unread = request
          /\ rat \in {"scan", "answer"} => Begun
          /\ sent # <<>> => Begun /\ Replied
          /\ df = "running" => sent # <<>>

LEMMA AskStarts == ASSUME R!Init PROVE AskInv
BY RequestsAssumption DEF R!Init, R!PagesInit, AskInv, Cells

LEMMA AskRead == ASSUME AskInv, PageInv, R!Read \/ R!Scan \/ R!ReadMore PROVE AskInv'
<1>1. /\ UNCHANGED <<url, sent, df, request>> /\ rat \in {"read", "scan"} /\ rat' # "read"
  BY DEF R!Read, R!Scan, R!ReadMore, R!Plain, R!connVars
<1>2. sent = <<>> /\ sent' = <<>>
  BY <1>1 DEF PageInv, PageSoFar, Unsaid
<1>3. rat' \in {"scan", "answer"} => Begun'
  <2>1. CASE R!Read
    <3> SUFFICES ASSUME rat' \in {"scan", "answer"} PROVE Begun'
      OBVIOUS
    <3>1. PICK k \in 1..(BufSize - 1) : k <= Len(unread) /\ words' = R!Words(SubSeq(unread, 1, k))
      BY <2>1 DEF R!Read
    <3>2. unread = request /\ Len(request) \in Nat
      BY <2>1 DEF R!Read, AskInv, Cells
    <3>3. k \in 1..Len(request)
      BY <3>1, <3>2, RequestsAssumption
    <3>4. words' = R!Words(SubSeq(request, 1, k)) /\ request' = request
      BY <1>1, <3>1, <3>2
    <3> QED
      BY <3>3, <3>4 DEF Begun
  <2>2. CASE R!Scan \/ R!ReadMore
    <3>1. UNCHANGED <<request, words>> /\ rat = "scan"
      BY <2>2 DEF R!Scan, R!ReadMore, R!connVars
    <3> QED
      BY <3>1 DEF AskInv, Begun
  <2> QED
    BY <2>1, <2>2
<1> QED
  BY <1>1, <1>2, <1>3 DEF AskInv

LEMMA AskRespond == ASSUME AskInv, PageInv, R!Respond PROVE AskInv'
<1> DEFINE a == R!Answer(words)
<1>1. /\ rat = "answer" /\ UNCHANGED <<df, request, words>>
      /\ url' = IF a = "ok" THEN words[2] ELSE url
      /\ \/ rat' = "killed" /\ sent' = sent
         \/ rat' \in {"generate", "done"} /\ sent' = sent \o <<Said(a)>>
  BY DEF R!Respond, R!Sends, R!connVars, Said
<1>2. sent = <<>> /\ Begun /\ Begun'
  BY <1>1 DEF PageInv, PageSoFar, Unsaid, AskInv, Begun
<1>3. CASE sent' = sent
  BY <1>1, <1>2, <1>3 DEF AskInv
<1>4. CASE sent' = sent \o <<Said(a)>> /\ rat' \in {"generate", "done"}
  <2>1. sent' = <<Said(a)>>
    BY <1>2, <1>4
  <2>2. R!Answer(words') = a
    BY <1>1
  <2>3. sent'[1] = Said(a)
    BY <2>1
  <2>4. (Replied)'
    BY <1>1, <2>2, <2>3 DEF Replied
  <2>5. sent' # <<>>
    BY <2>1
  <2> QED
    BY <1>1, <1>2, <1>4, <2>4, <2>5 DEF AskInv
<1> QED
  BY <1>1, <1>3, <1>4

(* The parts of a page come after the answer.                              *)
LEMMA FirstStays ==
  ASSUME NEW parts \in Seq(Parts), NEW goes, sent \in Seq(Parts), sent # <<>>, R!Sends(parts, goes)
  PROVE  sent' # <<>> /\ sent'[1] = sent[1]
<1>1. Len(sent) \in Nat /\ Len(sent) > 0 /\ 1 \in 1..Len(sent) /\ Len(parts) \in Nat
  BY EmptySeq
<1>2. CASE sent' = sent
  BY <1>2
<1>3. CASE Len(sent') = Len(sent) + Len(parts) /\ sent' \in Seq(Parts) /\ \A i \in 1..Len(sent) : sent'[i] = sent[i]
  <2>1. Len(sent') > 0
    BY <1>1, <1>3
  <2> QED
    BY <1>1, <1>3, <2>1
<1> QED
  BY <1>2, <1>3, SendsAll

(* Where a page is made the client has been told 200 OK.                   *)
LEMMA AskPage == ASSUME AskInv, PageInv, R!Page PROVE AskInv'
<1>1. R!Generate /\ UNCHANGED <<request, unread, words>>
  BY DEF R!Page, R!connVars
<1>2. UNCHANGED url /\ (rat' = rat \/ rat' \notin {"read", "scan", "answer"})
  BY <1>1 DEF R!Generate, R!Time, R!Issue, R!DiskStart, R!DiskFork, R!DfRuns, R!Handler, R!CallWaitpid, R!Waitpid,
              R!DiskEnd, R!ListProcess, R!WritePage, R!FreeRows, R!Sends, R!Plain
<1>3. rat \in {"generate", "fork", "page_end"} => sent # <<>>
  <2>1. rat = "generate" => sent # <<>>
    BY DEF PageInv, PageSoFar, Told
  <2>2. rat \in {"fork", "page_end"} => Len(sent) >= 2
    BY DEF PageInv, PageSoFar, DfSpoke, Started
  <2> QED
    BY <2>1, <2>2
<1>4. \/ sent' = sent
      \/ sent # <<>> /\ sent' # <<>> /\ sent'[1] = sent[1]
  <2>1. sent \in Seq(Parts)
    BY DEF PageInv, PageTyped
  <2>2. ASSUME rat \in {"generate", "page_end"}, NEW parts \in Seq(Parts), NEW goes, R!Sends(parts, goes)
        PROVE  sent # <<>> /\ sent' # <<>> /\ sent'[1] = sent[1]
    BY <1>3, <2>1, <2>2, FirstStays
  <2>3. CASE R!Time
    <3> DEFINE parts == <<"start", "body", "end">>
    <3>1. parts \in Seq(Parts)
      BY DEF Parts
    <3> QED
      BY <2>2, <2>3, <3>1 DEF R!Time
  <2>4. CASE R!Issue
    <3>1. <<"error_page">> \in Seq(Parts)
      BY DEF Parts
    <3>2. \A body \in {"body", "error_message"} : <<"start", body, "end">> \in Seq(Parts)
      BY DEF Parts
    <3> QED
      BY <2>2, <2>4, <3>1, <3>2 DEF R!Issue
  <2>5. CASE R!DiskStart \/ R!DiskEnd
    <3>1. <<"start">> \in Seq(Parts) /\ <<"end">> \in Seq(Parts)
      BY DEF Parts
    <3> QED
      BY <2>2, <2>5, <3>1 DEF R!DiskStart, R!DiskEnd
  <2>6. CASE R!WritePage
    <3> DEFINE parts == <<"start">> \o rows \o <<"end">>
    <3>1. parts \in Seq(Parts)
      BY DEF Parts, PageInv, PageTyped
    <3> HIDE DEF parts
    <3>2. rat = "generate" /\ (sent' = sent \/ R!Sends(parts, "free"))
      BY <2>6 DEF R!WritePage, parts
    <3> QED
      BY <2>2, <3>1, <3>2
  <2>7. CASE R!DfRuns
    <3>1. sent # <<>>
      BY <2>7 DEF R!DfRuns, AskInv
    <3>2. PICK part \in Parts : sent' = sent \/ sent' = Append(sent, part)
      BY <2>7 DEF R!DfRuns, Parts
    <3>3. Len(sent) \in Nat /\ Len(sent) > 0 /\ 1 \in 1..Len(sent)
      BY <2>1, <3>1, EmptySeq
    <3>4. PICK longer : longer = Append(sent, part)
      OBVIOUS
    <3>5. longer \in Seq(Parts) /\ Len(longer) > 0 /\ longer[1] = sent[1]
      BY <2>1, <3>3, <3>4, AppendFacts
    <3> QED
      BY <3>1, <3>2, <3>4, <3>5
  <2>8. CASE UNCHANGED sent
    BY <2>8
  <2> QED
    BY <1>1, <2>3, <2>4, <2>5, <2>6, <2>7, <2>8
       DEF R!Generate, R!DiskFork, R!Handler, R!CallWaitpid, R!Waitpid, R!ListProcess, R!FreeRows, R!Plain
<1>5. df' = "running" => sent' # <<>>
  <2>1. df' = "running" => df = "running" \/ rat = "fork"
    BY <1>1 DEF R!Generate, R!Time, R!Issue, R!DiskStart, R!DiskFork, R!DfRuns, R!Handler, R!CallWaitpid, R!Waitpid,
              R!DiskEnd, R!ListProcess, R!WritePage, R!FreeRows, R!Plain
  <2> QED
    BY <1>3, <1>4, <2>1 DEF AskInv
<1>6. /\ sent' # <<>> => sent # <<>> /\ sent'[1] = sent[1]
      /\ R!Answer(words)' = R!Answer(words)
  BY <1>1, <1>4
<1>7. Begun => Begun'
  BY <1>1 DEF Begun
<1>8. sent' # <<>> => Begun' /\ (Replied)'
  <2> SUFFICES ASSUME sent' # <<>> PROVE Begun' /\ (Replied)'
    OBVIOUS
  <2>1. Begun /\ Replied
    BY <1>6 DEF AskInv
  <2>2. PICK w : w = words /\ words' = w
    BY <1>1
  <2>3. sent[1] = Said(R!Answer(w)) /\ (R!Answer(w) = "ok" => url = w[2])
    BY <2>1, <2>2 DEF Replied
  <2>4. sent'[1] = Said(R!Answer(w)) /\ (R!Answer(w) = "ok" => url' = w[2])
    BY <1>2, <1>6, <2>3
  <2> QED
    BY <1>7, <2>1, <2>2, <2>4 DEF Replied
<1> QED
  BY <1>1, <1>2, <1>5, <1>7, <1>8 DEF AskInv

LEMMA AskNext == ASSUME AskInv, PageInv, R!Next PROVE AskInv'
<1>1. CASE R!Finish
  <2>1. UNCHANGED <<url, sent, df, request, words>> /\ rat' = "exit0"
    BY <1>1 DEF R!Finish, R!Plain, R!connVars
  <2> QED
    BY <2>1 DEF AskInv, Begun, Replied
<1> QED
  BY <1>1, AskRead, AskRespond, AskPage DEF R!Next

LEMMA AskRests == ASSUME AskInv, UNCHANGED reqVars PROVE AskInv'
BY DEF reqVars, AskInv, Begun, Replied

(* The words of the first read are the request's when none is cut and none *)
(* is missing, and the answer to them is the one the request deserves.     *)
LEMMA AskHolds == ASSUME AskInv PROVE R!AnswersTheRequest
<1> SUFFICES ASSUME sent # <<>>, "cut" \notin {words[i] : i \in DOMAIN words}, Len(words) = Len(R!Words(request))
             PROVE  LET w == R!Words(request)
                    IN  /\ sent[1] = "HTTP/1.0" <=> Len(w) < 3 \/ w[3] \notin {"HTTP/1.0", "HTTP/1.1"}
                        /\ sent[1] = "ok" => w[1] = "GET" /\ w[2] = url /\ Libraries[w[2]]
                        /\ sent[1] = "bad_method" <=> sent[1] # "HTTP/1.0" /\ w[1] # "GET"
  BY DEF R!AnswersTheRequest
<1>1. PICK k \in 1..Len(request) : words = R!Words(SubSeq(request, 1, k))
  BY DEF AskInv, Begun
<1>2. request \in Cells
  BY DEF AskInv
<1>3. Len(words) \in 0..3 /\ DOMAIN words = 1..Len(words)
  BY <1>1, <1>2, WordsAtMost
<1>4. words = R!Words(request)
  <2>1. \A n \in 1..Len(words) : words[n] # "cut"
    BY <1>3
  <2> QED
    BY <1>1, <1>2, <2>1, WordsOfAPart
<1>5. PICK w : w = words
  OBVIOUS
<1>6. sent[1] = Said(R!Answer(w)) /\ (R!Answer(w) = "ok" => url = w[2]) /\ Len(w) \in 0..3
  BY <1>3, <1>5 DEF AskInv, Replied
<1>7. /\ sent[1] = "HTTP/1.0" <=> Len(w) < 3 \/ w[3] \notin {"HTTP/1.0", "HTTP/1.1"}
      /\ sent[1] = "ok" => w[1] = "GET" /\ w[2] = url /\ Libraries[w[2]]
      /\ sent[1] = "bad_method" <=> sent[1] # "HTTP/1.0" /\ w[1] # "GET"
  <2>1. R!Understood(w) <=> ~(Len(w) < 3 \/ w[3] \notin {"HTTP/1.0", "HTTP/1.1"})
    BY <1>6 DEF R!Understood
  <2>2. R!HandleGet(w[2]) = "ok" \/ R!HandleGet(w[2]) = "not_found"
    BY DEF R!HandleGet
  <2>3. R!HandleGet(w[2]) = "ok" => Libraries[w[2]]
    BY DEF R!HandleGet, R!ModuleOpen
  <2> QED
    BY <1>6, <2>1, <2>2, <2>3 DEF R!Answer, Said
<1> QED
  BY <1>4, <1>5, <1>7

(***************************************************************************)
(* For every set of requests and every size of the buffer: a request whose *)
(* first three words arrive whole in the first read gets the answer that   *)
(* the whole of it deserves, whatever the later reads bring and overwrite, *)
(* and the page made is the one it names (server.c:145-178).               *)
(***************************************************************************)
THEOREM AnswersAsDeserved == MCSpec => []AnswersTheRequest
<1> DEFINE Holds == program = "request" => PageInv /\ AskInv
<1>1. MCInit => Holds
  BY PageStarts, AskStarts DEF MCInit
<1>2. Holds /\ [MCNext]_allVars => Holds'
  BY PageNext, PageRests, AskNext, AskRests DEF MCNext, allVars
<1>3. Holds => AnswersTheRequest
  BY AskHolds DEF AnswersTheRequest
<1> QED
  BY <1>1, <1>2, <1>3, PTL DEF MCSpec
===============================================================================
