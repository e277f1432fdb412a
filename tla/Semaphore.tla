------------------------------- MODULE Semaphore -------------------------------
(***************************************************************************)
(* The binary semaphore of ALP-listings/chapter-5 (sem_all_deall.c,        *)
(* sem_init.c, sem_pv.c), used by processes that come and go and may be    *)
(* killed at any point: the kernel then undoes what they did with          *)
(* SEM_UNDO.                                                               *)
(***************************************************************************)
EXTENDS Integers

CONSTANT Procs

VARIABLES where,  \* process -> "away", "initialize", "out", "waiting", "inside"
          exists, \* there is a semaphore under the key
          ready,  \* it has been initialised
          value,  \* its value
          adj     \* process -> what the kernel adds to value when it ends

semVars == <<where, exists, ready, value, adj>>

Init == /\ where = [p \in Procs |-> "away"] /\ adj = [p \in Procs |-> 0]
        /\ exists = FALSE /\ ready = FALSE /\ value = 0

Goes(p, from, to) == where[p] = from /\ where' = [where EXCEPT ![p] = to]

(* binary_semaphore_allocation; a new semaphore's value is 0, and the      *)
(* process that made it initialises it.                                    *)
Allocate(p) == /\ Goes(p, "away", IF exists THEN "out" ELSE "initialize")
               /\ exists' = TRUE
               /\ UNCHANGED <<ready, value, adj>>

(* binary_semaphore_initialize: SETALL forgets what is to be undone.       *)
Initialize(p) == /\ Goes(p, "initialize", "out")
                 /\ value' = 1 /\ ready' = TRUE /\ adj' = [q \in Procs |-> 0]
                 /\ UNCHANGED exists

(* Mutation: semop without SEM_UNDO.                                       *)
OpForGood(p, n) == value' = value + n /\ UNCHANGED adj

(* semop with SEM_UNDO.                                                    *)
Op(p, n) == value' = value + n /\ adj' = [adj EXCEPT ![p] = @ - n]

Asks(p) == Goes(p, "out", "waiting") /\ UNCHANGED <<exists, ready, value, adj>>

(* binary_semaphore_wait.                                                  *)
Wait(p) == value > 0 /\ Goes(p, "waiting", "inside") /\ Op(p, -1) /\ UNCHANGED <<exists, ready>>

(* Mutation: binary_semaphore_post without SEM_UNDO.                       *)
PostForGood(p) == Goes(p, "inside", "out") /\ value' = value + 1 /\ UNCHANGED <<exists, ready, adj>>

(* binary_semaphore_post.                                                  *)
Post(p) == Goes(p, "inside", "out") /\ Op(p, 1) /\ UNCHANGED <<exists, ready>>

(* The end of a process, in its own time or killed, which the kernel makes *)
(* good; a value never gets negative by it.                                *)
Ends(p) == /\ where[p] # "away" /\ where' = [where EXCEPT ![p] = "away"]
           /\ value' = IF value + adj[p] < 0 THEN 0 ELSE value + adj[p]
           /\ adj' = [adj EXCEPT ![p] = 0]
           /\ UNCHANGED <<exists, ready>>

(* binary_semaphore_deallocate, by the last user as its comment asks.      *)
Deallocate(p) == /\ Goes(p, "out", "away") /\ \A q \in Procs \ {p} : where[q] = "away"
                 /\ exists' = FALSE /\ ready' = FALSE /\ value' = 0 /\ adj' = [q \in Procs |-> 0]

Next == \E p \in Procs : Allocate(p) \/ Initialize(p) \/ Asks(p) \/ Wait(p) \/ Post(p) \/ Ends(p) \/ Deallocate(p)

(* Whoever is inside goes on, and the kernel serves its queue in order; a  *)
(* process need neither come nor ask nor end.                              *)
Fairness == \A p \in Procs : WF_semVars(Initialize(p)) /\ WF_semVars(Post(p)) /\ SF_semVars(Wait(p))

Spec == Init /\ [][Next]_semVars /\ Fairness
-------------------------------------------------------------------------------
(* Two processes are never inside, whoever was killed wherever before.     *)
MutualExclusion == \A p, q \in Procs : where[p] = "inside" /\ where[q] = "inside" => p = q

(* Who waits for an initialised semaphore gets in (or is killed), though   *)
(* others may die inside.                                                  *)
WaitersGetIn == \A p \in Procs : (ready /\ where[p] = "waiting") ~> where[p] # "waiting"
===============================================================================
