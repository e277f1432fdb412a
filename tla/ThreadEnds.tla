------------------------------- MODULE ThreadEnds -------------------------------
(***************************************************************************)
(* How threads end in ALP-listings/chapter-4, and what becomes of what     *)
(* they hold: a log file in thread-specific data (tsd.c), a buffer with a  *)
(* cleanup handler (cleanup.c), the objects of a C++ stack (cxx-exit.cpp), *)
(* arguments that live on main's stack (thread-create2.c), and a detached  *)
(* thread nobody waits for (detached.c).                                   *)
(***************************************************************************)
EXTENDS Naturals

CONSTANT MaxThreads  \* tsd.c starts 5

Listings == {"tsd", "cleanup", "cxx_exit", "create2", "detached"}

VARIABLES listing,
          main,    \* "create", "join", "returned" or "crashed"
          next,    \* the loop variable of either loop of main
          thread,  \* where each thread is
          how,     \* how it ends
          freed    \* how often what it held was released

endVars == <<listing, main, next, thread, how, freed>>

N == IF listing = "detached" THEN 1 ELSE IF listing = "create2" THEN 2 ELSE MaxThreads
Ids == 1..MaxThreads

Init == /\ listing \in Listings
        /\ main = "create" /\ next = 1
        /\ thread = [i \in Ids |-> "none"] /\ how = [i \in Ids |-> "runs"] /\ freed = [i \in Ids |-> 0]

Running == main \notin {"returned", "crashed"}

(* pthread_create, whose failure nobody looks at; main of detached.c then  *)
(* returns.                                                                *)
CreateThread == /\ main = "create"
                /\ thread' = [thread EXCEPT ![next] = "started"] \/ UNCHANGED thread
                /\ IF next < N THEN next' = next + 1 /\ UNCHANGED main
                   ELSE next' = 1 /\ main' = IF listing = "detached" THEN "work" ELSE "join"
                /\ UNCHANGED <<listing, how, freed>>

(* pthread_join; of a thread that was never made, with whatever the array  *)
(* of identifiers held.                                                    *)
JoinThread == /\ main = "join"
              /\ \/ /\ thread[next] \in {"exited", "none"}
                    /\ IF next < N THEN next' = next + 1 /\ UNCHANGED main ELSE UNCHANGED next /\ main' = "work"
                 \/ thread[next] = "none" /\ main' = "crashed" /\ UNCHANGED next
              /\ UNCHANGED <<listing, thread, how, freed>>

MainReturns == main = "work" /\ main' = "returned" /\ UNCHANGED <<listing, next, thread, how, freed>>

Moves(i, from, to) == Running /\ thread[i] = from /\ thread' = [thread EXCEPT ![i] = to]

(* The thread takes hold of its log, buffer or objects.  tsd.c writes to a *)
(* log that was not opened.                                                *)
Acquire(i) == /\ Moves(i, "started", "working")
              /\ main' \in {main} \cup (IF listing = "tsd" THEN {"crashed"} ELSE {})
              /\ UNCHANGED <<listing, next, how, freed>>

Ways == CASE listing = "cleanup"  -> {"returns", "pthread_exit", "cancelled"}
          [] listing = "cxx_exit" -> {"throws"}
          [] OTHER                -> {"returns"}

Ends(i) == /\ Moves(i, "working", "ending")
           /\ \E way \in Ways : how' = [how EXCEPT ![i] = way]
           /\ UNCHANGED <<listing, main, next, freed>>

(* Mutation: pthread_cleanup_pop (0). *)
PopsNothing(i) == FALSE

(* pthread_cleanup_pop (1), reached when the work is done.                 *)
Pops(i) == listing = "cleanup" /\ how[i] = "returns"

(* What pthread_exit and cancellation run: the handlers still pushed, the  *)
(* destructors of the C++ stack (the exception was caught first, so they   *)
(* have run), the destructor of a key.                                     *)
RunsHandlers(i) == \/ listing = "cleanup" /\ how[i] \in {"pthread_exit", "cancelled"}
                   \/ listing = "cxx_exit" /\ how[i] = "throws"
                   \/ listing = "tsd"

Release(i) == /\ Moves(i, "ending", "exited")
              /\ freed' = [freed EXCEPT ![i] = @ + (IF Pops(i) THEN 1 ELSE 0) + (IF RunsHandlers(i) THEN 1 ELSE 0)]
              /\ UNCHANGED <<listing, main, next, how>>

Next == CreateThread \/ JoinThread \/ MainReturns \/ \E i \in Ids : Acquire(i) \/ Ends(i) \/ Release(i)

Spec == Init /\ [][Next]_endVars
-------------------------------------------------------------------------------
(* Whichever way a thread ends, what it held is released once; and no      *)
(* thread is left to use main's stack, the log or the buffer when main has *)
(* returned, except the detached one, which ends where it is.              *)
LeavesNothing ==
  /\ \A i \in Ids : freed[i] <= 1 /\ (thread[i] = "exited" /\ listing \in {"tsd", "cleanup", "cxx_exit"} => freed[i] = 1)
  /\ main = "returned" /\ listing # "detached" => \A i \in Ids : thread[i] \in {"none", "exited"}
===============================================================================
