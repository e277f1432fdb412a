------------------------------- MODULE MCThreads -------------------------------
(***************************************************************************)
(* The threads of ALP-listings/chapter-4 that meet at a mutex: `program'   *)
(* says which module runs, the variables of the other rest.                *)
(***************************************************************************)
EXTENDS JobQueue

CONSTANTS Waiters, MaxSets

VARIABLES program, listing, flag, lock, wt, seen, setter, value, sets

F == INSTANCE ThreadFlag

flagVars == <<listing, flag, lock, wt, seen, setter, value, sets>>
allVars  == <<program, queueVars, flagVars>>

QueueRests == /\ variant = "mutex" /\ queue = <<>> /\ mutex = None /\ count = 0
              /\ at = [t \in Threads |-> "exited"] /\ job = [t \in Threads |-> None]
              /\ rest = [t \in Threads |-> <<>>] /\ done = {} /\ freed = {} /\ wrong = FALSE
FlagRests  == /\ listing = "spin" /\ flag = 0 /\ lock = "nobody" /\ setter = "away" /\ value = 0 /\ sets = MaxSets
              /\ wt = [w \in Waiters |-> "none"] /\ seen = [w \in Waiters |-> 0]

MCInit == \/ program = "queue" /\ Init /\ FlagRests
          \/ program = "flag" /\ F!Init /\ QueueRests

MCNext == /\ UNCHANGED program
          /\ \/ program = "queue" /\ Next /\ UNCHANGED flagVars
             \/ program = "flag" /\ F!Next /\ UNCHANGED queueVars

MCSpec == MCInit /\ [][MCNext]_allVars /\ Fairness /\ F!Fairness

-------------------------------------------------------------------------------
(* ThreadFlag: whoever works has seen the flag set (condvar.c:33-43).      *)
WorksWhenSet == program = "flag" => F!WorksWhenSet

(* ThreadFlag: no wake-up is lost (condvar.c:53-59).                       *)
WorkGoesOn == <>[](program = "flag" /\ flag = 1 /\ setter = "away") => []<>(\E w \in Waiters : wt[w] = "work")
===============================================================================
