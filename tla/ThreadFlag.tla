------------------------------- MODULE ThreadFlag -------------------------------
(***************************************************************************)
(* A thread that works while a flag is set, in ALP-listings/chapter-4:     *)
(* condvar.c waits for the flag on a condition variable, spin-condvar.c    *)
(* looks at it again and again.  set_thread_flag is called by another      *)
(* thread.  pthread_cond_wait releases the mutex and sleeps in one step,   *)
(* may wake for no reason, and holds the mutex again when it returns.      *)
(***************************************************************************)
EXTENDS Naturals

CONSTANTS Waiters,  \* the threads that run thread_function
          MaxSets   \* bound: calls of set_thread_flag

VARIABLES
  listing,  \* "condvar" | "spin"
  flag,     \* thread_flag
  lock,     \* who holds thread_flag_mutex: a waiter, "setter" or "nobody"
  wt,       \* where each waiter is
  seen,     \* flag_is_set of each waiter (spin-condvar.c)
  setter,   \* where set_thread_flag is
  value,    \* its argument
  sets      \* calls made

flagVars == <<listing, flag, lock, wt, seen, setter, value, sets>>

Init == /\ listing \in {"condvar", "spin"}
        /\ flag = 0 /\ lock = "nobody" /\ sets = 0 /\ value = 0
        /\ wt = [w \in Waiters |-> "top"] /\ seen = [w \in Waiters |-> 0]
        /\ setter = "away"

Goes(w, from, to) == wt[w] = from /\ wt' = [wt EXCEPT ![w] = to]

LockFlag(w) == /\ Goes(w, "top", "test")
               /\ lock = "nobody" /\ lock' = w
               /\ UNCHANGED <<listing, flag, seen, setter, value, sets>>

(* Mutation: if instead of while. *)
IfFlag(w) == /\ listing = "condvar" /\ lock = w
             /\ \/ flag = 0 /\ Goes(w, "test", "asleep") /\ lock' = "nobody"
                \/ (flag = 1 /\ Goes(w, "test", "unlock")) /\ UNCHANGED lock
                \/ Goes(w, "again", "unlock") /\ UNCHANGED lock
             /\ UNCHANGED <<listing, flag, seen, setter, value, sets>>

(* condvar.c: while (!thread_flag) pthread_cond_wait.                      *)
TestFlag(w) == /\ listing = "condvar" /\ lock = w /\ wt[w] \in {"test", "again"}
               /\ wt' = [wt EXCEPT ![w] = IF flag = 0 THEN "asleep" ELSE "unlock"]
               /\ lock' = IF flag = 0 THEN "nobody" ELSE lock
               /\ UNCHANGED <<listing, flag, seen, setter, value, sets>>

WakesUp(w) == Goes(w, "asleep", "woken") /\ UNCHANGED <<listing, flag, lock, seen, setter, value, sets>>

Relock(w) == /\ Goes(w, "woken", "again")
             /\ lock = "nobody" /\ lock' = w
             /\ UNCHANGED <<listing, flag, seen, setter, value, sets>>

(* spin-condvar.c copies the flag.                                         *)
CopyFlag(w) == /\ listing = "spin" /\ Goes(w, "test", "unlock")
               /\ seen' = [seen EXCEPT ![w] = flag]
               /\ UNCHANGED <<listing, flag, lock, setter, value, sets>>

UnlockFlag(w) == /\ Goes(w, "unlock", IF listing = "spin" /\ seen[w] = 0 THEN "top" ELSE "work")
                 /\ lock' = "nobody"
                 /\ UNCHANGED <<listing, flag, seen, setter, value, sets>>

DoWork(w) == Goes(w, "work", "top") /\ UNCHANGED <<listing, flag, lock, seen, setter, value, sets>>

-------------------------------------------------------------------------------
Call == /\ setter = "away" /\ sets < MaxSets
        /\ setter' = "called" /\ value' \in 0..1 /\ sets' = sets + 1
        /\ UNCHANGED <<listing, flag, lock, wt, seen>>

LockSetter == /\ setter = "called" /\ lock = "nobody"
              /\ setter' = "set" /\ lock' = "setter"
              /\ UNCHANGED <<listing, flag, wt, seen, value, sets>>

SetFlag == /\ setter = "set"
           /\ setter' = IF listing = "condvar" THEN "signal" ELSE "unlock"
           /\ flag' = value
           /\ UNCHANGED <<listing, lock, wt, seen, value, sets>>

(* Mutation: nobody is signalled. *)
NoSignal == setter = "signal" /\ setter' = "unlock" /\ UNCHANGED <<listing, flag, lock, wt, seen, value, sets>>

(* pthread_cond_signal wakes one of those asleep, if there is one.         *)
Signal == /\ setter = "signal" /\ setter' = "unlock"
          /\ IF \E w \in Waiters : wt[w] = "asleep"
             THEN \E w \in Waiters : Goes(w, "asleep", "woken")
             ELSE UNCHANGED wt
          /\ UNCHANGED <<listing, flag, lock, seen, value, sets>>

UnlockSetter == /\ setter = "unlock" /\ setter' = "away"
                /\ lock' = "nobody"
                /\ UNCHANGED <<listing, flag, wt, seen, value, sets>>

Waiter(w) == LockFlag(w) \/ TestFlag(w) \/ Relock(w) \/ CopyFlag(w) \/ UnlockFlag(w) \/ DoWork(w)
Set == LockSetter \/ SetFlag \/ Signal \/ UnlockSetter

Next == Call \/ Set \/ \E w \in Waiters : Waiter(w) \/ WakesUp(w)

(* The mutex is given to everyone who keeps asking for it.                 *)
Fairness == /\ WF_flagVars(Set) /\ SF_flagVars(LockSetter)
            /\ \A w \in Waiters : /\ WF_flagVars(Waiter(w))
                                  /\ SF_flagVars(LockFlag(w)) /\ SF_flagVars(Relock(w))

Spec == Init /\ [][Next]_flagVars /\ Fairness
-------------------------------------------------------------------------------
(* Whoever goes to work has seen the flag set, under the mutex, since its  *)
(* last work: a wake-up alone (condvar.c:33-38) is not enough.             *)
WorksWhenSet == \A w \in Waiters :
                  wt[w] = "unlock" => lock = w /\ (listing = "condvar" => flag = 1)
                                               /\ (listing = "spin" => seen[w] = flag)

(* A flag that is set for good makes work go on for ever: no signal is     *)
(* lost between the test of the flag and the sleep.                        *)
WorkGoesOn == <>[](flag = 1 /\ setter = "away") => []<>(\E w \in Waiters : wt[w] = "work")
===============================================================================
