-------------------------------- MODULE JobQueue --------------------------------
(***************************************************************************)
(* The three job queues of ALP-listings/chapter-4: threads take jobs off a *)
(* shared list without a lock (job-queue1.c), under a mutex until it is    *)
(* empty (job-queue2.c), and under a mutex once a semaphore has counted a  *)
(* job in (job-queue3.c), while others enqueue them.  Every access to the  *)
(* list outside the mutex is a step.                                       *)
(***************************************************************************)
EXTENDS Naturals, Sequences, FiniteSets

CONSTANTS Jobs, Workers, Producers, None

ASSUME JobQueueAssumption ==
  /\ IsFiniteSet(Jobs) /\ IsFiniteSet(Workers) /\ Workers # {} /\ Workers \cap Producers = {}
  /\ None \notin Jobs /\ None \notin Workers \cup Producers

VARIABLES
  variant,  \* "unlocked", "alone" (the same with one thread), "mutex" or "semaphore"
  queue,    \* job_queue
  mutex,    \* who holds job_queue_mutex, or None
  count,    \* job_queue_count
  at,       \* where each thread is
  job,      \* next_job of a worker, new_job of a producer
  rest,     \* the value job_queue = job_queue->next is about to store
  done,     \* history: jobs that have been processed
  freed,    \* jobs that have been freed
  wrong     \* history: a job was processed twice, or freed twice, or one that is
            \* not there or was freed already was looked at

queueVars == <<variant, queue, mutex, count, at, job, rest, done, freed, wrong>>

Threads == Workers \cup Producers
Fresh   == {j \in Jobs : j \notin done /\ (\A i \in DOMAIN queue : queue[i] # j)
                         /\ \A t \in Threads : job[t] # j}

(* The unlocked and the first locked queue are filled before the threads   *)
(* start; initialize_job_queue empties the third.                          *)
Variants == {"unlocked", "alone", "mutex", "semaphore"}

Init == /\ variant \in Variants
        /\ queue \in IF variant = "semaphore" THEN {<<>>}
                     ELSE {q \in [1..Cardinality(Jobs) -> Jobs] : \A i, j \in DOMAIN q : q[i] = q[j] => i = j}
        /\ mutex = None /\ count = 0
        /\ \E one \in Workers : at = [t \in Threads |-> IF variant = "alone" /\ t \in Workers \ {one}
                                                    THEN "exited" ELSE "top"]
        /\ job = [t \in Threads |-> None] /\ rest = [t \in Threads |-> <<>>]
        /\ done = {} /\ freed = {} /\ wrong = FALSE

Go(t, from, to) == at[t] = from /\ at' = [at EXCEPT ![t] = to]

-------------------------------------------------------------------------------
(* job-queue1.c: while (job_queue != NULL), then three more looks at it.   *)
Test(w) == /\ variant \in {"unlocked", "alone"}
           /\ Go(w, "top", IF queue = <<>> THEN "exited" ELSE "load")
           /\ UNCHANGED <<variant, queue, mutex, count, job, rest, done, freed, wrong>>

(* next_job is the head of the list; only job-queue2.c asks, with the      *)
(* mutex, whether there is one.                                            *)
Load(w) == /\ Go(w, "load", IF variant = "mutex" /\ queue = <<>> THEN "unlock" ELSE "advance")
           /\ job' = [job EXCEPT ![w] = IF queue = <<>> THEN None ELSE Head(queue)]
           /\ UNCHANGED <<variant, queue, mutex, count, rest, done, freed, wrong>>

(* job_queue = job_queue->next, a read and a write.                        *)
Advance(w) == /\ Go(w, "advance", "store")
              /\ rest' = [rest EXCEPT ![w] = IF queue = <<>> THEN queue ELSE Tail(queue)]
              /\ wrong' = (wrong \/ queue = <<>> \/ Head(queue) \in freed)
              /\ UNCHANGED <<variant, queue, mutex, count, job, done, freed>>

Store(w) == /\ Go(w, "store", IF variant \in {"mutex", "semaphore"} THEN "unlock" ELSE "process")
            /\ queue' = rest[w] /\ rest' = [rest EXCEPT ![w] = <<>>]
            /\ UNCHANGED <<variant, mutex, count, job, done, freed, wrong>>

-------------------------------------------------------------------------------
(* job-queue2.c and job-queue3.c.                                          *)
SemWait(w) == /\ variant = "semaphore"
              /\ Go(w, "top", "counted")
              /\ count > 0 /\ count' = count - 1
              /\ UNCHANGED <<variant, queue, mutex, job, rest, done, freed, wrong>>

(* Mutation: the second queue is not locked. *)
LockNothing(w) == /\ (variant = "mutex" /\ Go(w, "top", "load")) \/ Go(w, "counted", "load")
                  /\ variant = "semaphore" => mutex = None
                  /\ mutex' = w
                  /\ UNCHANGED <<variant, queue, count, job, rest, done, freed, wrong>>

Lock(w) == /\ (variant = "mutex" /\ Go(w, "top", "load")) \/ Go(w, "counted", "load")
           /\ mutex = None /\ mutex' = w
           /\ UNCHANGED <<variant, queue, count, job, rest, done, freed, wrong>>

Unlock(w) == /\ Go(w, "unlock", IF job[w] = None THEN "exited" ELSE "process")
             /\ mutex' = None
             /\ UNCHANGED <<variant, queue, count, job, rest, done, freed, wrong>>

Process(w) == /\ Go(w, "process", "free")
              /\ wrong' = (wrong \/ job[w] \in done \/ job[w] = None)
              /\ done' = done \cup {job[w]}
              /\ UNCHANGED <<variant, queue, mutex, count, job, rest, freed>>

Free(w) == /\ Go(w, "free", "top")
           /\ wrong' = (wrong \/ job[w] \in freed)
           /\ freed' = freed \cup {job[w]}
           /\ job' = [job EXCEPT ![w] = None]
           /\ UNCHANGED <<variant, queue, mutex, count, rest, done>>

-------------------------------------------------------------------------------
(* enqueue_job.                                                            *)
Allocate(p) == /\ variant = "semaphore"
               /\ Go(p, "top", "allocated")
               /\ \E j \in Fresh : job' = [job EXCEPT ![p] = j]
               /\ UNCHANGED <<variant, queue, mutex, count, rest, done, freed, wrong>>

EnqLock(p) == /\ Go(p, "allocated", "link")
              /\ mutex = None /\ mutex' = p
              /\ UNCHANGED <<variant, queue, count, job, rest, done, freed, wrong>>

Link(p) == /\ Go(p, "link", "push")
           /\ rest' = [rest EXCEPT ![p] = queue]
           /\ UNCHANGED <<variant, queue, mutex, count, job, done, freed, wrong>>

Push(p) == /\ Go(p, "push", "post")
           /\ queue' = <<job[p]>> \o rest[p] /\ rest' = [rest EXCEPT ![p] = <<>>]
           /\ job' = [job EXCEPT ![p] = None]
           /\ UNCHANGED <<variant, mutex, count, done, freed, wrong>>

(* Mutation: the semaphore is not posted. *)
PostNothing(p) == Go(p, "post", "leave") /\ UNCHANGED <<variant, queue, mutex, count, job, rest, done, freed, wrong>>

Post(p) == /\ Go(p, "post", "leave")
           /\ count' = count + 1
           /\ UNCHANGED <<variant, queue, mutex, job, rest, done, freed, wrong>>

EnqUnlock(p) == /\ Go(p, "leave", "top")
                /\ mutex' = None
                /\ UNCHANGED <<variant, queue, count, job, rest, done, freed, wrong>>

Worker(w) == Test(w) \/ Load(w) \/ Advance(w) \/ Store(w) \/ SemWait(w) \/ Lock(w)
             \/ Unlock(w) \/ Process(w) \/ Free(w)
Enqueue(p) == Allocate(p) \/ EnqLock(p) \/ Link(p) \/ Push(p) \/ Post(p) \/ EnqUnlock(p)

Next == (\E w \in Workers : Worker(w)) \/ (\E p \in Producers : Enqueue(p))

(* The scheduler runs every thread; a mutex that is released again and     *)
(* again goes to each of the finitely many that want it.                   *)
Fairness == /\ \A w \in Workers : WF_queueVars(Worker(w)) /\ SF_queueVars(Lock(w))
            /\ \A p \in Producers : WF_queueVars(EnqLock(p) \/ Link(p) \/ Push(p) \/ Post(p) \/ EnqUnlock(p))
                                    /\ SF_queueVars(EnqLock(p))

Spec == Init /\ [][Next]_queueVars /\ Fairness
-------------------------------------------------------------------------------
Places == {"top", "load", "advance", "store", "counted", "unlock", "process", "free", "exited",
           "allocated", "link", "push", "post", "leave"}

(* Every variable has its type.                                            *)
TypeOK == /\ variant \in Variants
          /\ queue \in Seq(Jobs) /\ mutex \in Threads \cup {None} /\ count \in Nat
          /\ at \in [Threads -> Places] /\ job \in [Threads -> Jobs \cup {None}]
          /\ rest \in [Threads -> Seq(Jobs)]
          /\ done \subseteq Jobs \cup {None} /\ freed \subseteq Jobs \cup {None} /\ wrong \in BOOLEAN

(* Under the mutex, and without it only while a single thread works, every *)
(* job is processed once and freed once, and no thread takes a job where   *)
(* there is none: a thread the semaphore let through finds the list not    *)
(* empty ("we know the queue is not empty", job-queue3.c:54).              *)
EachJobOnce == variant # "unlocked" => ~wrong

(* No job is left behind: one that was in the list at the start, or that a *)
(* producer put there, is processed.                                       *)
NoneLeft == \A j \in Jobs :
              variant # "unlocked" /\ (\E i \in DOMAIN queue : queue[i] = j) ~> j \in done
===============================================================================
