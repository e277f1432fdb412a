------------------------------ MODULE ThreadsProofs ------------------------------
(***************************************************************************)
(* EachJobOnce of JobQueue, for any jobs, workers and producers: of the    *)
(* locked queues, and of the unlocked one while a single thread works; and *)
(* WorksWhenSet of ThreadFlag, for any set of waiting threads and any      *)
(* number of calls.                                                        *)
(***************************************************************************)
EXTENDS MCThreads, FiniteSetTheorems, TLAPS

(* Who touches the list: under the mutex, or alone.                        *)
Busy(t) == at[t] \in {"load", "advance", "store", "unlock", "link", "push", "post", "leave"}

Modes == /\ \A w \in Workers : at[w] \in {"top", "load", "advance", "store", "counted", "unlock", "process", "free", "exited"}
         /\ \A p \in Producers : at[p] \in {"top", "allocated", "link", "push", "post", "leave"}
         /\ variant # "semaphore" => /\ \A p \in Producers : at[p] = "top"
                                     /\ \A w \in Workers : at[w] # "counted"
         /\ variant = "alone" => \A v, w \in Workers : at[v] # "exited" /\ at[w] # "exited" => v = w
         /\ variant # "alone" => \A t \in Threads : Busy(t) <=> mutex = t
         /\ variant = "alone" => \A w \in Workers : at[w] # "unlock" /\ (at[w] = "load" => queue # <<>>)

(* A job is at one place: in the list, with one thread, or done.           *)
Distinct == \A i, k \in DOMAIN queue : queue[i] = queue[k] => i = k
Undone   == \A i \in DOMAIN queue : queue[i] \notin done
Taken    == \A t \in Threads, i \in DOMAIN queue : job[t] = queue[i] => t \in Workers /\ at[t] \in {"advance", "store"}
Alone    == \A t, u \in Threads : job[t] = job[u] /\ job[t] # None => t = u

(* What each thread knows of its job.                                      *)
Knows == /\ \A w \in Workers : at[w] \in {"advance", "store"} => queue # <<>> /\ job[w] = Head(queue)
         /\ \A w \in Workers : at[w] = "store" => rest[w] = Tail(queue)
         /\ \A w \in Workers : at[w] \in {"process", "free"} => job[w] # None
         /\ \A p \in Producers : at[p] \in {"allocated", "link", "push"} => job[p] # None
         /\ \A p \in Producers : at[p] = "push" => rest[p] = queue

Ends == /\ freed \subseteq done
        /\ \A t \in Threads : job[t] # None => job[t] \notin freed
        /\ \A t \in Threads : job[t] # None /\ at[t] # "free" => job[t] \notin done
        /\ \A t \in Threads : at[t] = "free" => job[t] \in done

(* job-queue3.c: a job in the list is counted by the semaphore, or claimed *)
(* by a worker that was let through, or about to be counted.               *)
Claimed  == {w \in Workers : at[w] \in {"counted", "load", "advance", "store"}}
Unposted == IF \E p \in Producers : at[p] = "post" THEN 1 ELSE 0
Counted  == variant = "semaphore" => Len(queue) = count + Cardinality(Claimed) + Unposted

Inv == /\ TypeOK /\ Modes /\ Distinct /\ Undone /\ Taken /\ Alone /\ Knows /\ Ends /\ Counted
       /\ variant # "unlocked" /\ ~wrong

(* Only one thread at a time touches the list.                             *)
LEMMA OneBusy == ASSUME Inv, NEW t \in Threads, NEW u \in Threads, Busy(t), Busy(u) PROVE t = u
BY JobQueueAssumption DEF Inv, Modes, Busy, Threads

(* The claims are finitely many; a worker that has one finds a job.        *)
LEMMA ClaimsCount == ASSUME Inv PROVE IsFiniteSet(Claimed) /\ Cardinality(Claimed) \in Nat
BY JobQueueAssumption, FS_Subset, FS_CardinalityType DEF Claimed

LEMMA NotEmpty == ASSUME Inv, NEW w \in Workers, at[w] \in {"counted", "load", "advance", "store"}, variant = "semaphore"
                  PROVE  queue # <<>>
<1>1. w \in Claimed
  BY DEF Claimed
<1>2. Cardinality(Claimed) # 0
  BY <1>1, ClaimsCount, FS_EmptySet
<1>3. Len(queue) > 0
  BY <1>2, ClaimsCount DEF Inv, Counted, Unposted, TypeOK
<1> QED
  BY <1>3 DEF Inv, TypeOK

-------------------------------------------------------------------------------
(* job-queue1.c tests the list, and ends.                                  *)
LEMMA TestInv == ASSUME Inv, NEW w \in Workers, Test(w) PROVE Inv'
<1> USE DEF Inv
<1>1. TypeOK' /\ UNCHANGED variant
  BY DEF Test, Go, TypeOK, Places
<1>2. Modes'
  BY JobQueueAssumption DEF Test, Go, TypeOK, Modes, Busy, Threads
<1>3. Distinct' /\ Undone' /\ Alone'
  BY JobQueueAssumption DEF Test, Go, TypeOK, Distinct, Undone, Alone, Threads
<1>4. Taken'
  BY JobQueueAssumption DEF Test, Go, TypeOK, Modes, Busy, Taken, Threads
<1>5. Knows'
  BY JobQueueAssumption DEF Test, Go, TypeOK, Modes, Busy, Knows, Threads
<1>6. Ends'
  BY JobQueueAssumption DEF Test, Go, TypeOK, Modes, Ends, Threads
<1>7. ~wrong'
  BY DEF Test
<1>8. Counted'
  BY DEF Test, Counted
<1> QED
  BY <1>1, <1>2, <1>3, <1>4, <1>5, <1>6, <1>7, <1>8

(* A job is taken from a list that is not empty.                           *)
LEMMA LoadInv == ASSUME Inv, NEW w \in Workers, Load(w) PROVE Inv'
<1> USE DEF Inv
<1>q. variant # "mutex" => queue # <<>>
  <2>1. variant = "alone" \/ variant = "mutex" \/ variant = "semaphore"
    BY DEF TypeOK, Variants
  <2>2. at[w] = "load"
    BY DEF Load, Go
  <2> QED
    BY <2>1, <2>2, NotEmpty DEF Modes
<1>o. \A t \in Threads : Busy(t) => t = w
  BY OneBusy DEF Load, Go, Busy, Threads
<1>h. queue # <<>> => Head(queue) = queue[1] /\ 1 \in DOMAIN queue /\ Head(queue) \in Jobs
  BY DEF TypeOK
<1>x. job' \in [Threads -> Jobs \cup {None}] /\ \A t \in Threads : t # w => job'[t] = job[t] /\ at'[t] = at[t]
  BY <1>h DEF Load, Go, TypeOK, Threads
<1>y. \/ at'[w] = "unlock" /\ job'[w] = None /\ variant = "mutex"
      \/ at'[w] = "advance" /\ job'[w] = Head(queue) /\ queue # <<>>
  BY <1>q DEF Load, Go, TypeOK, Threads
<1>z. \A t \in Threads : t # w => \A i \in DOMAIN queue : job[t] # queue[i]
  BY <1>o DEF Taken, Busy
<1>u. Unposted' = Unposted
  BY JobQueueAssumption DEF Load, Go, TypeOK, Modes, Unposted, Threads
<1>c. variant = "semaphore" => Claimed' = Claimed
  BY JobQueueAssumption DEF Load, Go, TypeOK, Modes, Claimed, Threads
<1>1. TypeOK' /\ UNCHANGED variant
  BY <1>x DEF Load, Go, TypeOK, Places
<1>2. Modes'
  BY JobQueueAssumption DEF Load, Go, TypeOK, Modes, Busy, Threads
<1>3. Distinct' /\ Undone' /\ Alone'
  BY <1>h, <1>x, <1>y, <1>z DEF Load, Distinct, Undone, Alone
<1>4. Taken'
  <2>1. \A i \in DOMAIN queue : queue[i] # None
    BY JobQueueAssumption DEF TypeOK
  <2>2. queue' = queue /\ w \in Workers
    BY DEF Load
  <2> QED
    BY <1>x, <1>y, <1>z, <2>1, <2>2 DEF Taken
<1>5. Knows'
  BY <1>o, <1>x, <1>y, JobQueueAssumption DEF Load, Knows, Busy, Threads
<1>6. Ends'
  BY <1>h, <1>x, <1>y DEF Load, Ends, Undone
<1>7. ~wrong'
  BY DEF Load
<1>8. Counted'
  BY <1>u, <1>c DEF Load, Counted
<1> QED
  BY <1>1, <1>2, <1>3, <1>4, <1>5, <1>6, <1>7, <1>8

(* It is the head of the list while nobody else touches it.                *)
LEMMA AdvanceInv == ASSUME Inv, NEW w \in Workers, Advance(w) PROVE Inv'
<1> USE DEF Inv
<1>h. queue # <<>> /\ Head(queue) = queue[1] /\ 1 \in DOMAIN queue
  BY DEF Advance, Go, Knows, TypeOK
<1>u. Unposted' = Unposted
  BY JobQueueAssumption DEF Advance, Go, TypeOK, Modes, Unposted, Threads
<1>c. variant = "semaphore" => Claimed' = Claimed
  BY JobQueueAssumption DEF Advance, Go, TypeOK, Modes, Claimed, Threads
<1>1. TypeOK' /\ UNCHANGED variant
  <2>1. at' \in [Threads -> Places]
    BY DEF Advance, Go, TypeOK, Places, Threads
  <2>2. wrong' \in BOOLEAN
    BY DEF Advance, TypeOK
  <2>a. Tail(queue) \in Seq(Jobs)
    BY <1>h DEF TypeOK
  <2>b. rest' = [rest EXCEPT ![w] = Tail(queue)]
    BY <1>h DEF Advance
  <2>3. rest' \in [Threads -> Seq(Jobs)]
    BY <2>a, <2>b DEF TypeOK
  <2> QED
    BY <2>1, <2>2, <2>3 DEF Advance, TypeOK
<1>2. Modes'
  BY JobQueueAssumption DEF Advance, Go, TypeOK, Modes, Busy, Threads
<1>3. Distinct' /\ Undone' /\ Alone'
  BY JobQueueAssumption DEF Advance, Go, TypeOK, Distinct, Undone, Alone, Threads
<1>4. Taken'
  BY JobQueueAssumption DEF Advance, Go, TypeOK, Modes, Busy, Taken, Threads
<1>5. Knows'
  BY JobQueueAssumption DEF Advance, Go, TypeOK, Modes, Busy, Knows, Threads
<1>6. Ends'
  BY JobQueueAssumption DEF Advance, Go, TypeOK, Modes, Ends, Threads
<1>7. ~wrong'
  BY <1>h DEF Advance, Undone, Ends
<1>8. Counted'
  BY <1>u, <1>c DEF Advance, Counted
<1> QED
  BY <1>1, <1>2, <1>3, <1>4, <1>5, <1>6, <1>7, <1>8

(* The tail of the list holds every job but the one just taken.            *)
LEMMA StoreInv == ASSUME Inv, NEW w \in Workers, Store(w) PROVE Inv'
<1> USE DEF Inv
<1>h. queue # <<>> /\ job[w] = Head(queue) /\ Head(queue) = queue[1] /\ 1 \in DOMAIN queue /\ queue' = Tail(queue)
  BY DEF Store, Go, Knows, TypeOK
<1>t. /\ Tail(queue) \in Seq(Jobs) /\ Len(Tail(queue)) = Len(queue) - 1
      /\ \A i \in DOMAIN queue' : i + 1 \in DOMAIN queue /\ i + 1 # 1 /\ i \in Int /\ queue'[i] = queue[i + 1]
  BY <1>h DEF TypeOK
<1>o. \A t \in Threads : t # w => ~Busy(t)
  BY OneBusy DEF Store, Go, Busy, Threads
<1>s. variant = "semaphore" => Claimed' = Claimed \ {w} /\ w \in Claimed
  BY JobQueueAssumption DEF Store, Go, TypeOK, Modes, Claimed, Threads
<1>r. variant = "semaphore" => Cardinality(Claimed') = Cardinality(Claimed) - 1
  BY <1>s, ClaimsCount, FS_RemoveElement
<1>e. \A i \in DOMAIN queue' : queue'[i] # job[w]
  BY <1>h, <1>t DEF Distinct
<1>u. Unposted' = Unposted
  BY JobQueueAssumption DEF Store, Go, TypeOK, Modes, Unposted, Threads
<1>1. TypeOK' /\ UNCHANGED variant
  <2>1. at' \in [Threads -> Places]
    BY DEF Store, Go, TypeOK, Places, Threads
  <2>2. wrong' \in BOOLEAN
    BY DEF Store, TypeOK
  <2>a. <<>> \in Seq(Jobs)
    OBVIOUS
  <2>b. rest' = [rest EXCEPT ![w] = <<>>]
    BY DEF Store
  <2>3. rest' \in [Threads -> Seq(Jobs)] /\ queue' \in Seq(Jobs)
    BY <1>h, <1>t, <2>a, <2>b DEF TypeOK
  <2> QED
    BY <1>h, <1>t, <2>1, <2>2, <2>3 DEF Store, TypeOK
<1>2. Modes'
  <2>1. /\ at'[w] \in {"unlock", "process"} /\ (at'[w] = "unlock" <=> variant \in {"mutex", "semaphore"})
        /\ \A t \in Threads : t # w => at'[t] = at[t]
    BY DEF Store, Go, TypeOK, Threads
  <2>2. variant' = variant /\ mutex' = mutex /\ at[w] = "store" /\ w \in Threads /\ w \notin Producers
    BY JobQueueAssumption DEF Store, Go, Threads
  <2>3. variant \in {"alone", "mutex", "semaphore"}
    BY DEF TypeOK, Variants
  <2>4. variant # "alone" => \A t \in Threads : Busy(t)' <=> mutex' = t
    BY <2>1, <2>2, <2>3, <1>o DEF Modes, Busy
  <2>5. variant = "alone" => \A v \in Workers : v # w => at[v] = "exited"
    BY <2>2 DEF Modes
  <2> QED
    BY <2>1, <2>2, <2>3, <2>4, <2>5 DEF Modes, Threads
<1>3. Distinct' /\ Undone' /\ Alone'
  BY <1>t DEF Store, Distinct, Undone, Alone
<1>4. Taken'
  BY <1>t, <1>e DEF Store, Go, TypeOK, Taken, Threads
<1>5. Knows'
  BY <1>o, <1>h, JobQueueAssumption, None \notin Jobs DEF Store, Go, TypeOK, Modes, Busy, Knows, Threads
<1>6. Ends'
  BY JobQueueAssumption DEF Store, Go, TypeOK, Modes, Ends, Threads
<1>7. ~wrong'
  BY DEF Store
<1>8. Counted'
  <2>1. Unposted \in {0, 1} /\ Len(queue) \in Nat
    BY DEF Unposted, TypeOK
  <2>2. Len(queue') = Len(queue) - 1 /\ variant' = variant /\ count' = count /\ count \in Nat
    BY <1>h, <1>t DEF Store, TypeOK
  <2> QED
    BY <1>u, <1>r, <2>1, <2>2, ClaimsCount DEF Counted
<1> QED
  BY <1>1, <1>2, <1>3, <1>4, <1>5, <1>6, <1>7, <1>8

(* The semaphore lets a worker through: a claim for a unit of the count.   *)
LEMMA SemWaitInv == ASSUME Inv, NEW w \in Workers, SemWait(w) PROVE Inv'
<1> USE DEF Inv
<1>s. Claimed' = Claimed \cup {w} /\ w \notin Claimed
  BY JobQueueAssumption DEF SemWait, Go, TypeOK, Claimed, Threads
<1>r. Cardinality(Claimed') = Cardinality(Claimed) + 1
  BY <1>s, ClaimsCount, FS_AddElement
<1>u. Unposted' = Unposted
  BY JobQueueAssumption DEF SemWait, Go, TypeOK, Modes, Unposted, Threads
<1>1. TypeOK' /\ UNCHANGED variant
  <2>1. at' \in [Threads -> Places]
    BY DEF SemWait, Go, TypeOK, Places, Threads
  <2>2. wrong' \in BOOLEAN
    BY DEF SemWait, TypeOK
  <2>3. count' \in Nat
    BY DEF SemWait, TypeOK
  <2> QED
    BY <2>1, <2>2, <2>3 DEF SemWait, TypeOK
<1>2. Modes'
  BY JobQueueAssumption DEF SemWait, Go, TypeOK, Modes, Busy, Threads
<1>3. Distinct' /\ Undone' /\ Alone'
  BY JobQueueAssumption DEF SemWait, Go, TypeOK, Distinct, Undone, Alone, Threads
<1>4. Taken'
  BY JobQueueAssumption DEF SemWait, Go, TypeOK, Modes, Busy, Taken, Threads
<1>5. Knows'
  BY JobQueueAssumption DEF SemWait, Go, TypeOK, Modes, Busy, Knows, Threads
<1>6. Ends'
  BY JobQueueAssumption DEF SemWait, Go, TypeOK, Modes, Ends, Threads
<1>7. ~wrong'
  BY DEF SemWait
<1>8. Counted'
  BY <1>u, <1>r, ClaimsCount DEF SemWait, Counted, Unposted, TypeOK
<1> QED
  BY <1>1, <1>2, <1>3, <1>4, <1>5, <1>6, <1>7, <1>8

LEMMA LockInv == ASSUME Inv, NEW w \in Workers, Lock(w) PROVE Inv'
<1> USE DEF Inv
<1>u. Unposted' = Unposted
  BY JobQueueAssumption DEF Lock, Go, TypeOK, Modes, Unposted, Threads
<1>c. variant = "semaphore" => Claimed' = Claimed
  BY JobQueueAssumption DEF Lock, Go, TypeOK, Modes, Claimed, Threads
<1>1. TypeOK' /\ UNCHANGED variant
  <2>1. at' \in [Threads -> Places]
    BY DEF Lock, Go, TypeOK, Places, Threads
  <2>2. wrong' \in BOOLEAN
    BY DEF Lock, TypeOK
  <2>3. mutex' \in Threads \cup {None}
    BY DEF Lock, Threads
  <2> QED
    BY <2>1, <2>2, <2>3 DEF Lock, TypeOK
<1>2. Modes'
  <2>1. at'[w] = "load" /\ \A t \in Threads : t # w => at'[t] = at[t]
    BY DEF Lock, Go, TypeOK, Threads
  <2>2. variant' = variant /\ mutex = None /\ mutex' = w /\ w \in Threads /\ w \notin Producers /\ queue' = queue
    BY JobQueueAssumption DEF Lock, Threads
  <2>3. variant \in {"mutex", "semaphore"}
    BY DEF Lock, Go, Modes
  <2>4. \A t \in Threads : ~Busy(t)
    BY <2>2, <2>3, JobQueueAssumption DEF Modes, Threads
  <2> QED
    BY <2>1, <2>2, <2>3, <2>4 DEF Modes, Busy, Threads
<1>3. Distinct' /\ Undone' /\ Alone'
  BY JobQueueAssumption DEF Lock, Go, TypeOK, Distinct, Undone, Alone, Threads
<1>4. Taken'
  BY JobQueueAssumption DEF Lock, Go, TypeOK, Modes, Busy, Taken, Threads
<1>5. Knows'
  BY JobQueueAssumption DEF Lock, Go, TypeOK, Modes, Busy, Knows, Threads
<1>6. Ends'
  BY JobQueueAssumption DEF Lock, Go, TypeOK, Modes, Ends, Threads
<1>7. ~wrong'
  BY DEF Lock
<1>8. Counted'
  BY <1>u, <1>c DEF Lock, Counted
<1> QED
  BY <1>1, <1>2, <1>3, <1>4, <1>5, <1>6, <1>7, <1>8

LEMMA UnlockInv == ASSUME Inv, NEW w \in Workers, Unlock(w) PROVE Inv'
<1> USE DEF Inv
<1>u. Unposted' = Unposted
  BY JobQueueAssumption DEF Unlock, Go, TypeOK, Modes, Unposted, Threads
<1>c. variant = "semaphore" => Claimed' = Claimed
  BY JobQueueAssumption DEF Unlock, Go, TypeOK, Modes, Claimed, Threads
<1>1. TypeOK' /\ UNCHANGED variant
  BY DEF Unlock, Go, TypeOK, Places
<1>2. Modes'
  BY JobQueueAssumption DEF Unlock, Go, TypeOK, Modes, Busy, Threads
<1>3. Distinct' /\ Undone' /\ Alone'
  BY JobQueueAssumption DEF Unlock, Go, TypeOK, Distinct, Undone, Alone, Threads
<1>4. Taken'
  BY JobQueueAssumption DEF Unlock, Go, TypeOK, Modes, Busy, Taken, Threads
<1>5. Knows'
  BY JobQueueAssumption DEF Unlock, Go, TypeOK, Modes, Busy, Knows, Threads
<1>6. Ends'
  BY JobQueueAssumption DEF Unlock, Go, TypeOK, Modes, Ends, Threads
<1>7. ~wrong'
  BY DEF Unlock
<1>8. Counted'
  BY <1>u, <1>c DEF Unlock, Counted
<1> QED
  BY <1>1, <1>2, <1>3, <1>4, <1>5, <1>6, <1>7, <1>8

LEMMA FreeInv == ASSUME Inv, NEW w \in Workers, Free(w) PROVE Inv'
<1> USE DEF Inv
<1>u. Unposted' = Unposted
  BY JobQueueAssumption DEF Free, Go, TypeOK, Modes, Unposted, Threads
<1>c. variant = "semaphore" => Claimed' = Claimed
  BY JobQueueAssumption DEF Free, Go, TypeOK, Modes, Claimed, Threads
<1>1. TypeOK' /\ UNCHANGED variant
  <2>1. at' \in [Threads -> Places]
    BY DEF Free, Go, TypeOK, Places, Threads
  <2>2. wrong' \in BOOLEAN
    BY DEF Free, TypeOK
  <2>3. freed' \subseteq Jobs \cup {None} /\ job' \in [Threads -> Jobs \cup {None}]
    BY DEF Free, TypeOK, Threads
  <2> QED
    BY <2>1, <2>2, <2>3 DEF Free, TypeOK
<1>2. Modes'
  BY JobQueueAssumption DEF Free, Go, TypeOK, Modes, Busy, Threads
<1>3. Distinct' /\ Undone' /\ Alone'
  BY JobQueueAssumption DEF Free, Go, TypeOK, Distinct, Undone, Alone, Threads
<1>4. Taken'
  BY JobQueueAssumption DEF Free, Go, TypeOK, Modes, Busy, Taken, Threads
<1>5. Knows'
  BY JobQueueAssumption DEF Free, Go, TypeOK, Modes, Busy, Knows, Threads
<1>6. Ends'
  <2>1. /\ at[w] = "free" /\ at'[w] = "top" /\ w \in Threads /\ job[w] # None /\ job'[w] = None
        /\ \A t \in Threads : t # w => at'[t] = at[t] /\ job'[t] = job[t]
    BY DEF Free, Go, TypeOK, Knows, Threads
  <2>2. freed' = freed \cup {job[w]} /\ done' = done /\ job[w] \in done
    BY <2>1 DEF Free, Ends
  <2> QED
    BY <2>1, <2>2 DEF Ends, Alone
<1>7. ~wrong'
  BY DEF Free, Go, Knows, Ends, Threads
<1>8. Counted'
  BY <1>u, <1>c DEF Free, Counted
<1> QED
  BY <1>1, <1>2, <1>3, <1>4, <1>5, <1>6, <1>7, <1>8

(* The job is at no other place, and so was not done.                      *)
LEMMA ProcessInv == ASSUME Inv, NEW w \in Workers, Process(w) PROVE Inv'
<1> USE DEF Inv
<1>u. Unposted' = Unposted
  BY JobQueueAssumption DEF Process, Go, TypeOK, Modes, Unposted, Threads
<1>c. variant = "semaphore" => Claimed' = Claimed
  BY JobQueueAssumption DEF Process, Go, TypeOK, Modes, Claimed, Threads
<1>1. TypeOK' /\ UNCHANGED variant
  <2>1. at' \in [Threads -> Places]
    BY DEF Process, Go, TypeOK, Places, Threads
  <2>2. wrong' \in BOOLEAN
    BY DEF Process, TypeOK
  <2>3. done' \subseteq Jobs \cup {None}
    BY DEF Process, TypeOK, Threads
  <2> QED
    BY <2>1, <2>2, <2>3 DEF Process, TypeOK
<1>2. Modes'
  BY JobQueueAssumption DEF Process, Go, TypeOK, Modes, Busy, Threads
<1>3. Distinct' /\ Undone' /\ Alone'
  BY JobQueueAssumption DEF Process, Go, TypeOK, Distinct, Undone, Alone, Taken, Threads
<1>4. Taken'
  BY JobQueueAssumption DEF Process, Go, TypeOK, Modes, Busy, Taken, Threads
<1>5. Knows'
  BY JobQueueAssumption DEF Process, Go, TypeOK, Modes, Busy, Knows, Threads
<1>6. Ends'
  BY JobQueueAssumption DEF Process, Go, TypeOK, Modes, Ends, Alone, Knows, Threads
<1>7. ~wrong'
  BY JobQueueAssumption DEF Process, Go, Knows, Ends, Threads
<1>8. Counted'
  BY <1>u, <1>c DEF Process, Counted
<1> QED
  BY <1>1, <1>2, <1>3, <1>4, <1>5, <1>6, <1>7, <1>8

-------------------------------------------------------------------------------
(* enqueue_job: a new job is nowhere else.                                 *)
LEMMA AllocateInv == ASSUME Inv, NEW p \in Producers, Allocate(p) PROVE Inv'
<1> USE DEF Inv
<1>u. Unposted' = Unposted
  BY JobQueueAssumption DEF Allocate, Go, TypeOK, Modes, Unposted, Threads
<1>c. variant = "semaphore" => Claimed' = Claimed
  BY JobQueueAssumption DEF Allocate, Go, TypeOK, Modes, Claimed, Threads
<1>1. TypeOK' /\ UNCHANGED variant
  BY DEF Allocate, Go, Fresh, TypeOK, Places
<1>2. Modes'
  <2>1. at'[p] = "allocated" /\ at[p] = "top" /\ \A t \in Threads : t # p => at'[t] = at[t]
    BY DEF Allocate, Go, TypeOK, Threads
  <2>2. variant' = variant /\ variant = "semaphore" /\ mutex' = mutex /\ p \in Threads /\ p \notin Workers
    BY JobQueueAssumption DEF Allocate, Threads
  <2> QED
    BY <2>1, <2>2 DEF Modes, Busy, Threads
<1>3. Distinct' /\ Undone' /\ Alone'
  BY JobQueueAssumption DEF Allocate, Go, Fresh, TypeOK, Distinct, Undone, Alone, Threads
<1>4. Taken'
  BY JobQueueAssumption DEF Allocate, Go, Fresh, TypeOK, Modes, Taken, Threads
<1>5. Knows'
  BY JobQueueAssumption DEF Allocate, Go, Fresh, TypeOK, Modes, Knows, Threads
<1>6. Ends'
  BY JobQueueAssumption DEF Allocate, Go, Fresh, TypeOK, Modes, Ends, Threads
<1>7. ~wrong'
  BY DEF Allocate
<1>8. Counted'
  BY <1>u, <1>c DEF Allocate, Counted
<1> QED
  BY <1>1, <1>2, <1>3, <1>4, <1>5, <1>6, <1>7, <1>8

LEMMA EnqLockInv == ASSUME Inv, NEW p \in Producers, EnqLock(p) PROVE Inv'
<1> USE DEF Inv
<1>u. Unposted' = Unposted
  BY JobQueueAssumption DEF EnqLock, Go, TypeOK, Modes, Unposted, Threads
<1>c. variant = "semaphore" => Claimed' = Claimed
  BY JobQueueAssumption DEF EnqLock, Go, TypeOK, Modes, Claimed, Threads
<1>1. TypeOK' /\ UNCHANGED variant
  <2>1. at' \in [Threads -> Places]
    BY DEF EnqLock, Go, TypeOK, Places, Threads
  <2>2. wrong' \in BOOLEAN
    BY DEF EnqLock, TypeOK
  <2>3. mutex' \in Threads \cup {None}
    BY DEF EnqLock, Threads
  <2> QED
    BY <2>1, <2>2, <2>3 DEF EnqLock, TypeOK
<1>2. Modes'
  BY JobQueueAssumption DEF EnqLock, Go, TypeOK, Modes, Busy, Threads
<1>3. Distinct' /\ Undone' /\ Alone'
  BY JobQueueAssumption DEF EnqLock, Go, TypeOK, Distinct, Undone, Alone, Threads
<1>4. Taken'
  BY JobQueueAssumption DEF EnqLock, Go, TypeOK, Modes, Busy, Taken, Threads
<1>5. Knows'
  BY JobQueueAssumption DEF EnqLock, Go, TypeOK, Modes, Busy, Knows, Threads
<1>6. Ends'
  BY JobQueueAssumption DEF EnqLock, Go, TypeOK, Modes, Ends, Threads
<1>7. ~wrong'
  BY DEF EnqLock
<1>8. Counted'
  BY <1>u, <1>c DEF EnqLock, Counted
<1> QED
  BY <1>1, <1>2, <1>3, <1>4, <1>5, <1>6, <1>7, <1>8

LEMMA LinkInv == ASSUME Inv, NEW p \in Producers, Link(p) PROVE Inv'
<1> USE DEF Inv
<1>u. Unposted' = Unposted
  BY JobQueueAssumption DEF Link, Go, TypeOK, Modes, Unposted, Threads
<1>c. variant = "semaphore" => Claimed' = Claimed
  BY JobQueueAssumption DEF Link, Go, TypeOK, Modes, Claimed, Threads
<1>1. TypeOK' /\ UNCHANGED variant
  BY DEF Link, Go, TypeOK, Places
<1>2. Modes'
  BY JobQueueAssumption DEF Link, Go, TypeOK, Modes, Busy, Threads
<1>3. Distinct' /\ Undone' /\ Alone'
  BY JobQueueAssumption DEF Link, Go, TypeOK, Distinct, Undone, Alone, Threads
<1>4. Taken'
  BY JobQueueAssumption DEF Link, Go, TypeOK, Modes, Busy, Taken, Threads
<1>5. Knows'
  BY JobQueueAssumption DEF Link, Go, TypeOK, Modes, Busy, Knows, Threads
<1>6. Ends'
  BY JobQueueAssumption DEF Link, Go, TypeOK, Modes, Ends, Threads
<1>7. ~wrong'
  BY DEF Link
<1>8. Counted'
  BY <1>u, <1>c DEF Link, Counted
<1> QED
  BY <1>1, <1>2, <1>3, <1>4, <1>5, <1>6, <1>7, <1>8

(* The list grows by the new job, which nobody else has, before the count  *)
(* does.                                                                   *)
LEMMA PushInv == ASSUME Inv, NEW p \in Producers, Push(p) PROVE Inv'
<1> USE DEF Inv
<1>h. rest[p] = queue /\ job[p] \in Jobs /\ queue' = <<job[p]>> \o queue
  BY DEF Push, Go, Knows, TypeOK, Threads
<1>t. /\ queue' \in Seq(Jobs) /\ Len(queue') = Len(queue) + 1
      /\ \A i \in DOMAIN queue' : i \in Nat /\ (i = 1 => queue'[i] = job[p])
                                  /\ (i # 1 => i - 1 \in DOMAIN queue /\ queue'[i] = queue[i - 1])
  BY <1>h DEF TypeOK
<1>o. \A t \in Threads : t # p => ~Busy(t)
  BY OneBusy DEF Push, Go, Busy, Threads
<1>n. job[p] \notin done /\ (\A i \in DOMAIN queue : queue[i] # job[p]) /\ (\A t \in Threads : t # p => job[t] # job[p])
  BY <1>h, JobQueueAssumption DEF Push, Go, Ends, Taken, Alone, Threads
<1>v. variant = "semaphore" /\ Unposted = 0 /\ Unposted' = 1
  BY <1>o, JobQueueAssumption DEF Push, Go, Modes, TypeOK, Unposted, Busy, Threads
<1>c. variant = "semaphore" => Claimed' = Claimed
  BY JobQueueAssumption DEF Push, Go, TypeOK, Modes, Claimed, Threads
<1>1. TypeOK' /\ UNCHANGED variant
  <2>1. at' \in [Threads -> Places]
    BY DEF Push, Go, TypeOK, Places, Threads
  <2>2. wrong' \in BOOLEAN
    BY DEF Push, TypeOK
  <2>a. <<>> \in Seq(Jobs)
    OBVIOUS
  <2>b. rest' = [rest EXCEPT ![p] = <<>>] /\ job' = [job EXCEPT ![p] = None]
    BY DEF Push
  <2>3. rest' \in [Threads -> Seq(Jobs)] /\ job' \in [Threads -> Jobs \cup {None}] /\ queue' \in Seq(Jobs)
    BY <1>t, <2>a, <2>b DEF TypeOK
  <2> QED
    BY <2>1, <2>2, <2>3 DEF Push, TypeOK
<1>2. Modes'
  BY <1>v, JobQueueAssumption DEF Push, Go, TypeOK, Modes, Busy, Threads
<1>3. Distinct' /\ Undone' /\ Alone'
  <2>1. Distinct'
    BY <1>t, <1>n DEF Distinct
  <2>2. done' = done /\ \A t \in Threads : job'[t] # None => t # p /\ job'[t] = job[t]
    BY DEF Push, TypeOK, Threads
  <2>3. Undone'
    BY <1>t, <1>n, <2>2 DEF Undone
  <2> QED
    BY <2>1, <2>2, <2>3 DEF Alone
<1>4. Taken'
  BY <1>t, <1>n, <1>h, JobQueueAssumption DEF Push, Go, TypeOK, Taken, Threads
<1>5. Knows'
  BY <1>o, JobQueueAssumption DEF Push, Go, TypeOK, Modes, Busy, Knows, Threads
<1>6. Ends'
  BY JobQueueAssumption DEF Push, Go, TypeOK, Modes, Ends, Threads
<1>7. ~wrong'
  BY DEF Push
<1>8. Counted'
  BY <1>v, <1>c, <1>t, ClaimsCount DEF Push, Counted, TypeOK
<1> QED
  BY <1>1, <1>2, <1>3, <1>4, <1>5, <1>6, <1>7, <1>8

LEMMA PostInv == ASSUME Inv, NEW p \in Producers, Post(p) PROVE Inv'
<1> USE DEF Inv
<1>o. \A t \in Threads : t # p => ~Busy(t)
  BY OneBusy DEF Post, Go, Busy, Threads
<1>v. variant = "semaphore" /\ Unposted = 1 /\ Unposted' = 0
  BY <1>o, JobQueueAssumption DEF Post, Go, Modes, TypeOK, Unposted, Busy, Threads
<1>c. variant = "semaphore" => Claimed' = Claimed
  BY JobQueueAssumption DEF Post, Go, TypeOK, Modes, Claimed, Threads
<1>1. TypeOK' /\ UNCHANGED variant
  <2>1. at' \in [Threads -> Places]
    BY DEF Post, Go, TypeOK, Places, Threads
  <2>2. wrong' \in BOOLEAN
    BY DEF Post, TypeOK
  <2>3. count' \in Nat
    BY DEF Post, TypeOK
  <2> QED
    BY <2>1, <2>2, <2>3 DEF Post, TypeOK
<1>2. Modes'
  BY JobQueueAssumption DEF Post, Go, TypeOK, Modes, Busy, Threads
<1>3. Distinct' /\ Undone' /\ Alone'
  BY JobQueueAssumption DEF Post, Go, TypeOK, Distinct, Undone, Alone, Threads
<1>4. Taken'
  BY JobQueueAssumption DEF Post, Go, TypeOK, Modes, Busy, Taken, Threads
<1>5. Knows'
  BY JobQueueAssumption DEF Post, Go, TypeOK, Modes, Busy, Knows, Threads
<1>6. Ends'
  BY JobQueueAssumption DEF Post, Go, TypeOK, Modes, Ends, Threads
<1>7. ~wrong'
  BY DEF Post
<1>8. Counted'
  BY <1>v, <1>c, ClaimsCount DEF Post, Counted, TypeOK
<1> QED
  BY <1>1, <1>2, <1>3, <1>4, <1>5, <1>6, <1>7, <1>8

LEMMA EnqUnlockInv == ASSUME Inv, NEW p \in Producers, EnqUnlock(p) PROVE Inv'
<1> USE DEF Inv
<1>u. Unposted' = Unposted
  BY JobQueueAssumption DEF EnqUnlock, Go, TypeOK, Modes, Unposted, Threads
<1>c. variant = "semaphore" => Claimed' = Claimed
  BY JobQueueAssumption DEF EnqUnlock, Go, TypeOK, Modes, Claimed, Threads
<1>1. TypeOK' /\ UNCHANGED variant
  BY DEF EnqUnlock, Go, TypeOK, Places
<1>2. Modes'
  BY JobQueueAssumption DEF EnqUnlock, Go, TypeOK, Modes, Busy, Threads
<1>3. Distinct' /\ Undone' /\ Alone'
  BY JobQueueAssumption DEF EnqUnlock, Go, TypeOK, Distinct, Undone, Alone, Threads
<1>4. Taken'
  BY JobQueueAssumption DEF EnqUnlock, Go, TypeOK, Modes, Busy, Taken, Threads
<1>5. Knows'
  BY JobQueueAssumption DEF EnqUnlock, Go, TypeOK, Modes, Busy, Knows, Threads
<1>6. Ends'
  BY JobQueueAssumption DEF EnqUnlock, Go, TypeOK, Modes, Ends, Threads
<1>7. ~wrong'
  BY DEF EnqUnlock
<1>8. Counted'
  BY <1>u, <1>c DEF EnqUnlock, Counted
<1> QED
  BY <1>1, <1>2, <1>3, <1>4, <1>5, <1>6, <1>7, <1>8

LEMMA StutterInv == ASSUME Inv, UNCHANGED queueVars PROVE Inv'
BY DEF queueVars, Inv, TypeOK, Modes, Busy, Distinct, Undone, Taken, Alone, Knows, Ends, Counted, Claimed, Unposted

(* The lists are filled with distinct jobs, or empty and uncounted.        *)
LEMMA InitInv == ASSUME Init, variant # "unlocked" PROVE Inv
<1>1. /\ \A t \in Threads : job[t] = None /\ rest[t] = <<>> /\ at[t] \in {"top", "exited"}
      /\ done = {} /\ freed = {} /\ wrong = FALSE /\ mutex = None /\ count = 0 /\ variant \in Variants
  BY DEF Init
<1>2. \A p \in Producers : at[p] = "top"
  BY JobQueueAssumption DEF Init, Threads
<1>3. variant = "alone" => \A v, w \in Workers : at[v] # "exited" /\ at[w] # "exited" => v = w
  BY DEF Init, Threads
<1>4. queue \in Seq(Jobs) /\ Distinct /\ (variant = "semaphore" => queue = <<>>)
  <2>1. CASE variant = "semaphore"
    BY <2>1 DEF Init, Distinct
  <2>2. CASE variant # "semaphore"
    <3>1. PICK q \in [1..Cardinality(Jobs) -> Jobs] : queue = q /\ \A i, j \in DOMAIN q : q[i] = q[j] => i = j
      BY <2>2 DEF Init
    <3>2. Cardinality(Jobs) \in Nat
      BY JobQueueAssumption, FS_CardinalityType
    <3> QED
      BY <2>2, <3>1, <3>2 DEF Distinct
  <2> QED
    BY <2>1, <2>2
<1>5. at \in [Threads -> Places] /\ job \in [Threads -> Jobs \cup {None}] /\ rest \in [Threads -> Seq(Jobs)]
  BY DEF Init, Places
<1>6. TypeOK
  BY <1>1, <1>4, <1>5 DEF TypeOK
<1>7. Modes
  BY <1>1, <1>2, <1>3, JobQueueAssumption DEF Modes, Busy, Threads
<1>8. Undone /\ Taken /\ Alone /\ Knows /\ Ends
  BY <1>1, <1>2, <1>4, JobQueueAssumption DEF Undone, Taken, Alone, Knows, Ends, Threads
<1>9. Counted
  <2>1. Claimed = {}
    BY <1>1 DEF Claimed, Threads
  <2>2. Unposted = 0
    BY <1>2 DEF Unposted
  <2> QED
    BY <1>1, <1>4, <2>1, <2>2, FS_EmptySet DEF Counted
<1> QED
  BY <1>1, <1>4, <1>6, <1>7, <1>8, <1>9 DEF Inv

(* A step of the queue keeps what is known of it.                          *)
LEMMA QueueStep ==
  ASSUME variant # "unlocked" => Inv, [Next]_queueVars
  PROVE  variant' # "unlocked" => Inv'
<1>1. CASE UNCHANGED queueVars
  BY <1>1, StutterInv DEF queueVars
<1>2. ASSUME NEW w \in Workers, Worker(w) PROVE variant' # "unlocked" => Inv'
  <2>1. UNCHANGED variant
    BY <1>2 DEF Worker, Test, Load, Advance, Store, SemWait, Lock, Unlock, Process, Free
  <2> QED
    BY <1>2, <2>1, TestInv, LoadInv, AdvanceInv, StoreInv, SemWaitInv, LockInv, UnlockInv, ProcessInv, FreeInv DEF Worker
<1>3. ASSUME NEW p \in Producers, Enqueue(p) PROVE variant' # "unlocked" => Inv'
  <2>1. UNCHANGED variant
    BY <1>3 DEF Enqueue, Allocate, EnqLock, Link, Push, Post, EnqUnlock
  <2> QED
    BY <1>3, <2>1, AllocateInv, EnqLockInv, LinkInv, PushInv, PostInv, EnqUnlockInv DEF Enqueue
<1> QED
  BY <1>1, <1>2, <1>3 DEF Next

(* However many threads take jobs and make them, under the mutex (or a     *)
(* single thread without it) each job is processed once and freed once,    *)
(* and a thread the semaphore lets through finds one (job-queue3.c:54).    *)
THEOREM JobsOnce == MCSpec => []EachJobOnce
<1> DEFINE QueueInv == /\ program = "queue" /\ variant # "unlocked" => Inv
                       /\ program # "queue" => ~wrong
<1>1. MCInit => QueueInv
  BY InitInv DEF MCInit, QueueRests
<1>2. QueueInv /\ [MCNext]_allVars => QueueInv'
  <2> SUFFICES ASSUME QueueInv, [MCNext]_allVars PROVE QueueInv'
    OBVIOUS
  <2>1. program' = program /\ (program = "queue" => [Next]_queueVars) /\ (program # "queue" => UNCHANGED queueVars)
    BY DEF MCNext, allVars
  <2>2. CASE program = "queue"
    BY <2>1, <2>2, QueueStep
  <2>3. CASE program # "queue"
    BY <2>1, <2>3 DEF queueVars
  <2> QED
    BY <2>2, <2>3
<1>3. QueueInv => EachJobOnce
  BY DEF Inv, EachJobOnce
<1> QED
  BY <1>1, <1>2, <1>3, PTL DEF MCSpec

-------------------------------------------------------------------------------
(* The thread flag.  The setter is none of the threads that wait, nor is   *)
(* "nobody".                                                               *)
NamesDiffer == "setter" \notin Waiters /\ "nobody" \notin Waiters

FlagPlaces == {"top", "test", "again", "unlock", "work", "asleep", "woken"}

FlagTyped == /\ wt \in [Waiters -> FlagPlaces] /\ seen \in [Waiters -> {0, 1}]
             /\ flag \in {0, 1} /\ value \in {0, 1}

(* The mutex tells who is between its lock and its unlock.                 *)
Held == /\ \A w \in Waiters : wt[w] \in {"test", "again", "unlock"} <=> lock = w
        /\ setter \in {"set", "signal", "unlock"} <=> lock = "setter"

FlagInv == FlagTyped /\ Held /\ F!WorksWhenSet

(* Before anything has happened the mutex is free, and so are the waiters. *)
LEMMA FlagInit == ASSUME NamesDiffer PROVE F!Init => FlagInv
BY DEF NamesDiffer, F!Init, FlagInv, FlagTyped, FlagPlaces, Held, F!WorksWhenSet

(* A waiter that takes the mutex, leaves it or sleeps sets nothing.        *)
LEMMA WaiterInv == ASSUME NamesDiffer, NEW w \in Waiters, FlagInv,
                          F!LockFlag(w) \/ F!Relock(w) \/ F!UnlockFlag(w) \/ F!DoWork(w) \/ F!WakesUp(w)
                   PROVE  FlagInv'
BY DEF NamesDiffer, FlagInv, FlagTyped, FlagPlaces, Held, F!WorksWhenSet, F!LockFlag, F!Relock, F!UnlockFlag,
       F!DoWork, F!WakesUp, F!Goes

(* The flag is looked at with the mutex held, and held on to.              *)
LEMMA LooksInv == ASSUME NamesDiffer, NEW w \in Waiters, FlagInv, F!TestFlag(w) \/ F!CopyFlag(w) PROVE FlagInv'
BY DEF NamesDiffer, FlagInv, FlagTyped, FlagPlaces, Held, F!WorksWhenSet, F!TestFlag, F!CopyFlag, F!Goes

(* The flag changes only while no waiter has the mutex.                    *)
LEMMA SetterInv == ASSUME NamesDiffer, FlagInv, F!Call \/ F!LockSetter \/ F!SetFlag \/ F!UnlockSetter PROVE FlagInv'
BY DEF NamesDiffer, FlagInv, FlagTyped, FlagPlaces, Held, F!WorksWhenSet, F!Call, F!LockSetter, F!SetFlag,
       F!UnlockSetter

(* A signal wakes a sleeper, which does not yet have the mutex.            *)
LEMMA SignalInv == ASSUME NamesDiffer, FlagInv, F!Signal PROVE FlagInv'
BY DEF NamesDiffer, FlagInv, FlagTyped, FlagPlaces, Held, F!WorksWhenSet, F!Signal, F!Goes

(* Steps of the other listings change nothing.                             *)
LEMMA FlagStutter == ASSUME FlagInv, UNCHANGED flagVars PROVE FlagInv'
BY DEF FlagInv, FlagTyped, Held, F!WorksWhenSet, flagVars

(* However many threads wait, each goes to work only when it has seen the  *)
(* flag set since its last work, with the mutex (condvar.c:30-44).         *)
THEOREM SeesTheFlag == ASSUME NamesDiffer PROVE MCSpec => []WorksWhenSet
<1> DEFINE WhenItRuns == program = "flag" => FlagInv
<1>1. MCInit => WhenItRuns
  BY FlagInit DEF MCInit
<1>2. WhenItRuns /\ [MCNext]_allVars => WhenItRuns'
  <2> SUFFICES ASSUME WhenItRuns, [MCNext]_allVars, program' = "flag" PROVE FlagInv'
    OBVIOUS
  <2>1. program = "flag" /\ FlagInv /\ (F!Next \/ UNCHANGED flagVars)
    BY DEF MCNext, allVars
  <2>2. CASE UNCHANGED flagVars
    BY <2>1, <2>2, FlagStutter
  <2>3. CASE F!Call \/ F!Set
    BY <2>1, <2>3, SetterInv, SignalInv DEF F!Set
  <2>4. ASSUME NEW w \in Waiters, F!Waiter(w) \/ F!WakesUp(w) PROVE FlagInv'
    BY <2>1, <2>4, WaiterInv, LooksInv DEF F!Waiter
  <2> QED
    BY <2>1, <2>2, <2>3, <2>4 DEF F!Next
<1>3. WhenItRuns => WorksWhenSet
  BY DEF FlagInv, WorksWhenSet
<1> QED
  BY <1>1, <1>2, <1>3, PTL DEF MCSpec
===============================================================================
