------------------------------ MODULE ListingsProofs ------------------------------
(***************************************************************************)
(* The listings that stand alone, for any values of the constants: two     *)
(* processes are never inside the semaphore, loops around system calls do  *)
(* all or report an error, money is neither made nor lost, what a thread   *)
(* holds is released once, however it ends, a command line is obeyed, and  *)
(* the calculator's answer is the value of the line.                       *)
(***************************************************************************)
EXTENDS MCListings, FiniteSetTheorems, SequenceTheorems, WellFoundedInduction, TLAPS

(* The semaphore.  What the kernel would undo tells who is inside; the     *)
(* value is 1 only when nobody is; and a semaphore that is being           *)
(* initialised has one process that does it and none that passed.          *)
SemTyped == /\ where \in [Procs -> {"away", "initialize", "out", "waiting", "inside"}]
            /\ adj \in [Procs -> {0, 1}] /\ exists \in BOOLEAN

Undone == \A p \in Procs : adj[p] = 1 <=> where[p] = "inside"

Taken == /\ value \in {0, 1}
         /\ \A p \in Procs : where[p] = "inside" => value = 0

Raw == /\ \A p, q \in Procs : where[p] = "initialize" => where[q] # "inside"
       /\ \A p, q \in Procs : where[p] = "initialize" /\ where[q] = "initialize" => p = q
       /\ \A p \in Procs : where[p] = "initialize" => value = 0
       /\ ~exists => value = 0 /\ \A p \in Procs : where[p] = "away"

SemInv == SemTyped /\ Undone /\ Taken /\ Raw /\ M!MutualExclusion

(* A semaphore nobody has made lets nobody in.                             *)
LEMMA SemStarts == M!Init => SemInv
<1> SUFFICES ASSUME M!Init PROVE SemInv
  OBVIOUS
<1>1. \A p \in Procs : where[p] = "away" /\ adj[p] = 0
  BY DEF M!Init
<1>2. SemTyped
  BY DEF M!Init, SemTyped
<1>3. Undone /\ Taken /\ Raw /\ M!MutualExclusion
  BY <1>1 DEF M!Init, Undone, Taken, Raw, M!MutualExclusion
<1> QED
  BY <1>2, <1>3 DEF SemInv

LEMMA AllocateKeeps == ASSUME NEW p \in Procs, SemInv, M!Allocate(p) PROVE SemInv'
BY DEF SemInv, SemTyped, Undone, Taken, Raw, M!MutualExclusion, M!Allocate, M!Goes

LEMMA InitializeKeeps == ASSUME NEW p \in Procs, SemInv, M!Initialize(p) PROVE SemInv'
BY DEF SemInv, SemTyped, Undone, Taken, Raw, M!MutualExclusion, M!Initialize, M!Goes

LEMMA AsksKeeps == ASSUME NEW p \in Procs, SemInv, M!Asks(p) PROVE SemInv'
BY DEF SemInv, SemTyped, Undone, Taken, Raw, M!MutualExclusion, M!Asks, M!Goes

(* Whoever gets in found the value 1, and so nobody inside.                *)
LEMMA WaitKeeps == ASSUME NEW p \in Procs, SemInv, M!Wait(p) PROVE SemInv'
BY DEF SemInv, SemTyped, Undone, Taken, Raw, M!MutualExclusion, M!Wait, M!Op, M!Goes

LEMMA PostKeeps == ASSUME NEW p \in Procs, SemInv, M!Post(p) PROVE SemInv'
BY DEF SemInv, SemTyped, Undone, Taken, Raw, M!MutualExclusion, M!Post, M!Op, M!Goes

(* The kernel gives back a unit exactly when the process was inside.       *)
LEMMA KillKeeps == ASSUME NEW p \in Procs, SemInv, M!Ends(p) PROVE SemInv'
BY DEF SemInv, SemTyped, Undone, Taken, Raw, M!MutualExclusion, M!Ends

LEMMA DeallocateKeeps == ASSUME NEW p \in Procs, SemInv, M!Deallocate(p) PROVE SemInv'
BY DEF SemInv, SemTyped, Undone, Taken, Raw, M!MutualExclusion, M!Deallocate, M!Goes

LEMMA SemSteps == SemInv /\ M!Next => SemInv'
BY AllocateKeeps, InitializeKeeps, AsksKeeps, WaitKeeps, PostKeeps, KillKeeps, DeallocateKeeps DEF M!Next

LEMMA SemStays == SemInv /\ UNCHANGED semVars => SemInv'
BY DEF SemInv, SemTyped, Undone, Taken, Raw, M!MutualExclusion, semVars

-------------------------------------------------------------------------------
(* The loops.  better_sleep has done what is not left, whatever happened;  *)
(* random_number too, and its pointer says how much that is, as long as no *)
(* read was interrupted; and a write_all whose writes were all whole has   *)
(* done nothing or everything.                                             *)
LoopTyped ==
  /\ loop \in {"write_all", "better_sleep", "random_number"} /\ smooth \in BOOLEAN
  /\ result \in {"none", "whole", "error"}
  /\ loop # "better_sleep" => (result = "whole" => left = 0)
  /\ loop = "better_sleep" => (result = "whole" => left = 0)
DoneSoFar == left \in 0..Count /\ done = W!Bytes(1, Count - left)
LoopInv ==
  /\ LoopTyped
  /\ loop = "better_sleep" => DoneSoFar
  /\ loop = "random_number" /\ smooth => DoneSoFar /\ next = Count - left + 1
  /\ loop = "write_all" /\ smooth => \/ left = Count /\ done = <<>>
                                     \/ left = 0 /\ done = W!Bytes(1, Count)

(* Bytes in a row, and those that follow them.                             *)
LEMMA BytesOn == ASSUME NEW k \in Nat, NEW n \in Nat
                 PROVE  W!Bytes(1, k) \o W!Bytes(k + 1, n) = W!Bytes(1, k + n)
<1>1. /\ W!Bytes(1, k) \in Seq(Int) /\ Len(W!Bytes(1, k)) = k
      /\ \A i \in 1..k : W!Bytes(1, k)[i] = i
  BY DEF W!Bytes
<1>2. /\ W!Bytes(k + 1, n) \in Seq(Int) /\ Len(W!Bytes(k + 1, n)) = n
      /\ \A i \in 1..n : W!Bytes(k + 1, n)[i] = k + i
  BY DEF W!Bytes
<1>3. /\ W!Bytes(1, k + n) \in Seq(Int) /\ Len(W!Bytes(1, k + n)) = k + n
      /\ \A i \in 1..(k + n) : W!Bytes(1, k + n)[i] = i
  BY DEF W!Bytes
<1>4. PICK a \in Seq(Int) : a = W!Bytes(1, k)
  BY <1>1
<1>5. PICK b \in Seq(Int) : b = W!Bytes(k + 1, n)
  BY <1>2
<1>6. PICK c \in Seq(Int) : c = W!Bytes(1, k + n)
  BY <1>3
<1>7. Len(a) = k /\ Len(b) = n /\ Len(c) = k + n
  BY <1>1, <1>2, <1>3, <1>4, <1>5, <1>6
<1>8. /\ \A i \in 1..k : a[i] = i
      /\ \A i \in 1..n : b[i] = k + i
      /\ \A i \in 1..(k + n) : c[i] = i
  BY <1>1, <1>2, <1>3, <1>4, <1>5, <1>6
<1>9. /\ a \o b \in Seq(Int) /\ Len(a \o b) = k + n
      /\ \A i \in 1..(k + n) : (a \o b)[i] = IF i <= k THEN a[i] ELSE b[i - k]
  BY <1>7, ConcatProperties
<1>10. ASSUME NEW i \in 1..(k + n) PROVE (a \o b)[i] = i
  <2>1. CASE i <= k
    <3>1. i \in 1..k
      BY <2>1
    <3> QED
      BY <1>8, <1>9, <2>1, <3>1
  <2>2. CASE ~(i <= k)
    <3>1. i - k \in 1..n /\ k + (i - k) = i
      BY <2>2
    <3>2. b[i - k] = i
      BY <1>8, <3>1
    <3> QED
      BY <1>9, <2>2, <3>2
  <2> QED
    BY <2>1, <2>2
<1>11. a \o b = c
  BY <1>7, <1>8, <1>9, <1>10, SeqEqual
<1> QED
  BY <1>4, <1>5, <1>6, <1>11

LEMMA NoBytes == W!Bytes(1, 0) = <<>>
BY DEF W!Bytes

LEMMA LoopStarts == W!Init => LoopInv
BY NoBytes, LoopAssumption DEF W!Init, LoopInv, LoopTyped, DoneSoFar

(* Doing n more of what is left.                                           *)
LEMMA DoesMore == ASSUME DoneSoFar, NEW n \in 0..left,
                         done' = done \o W!Bytes(Count - left + 1, n), left' = left - n
                  PROVE  DoneSoFar'
<1>1. Count - left \in Nat /\ n \in Nat /\ left \in Nat /\ Count \in Nat
  BY LoopAssumption DEF DoneSoFar
<1>2. W!Bytes(1, Count - left) \o W!Bytes(Count - left + 1, n) = W!Bytes(1, (Count - left) + n)
  BY <1>1, BytesOn
<1>3. left' \in 0..Count /\ Count - left' = (Count - left) + n
  BY <1>1
<1> QED
  BY <1>2, <1>3 DEF DoneSoFar

LEMMA WriteKeeps == LoopInv /\ W!Write => LoopInv'
<1> SUFFICES ASSUME LoopInv, W!Write PROVE LoopInv'
  OBVIOUS
<1>1. loop = "write_all" /\ result = "none" /\ left > 0 /\ UNCHANGED <<loop, next, result>>
  BY DEF W!Write, W!Call
<1>2. PICK n \in 1..Count : /\ done' = done \o W!Bytes(1, n)
                            /\ left' = (left - n) % Width
                            /\ smooth' = (smooth /\ n = Count)
  BY DEF W!Write
<1>3. ASSUME smooth' PROVE left' = 0 /\ done' = W!Bytes(1, Count)
  <2>1. smooth /\ n = Count
    BY <1>2, <1>3
  <2>2. left = Count /\ done = <<>>
    BY <1>1, <2>1 DEF LoopInv
  <2>3. (Count - Count) % Width = 0
    BY LoopAssumption
  <2>4. W!Bytes(1, Count) \in Seq(Int)
    BY LoopAssumption DEF W!Bytes
  <2>5. <<>> \o W!Bytes(1, Count) = W!Bytes(1, Count)
    BY <2>4
  <2> QED
    BY <1>2, <2>1, <2>2, <2>3, <2>5
<1> QED
  BY <1>1, <1>2, <1>3 DEF LoopInv, LoopTyped

LEMMA SleepKeeps == LoopInv /\ W!Sleep => LoopInv'
<1> SUFFICES ASSUME LoopInv, W!Sleep PROVE LoopInv'
  OBVIOUS
<1>1. loop = "better_sleep" /\ UNCHANGED <<loop, next>> /\ DoneSoFar
  BY DEF W!Sleep, W!Call, LoopInv
<1>2. PICK n \in 0..left : /\ done' = done \o W!Bytes(Count - left + 1, n)
                           /\ left' = left - n
                           /\ result' = IF left' = 0 THEN "whole" ELSE "none"
                           /\ smooth' = (smooth /\ n = left)
  BY DEF W!Sleep
<1>3. DoneSoFar'
  BY <1>1, <1>2, DoesMore
<1> QED
  BY <1>1, <1>2, <1>3 DEF LoopInv, LoopTyped

LEMMA ReadKeeps == LoopInv /\ W!ReadRandom => LoopInv'
<1> SUFFICES ASSUME LoopInv, W!ReadRandom PROVE LoopInv'
  OBVIOUS
<1>1. loop = "random_number" /\ result = "none" /\ UNCHANGED <<loop, smooth, result>>
  BY DEF W!ReadRandom, W!Call
<1>2. PICK n \in 1..left : /\ done' = done \o W!Bytes(next, n)
                           /\ left' = left - n /\ next' = next + n
  BY DEF W!ReadRandom
<1>3. ASSUME smooth PROVE DoneSoFar' /\ next' = Count - left' + 1
  <2>1. DoneSoFar /\ next = Count - left + 1
    BY <1>1, <1>3 DEF LoopInv
  <2>2. left \in Nat /\ n \in 0..left /\ Count \in Nat
    BY <2>1, LoopAssumption DEF DoneSoFar
  <2>3. DoneSoFar'
    BY <1>2, <2>1, <2>2, DoesMore
  <2> QED
    BY <1>2, <2>1, <2>2, <2>3
<1> QED
  BY <1>1, <1>3 DEF LoopInv, LoopTyped

LEMMA LoopSteps == LoopInv /\ W!Next => LoopInv'
<1> SUFFICES ASSUME LoopInv, W!Next PROVE LoopInv'
  OBVIOUS
<1>1. CASE W!Fails
  BY <1>1 DEF W!Fails, W!Call, LoopInv, LoopTyped, DoneSoFar
<1>2. CASE W!ReadInterrupted
  BY <1>2 DEF W!ReadInterrupted, W!Call, LoopInv, LoopTyped
<1>3. CASE W!Return
  BY <1>3 DEF W!Return, LoopInv, LoopTyped, DoneSoFar
<1> QED
  BY <1>1, <1>2, <1>3, WriteKeeps, SleepKeeps, ReadKeeps DEF W!Next

LEMMA LoopStays == LoopInv /\ UNCHANGED loopVars => LoopInv'
BY DEF loopVars, LoopInv, LoopTyped, DoneSoFar

LEMMA LoopWhole == LoopInv => W!WholeOrError
<1> SUFFICES ASSUME LoopInv, result = "whole", loop = "better_sleep" \/ smooth
             PROVE  done = W!Bytes(1, Count)
  BY DEF W!WholeOrError
<1>1. left = 0
  BY DEF LoopInv, LoopTyped
<1>2. DoneSoFar => done = W!Bytes(1, Count)
  BY <1>1, LoopAssumption DEF DoneSoFar
<1> QED
  BY <1>1, <1>2, NoBytes DEF LoopInv, LoopTyped

-------------------------------------------------------------------------------
(* Threads that end.  What a thread held is released as it exits, and once *)
(* only, because the ways it ended are apart; main has joined those before *)
(* the one it waits for, and none is made after the last of its loop.      *)
EndTyped ==
  /\ listing \in E!Listings
  /\ main \in {"create", "join", "work", "returned", "crashed"}
  /\ created \in 1..E!N
  /\ thread \in [E!Ids -> {"none", "started", "working", "ending", "exited"}]
  /\ how \in [E!Ids -> {"runs", "returns", "pthread_exit", "cancelled", "throws"}]
  /\ freed \in [E!Ids -> Nat]
Released ==
  \A i \in E!Ids :
    /\ freed[i] <= 1 /\ (thread[i] # "exited" => freed[i] = 0)
    /\ thread[i] = "ending" => how[i] \in E!Ways
    /\ thread[i] = "exited" /\ listing \in {"tsd", "cleanup", "cxx_exit"} => freed[i] = 1
Joined ==
  /\ main = "create" => \A i \in created..MaxThreads : thread[i] = "none"
  /\ \A i \in E!Ids : i > E!N => thread[i] = "none"
  /\ main = "join" => \A i \in E!Ids : i < created => thread[i] \in {"none", "exited"}
  /\ main \in {"work", "returned"} /\ listing # "detached" =>
       \A i \in E!Ids : thread[i] \in {"none", "exited"}

EndInv == EndTyped /\ Released /\ Joined

LEMMA LoopsFit == ASSUME EndTyped PROVE E!N \in E!Ids /\ MaxThreads \in Nat /\ created \in E!Ids
BY EndAssumption DEF EndTyped, E!N, E!Ids

LEMMA EndStarts == E!Init => EndInv
<1> SUFFICES ASSUME E!Init PROVE EndInv
  OBVIOUS
<1>1. E!N \in Nat /\ E!N >= 1
  BY EndAssumption DEF E!N
<1>2. EndTyped
  BY <1>1 DEF E!Init, EndTyped
<1> QED
  BY <1>2, LoopsFit DEF E!Init, EndInv, Released, Joined, E!Ids

LEMMA CreateKeeps == EndInv /\ E!CreateThread => EndInv'
<1> SUFFICES ASSUME EndInv, E!CreateThread PROVE EndInv'
  OBVIOUS
<1> USE DEF EndInv
<1>1. main = "create" /\ UNCHANGED <<listing, how, freed, E!N, E!Ways>>
  BY DEF E!CreateThread, E!N, E!Ways
<1>2. \/ created < E!N /\ created' = created + 1 /\ main' = "create"
      \/ ~(created < E!N) /\ created' = 1 /\ main' = "work" /\ listing = "detached"
      \/ ~(created < E!N) /\ created' = 1 /\ main' = "join"
  BY <1>1 DEF E!CreateThread
<1>3. thread' = [thread EXCEPT ![created] = "started"] \/ thread' = thread
  BY DEF E!CreateThread
<1>4. thread[created] = "none" /\ created \in E!Ids
  BY <1>1, LoopsFit DEF Joined, E!Ids
<1>5. /\ thread' \in [E!Ids -> {"none", "started", "working", "ending", "exited"}]
      /\ thread'[created] \in {"none", "started"}
      /\ \A i \in E!Ids : i # created => thread'[i] = thread[i]
  BY <1>3, <1>4 DEF EndTyped
<1>6. EndTyped'
  BY <1>1, <1>2, <1>5, LoopsFit DEF EndTyped, E!Ids
<1>7. Released'
  BY <1>1, <1>4, <1>5 DEF Released
<1>8. Joined'
  BY <1>1, <1>2, <1>4, <1>5, LoopsFit DEF Joined, EndTyped, E!Ids
<1> QED
  BY <1>6, <1>7, <1>8

LEMMA JoinKeeps == EndInv /\ E!JoinThread => EndInv'
<1> SUFFICES ASSUME EndInv, E!JoinThread PROVE EndInv'
  OBVIOUS
<1> USE DEF EndInv
<1>1. main = "join" /\ UNCHANGED <<listing, thread, how, freed, E!N, E!Ways>>
  BY DEF E!JoinThread, E!N, E!Ways
<1>2. \/ thread[created] \in {"exited", "none"} /\ created < E!N /\ created' = created + 1 /\ main' = "join"
      \/ thread[created] \in {"exited", "none"} /\ ~(created < E!N) /\ created' = created /\ main' = "work"
      \/ created' = created /\ main' = "crashed"
  BY <1>1 DEF E!JoinThread
<1>3. EndTyped'
  BY <1>1, <1>2, LoopsFit DEF EndTyped, E!Ids
<1>4. Released'
  BY <1>1 DEF Released
<1>5. Joined'
  BY <1>1, <1>2, LoopsFit DEF Joined, EndTyped, E!Ids
<1> QED
  BY <1>3, <1>4, <1>5

LEMMA ReturnKeeps == EndInv /\ E!MainReturns => EndInv'
<1> SUFFICES ASSUME EndInv, E!MainReturns PROVE EndInv'
  OBVIOUS
<1> USE DEF EndInv
<1>1. main = "work" /\ main' = "returned" /\ UNCHANGED <<listing, created, thread, how, freed, E!N, E!Ways>>
  BY DEF E!MainReturns, E!N, E!Ways
<1> QED
  BY <1>1 DEF EndTyped, Released, Joined

(* A thread that takes a step was made and has not exited, so main has not *)
(* joined it.                                                              *)
LEMMA ThreadKeeps ==
  ASSUME EndInv, NEW i \in E!Ids, E!Running, UNCHANGED <<listing, created, E!N, E!Ways>>,
         main' \in {main, "crashed"},
         thread[i] \in {"started", "working", "ending"},
         thread' = [thread EXCEPT ![i] = thread'[i]], thread'[i] \in {"working", "ending", "exited"},
         EndTyped', Released'
  PROVE  EndInv'
<1>1. \A k \in E!Ids : k # i => thread'[k] = thread[k]
  BY DEF EndInv, EndTyped
<1>2. Joined'
  BY <1>1, LoopsFit DEF EndInv, Joined, EndTyped, E!Running, E!Ids
<1> QED
  BY <1>2 DEF EndInv

LEMMA AcquireKeeps == ASSUME EndInv, NEW i \in E!Ids, E!Acquire(i) PROVE EndInv'
<1>1. UNCHANGED <<listing, created, how, freed, E!N, E!Ways>> /\ main' \in {main, "crashed"}
  BY DEF E!Acquire, E!N, E!Ways
<1>2. E!Running /\ thread[i] = "started" /\ thread' = [thread EXCEPT ![i] = "working"]
  BY DEF E!Acquire, E!Moves
<1>3. EndTyped' /\ thread'[i] = "working"
  BY <1>1, <1>2 DEF EndInv, EndTyped
<1>4. Released'
  BY <1>1, <1>2, <1>3 DEF EndInv, EndTyped, Released
<1> QED
  BY <1>1, <1>2, <1>3, <1>4, ThreadKeeps

LEMMA WaysOut == E!Ways \subseteq {"runs", "returns", "pthread_exit", "cancelled", "throws"}
BY DEF E!Ways

LEMMA EndsKeeps == ASSUME EndInv, NEW i \in E!Ids, E!Ends(i) PROVE EndInv'
<1>1. UNCHANGED <<listing, created, main, freed, E!N, E!Ways>>
  BY DEF E!Ends, E!N, E!Ways
<1>2. E!Running /\ thread[i] = "working" /\ thread' = [thread EXCEPT ![i] = "ending"]
  BY DEF E!Ends, E!Moves
<1>3. PICK way \in E!Ways : how' = [how EXCEPT ![i] = way]
  BY DEF E!Ends
<1>4. EndTyped' /\ thread'[i] = "ending"
  BY <1>1, <1>2, <1>3, WaysOut DEF EndInv, EndTyped
<1>5. Released'
  BY <1>1, <1>2, <1>3, <1>4 DEF EndInv, EndTyped, Released
<1> QED
  BY <1>1, <1>2, <1>4, <1>5, ThreadKeeps

(* Of the handler popped and the handlers run, one releases: pthread_exit  *)
(* and cancellation never reach the pop.                                   *)
LEMMA OneRelease ==
  ASSUME NEW i \in E!Ids, listing \in E!Listings, how[i] \in E!Ways
  PROVE  /\ ~(E!Pops(i) /\ E!RunsHandlers(i))
         /\ listing \in {"tsd", "cleanup", "cxx_exit"} => E!Pops(i) \/ E!RunsHandlers(i)
BY DEF E!Listings, E!Ways, E!Pops, E!RunsHandlers

LEMMA ReleaseKeeps == ASSUME EndInv, NEW i \in E!Ids, E!Release(i) PROVE EndInv'
<1>1. UNCHANGED <<listing, created, main, how, E!N, E!Ways>>
  BY DEF E!Release, E!N, E!Ways
<1>2. E!Running /\ thread[i] = "ending" /\ thread' = [thread EXCEPT ![i] = "exited"]
  BY DEF E!Release, E!Moves
<1>3. freed' = [freed EXCEPT ![i] = freed[i] + (IF E!Pops(i) THEN 1 ELSE 0) + (IF E!RunsHandlers(i) THEN 1 ELSE 0)]
  BY DEF E!Release
<1>4. how[i] \in E!Ways /\ freed[i] = 0 /\ listing \in E!Listings
  BY <1>2 DEF EndInv, EndTyped, Released
<1>5. PICK n \in {0, 1} : n = (IF E!Pops(i) THEN 1 ELSE 0) + (IF E!RunsHandlers(i) THEN 1 ELSE 0)
  BY <1>4, OneRelease
<1>6. listing \in {"tsd", "cleanup", "cxx_exit"} => n = 1
  BY <1>4, <1>5, OneRelease
<1>7. freed' = [freed EXCEPT ![i] = n]
  BY <1>3, <1>4, <1>5
<1>8. EndTyped' /\ thread'[i] = "exited"
  BY <1>1, <1>2, <1>7 DEF EndInv, EndTyped
<1>9. Released'
  BY <1>1, <1>2, <1>6, <1>7, <1>8 DEF EndInv, EndTyped, Released
<1> QED
  BY <1>1, <1>2, <1>8, <1>9, ThreadKeeps

LEMMA EndSteps == EndInv /\ E!Next => EndInv'
BY CreateKeeps, JoinKeeps, ReturnKeeps, AcquireKeeps, EndsKeeps, ReleaseKeeps DEF E!Next

LEMMA EndStays == EndInv /\ UNCHANGED endVars => EndInv'
BY DEF endVars, EndInv, EndTyped, Released, Joined, E!N, E!Ways

LEMMA EndLeaves == EndInv => E!LeavesNothing
BY DEF EndInv, EndTyped, Released, Joined, E!LeavesNothing

-------------------------------------------------------------------------------
(* Sums.  Total folds + over the accounts, taking one out after another;   *)
(* the proofs need that the function it is defined by exists, and that a   *)
(* change of one balance changes the sum by as much.                       *)
Pick(s) == CHOOSE x \in s : TRUE

Step(f, g, s) == IF s = {} THEN 0 ELSE f[Pick(s)] + g[s \ {Pick(s)}]

SumOver(f, D) == CHOOSE g : g = [s \in SUBSET D |-> Step(f, g, s)]

Sum(f, D) == SumOver(f, D)[D]

LEMMA TotalIsSum == T!Total = Sum(balance, DOMAIN balance)
BY DEF T!Total, T!FoldFunction, T!FoldFunctionOnSet, T!MapThenFoldSet, Sum, SumOver, Step, Pick

LEMMA Picked == ASSUME NEW s, s # {} PROVE Pick(s) \in s
BY DEF Pick

LEMMA TotalIsSumNext == T!Total' = Sum(balance', DOMAIN balance')
BY DEF T!Total, T!FoldFunction, T!FoldFunctionOnSet, T!MapThenFoldSet, Sum, SumOver, Step, Pick

LEMMA TotalStays == UNCHANGED balance => UNCHANGED T!Total
BY TotalIsSum, TotalIsSumNext

(* Every set of naturals that is not empty has a least one: the ordering   *)
(* of the finite sets by inclusion is well-founded, and 0..n grows with n. *)
LEMMA LeastNatural ==
  ASSUME NEW K, K \subseteq Nat, K # {}
  PROVE  \E x \in K : \A y \in K : x <= y
<1> DEFINE Ups == {0..n : n \in K}
<1>1. IsWellFoundedOn(StrictSubsetOrdering(Nat), FiniteSubsetsOf(Nat))
  BY FS_StrictSubsetOrderingWellFounded
<1>2. \A n \in K : 0..n \in SUBSET Nat /\ IsFiniteSet(0..n)
  BY FS_Interval
<1>3. Ups \subseteq FiniteSubsetsOf(Nat) /\ Ups # {}
  BY <1>2 DEF FiniteSubsetsOf
<1>4. PICK u \in Ups : \A v \in Ups : ~ (<<v, u>> \in StrictSubsetOrdering(Nat))
  BY <1>1, <1>3, WFMin
<1>5. PICK x \in K : u = 0..x
  BY <1>4
<1>6. ASSUME NEW y \in K PROVE x <= y
  <2> SUFFICES ASSUME y < x PROVE FALSE
    BY <1>5, <1>6
  <2>1. 0..y \in Ups /\ 0..y \in SUBSET Nat /\ 0..x \in SUBSET Nat
    BY <1>2
  <2>2. 0..y \subseteq 0..x /\ 0..y # 0..x
    BY <1>6
  <2>3. <<0..y, u>> \in StrictSubsetOrdering(Nat)
    BY <2>1, <2>2, <1>5 DEF StrictSubsetOrdering
  <2> QED
    BY <1>4, <2>1, <2>3
<1> QED
  BY <1>5, <1>6

(* The sizes of the subsets of a finite set, and of one with an element    *)
(* taken out.                                                              *)
LEMMA SubsetSizes ==
  ASSUME NEW D, IsFiniteSet(D), NEW s \in SUBSET D
  PROVE  /\ IsFiniteSet(s) /\ Cardinality(s) \in Nat /\ Cardinality(s) <= Cardinality(D)
         /\ Cardinality(s) = 0 <=> s = {}
         /\ s # {} => s \ {Pick(s)} \in SUBSET D /\ Cardinality(s \ {Pick(s)}) = Cardinality(s) - 1
<1>1. IsFiniteSet(s) /\ Cardinality(s) <= Cardinality(D)
  BY FS_Subset
<1>2. Cardinality(s) \in Nat
  BY <1>1, FS_CardinalityType
<1>3. Cardinality(s) = 0 <=> s = {}
  BY <1>1, FS_EmptySet
<1>4. ASSUME s # {} PROVE s \ {Pick(s)} \in SUBSET D /\ Cardinality(s \ {Pick(s)}) = Cardinality(s) - 1
  BY <1>1, <1>4, Picked, FS_RemoveElement
<1> QED
  BY <1>1, <1>2, <1>3, <1>4

(* For every n there is a function that sums up the sets of up to n.       *)
SumsUpTo(f, D, g, n) ==
  /\ g = [s \in SUBSET D |-> g[s]]
  /\ \A s \in SUBSET D : Cardinality(s) <= n => g[s] = Step(f, g, s)

LEMMA NoSums == ASSUME NEW f, NEW D, IsFiniteSet(D) PROVE \E g : SumsUpTo(f, D, g, 0)
<1> DEFINE zero == [s \in SUBSET D |-> 0]
<1>1. ASSUME NEW s \in SUBSET D, Cardinality(s) <= 0 PROVE s = {}
  <2>1. Cardinality(s) \in Nat
    BY SubsetSizes
  <2>2. Cardinality(s) = 0
    BY <1>1, <2>1
  <2> QED
    BY <2>2, SubsetSizes
<1>2. SumsUpTo(f, D, zero, 0)
  BY <1>1 DEF SumsUpTo, Step
<1> QED
  BY <1>2

LEMMA MoreSums ==
  ASSUME NEW f, NEW D, IsFiniteSet(D), NEW n \in Nat, NEW g, SumsUpTo(f, D, g, n)
  PROVE  \E h : SumsUpTo(f, D, h, n + 1)
<1> DEFINE h == [s \in SUBSET D |-> Step(f, g, s)]
<1>1. \A s \in SUBSET D : Cardinality(s) <= n => h[s] = g[s]
  BY DEF SumsUpTo
<1>2. ASSUME NEW s \in SUBSET D, Cardinality(s) <= n + 1
      PROVE  h[s] = Step(f, h, s)
  <2>1. CASE s = {}
    BY <2>1 DEF Step
  <2>2. CASE s # {}
    <3>1. s \ {Pick(s)} \in SUBSET D /\ Cardinality(s \ {Pick(s)}) <= n
      BY <1>2, <2>2, SubsetSizes
    <3>2. h[s \ {Pick(s)}] = g[s \ {Pick(s)}]
      BY <1>1, <3>1
    <3>3. h[s] = Step(f, g, s)
      OBVIOUS
    <3> HIDE DEF h
    <3> QED
      BY <2>2, <3>2, <3>3 DEF Step
  <2> QED
    BY <2>1, <2>2
<1>3. h = [s \in SUBSET D |-> h[s]]
  OBVIOUS
<1>4. SumsUpTo(f, D, h, n + 1)
  BY <1>2, <1>3 DEF SumsUpTo
<1> QED
  BY <1>4

LEMMA SumsExist ==
  ASSUME NEW f, NEW D, IsFiniteSet(D), NEW n \in Nat
  PROVE  \E g : SumsUpTo(f, D, g, n)
<1> DEFINE K == {m \in Nat : ~ \E g : SumsUpTo(f, D, g, m)}
<1> SUFFICES ASSUME K # {} PROVE FALSE
  OBVIOUS
<1>1. PICK m \in K : \A l \in K : m <= l
  <2>1. K \subseteq Nat
    OBVIOUS
  <2> HIDE DEF K
  <2> QED
    BY <2>1, LeastNatural
<1>2. m # 0
  BY <1>1, NoSums
<1>3. m - 1 \in Nat /\ (m - 1) + 1 = m /\ ~(m <= m - 1)
  BY <1>1, <1>2
<1>4. m - 1 \notin K
  <2> HIDE DEF K
  <2> QED
    BY <1>1, <1>3
<1>5. PICK g : SumsUpTo(f, D, g, m - 1)
  BY <1>3, <1>4
<1>6. \E h : SumsUpTo(f, D, h, m)
  BY <1>3, <1>5, MoreSums
<1> QED
  BY <1>1, <1>6

LEMMA SumSteps ==
  ASSUME NEW f, NEW D, IsFiniteSet(D)
  PROVE  \A s \in SUBSET D : SumOver(f, D)[s] = Step(f, SumOver(f, D), s)
<1>1. Cardinality(D) \in Nat
  BY FS_CardinalityType
<1>2. PICK g : SumsUpTo(f, D, g, Cardinality(D))
  BY <1>1, SumsExist
<1>3. g = [s \in SUBSET D |-> Step(f, g, s)]
  <2>1. \A s \in SUBSET D : g[s] = Step(f, g, s)
    BY <1>2, SubsetSizes DEF SumsUpTo
  <2>2. g = [s \in SUBSET D |-> g[s]]
    BY <1>2 DEF SumsUpTo
  <2> QED
    BY <2>1, <2>2
<1>4. \E e : e = [s \in SUBSET D |-> Step(f, e, s)]
  BY <1>3
<1>5. SumOver(f, D) = [s \in SUBSET D |-> Step(f, SumOver(f, D), s)]
  BY <1>4 DEF SumOver
<1> HIDE DEF SumOver
<1>6. PICK e : e = SumOver(f, D)
  OBVIOUS
<1> QED
  BY <1>5, <1>6

(* One balance more by d is a sum more by d.                               *)
LEMMA SumChanges ==
  ASSUME NEW D, IsFiniteSet(D), NEW f \in [D -> Int], NEW h \in [D -> Int], NEW a \in D, NEW d \in Int,
         h[a] = f[a] + d, \A x \in D : x # a => h[x] = f[x]
  PROVE  Sum(f, D) \in Int /\ Sum(h, D) = Sum(f, D) + d
<1>1. PICK F : F = SumOver(f, D)
  OBVIOUS
<1>2. PICK H : H = SumOver(h, D)
  OBVIOUS
<1>3. \A s \in SUBSET D : F[s] = Step(f, F, s) /\ H[s] = Step(h, H, s)
  BY <1>1, <1>2, SumSteps
<1> DEFINE K == {s \in SUBSET D : ~(F[s] \in Int /\ H[s] = F[s] + IF a \in s THEN d ELSE 0)}
<1>4. K = {}
  <2> SUFFICES ASSUME K # {} PROVE FALSE
    OBVIOUS
  <2>1. K \subseteq FiniteSubsetsOf(D)
    BY FS_Subset DEF FiniteSubsetsOf
  <2>2. IsWellFoundedOn(StrictSubsetOrdering(D), FiniteSubsetsOf(D))
    BY FS_StrictSubsetOrderingWellFounded
  <2>3. PICK s \in K : \A r \in K : ~ (<<r, s>> \in StrictSubsetOrdering(D))
    <3> HIDE DEF K
    <3> QED
      BY <2>1, <2>2, WFMin
  <2>4. s \in SUBSET D
    OBVIOUS
  <2>5. s # {}
    <3> SUFFICES ASSUME s = {} PROVE FALSE
      OBVIOUS
    <3>1. F[s] = 0 /\ H[s] = 0
      BY <1>3, <2>4 DEF Step
    <3> QED
      BY <3>1
  <2>6. PICK x \in s : x = Pick(s)
    BY <2>5, Picked
  <2>7. PICK r \in SUBSET D : r = s \ {x}
    BY <2>4
  <2>8. F[s] = f[x] + F[r] /\ H[s] = h[x] + H[r]
    BY <1>3, <2>4, <2>5, <2>6, <2>7 DEF Step
  <2>9. <<r, s>> \in StrictSubsetOrdering(D)
    BY <2>4, <2>6, <2>7 DEF StrictSubsetOrdering
  <2>10. F[r] \in Int /\ H[r] = F[r] + IF a \in r THEN d ELSE 0
    BY <2>3, <2>7, <2>9
  <2>11. f[x] \in Int /\ h[x] \in Int
    BY <2>4
  <2>12. F[s] \in Int
    BY <2>8, <2>10, <2>11
  <2>13. H[s] = F[s] + IF a \in s THEN d ELSE 0
    <3>1. CASE x = a
      <4>1. a \notin r /\ a \in s
        BY <2>6, <2>7, <3>1
      <4>2. h[x] = f[x] + d
        BY <3>1
      <4> QED
        BY <2>8, <2>10, <2>11, <4>1, <4>2
    <3>2. CASE x # a
      <4>1. a \in r <=> a \in s
        BY <2>6, <2>7, <3>2
      <4>2. h[x] = f[x]
        BY <2>4, <3>2
      <4> QED
        BY <2>8, <2>10, <2>11, <4>1, <4>2
    <3> QED
      BY <3>1, <3>2
  <2> QED
    BY <2>12, <2>13
<1>5. F[D] \in Int /\ H[D] = F[D] + d
  BY <1>4
<1> QED
  BY <1>1, <1>2, <1>5 DEF Sum

-------------------------------------------------------------------------------
(* The transfers.  While no two overlap, one teller at most is past its    *)
(* check; the balances are those of the books but for what it has stored;  *)
(* and nobody else changes what it has loaded.  What a float cannot hold   *)
(* need not be a number to the proof: it is followed while all is exact.   *)
TellerPlaces == {"start", "checked", "to", "added", "from", "moved", "returned 0", "returned 1", "cancelled"}

BankTyped ==
  /\ overlapped \in BOOLEAN /\ exact \in BOOLEAN
  /\ DOMAIN balance = Accounts
  /\ teller \in [Tellers -> [at : TellerPlaces, from : Accounts, to : Accounts, dollars : Amounts]]
  /\ loaded = [t \in Tellers |-> loaded[t]]
  /\ exact => balance \in [Accounts -> Int] /\ loaded \in [Tellers -> Int]

Moving(t) ==
  /\ teller[t].at \in {"checked", "to", "moved"} => balance = books
  /\ teller[t].at = "to" => loaded[t] = balance[teller[t].to]
  /\ teller[t].at \in {"added", "from"} =>
       balance = [books EXCEPT ![teller[t].to] = T!Round(@ + teller[t].dollars)]
  /\ teller[t].at = "from" => loaded[t] = balance[teller[t].from]
  /\ exact => T!Total = Money + IF teller[t].at \in {"added", "from"} THEN teller[t].dollars ELSE 0

Books ==
  /\ \A t, u \in Tellers : T!Inside(t) /\ T!Inside(u) => t = u
  /\ \A t \in Tellers : T!Inside(t) => Moving(t)
  /\ (\A t \in Tellers : ~T!Inside(t)) => balance = books /\ (exact => T!Total = Money)

BankInv == BankTyped /\ (~overlapped => Books)

LEMMA NothingMoved == Money + 0 = Money
BY BankAssumption

LEMMA BankStarts == T!Init => BankInv
<1> SUFFICES ASSUME T!Init PROVE BankInv
  OBVIOUS
<1>1. BankTyped
  <2>1. balance \in [Accounts -> Int] /\ DOMAIN balance = Accounts
    BY BankAssumption DEF T!Init
  <2>2. {"start"} \subseteq TellerPlaces
    BY DEF TellerPlaces
  <2>3. teller \in [Tellers -> [at : TellerPlaces, from : Accounts, to : Accounts, dollars : Amounts]]
    BY <2>2 DEF T!Init
  <2>4. loaded \in [Tellers -> Int] /\ loaded = [t \in Tellers |-> loaded[t]]
    BY DEF T!Init
  <2>5. overlapped \in BOOLEAN /\ exact \in BOOLEAN
    BY DEF T!Init
  <2> QED
    BY <2>1, <2>3, <2>4, <2>5 DEF BankTyped
<1>2. \A t \in Tellers : ~T!Inside(t)
  BY DEF T!Init, T!Inside
<1> QED
  BY <1>1, <1>2 DEF BankInv, Books, T!Init

(* A teller's record, field by field.                                      *)
LEMMA TellerFields ==
  ASSUME BankTyped, NEW t \in Tellers
  PROVE  /\ teller[t].at \in TellerPlaces /\ teller[t].from \in Accounts /\ teller[t].to \in Accounts
         /\ teller[t].dollars \in Int
         /\ exact => loaded[t] \in Int
BY BankAssumption DEF BankTyped

(* A teller moves on: its arguments stay, and so do the other tellers.     *)
LEMMA MovesOn ==
  ASSUME BankTyped, NEW t \in Tellers, NEW place \in TellerPlaces, teller' = [teller EXCEPT ![t].at = place]
  PROVE  /\ teller' \in [Tellers -> [at : TellerPlaces, from : Accounts, to : Accounts, dollars : Amounts]]
         /\ \A u \in Tellers : u # t => teller'[u] = teller[u]
         /\ teller'[t].at = place /\ teller'[t].from = teller[t].from
         /\ teller'[t].to = teller[t].to /\ teller'[t].dollars = teller[t].dollars
BY DEF BankTyped

(* A step outside the two accounts: the check, a cancellation, a load, the *)
(* return.                                                                 *)
LEMMA CheckKeeps == ASSUME BankInv, NEW t \in Tellers, T!Check(t) PROVE BankInv'
<1>1. PICK place : /\ place = IF balance[teller[t].from] < teller[t].dollars THEN "returned 1" ELSE "checked"
                   /\ teller' = [teller EXCEPT ![t].at = place]
  BY DEF T!Check
<1>2. /\ teller[t].at = "start" /\ UNCHANGED <<balance, loaded, exact, books>> /\ UNCHANGED T!Total
      /\ place \in {"returned 1", "checked"} /\ place \in TellerPlaces
      /\ overlapped' = (overlapped \/ \E u \in Tellers \ {t} : T!Inside(u) /\ place = "checked")
  <2>1. place = "checked" <=> ~(balance[teller[t].from] < teller[t].dollars)
    BY <1>1
  <2>2. overlapped' = (overlapped \/ \E u \in Tellers \ {t} : T!Inside(u) /\ place = "checked")
    BY <2>1 DEF T!Check
  <2>3. teller[t].at = "start" /\ UNCHANGED <<balance, loaded, exact, books>>
    BY DEF T!Check
  <2> QED
    BY <1>1, <2>2, <2>3, TotalStays DEF TellerPlaces
<1>3. /\ \A u \in Tellers : u # t => teller'[u] = teller[u]
      /\ teller'[t].at = place
      /\ teller' \in [Tellers -> [at : TellerPlaces, from : Accounts, to : Accounts, dollars : Amounts]]
  BY <1>1, <1>2, MovesOn DEF BankInv
<1>4. BankTyped'
  BY <1>2, <1>3 DEF BankInv, BankTyped
<1>5. ~T!Inside(t) /\ (T!Inside(t)' <=> place = "checked")
  BY <1>2, <1>3 DEF T!Inside
<1>6. ASSUME ~overlapped' PROVE Books'
  <2>1. ~overlapped /\ Books
    BY <1>2, <1>6 DEF BankInv
  <2>2. place = "checked" => \A u \in Tellers : ~T!Inside(u)
    BY <1>2, <1>5, <1>6
  <2>3. \A u \in Tellers : u # t => (T!Inside(u)' <=> T!Inside(u)) /\ (Moving(u)' <=> Moving(u))
    BY <1>2, <1>3 DEF T!Inside, Moving
  <2>4. T!Inside(t)' => Moving(t)'
    <3> SUFFICES ASSUME place = "checked" PROVE Moving(t)'
      BY <1>5
    <3>1. balance = books /\ (exact => T!Total = Money + 0)
      BY <2>1, <2>2, NothingMoved DEF Books
    <3> QED
      BY <1>2, <1>3, <3>1 DEF Moving
  <2>5. \A u, v \in Tellers : T!Inside(u)' /\ T!Inside(v)' => u = v
    BY <1>5, <2>1, <2>2, <2>3 DEF Books
  <2>6. (\A u \in Tellers : ~T!Inside(u)') => \A u \in Tellers : ~T!Inside(u)
    BY <1>5, <2>3
  <2>7. \A u \in Tellers : T!Inside(u)' => Moving(u)'
    BY <2>1, <2>3, <2>4 DEF Books
  <2> QED
    BY <1>2, <2>1, <2>5, <2>6, <2>7 DEF Books
<1> QED
  BY <1>4, <1>6 DEF BankInv

(* Of the one teller past its check: it is as it says after its step, and  *)
(* when it is through nobody is there.                                     *)
LEMMA AloneKeeps ==
  ASSUME BankInv, NEW t \in Tellers, T!Inside(t), BankTyped', overlapped' = overlapped,
         \A u \in Tellers : u # t => teller'[u] = teller[u],
         ~overlapped => /\ T!Inside(t)' => Moving(t)'
                        /\ ~T!Inside(t)' => balance' = books' /\ (exact' => T!Total' = Money)
  PROVE  BankInv'
<1> SUFFICES ASSUME ~overlapped' PROVE Books'
  BY DEF BankInv
<1>1. \A u \in Tellers : u # t => ~T!Inside(u)
  BY DEF BankInv, Books
<1>2. \A u \in Tellers : u # t => ~T!Inside(u)'
  BY <1>1 DEF T!Inside
<1> QED
  BY <1>2 DEF Books

(* A load: the teller alone has changed, and knows a balance.              *)
LEMMA LoadIs ==
  ASSUME BankInv, NEW t \in Tellers, NEW a \in Accounts, NEW from \in {"checked", "added"},
         NEW to \in {"to", "from"}, T!Load(t, from, to, a)
  PROVE  /\ teller[t].at = from /\ UNCHANGED <<balance, overlapped, exact, books>> /\ UNCHANGED T!Total
         /\ BankTyped' /\ T!Inside(t) /\ T!Inside(t)'
         /\ \A u \in Tellers : u # t => teller'[u] = teller[u]
         /\ teller'[t].at = to /\ teller'[t].from = teller[t].from
         /\ teller'[t].to = teller[t].to /\ teller'[t].dollars = teller[t].dollars
         /\ loaded'[t] = balance[a]
<1>1. /\ teller[t].at = from /\ teller' = [teller EXCEPT ![t].at = to]
      /\ UNCHANGED <<balance, overlapped, exact, books>> /\ loaded' = [loaded EXCEPT ![t] = balance[a]]
  BY DEF T!Load, T!Goes
<1>2. UNCHANGED T!Total
  BY <1>1, TotalStays
<1>3. to \in TellerPlaces
  BY DEF TellerPlaces
<1>4. /\ teller' \in [Tellers -> [at : TellerPlaces, from : Accounts, to : Accounts, dollars : Amounts]]
      /\ \A u \in Tellers : u # t => teller'[u] = teller[u]
      /\ teller'[t].at = to /\ teller'[t].from = teller[t].from
      /\ teller'[t].to = teller[t].to /\ teller'[t].dollars = teller[t].dollars
  BY <1>1, <1>3, MovesOn DEF BankInv
<1>5. loaded' = [u \in Tellers |-> loaded'[u]] /\ loaded'[t] = balance[a]
  <2>1. loaded = [u \in Tellers |-> loaded[u]]
    BY DEF BankInv, BankTyped
  <2> QED
    BY <1>1, <2>1
<1>6. exact' => balance' \in [Accounts -> Int] /\ loaded' \in [Tellers -> Int]
  BY <1>1 DEF BankInv, BankTyped
<1>7. BankTyped'
  BY <1>1, <1>4, <1>5, <1>6 DEF BankInv, BankTyped
<1> QED
  BY <1>1, <1>2, <1>4, <1>5, <1>7 DEF T!Inside

LEMMA LoadToKeeps == ASSUME BankInv, NEW t \in Tellers, T!LoadTo(t) PROVE BankInv'
<1>1. teller[t].to \in Accounts /\ T!Load(t, "checked", "to", teller[t].to)
  BY TellerFields DEF BankInv, T!LoadTo
<1>2. /\ teller[t].at = "checked" /\ UNCHANGED <<balance, overlapped, exact, books>> /\ UNCHANGED T!Total
      /\ BankTyped' /\ T!Inside(t) /\ T!Inside(t)'
      /\ \A u \in Tellers : u # t => teller'[u] = teller[u]
      /\ teller'[t].at = "to" /\ teller'[t].from = teller[t].from
      /\ teller'[t].to = teller[t].to /\ teller'[t].dollars = teller[t].dollars
      /\ loaded'[t] = balance[teller[t].to]
  BY <1>1, LoadIs
<1>3. ~overlapped => Moving(t)
  BY <1>2 DEF BankInv, Books
<1>4. ~overlapped => Moving(t)'
  BY <1>2, <1>3 DEF Moving
<1> QED
  BY <1>2, <1>4, AloneKeeps

LEMMA LoadFromKeeps == ASSUME BankInv, NEW t \in Tellers, T!LoadFrom(t) PROVE BankInv'
<1>1. teller[t].from \in Accounts /\ T!Load(t, "added", "from", teller[t].from)
  BY TellerFields DEF BankInv, T!LoadFrom
<1>2. /\ teller[t].at = "added" /\ UNCHANGED <<balance, overlapped, exact, books>> /\ UNCHANGED T!Total
      /\ BankTyped' /\ T!Inside(t) /\ T!Inside(t)'
      /\ \A u \in Tellers : u # t => teller'[u] = teller[u]
      /\ teller'[t].at = "from" /\ teller'[t].from = teller[t].from
      /\ teller'[t].to = teller[t].to /\ teller'[t].dollars = teller[t].dollars
      /\ loaded'[t] = balance[teller[t].from]
  BY <1>1, LoadIs
<1>3. ~overlapped => Moving(t)
  BY <1>2 DEF BankInv, Books
<1>4. ~overlapped => Moving(t)'
  BY <1>2, <1>3 DEF Moving
<1> QED
  BY <1>2, <1>4, AloneKeeps

(* A store: nothing but the balance changes, and while all is exact it     *)
(* changes by what was meant.                                              *)
LEMMA StoreIs ==
  ASSUME BankTyped, NEW a \in Accounts, NEW n, T!Store(a, n), exact => n \in Int
  PROVE  /\ exact' \in BOOLEAN /\ DOMAIN balance' = Accounts
         /\ exact' => /\ exact /\ balance' \in [Accounts -> Int] /\ balance \in [Accounts -> Int]
                      /\ balance'[a] = n /\ \A b \in Accounts : b # a => balance'[b] = balance[b]
<1>1. balance' = [balance EXCEPT ![a] = T!Round(n)] /\ exact' = (exact /\ T!Round(n) = n)
  BY DEF T!Store
<1>2. DOMAIN balance' = Accounts
  BY <1>1 DEF BankTyped
<1>3. ASSUME exact' PROVE /\ exact /\ balance' \in [Accounts -> Int] /\ balance \in [Accounts -> Int]
                          /\ balance'[a] = n /\ \A b \in Accounts : b # a => balance'[b] = balance[b]
  <2>1. exact /\ T!Round(n) = n /\ n \in Int
    BY <1>1, <1>3
  <2>2. balance \in [Accounts -> Int] /\ balance' = [balance EXCEPT ![a] = n]
    BY <1>1, <2>1 DEF BankTyped
  <2> QED
    BY <2>1, <2>2
<1>4. exact' \in BOOLEAN
  BY <1>1
<1> QED
  BY <1>2, <1>3, <1>4

LEMMA TotalChanges ==
  ASSUME BankTyped, NEW a \in Accounts, NEW d \in Int, balance \in [Accounts -> Int], balance' \in [Accounts -> Int],
         balance'[a] = balance[a] + d, \A b \in Accounts : b # a => balance'[b] = balance[b]
  PROVE  T!Total \in Int /\ T!Total' = T!Total + d
<1>1. Sum(balance', Accounts) = Sum(balance, Accounts) + d /\ Sum(balance, Accounts) \in Int
  BY SumChanges, BankAssumption
<1>2. T!Total = Sum(balance, Accounts) /\ T!Total' = Sum(balance', Accounts)
  BY TotalIsSum, TotalIsSumNext
<1> QED
  BY <1>1, <1>2

(* Nobody has touched the balance since it was loaded.                     *)
LEMMA AddToKeeps == ASSUME BankInv, NEW t \in Tellers, T!AddTo(t) PROVE BankInv'
<1> DEFINE a == teller[t].to
           d == teller[t].dollars
<1>1. /\ teller[t].at = "to" /\ UNCHANGED <<loaded, overlapped, books>>
      /\ teller' = [teller EXCEPT ![t].at = "added"] /\ T!Store(a, loaded[t] + d)
  BY DEF T!AddTo, T!Goes
<1>2. BankTyped /\ a \in Accounts /\ d \in Int /\ (exact => loaded[t] \in Int) /\ "added" \in TellerPlaces
  BY TellerFields DEF BankInv, TellerPlaces
<1>3. /\ teller' \in [Tellers -> [at : TellerPlaces, from : Accounts, to : Accounts, dollars : Amounts]]
      /\ \A u \in Tellers : u # t => teller'[u] = teller[u]
      /\ teller'[t].at = "added" /\ teller'[t].to = a /\ teller'[t].dollars = d
  BY <1>1, <1>2, MovesOn
<1> HIDE DEF a, d
<1>4. /\ exact' \in BOOLEAN /\ DOMAIN balance' = Accounts
      /\ exact' => /\ exact /\ balance' \in [Accounts -> Int] /\ balance \in [Accounts -> Int]
                   /\ balance'[a] = loaded[t] + d /\ \A b \in Accounts : b # a => balance'[b] = balance[b]
  <2>1. exact => loaded[t] + d \in Int
    BY <1>2
  <2> QED
    BY <1>1, <1>2, <2>1, StoreIs
<1>5. BankTyped'
  BY <1>1, <1>2, <1>3, <1>4 DEF BankTyped
<1>6. T!Inside(t) /\ T!Inside(t)'
  BY <1>1, <1>3 DEF T!Inside
<1>7. ASSUME ~overlapped PROVE Moving(t)'
  <2>1. balance = books /\ loaded[t] = balance[a] /\ (exact => T!Total = Money + 0)
    BY <1>1, <1>6, <1>7 DEF BankInv, Books, Moving, a
  <2>2. balance' = [books EXCEPT ![a] = T!Round(@ + d)]
    BY <1>1, <2>1 DEF T!Store
  <2>3. exact' => T!Total' = Money + d
    <3> SUFFICES ASSUME exact' PROVE T!Total' = Money + d
      OBVIOUS
    <3>1. T!Total' = T!Total + d
      BY <1>2, <1>4, <2>1, TotalChanges
    <3> QED
      BY <1>4, <2>1, <3>1, NothingMoved
  <2> QED
    BY <1>1, <1>3, <2>2, <2>3 DEF Moving
<1> QED
  BY <1>1, <1>3, <1>5, <1>6, <1>7, AloneKeeps

(* What was added to the one account is taken from the other, and the      *)
(* books take up both.                                                     *)
LEMMA TakeFromKeeps == ASSUME BankInv, NEW t \in Tellers, T!TakeFrom(t) PROVE BankInv'
<1> DEFINE a == teller[t].from
           d == teller[t].dollars
<1>1. /\ teller[t].at = "from" /\ UNCHANGED <<loaded, overlapped>>
      /\ teller' = [teller EXCEPT ![t].at = "moved"] /\ T!Store(a, loaded[t] - d)
      /\ books' = [[books EXCEPT ![teller[t].to] = T!Round(@ + d)] EXCEPT ![a] = T!Round(@ - d)]
  BY DEF T!TakeFrom, T!Goes
<1>2. BankTyped /\ a \in Accounts /\ d \in Int /\ (exact => loaded[t] \in Int) /\ "moved" \in TellerPlaces
  BY TellerFields DEF BankInv, TellerPlaces
<1>3. /\ teller' \in [Tellers -> [at : TellerPlaces, from : Accounts, to : Accounts, dollars : Amounts]]
      /\ \A u \in Tellers : u # t => teller'[u] = teller[u]
      /\ teller'[t].at = "moved"
  BY <1>1, <1>2, MovesOn
<1> HIDE DEF a, d
<1>4. /\ exact' \in BOOLEAN /\ DOMAIN balance' = Accounts
      /\ exact' => /\ exact /\ balance' \in [Accounts -> Int] /\ balance \in [Accounts -> Int]
                   /\ balance'[a] = loaded[t] - d /\ \A b \in Accounts : b # a => balance'[b] = balance[b]
  <2>1. exact => loaded[t] - d \in Int
    BY <1>2
  <2> QED
    BY <1>1, <1>2, <2>1, StoreIs
<1>5. BankTyped'
  BY <1>1, <1>2, <1>3, <1>4 DEF BankTyped
<1>6. T!Inside(t) /\ T!Inside(t)'
  BY <1>1, <1>3 DEF T!Inside
<1>7. ASSUME ~overlapped PROVE Moving(t)'
  <2>1. balance = [books EXCEPT ![teller[t].to] = T!Round(@ + d)]
    BY <1>1, <1>6, <1>7 DEF BankInv, Books, Moving, d
  <2>2. loaded[t] = balance[a] /\ (exact => T!Total = Money + d)
    BY <1>1, <1>6, <1>7 DEF BankInv, Books, Moving, a, d
  <2>3. balance' = books'
    <3>1. books' = [balance EXCEPT ![a] = T!Round(@ - d)]
      BY <1>1, <2>1, Zenon
    <3>2. balance' = [balance EXCEPT ![a] = T!Round(@ - d)]
      BY <1>1, <2>2 DEF T!Store
    <3> QED
      BY <3>1, <3>2, Zenon
  <2>4. exact' => T!Total' = Money + 0
    <3> SUFFICES ASSUME exact' PROVE T!Total' = Money + 0
      OBVIOUS
    <3>1. -d \in Int /\ balance'[a] = balance[a] + (-d)
      BY <1>2, <1>4, <2>2
    <3>2. T!Total' = T!Total + (-d)
      BY <1>2, <1>4, <3>1, TotalChanges
    <3> QED
      BY <1>2, <1>4, <2>2, <3>2, BankAssumption
  <2> QED
    BY <1>3, <2>3, <2>4 DEF Moving
<1> QED
  BY <1>1, <1>3, <1>5, <1>6, <1>7, AloneKeeps

(* Before its check and after its return a teller counts for nothing; at   *)
(* its check and at its end everything it has moved is moved.              *)
LEMMA LeavingKeeps ==
  ASSUME BankInv, NEW t \in Tellers, teller[t].at \notin {"to", "added", "from"},
         NEW place \in {"cancelled", "returned 0"}, teller' = [teller EXCEPT ![t].at = place],
         UNCHANGED <<balance, loaded, overlapped, exact, books>>
  PROVE  BankInv'
<1>1. place \in TellerPlaces
  BY DEF TellerPlaces
<1>2. /\ teller' \in [Tellers -> [at : TellerPlaces, from : Accounts, to : Accounts, dollars : Amounts]]
      /\ \A u \in Tellers : u # t => teller'[u] = teller[u]
      /\ teller'[t].at = place /\ UNCHANGED T!Total
  BY <1>1, MovesOn, TotalStays DEF BankInv
<1>3. BankTyped' /\ ~T!Inside(t)'
  BY <1>2 DEF BankInv, BankTyped, T!Inside
<1>4. CASE T!Inside(t)
  <2>1. ASSUME ~overlapped PROVE balance = books /\ (exact => T!Total = Money)
    <3>1. teller[t].at \in {"checked", "moved"} /\ Moving(t)
      BY <1>4, <2>1 DEF BankInv, Books, T!Inside
    <3>2. balance = books /\ (exact => T!Total = Money + 0)
      BY <3>1 DEF Moving
    <3> QED
      BY <3>2, NothingMoved
  <2> QED
    BY <1>2, <1>3, <1>4, <2>1, AloneKeeps
<1>5. CASE ~T!Inside(t)
  <2> SUFFICES ASSUME ~overlapped' PROVE Books'
    BY <1>3 DEF BankInv
  <2>1. Books
    BY DEF BankInv
  <2>2. \A u \in Tellers : T!Inside(u)' <=> T!Inside(u)
    BY <1>2, <1>3, <1>5 DEF T!Inside
  <2>3. \A u \in Tellers : T!Inside(u)' => (Moving(u)' <=> Moving(u))
    BY <1>2, <1>3 DEF Moving
  <2> QED
    BY <1>2, <2>1, <2>2, <2>3 DEF Books
<1> QED
  BY <1>4, <1>5

LEMMA BankSteps == BankInv /\ T!Next => BankInv'
<1> SUFFICES ASSUME BankInv, NEW t \in Tellers,
                    T!Check(t) \/ T!LoadTo(t) \/ T!AddTo(t) \/ T!LoadFrom(t) \/ T!TakeFrom(t) \/ T!Return(t) \/ T!Cancel(t)
             PROVE  BankInv'
  BY DEF T!Next
<1>1. CASE T!Return(t)
  BY <1>1, LeavingKeeps DEF T!Return, T!Goes
<1>2. CASE T!Cancel(t)
  BY <1>2, LeavingKeeps DEF T!Cancel
<1> QED
  BY <1>1, <1>2, CheckKeeps, LoadToKeeps, AddToKeeps, LoadFromKeeps, TakeFromKeeps

LEMMA BankStays == BankInv /\ UNCHANGED bankVars => BankInv'
<1> SUFFICES ASSUME BankInv, UNCHANGED bankVars PROVE BankInv'
  OBVIOUS
<1>1. UNCHANGED <<balance, teller, loaded, overlapped, exact, books>> /\ UNCHANGED T!Total
  BY TotalStays DEF bankVars
<1>2. \A t \in Tellers : (T!Inside(t)' <=> T!Inside(t)) /\ (Moving(t)' <=> Moving(t))
  BY <1>1 DEF Moving, T!Inside
<1> QED
  BY <1>1, <1>2 DEF BankInv, BankTyped, Books

LEMMA BankConserves == BankInv => T!MoneyConserved
BY DEF BankInv, Books, T!MoneyConserved

-------------------------------------------------------------------------------
(* The command lines.  What getopt_long has seen is the words before       *)
(* optind: what they set, which of them are arguments, and that none of    *)
(* them ends the options or the program.                                   *)
GivenBy(kind, p) == {i \in O!Given(kind) : i < p}
ArgumentsBy(p)   == {i \in O!Arguments : i < p}

SettingsBy(p) == [address |-> O!Latest(GivenBy("-a", p)), port |-> O!Latest(GivenBy("-p", p)) % PortRange,
                  dir |-> O!Latest(GivenBy("-m", p)), verbose |-> GivenBy("-v", p) # {},
                  output |-> O!Latest(GivenBy("-o", p))]

MovedBy(p) == /\ Len(moved) = Cardinality(ArgumentsBy(p))
              /\ \A i \in ArgumentsBy(p) : moved[O!Place(i)] = argv[i]

OptTyped == /\ tool \in {"server", "getopt_long"}
            /\ argv \in Seq(O!Words[tool]) /\ moved \in Seq(O!Words[tool])
            /\ optind \in 1..(Len(argv) + 1)
            /\ stage \in {"starts", "parses", "parsed", "ended"}

Followed(p) == /\ \A j \in 1..(p - 1) : argv[j].kind # "--" /\ ~O!Stops(j)
               /\ O!Given("--abbreviated") = {} => settings = SettingsBy(p)
               /\ MovedBy(p)

Seen == stage \in {"starts", "parses"} => \A p : p = optind => Followed(p)

AllSeen == stage = "parsed" =>
             /\ O!FirstStop = {}
             /\ O!Given("--abbreviated") = {} => settings = O!Settings
             /\ Len(moved) = Cardinality(O!Arguments)
             /\ \A i \in O!Arguments : moved[O!Place(i)] = argv[i]

OptInv == OptTyped /\ Seen /\ AllSeen /\ O!DoesAsTold

(* Arguments are places of the vector, and so are the options of a kind.   *)
LEMMA OptSets ==
  ASSUME OptTyped
  PROVE  /\ O!Arguments \subseteq 1..Len(argv) /\ Len(argv) \in Nat
         /\ \A kind : O!Given(kind) \subseteq 1..Len(argv)
         /\ IsFiniteSet(O!Arguments)
<1>1. Len(argv) \in Nat /\ DOMAIN argv = 1..Len(argv)
  BY DEF OptTyped
<1>2. O!Arguments \subseteq 1..Len(argv) /\ \A kind : O!Given(kind) \subseteq 1..Len(argv)
  BY <1>1 DEF O!Arguments, O!Given
<1>3. IsFiniteSet(1..Len(argv))
  BY <1>1, FS_Interval
<1> QED
  BY <1>1, <1>2, <1>3, FS_Subset

(* No line has been read as long as no word has. *)
LEMMA OptStarts == O!Init => OptInv
<1> SUFFICES ASSUME O!Init PROVE OptInv
  OBVIOUS
<1>1. /\ tool \in {"server", "getopt_long"} /\ optind = 1 /\ moved = <<>>
      /\ settings = O!Defaults /\ stage = "starts"
  BY DEF O!Init
<1>2. argv \in Seq(O!Words[tool])
  <2>1. PICK n \in 0..MaxWords : argv \in [1..n -> O!Words[tool]]
    BY DEF O!Init
  <2> QED
    BY <2>1
<1>3. OptTyped
  BY <1>1, <1>2 DEF OptTyped
<1>4. ArgumentsBy(1) = {} /\ \A kind : GivenBy(kind, 1) = {}
  BY <1>3, OptSets DEF ArgumentsBy, GivenBy
<1>5. MovedBy(optind)
  <2>1. Cardinality(ArgumentsBy(1)) = 0 /\ Len(moved) = 0
    BY <1>1, <1>4, FS_EmptySet
  <2> QED
    BY <1>1, <1>4, <2>1 DEF MovedBy
<1>6. settings = SettingsBy(optind)
  <2>1. \A kind : O!Latest(GivenBy(kind, 1)) = 0
    BY <1>4 DEF O!Latest
  <2>2. 0 % PortRange = 0
    BY PortAssumption
  <2> QED
    BY <1>1, <1>4, <2>1, <2>2 DEF SettingsBy, O!Defaults
<1>7. Seen
  BY <1>1, <1>5, <1>6 DEF Seen, Followed
<1> QED
  BY <1>1, <1>3, <1>7 DEF OptInv, AllSeen, O!DoesAsTold

(* A word before which nothing ends the options, and what it is.           *)
LEMMA OptWord ==
  ASSUME OptInv, stage = "parses", optind <= Len(argv)
  PROVE  /\ optind \in 1..Len(argv) /\ Len(argv) \in Nat
         /\ O!Before(optind)
         /\ \A kind : argv[optind].kind = kind /\ kind \notin {"argument", "--"}
              => optind \in O!Given(kind)
         /\ argv[optind].kind = "argument" => optind \in O!Arguments
         /\ \A j \in 1..(optind - 1) : ~O!Stops(j)
<1>1. optind \in 1..Len(argv) /\ Len(argv) \in Nat /\ DOMAIN argv = 1..Len(argv)
  BY DEF OptInv, OptTyped
<1>2. \A j \in 1..(optind - 1) : argv[j].kind # "--" /\ ~O!Stops(j)
  BY DEF OptInv, Seen, Followed
<1>3. O!Before(optind)
  BY <1>2 DEF O!Before
<1> QED
  BY <1>1, <1>2, <1>3 DEF O!Given, O!IsOption, O!Arguments, O!IsArgument

(* The word at optind adds itself to those of its kind, and to no others.  *)
LEMMA OneMoreWord ==
  ASSUME OptTyped, optind \in 1..Len(argv)
  PROVE  /\ \A kind : GivenBy(kind, optind + 1) =
              IF optind \in O!Given(kind) THEN GivenBy(kind, optind) \cup {optind}
                                          ELSE GivenBy(kind, optind)
         /\ ArgumentsBy(optind + 1) =
              IF optind \in O!Arguments THEN ArgumentsBy(optind) \cup {optind}
                                        ELSE ArgumentsBy(optind)
<1>1. \A R \in SUBSET (1..Len(argv)) :
        {i \in R : i < optind + 1} =
          IF optind \in R THEN {i \in R : i < optind} \cup {optind} ELSE {i \in R : i < optind}
  <2> SUFFICES ASSUME NEW R \in SUBSET (1..Len(argv))
               PROVE  {i \in R : i < optind + 1} =
                        IF optind \in R THEN {i \in R : i < optind} \cup {optind}
                                        ELSE {i \in R : i < optind}
    OBVIOUS
  <2>1. \A i \in R : i < optind + 1 <=> i < optind \/ i = optind
    BY DEF OptTyped
  <2> QED
    BY <2>1
<1> QED
  BY <1>1, OptSets DEF GivenBy, ArgumentsBy

(* The last of them is then the one at optind. *)
LEMMA LastIsNew ==
  ASSUME OptTyped, NEW kind, optind \in O!Given(kind), optind \in 1..Len(argv)
  PROVE  O!Latest(GivenBy(kind, optind + 1)) = argv[optind].value
<1>1. GivenBy(kind, optind + 1) = GivenBy(kind, optind) \cup {optind}
  BY OneMoreWord
<1>2. \A j \in GivenBy(kind, optind + 1) : j \in Nat /\ j <= optind
  BY OptSets DEF GivenBy
<1>3. optind \in GivenBy(kind, optind + 1) /\ optind \in Nat
  BY <1>1
<1> DEFINE last == CHOOSE i \in GivenBy(kind, optind + 1) :
                     \A j \in GivenBy(kind, optind + 1) : j <= i
<1>4. last \in GivenBy(kind, optind + 1) /\ \A j \in GivenBy(kind, optind + 1) : j <= last
  BY <1>2, <1>3
<1>5. last = optind
  BY <1>2, <1>3, <1>4
<1> QED
  BY <1>3, <1>5 DEF O!Latest

(* What is said of the words alone stays while they do. *)
LEMMA WordsStay ==
  ASSUME UNCHANGED argv
  PROVE  /\ \A kind : O!Given(kind)' = O!Given(kind)
         /\ O!Arguments' = O!Arguments /\ O!FirstStop' = O!FirstStop /\ O!Settings' = O!Settings
         /\ \A i : O!Stops(i)' = O!Stops(i) /\ O!Place(i)' = O!Place(i)
         /\ \A R : O!Latest(R)' = O!Latest(R)
         /\ \A kind, p : GivenBy(kind, p)' = GivenBy(kind, p)
         /\ \A p : ArgumentsBy(p)' = ArgumentsBy(p) /\ SettingsBy(p)' = SettingsBy(p)
<1>1. \A i : O!Before(i)' = O!Before(i)
  BY DEF O!Before
<1>2. \A i : O!IsOption(i)' = O!IsOption(i) /\ O!IsArgument(i)' = O!IsArgument(i)
  BY <1>1 DEF O!IsOption, O!IsArgument
<1>3. \A i : O!Stops(i)' = O!Stops(i)
  BY <1>2 DEF O!Stops
<1>4. \A kind : O!Given(kind)' = O!Given(kind)
  BY <1>2 DEF O!Given
<1>5. O!Arguments' = O!Arguments
  BY <1>2 DEF O!Arguments
<1>7. \A R : O!Latest(R)' = O!Latest(R)
  BY DEF O!Latest
<1>8. \A kind, p : GivenBy(kind, p)' = GivenBy(kind, p)
  BY <1>4 DEF GivenBy
<1>9. \A p : SettingsBy(p)' = SettingsBy(p)
  BY <1>7, <1>8 DEF SettingsBy
<1> QED
  BY <1>3, <1>4, <1>5, <1>7, <1>8, <1>9
  DEF O!FirstStop, O!Settings, O!Place, ArgumentsBy

(* An option that is obeyed: its setting is what it says from then on.     *)
LEMMA SettingsOn ==
  ASSUME OptTyped, NEW kind \in {"-a", "-p", "-m", "-v", "-o"},
         optind \in 1..Len(argv), optind \in O!Given(kind), argv[optind].kind = kind,
         NEW now, now = SettingsBy(optind)
  PROVE  /\ kind = "-a" => SettingsBy(optind + 1) = [now EXCEPT !["address"] = argv[optind].value]
         /\ kind = "-p" => SettingsBy(optind + 1) = [now EXCEPT !["port"] = argv[optind].value % PortRange]
         /\ kind = "-m" => SettingsBy(optind + 1) = [now EXCEPT !["dir"] = argv[optind].value]
         /\ kind = "-v" => SettingsBy(optind + 1) = [now EXCEPT !["verbose"] = TRUE]
         /\ kind = "-o" => SettingsBy(optind + 1) = [now EXCEPT !["output"] = argv[optind].value]
<1>1. \A other : other # kind => GivenBy(other, optind + 1) = GivenBy(other, optind)
  <2>1. \A other : optind \in O!Given(other) => other = kind
    BY DEF O!Given
  <2> QED
    BY <2>1, OneMoreWord
<1>2. O!Latest(GivenBy(kind, optind + 1)) = argv[optind].value
  BY LastIsNew
<1>3. GivenBy(kind, optind + 1) # {}
  BY OneMoreWord
<1>4. CASE kind = "-a"
  BY <1>1, <1>2, <1>4 DEF SettingsBy
<1>5. CASE kind = "-p"
  BY <1>1, <1>2, <1>5 DEF SettingsBy
<1>6. CASE kind = "-m"
  BY <1>1, <1>2, <1>6 DEF SettingsBy
<1>7. CASE kind = "-v"
  <2>1. (GivenBy("-v", optind + 1) # {}) = TRUE
    BY <1>3, <1>7
  <2>2. SettingsBy(optind + 1) =
          [address |-> O!Latest(GivenBy("-a", optind)), port |-> O!Latest(GivenBy("-p", optind)) % PortRange,
           dir |-> O!Latest(GivenBy("-m", optind)), verbose |-> TRUE,
           output |-> O!Latest(GivenBy("-o", optind))]
    BY <1>1, <1>7, <2>1, Zenon DEF SettingsBy
  <2>3. now = [address |-> O!Latest(GivenBy("-a", optind)), port |-> O!Latest(GivenBy("-p", optind)) % PortRange,
               dir |-> O!Latest(GivenBy("-m", optind)), verbose |-> GivenBy("-v", optind) # {},
               output |-> O!Latest(GivenBy("-o", optind))]
    BY DEF SettingsBy
  <2>4. SettingsBy(optind + 1) = [now EXCEPT !["verbose"] = TRUE]
    <3>1. PICK yes : yes = TRUE
      OBVIOUS
    <3>2. PICK verbose : verbose = (GivenBy("-v", optind) # {})
      OBVIOUS
    <3>3. now = [address |-> O!Latest(GivenBy("-a", optind)), port |-> O!Latest(GivenBy("-p", optind)) % PortRange,
                 dir |-> O!Latest(GivenBy("-m", optind)), verbose |-> verbose,
                 output |-> O!Latest(GivenBy("-o", optind))]
      BY <2>3, <3>2, Zenon
    <3>4. SettingsBy(optind + 1) =
            [address |-> O!Latest(GivenBy("-a", optind)), port |-> O!Latest(GivenBy("-p", optind)) % PortRange,
             dir |-> O!Latest(GivenBy("-m", optind)), verbose |-> yes,
             output |-> O!Latest(GivenBy("-o", optind))]
      BY <2>2, <3>1, Zenon
    <3>5. SettingsBy(optind + 1) = [now EXCEPT !["verbose"] = yes]
      BY <3>3, <3>4
    <3> QED
      BY <3>1, <3>5, Zenon
  <2> QED
    BY <1>7, <2>4
<1>8. CASE kind = "-o"
  BY <1>1, <1>2, <1>8 DEF SettingsBy
<1> QED
  BY <1>4, <1>5, <1>6, <1>7, <1>8

(* A step of getopt_long's over an option that ends nothing.               *)
LEMMA OptionPasses ==
  ASSUME OptInv, stage = "parses", optind <= Len(argv),
         argv[optind].kind \notin {"argument", "--", "-h", "?"} \cup O!Unusable,
         UNCHANGED <<tool, argv, moved, stage, outcome, echoed>>, optind' = optind + 1,
         O!Given("--abbreviated") = {} => settings' = SettingsBy(optind + 1)
  PROVE  OptInv'
<1>1. /\ optind \in 1..Len(argv) /\ Len(argv) \in Nat
      /\ \A j \in 1..(optind - 1) : argv[j].kind # "--" /\ ~O!Stops(j)
      /\ optind \notin O!Arguments
  BY OptWord DEF OptInv, Seen, Followed, O!Arguments, O!IsArgument
<1>2. OptTyped'
  BY <1>1 DEF OptInv, OptTyped
<1>3. ASSUME NEW p, p = optind' PROVE Followed(p)'
  <2>1. \A j \in 1..(p - 1) : argv'[j].kind # "--" /\ ~O!Stops(j)'
    <3>1. ~O!Stops(optind)
      BY DEF O!Stops
    <3>2. \A j \in 1..(p - 1) : j \in 1..(optind - 1) \/ j = optind
      BY <1>1, <1>3
    <3> QED
      BY <1>1, <3>1, <3>2, WordsStay
  <2>2. MovedBy(p)'
    <3>1. MovedBy(optind) /\ OptTyped
      BY DEF OptInv, Seen, Followed
    <3>2. ArgumentsBy(p) = ArgumentsBy(optind)
      BY <1>1, <1>3, <3>1, OneMoreWord
    <3> QED
      BY <3>1, <3>2, WordsStay DEF MovedBy
  <2>3. O!Given("--abbreviated")' = {} => settings' = SettingsBy(p)'
    BY <1>3, WordsStay
  <2> QED
    BY <2>1, <2>2, <2>3 DEF Followed
<1>4. Seen'
  BY <1>3 DEF Seen
<1> QED
  BY <1>2, <1>4 DEF OptInv, AllSeen, O!DoesAsTold

(* An option nobody can obey, or -h: it is the first of those.             *)
LEMMA OptionEnds ==
  ASSUME OptInv, stage = "parses", optind <= Len(argv), NEW code,
         argv[optind].kind \in {"-h", "?"} \cup O!Unusable \/ O!Given("--abbreviated") # {},
         code = IF argv[optind].kind = "-h" THEN "0" ELSE "1",
         UNCHANGED <<tool, argv, optind, moved, settings, echoed>>,
         stage' = "ended", outcome' = code
  PROVE  OptInv'
<1>1. OptTyped'
  BY DEF OptInv, OptTyped
<1>2. CASE O!Given("--abbreviated") # {}
  BY <1>1, <1>2, WordsStay DEF OptInv, Seen, AllSeen, O!DoesAsTold
<1>3. CASE argv[optind].kind \in {"-h", "?"} \cup O!Unusable
  <2>1. /\ optind \in 1..Len(argv) /\ Len(argv) \in Nat
        /\ \A j \in 1..(optind - 1) : ~O!Stops(j)
        /\ O!Stops(optind)
    <3>1. argv[optind].kind \notin {"argument", "--"}
      BY <1>3 DEF O!Unusable, O!UnusableDirs
    <3> QED
      BY <1>3, <3>1, OptWord DEF O!Stops, O!IsOption
  <2>2. optind \in O!FirstStop /\ \A i \in O!FirstStop : i = optind
    <3>1. DOMAIN argv = 1..Len(argv)
      BY DEF OptInv, OptTyped
    <3>2. \A i \in 1..Len(argv) : i < optind \/ i = optind \/ optind \in 1..(i - 1)
      BY <2>1
    <3> QED
      BY <2>1, <3>1, <3>2 DEF O!FirstStop
  <2>3. O!DoesAsTold'
    BY <2>2, WordsStay DEF O!DoesAsTold
  <2> QED
    BY <1>1, <2>3 DEF OptInv, Seen, AllSeen
<1> QED
  BY <1>2, <1>3

LEMMA SameSize == \A R : O!Cardinality(R) = Cardinality(R)
BY DEF O!Cardinality, Cardinality

(* An argument's place among the arguments is one of theirs.               *)
LEMMA PlaceBounds ==
  ASSUME OptTyped, NEW p \in Nat, NEW i \in ArgumentsBy(p)
  PROVE  /\ Cardinality(ArgumentsBy(p)) \in Nat
         /\ O!Place(i) \in 1..Cardinality(ArgumentsBy(p))
<1>1. /\ O!Arguments \subseteq 1..Len(argv) /\ Len(argv) \in Nat /\ IsFiniteSet(O!Arguments)
  BY OptSets
<1>2. i \in 1..Len(argv) /\ i \in O!Arguments
  BY <1>1 DEF ArgumentsBy
<1>3. PICK R : R = {j \in O!Arguments : j <= i}
  OBVIOUS
<1>4. IsFiniteSet(R) /\ IsFiniteSet(ArgumentsBy(p))
  BY <1>1, <1>3, FS_Subset DEF ArgumentsBy
<1>5. i \in R
  BY <1>2, <1>3
<1>6. R \subseteq ArgumentsBy(p)
  <2>1. i < p /\ \A j \in R : j \in O!Arguments /\ j \in Nat /\ j <= i
    BY <1>1, <1>3 DEF ArgumentsBy
  <2>2. \A j \in R : j < p
    BY <1>2, <2>1
  <2> QED
    BY <2>1, <2>2 DEF ArgumentsBy
<1>7. /\ Cardinality(R) <= Cardinality(ArgumentsBy(p)) /\ Cardinality(R) \in Nat
      /\ Cardinality(ArgumentsBy(p)) \in Nat /\ Cardinality(R) # 0
  BY <1>4, <1>5, <1>6, FS_Subset, FS_CardinalityType, FS_EmptySet
<1>8. O!Place(i) = Cardinality(R)
  BY <1>3, SameSize DEF O!Place
<1> QED
  BY <1>7, <1>8

LEMMA AppendOne ==
  ASSUME NEW A, NEW s \in Seq(A), NEW e \in A
  PROVE  /\ Append(s, e) \in Seq(A) /\ Len(Append(s, e)) = Len(s) + 1 /\ Len(s) \in Nat
         /\ \A k \in 1..Len(s) : Append(s, e)[k] = s[k]
         /\ Append(s, e)[Len(s) + 1] = e
OBVIOUS

(* An argument is put behind those before it.                              *)
LEMMA PassOverKeeps == OptInv /\ O!PassOver => OptInv'
<1> SUFFICES ASSUME OptInv, O!PassOver PROVE OptInv'
  OBVIOUS
<1>1. /\ stage = "parses" /\ optind <= Len(argv) /\ argv[optind].kind = "argument"
      /\ moved' = Append(moved, argv[optind]) /\ optind' = optind + 1
      /\ UNCHANGED <<tool, argv, settings, stage, outcome, echoed>>
  BY DEF O!PassOver, O!Option, O!Parsing
<1>2. /\ OptTyped /\ optind \in 1..Len(argv) /\ Len(argv) \in Nat /\ optind \in O!Arguments
      /\ argv[optind] \in O!Words[tool]
  BY <1>1, OptWord DEF OptInv, OptTyped
<1>3. /\ \A j \in 1..(optind - 1) : argv[j].kind # "--" /\ ~O!Stops(j)
      /\ O!Given("--abbreviated") = {} => settings = SettingsBy(optind)
      /\ Len(moved) = Cardinality(ArgumentsBy(optind))
      /\ \A i \in ArgumentsBy(optind) : moved[O!Place(i)] = argv[i]
  BY <1>1 DEF OptInv, Seen, Followed, MovedBy
<1>4. /\ moved' \in Seq(O!Words[tool]) /\ Len(moved') = Len(moved) + 1 /\ Len(moved) \in Nat
      /\ \A k \in 1..Len(moved) : moved'[k] = moved[k]
      /\ moved'[Len(moved) + 1] = argv[optind]
  <2>1. moved \in Seq(O!Words[tool]) /\ argv[optind] \in O!Words[tool]
    BY <1>2 DEF OptTyped
  <2>2. \A A, e : moved \in Seq(A) /\ e \in A =>
          /\ Append(moved, e) \in Seq(A) /\ Len(Append(moved, e)) = Len(moved) + 1 /\ Len(moved) \in Nat
          /\ \A k \in 1..Len(moved) : Append(moved, e)[k] = moved[k]
          /\ Append(moved, e)[Len(moved) + 1] = e
    BY AppendOne
  <2> QED
    BY <1>1, <2>1, <2>2, Zenon
<1>5. OptTyped'
  BY <1>1, <1>2, <1>4 DEF OptTyped
<1>6. ASSUME NEW p, p = optind' PROVE Followed(p)'
  <2>1. p = optind + 1 /\ p \in Nat
    BY <1>1, <1>2, <1>6
  <2>2. \A j \in 1..(p - 1) : argv'[j].kind # "--" /\ ~O!Stops(j)'
    <3>1. ~O!Stops(optind)
      BY <1>1 DEF O!Stops, O!IsOption
    <3>2. \A j \in 1..(p - 1) : j \in 1..(optind - 1) \/ j = optind
      BY <1>2, <2>1
    <3> QED
      BY <1>1, <1>3, <3>1, <3>2, WordsStay
  <2>3. SettingsBy(p)' = SettingsBy(optind)
    <3>1. \A kind : optind \notin O!Given(kind)
      BY <1>1 DEF O!Given, O!IsOption
    <3>2. \A kind : GivenBy(kind, p) = GivenBy(kind, optind)
      BY <1>2, <2>1, <3>1, OneMoreWord
    <3>3. SettingsBy(p) = SettingsBy(optind)
      BY <3>2 DEF SettingsBy
    <3> QED
      BY <1>1, <3>3, WordsStay
  <2>4. ArgumentsBy(p) = ArgumentsBy(optind) \cup {optind}
    BY <1>2, <2>1, OneMoreWord
  <2>5. Cardinality(ArgumentsBy(p)) = Len(moved) + 1
    <3>1. IsFiniteSet(ArgumentsBy(optind))
      BY <1>2, OptSets, FS_Subset DEF ArgumentsBy
    <3>2. optind \notin ArgumentsBy(optind)
      BY <1>2 DEF ArgumentsBy
    <3>3. Cardinality(ArgumentsBy(optind) \cup {optind}) = Cardinality(ArgumentsBy(optind)) + 1
      BY <3>1, <3>2, FS_AddElement
    <3> QED
      BY <1>3, <2>4, <3>3
  <2>6. O!Place(optind) = Len(moved) + 1
    <3>1. {j \in O!Arguments : j <= optind} = ArgumentsBy(p)
      <4>1. O!Arguments \subseteq Nat /\ optind \in Nat
        BY <1>2, OptSets
      <4>2. ASSUME NEW j \in O!Arguments PROVE j <= optind <=> j < p
        BY <4>1, <2>1
      <4> QED
        BY <4>2, Zenon DEF ArgumentsBy
    <3>2. O!Place(optind) = Cardinality(ArgumentsBy(p))
      BY <3>1, SameSize DEF O!Place
    <3> QED
      BY <2>5, <3>2
  <2>7. \A i \in ArgumentsBy(p) : moved'[O!Place(i)] = argv[i]
    <3>1. \A i \in ArgumentsBy(optind) : O!Place(i) \in 1..Len(moved)
      BY <1>2, <1>3, PlaceBounds
    <3> QED
      BY <1>3, <1>4, <2>4, <2>6, <3>1
  <2>8. MovedBy(p)'
    BY <1>1, <1>4, <2>5, <2>7, WordsStay DEF MovedBy
  <2> QED
    BY <1>1, <1>3, <2>2, <2>3, <2>8, WordsStay DEF Followed
<1>7. Seen'
  BY <1>6 DEF Seen
<1> QED
  BY <1>1, <1>5, <1>7 DEF OptInv, AllSeen, O!DoesAsTold

LEMMA TailAfter ==
  ASSUME NEW A, NEW s \in Seq(A), NEW n \in 1..Len(s)
  PROVE  /\ SubSeq(s, n + 1, Len(s)) \in Seq(A)
         /\ Len(SubSeq(s, n + 1, Len(s))) = Len(s) - n
         /\ \A k \in 1..(Len(s) - n) : SubSeq(s, n + 1, Len(s))[k] = s[n + k]
OBVIOUS

LEMMA Behind ==
  ASSUME NEW n \in Nat, NEW m \in 1..n, NEW i \in (m + 1)..n
  PROVE  i - m \in 1..(n - m) /\ m + (i - m) = i
OBVIOUS

LEMMA TwoParts ==
  ASSUME NEW A, NEW s \in Seq(A), NEW r \in Seq(A)
  PROVE  /\ s \o r \in Seq(A) /\ Len(s \o r) = Len(s) + Len(r)
         /\ \A k \in 1..Len(s) : (s \o r)[k] = s[k]
         /\ \A k \in 1..Len(r) : (s \o r)[Len(s) + k] = r[k]
BY ConcatProperties

(* Once no option is left, what was set is what the whole line sets.       *)
LEMMA AllSet ==
  ASSUME OptTyped, \A kind : \A i \in O!Given(kind) : i < optind
  PROVE  SettingsBy(optind) = O!Settings
<1>1. \A kind : GivenBy(kind, optind) = O!Given(kind)
  BY DEF GivenBy
<1> QED
  BY <1>1, Zenon DEF SettingsBy, O!Settings

(* The words behind "--" are arguments, each in the next place.            *)
LEMMA PlacesBehind ==
  ASSUME OptTyped, optind \in 1..Len(argv), O!Before(optind), argv[optind].kind = "--"
  PROVE  /\ Cardinality(ArgumentsBy(optind)) \in Nat
         /\ Cardinality(O!Arguments) = Cardinality(ArgumentsBy(optind)) + (Len(argv) - optind)
         /\ \A i \in O!Arguments \ ArgumentsBy(optind) :
              /\ i \in (optind + 1)..Len(argv)
              /\ O!Place(i) = Cardinality(ArgumentsBy(optind)) + (i - optind)
         /\ \A kind : \A i \in O!Given(kind) : i < optind
         /\ \A i \in 1..Len(argv) : i > optind => ~O!IsOption(i)
<1>1. /\ O!Arguments \subseteq 1..Len(argv) /\ Len(argv) \in Nat /\ IsFiniteSet(O!Arguments)
      /\ DOMAIN argv = 1..Len(argv)
  BY OptSets DEF OptTyped
<1>2. \A i \in 1..Len(argv) : i > optind => ~O!Before(i)
  <2>1. \A i \in 1..Len(argv) : i > optind => optind \in 1..(i - 1)
    BY <1>1
  <2> QED
    BY <2>1 DEF O!Before
<1>3. optind \notin O!Arguments /\ \A kind : optind \notin O!Given(kind)
  BY DEF O!Arguments, O!IsArgument, O!Given, O!IsOption
<1>4. \A kind : \A i \in O!Given(kind) : i < optind
  <2>1. \A kind : \A i \in O!Given(kind) : i \in 1..Len(argv) /\ O!Before(i)
    BY <1>1 DEF O!Given, O!IsOption
  <2>2. \A kind : \A i \in O!Given(kind) : i # optind
    BY <1>3
  <2> QED
    BY <1>1, <1>2, <2>1, <2>2
<1>5. \A i \in 1..Len(argv) : i > optind => i \in O!Arguments /\ ~O!IsOption(i)
  BY <1>1, <1>2 DEF O!Arguments, O!IsArgument, O!IsOption
<1>6. ASSUME NEW n \in optind..Len(argv)
      PROVE  /\ {j \in O!Arguments : j <= n} = ArgumentsBy(optind) \cup ((optind + 1)..n)
             /\ Cardinality(ArgumentsBy(optind)) \in Nat
             /\ Cardinality({j \in O!Arguments : j <= n}) =
                  Cardinality(ArgumentsBy(optind)) + (n - optind)
  <2>1. \A j : j \in O!Arguments /\ j <= n <=> j \in ArgumentsBy(optind) \/ j \in (optind + 1)..n
    <3>1. \A j \in O!Arguments : j <= n => j < optind \/ j \in (optind + 1)..n
      BY <1>1, <1>3
    <3>2. \A j \in O!Arguments : j < optind => j <= n
      BY <1>1
    <3>3. \A j \in (optind + 1)..n : j \in 1..Len(argv) /\ j > optind /\ j <= n
      BY <1>1
    <3> QED
      BY <1>5, <3>1, <3>2, <3>3 DEF ArgumentsBy
  <2>2. {j \in O!Arguments : j <= n} = ArgumentsBy(optind) \cup ((optind + 1)..n)
    BY <2>1
  <2>3. IsFiniteSet(ArgumentsBy(optind))
    BY <1>1, FS_Subset DEF ArgumentsBy
  <2>4. /\ IsFiniteSet((optind + 1)..n)
        /\ Cardinality((optind + 1)..n) = n - optind
    <3>1. optind + 1 \in Int /\ n \in Int /\ optind \in Int /\ n >= optind
      BY <1>1
    <3>2. /\ IsFiniteSet((optind + 1)..n)
          /\ Cardinality((optind + 1)..n) = IF optind + 1 > n THEN 0 ELSE n - (optind + 1) + 1
      BY <3>1, FS_Interval
    <3> QED
      BY <3>1, <3>2
  <2>5. ArgumentsBy(optind) \cap ((optind + 1)..n) = {}
    BY <1>1 DEF ArgumentsBy
  <2>6. /\ Cardinality(ArgumentsBy(optind)) \in Nat
        /\ Cardinality(ArgumentsBy(optind) \cup ((optind + 1)..n)) =
             Cardinality(ArgumentsBy(optind)) + Cardinality((optind + 1)..n)
    <3>1. Cardinality(ArgumentsBy(optind) \cup ((optind + 1)..n)) =
            Cardinality(ArgumentsBy(optind)) + Cardinality((optind + 1)..n) - Cardinality({})
      BY <2>3, <2>4, <2>5, FS_Union
    <3> QED
      BY <2>3, <2>4, <3>1, FS_EmptySet, FS_CardinalityType
  <2> QED
    BY <2>2, <2>4, <2>6
<1>7. Cardinality(O!Arguments) = Cardinality(ArgumentsBy(optind)) + (Len(argv) - optind)
  <2>1. {j \in O!Arguments : j <= Len(argv)} = O!Arguments
    <3>1. \A j \in O!Arguments : j <= Len(argv)
      BY <1>1
    <3> QED
      BY <3>1
  <2>2. Len(argv) \in optind..Len(argv)
    BY <1>1
  <2> QED
    BY <1>6, <2>1, <2>2
<1>8. ASSUME NEW i \in O!Arguments \ ArgumentsBy(optind)
      PROVE  /\ i \in (optind + 1)..Len(argv)
             /\ O!Place(i) = Cardinality(ArgumentsBy(optind)) + (i - optind)
  <2>1. i \in (optind + 1)..Len(argv) /\ i \in optind..Len(argv)
    BY <1>1, <1>3 DEF ArgumentsBy
  <2>2. O!Place(i) = Cardinality({j \in O!Arguments : j <= i})
    BY SameSize DEF O!Place
  <2> QED
    BY <1>6, <2>1, <2>2
<1>9. Cardinality(ArgumentsBy(optind)) \in Nat
  <2>1. Len(argv) \in optind..Len(argv)
    BY <1>1
  <2> QED
    BY <1>6, <2>1
<1> QED
  BY <1>4, <1>5, <1>7, <1>8, <1>9

(* The end of the options, at "--" or with the last word.                  *)
LEMMA DoneKeeps == OptInv /\ O!Done => OptInv'
<1> SUFFICES ASSUME OptInv, O!Done PROVE OptInv'
  OBVIOUS
<1>1. /\ stage = "parses" /\ stage' = "parsed"
      /\ UNCHANGED <<tool, argv, optind, settings, outcome, echoed>>
      /\ OptTyped /\ Len(argv) \in Nat /\ DOMAIN argv = 1..Len(argv)
  BY DEF O!Done, O!Option, O!Parsing, OptInv, OptTyped
<1>2. /\ \A j \in 1..(optind - 1) : argv[j].kind # "--" /\ ~O!Stops(j)
      /\ O!Given("--abbreviated") = {} => settings = SettingsBy(optind)
      /\ Len(moved) = Cardinality(ArgumentsBy(optind))
      /\ \A i \in ArgumentsBy(optind) : moved[O!Place(i)] = argv[i]
  BY <1>1 DEF OptInv, Seen, Followed, MovedBy
<1>3. ASSUME /\ moved' \in Seq(O!Words[tool])
             /\ \A j \in 1..Len(argv) : ~O!Stops(j)
             /\ \A kind : \A i \in O!Given(kind) : i < optind
             /\ Len(moved') = Cardinality(O!Arguments)
             /\ \A i \in O!Arguments : moved'[O!Place(i)] = argv[i]
      PROVE  OptInv'
  <2>1. OptTyped'
    BY <1>1, <1>3 DEF OptTyped
  <2>2. O!FirstStop' = {}
    BY <1>1, <1>3, WordsStay DEF O!FirstStop
  <2>3. O!Given("--abbreviated")' = {} => settings' = O!Settings'
    BY <1>1, <1>2, <1>3, AllSet, WordsStay
  <2>4. AllSeen'
    BY <1>1, <1>3, <2>2, <2>3, WordsStay DEF AllSeen
  <2> QED
    BY <1>1, <2>1, <2>4 DEF OptInv, Seen, O!DoesAsTold
<1>4. CASE optind > Len(argv) /\ moved' = moved
  <2>1. optind = Len(argv) + 1
    BY <1>1, <1>4 DEF OptTyped
  <2>2. \A i \in 1..Len(argv) : i < optind /\ i \in 1..(optind - 1)
    BY <1>1, <2>1
  <2>3. ArgumentsBy(optind) = O!Arguments /\ \A kind : \A i \in O!Given(kind) : i < optind
    BY <1>1, <2>2, OptSets DEF ArgumentsBy
  <2>4. moved' \in Seq(O!Words[tool])
    BY <1>1, <1>4 DEF OptTyped
  <2> QED
    BY <1>2, <1>3, <1>4, <2>2, <2>3, <2>4
<1>5. CASE O!Option("--") /\ moved' = moved \o SubSeq(argv, optind + 1, Len(argv))
  <2>1. /\ argv[optind].kind = "--" /\ optind \in 1..Len(argv) /\ O!Before(optind)
    BY <1>1, <1>5, OptWord DEF O!Option, O!Parsing
  <2>2. PICK rest : rest = SubSeq(argv, optind + 1, Len(argv))
    OBVIOUS
  <2>3. /\ argv \in Seq(O!Words[tool]) /\ moved \in Seq(O!Words[tool])
    BY <1>1 DEF OptTyped
  <2>4. /\ rest \in Seq(O!Words[tool]) /\ Len(rest) = Len(argv) - optind
        /\ \A k \in 1..(Len(argv) - optind) : rest[k] = argv[optind + k]
    <3>1. \A A : argv \in Seq(A) =>
            /\ SubSeq(argv, optind + 1, Len(argv)) \in Seq(A)
            /\ Len(SubSeq(argv, optind + 1, Len(argv))) = Len(argv) - optind
            /\ \A k \in 1..(Len(argv) - optind) :
                  SubSeq(argv, optind + 1, Len(argv))[k] = argv[optind + k]
      BY <2>1, TailAfter
    <3> QED
      BY <2>2, <2>3, <3>1, Zenon
  <2>5. /\ moved' \in Seq(O!Words[tool]) /\ Len(moved') = Len(moved) + Len(rest)
        /\ \A k \in 1..Len(moved) : moved'[k] = moved[k]
        /\ \A k \in 1..Len(rest) : moved'[Len(moved) + k] = rest[k]
    <3>1. \A A : moved \in Seq(A) /\ rest \in Seq(A) =>
            /\ moved \o rest \in Seq(A) /\ Len(moved \o rest) = Len(moved) + Len(rest)
            /\ \A k \in 1..Len(moved) : (moved \o rest)[k] = moved[k]
            /\ \A k \in 1..Len(rest) : (moved \o rest)[Len(moved) + k] = rest[k]
      BY TwoParts
    <3>2. moved' = moved \o rest
      BY <1>5, <2>2
    <3> QED
      BY <2>3, <2>4, <3>1, <3>2, Zenon
  <2>6. \A j \in 1..Len(argv) : ~O!Stops(j)
    <3>1. ~O!Stops(optind)
      BY <2>1 DEF O!Stops, O!IsOption
    <3>2. \A j \in 1..Len(argv) : j \in 1..(optind - 1) \/ j = optind \/ j > optind
      BY <1>1, <2>1
    <3>3. \A j \in 1..Len(argv) : j > optind => ~O!Stops(j)
      BY <1>1, <2>1, PlacesBehind DEF O!Stops
    <3> QED
      BY <1>2, <3>1, <3>2, <3>3
  <2>7. Len(moved') = Cardinality(O!Arguments)
    BY <1>1, <1>2, <2>1, <2>4, <2>5, PlacesBehind
  <2>8. \A i \in O!Arguments : moved'[O!Place(i)] = argv[i]
    <3> SUFFICES ASSUME NEW i \in O!Arguments PROVE moved'[O!Place(i)] = argv[i]
      OBVIOUS
    <3>1. CASE i \in ArgumentsBy(optind)
      <4>1. O!Place(i) \in 1..Len(moved)
        BY <1>1, <1>2, <2>1, <3>1, PlaceBounds
      <4> QED
        BY <1>2, <2>5, <3>1, <4>1
    <3>2. CASE i \notin ArgumentsBy(optind)
      <4>1. i \in (optind + 1)..Len(argv) /\ O!Place(i) = Len(moved) + (i - optind)
        BY <1>1, <1>2, <2>1, <3>2, PlacesBehind
      <4>2. i - optind \in 1..Len(rest) /\ optind + (i - optind) = i /\ i - optind \in 1..(Len(argv) - optind)
        BY <1>1, <2>1, <2>4, <4>1, Behind
      <4>3. moved'[Len(moved) + (i - optind)] = rest[i - optind]
        BY <2>5, <4>2
      <4>4. rest[i - optind] = argv[optind + (i - optind)]
        BY <2>4, <4>2
      <4> QED
        BY <4>1, <4>2, <4>3, <4>4
    <3> QED
      BY <3>1, <3>2
  <2> QED
    BY <1>1, <1>3, <2>1, <2>5, <2>6, <2>7, <2>8, PlacesBehind
<1> QED
  BY <1>4, <1>5 DEF O!Done

(* The steps of getopt_long's that end or obey an option.                  *)
LEMMA OptionKeeps ==
  OptInv /\ (O!Address \/ O!Help \/ O!ModuleDir \/ O!Port \/ O!Output \/ O!Verbose \/ O!Unrecognized
               \/ O!PastTheTable)
    => OptInv'
<1> SUFFICES ASSUME OptInv,
                    O!Address \/ O!Help \/ O!ModuleDir \/ O!Port \/ O!Output \/ O!Verbose
                      \/ O!Unrecognized \/ O!PastTheTable
             PROVE  OptInv'
  OBVIOUS
<1>1. /\ stage = "parses" /\ optind <= Len(argv) /\ OptTyped
      /\ UNCHANGED <<tool, argv, moved, echoed>>
  BY DEF O!Address, O!Help, O!ModuleDir, O!Port, O!Output, O!Verbose, O!Unrecognized, O!PastTheTable,
         O!Option, O!Parsing, O!Set, O!Exits, OptInv
<1>2. optind \in 1..Len(argv) /\ \A kind : argv[optind].kind = kind /\ kind \notin {"argument", "--"}
                                            => optind \in O!Given(kind)
  BY <1>1, OptWord
<1>3. O!Given("--abbreviated") = {} => settings = SettingsBy(optind)
  BY <1>1 DEF OptInv, Seen, Followed
<1>4. \A field, word : O!Set(field, word) =>
        /\ settings' = [settings EXCEPT ![field] = word]
        /\ optind' = optind + 1 /\ UNCHANGED <<tool, argv, moved, stage, outcome, echoed>>
  BY DEF O!Set
<1>5. \A code : O!Exits(code) =>
        /\ stage' = "ended" /\ outcome' = code
        /\ UNCHANGED <<tool, argv, optind, moved, settings, echoed>>
  BY DEF O!Exits
<1>6. ASSUME NEW kind \in {"-a", "-p", "-m", "-v", "-o"}, argv[optind].kind = kind,
             NEW field, NEW word, O!Set(field, word),
             settings = SettingsBy(optind) =>
               SettingsBy(optind + 1) = [settings EXCEPT ![field] = word]
      PROVE  OptInv'
  <2>1. argv[optind].kind \notin {"argument", "--", "-h", "?"} \cup O!Unusable
    BY <1>6 DEF O!Unusable, O!UnusableDirs
  <2>2. O!Given("--abbreviated") = {} => settings' = SettingsBy(optind + 1)
    BY <1>3, <1>4, <1>6
  <2> QED
    BY <1>1, <1>4, <1>6, <2>1, <2>2, OptionPasses
<1>7. ASSUME NEW kind, argv[optind].kind = kind, kind \in {"-h", "?"} \cup O!Unusable,
             O!Exits(IF kind = "-h" THEN "0" ELSE "1")
      PROVE  OptInv'
  BY <1>1, <1>5, <1>7, OptionEnds
<1>8. CASE O!Address
  <2>1. CASE O!Option("-a") /\ O!Set("address", O!Optarg)
    BY <1>1, <1>2, <1>6, <2>1, SettingsOn DEF O!Option, O!Optarg
  <2>2. CASE O!Option("-a_unknown") /\ O!Exits("1")
    BY <1>7, <2>2 DEF O!Option, O!Unusable
  <2> QED
    BY <1>8, <2>1, <2>2 DEF O!Address
<1>9. CASE O!Port
  <2>1. CASE O!Option("-p") /\ O!Set("port", O!Optarg % PortRange)
    BY <1>1, <1>2, <1>6, <2>1, SettingsOn DEF O!Option, O!Optarg
  <2>2. CASE O!Option("-p_junk") /\ O!Exits("1")
    BY <1>7, <2>2 DEF O!Option, O!Unusable
  <2> QED
    BY <1>9, <2>1, <2>2 DEF O!Port
<1>10. CASE O!ModuleDir
  <2>1. CASE O!Option("-m") /\ O!Set("dir", O!Optarg)
    BY <1>1, <1>2, <1>6, <2>1, SettingsOn DEF O!Option, O!Optarg
  <2>2. CASE (\E kind \in O!UnusableDirs : O!Option(kind)) /\ O!Exits("1")
    BY <1>7, <2>2 DEF O!Option, O!Unusable, O!UnusableDirs
  <2> QED
    BY <1>10, <2>1, <2>2 DEF O!ModuleDir
<1>11. CASE O!Output
  BY <1>1, <1>2, <1>6, <1>11, SettingsOn DEF O!Output, O!Option, O!Optarg
<1>12. CASE O!Verbose
  BY <1>1, <1>2, <1>6, <1>12, SettingsOn DEF O!Verbose, O!Option
<1>13. CASE O!Help
  BY <1>7, <1>13 DEF O!Help, O!Option
<1>14. CASE O!Unrecognized
  BY <1>7, <1>14 DEF O!Unrecognized, O!Option
<1>15. CASE O!PastTheTable
  <2>1. argv[optind].kind = "--abbreviated" /\ O!Given("--abbreviated") # {}
    BY <1>2, <1>15 DEF O!PastTheTable, O!Option
  <2>2. CASE O!Set("verbose", TRUE)
    <3>1. argv[optind].kind \notin {"argument", "--", "-h", "?"} \cup O!Unusable
      BY <2>1 DEF O!Unusable, O!UnusableDirs
    <3> QED
      BY <1>1, <1>4, <2>1, <2>2, <3>1, OptionPasses
  <2>3. ASSUME NEW code \in {"1", "crashed"}, O!Exits(code) PROVE OptInv'
    <3>1. OptTyped'
      BY <1>1, <1>5, <2>3 DEF OptTyped
    <3> QED
      BY <1>5, <2>1, <2>3, <3>1, WordsStay DEF OptInv, Seen, AllSeen, O!DoesAsTold
  <2> QED
    BY <1>15, <2>2, <2>3 DEF O!PastTheTable
<1> QED
  BY <1>8, <1>9, <1>10, <1>11, <1>12, <1>13, <1>14, <1>15

(* What begins and ends the program; the end is where it did as told.      *)
LEMMA EndsKeep ==
  OptInv /\ (O!GetSelfExecutableDirectory \/ O!Starts \/ O!ServerRun \/ O!PrintArguments) => OptInv'
<1> SUFFICES ASSUME OptInv,
                    O!GetSelfExecutableDirectory \/ O!Starts \/ O!ServerRun \/ O!PrintArguments
             PROVE  OptInv'
  OBVIOUS
<1>1. /\ UNCHANGED <<tool, argv, optind, moved, settings>>
      /\ stage' \in {"parses", "ended"}
      /\ OptTyped
  BY DEF O!GetSelfExecutableDirectory, O!Starts, O!ServerRun, O!PrintArguments, O!Exits, OptInv
<1>2. OptTyped'
  BY <1>1 DEF OptTyped
<1>3. CASE O!Starts \/ (O!GetSelfExecutableDirectory /\ stage' = "parses")
  <2>1. stage = "starts" /\ stage' = "parses"
    BY <1>3 DEF O!Starts, O!GetSelfExecutableDirectory
  <2>2. ASSUME NEW p, p = optind' PROVE Followed(p)'
    <3>1. Followed(p)
      BY <1>1, <2>1, <2>2 DEF OptInv, Seen
    <3> QED
      BY <1>1, <3>1, WordsStay DEF Followed, MovedBy
  <2> QED
    BY <1>2, <2>1, <2>2 DEF OptInv, Seen, AllSeen, O!DoesAsTold
<1>4. CASE O!GetSelfExecutableDirectory /\ stage' = "ended"
  <2>1. outcome' = "aborted"
    BY <1>4 DEF O!GetSelfExecutableDirectory, O!Exits
  <2> QED
    BY <1>2, <1>4, <2>1 DEF OptInv, Seen, AllSeen, O!DoesAsTold
<1>5. ASSUME stage = "parsed", stage' = "ended", O!DoesAsTold' PROVE OptInv'
  BY <1>2, <1>5 DEF OptInv, Seen, AllSeen
<1>6. ASSUME stage = "parsed"
      PROVE  /\ O!FirstStop' = {} /\ Len(moved) = Cardinality(O!Arguments)
             /\ O!Given("--abbreviated")' = {} => settings' = O!Settings'
             /\ \A i \in O!Arguments : moved[O!Place(i)] = argv[i] /\ O!Place(i) \in 1..Len(moved)
             /\ Len(moved) \in Nat
  <2>1. Len(argv) + 1 \in Nat /\ O!Arguments = ArgumentsBy(Len(argv) + 1)
    <3>1. /\ Len(argv) \in Nat /\ O!Arguments \subseteq 1..Len(argv)
          /\ \A i \in 1..Len(argv) : i < Len(argv) + 1
      BY <1>1, OptSets
    <3>2. {i \in O!Arguments : i < Len(argv) + 1} = O!Arguments
      BY <3>1, Zenon
    <3> QED
      BY <3>1, <3>2 DEF ArgumentsBy
  <2>2. \A i \in O!Arguments : O!Place(i) \in 1..Cardinality(O!Arguments)
    BY <1>1, <2>1, PlaceBounds
  <2>3. Len(moved) \in Nat
    BY <1>1 DEF OptTyped
  <2> QED
    BY <1>1, <1>6, <2>2, <2>3, WordsStay DEF OptInv, AllSeen
<1>7. CASE O!ServerRun
  <2>1. /\ stage = "parsed" /\ stage' = "ended" /\ tool = "server"
        /\ outcome' = IF moved # <<>> THEN "1" ELSE "serves"
    BY <1>7 DEF O!ServerRun, O!Exits
  <2>2. moved = <<>> <=> O!Arguments = {}
    <3>1. moved = <<>> <=> Len(moved) = 0
      BY <1>1, EmptySeq DEF OptTyped
    <3>2. O!Arguments = {} => Cardinality(O!Arguments) = 0
      BY FS_EmptySet
    <3>3. Len(moved) = 0 => \A i \in O!Arguments : FALSE
      BY <1>6, <2>1
    <3> QED
      BY <1>6, <2>1, <3>1, <3>2, <3>3
  <2>3. O!DoesAsTold'
    BY <1>1, <1>6, <2>1, <2>2, WordsStay DEF O!DoesAsTold
  <2> QED
    BY <1>5, <2>1, <2>3
<1>8. CASE O!PrintArguments
  <2>1. /\ stage = "parsed" /\ stage' = "ended" /\ tool = "getopt_long" /\ outcome' = "0"
        /\ echoed' = IF settings.verbose THEN [i \in DOMAIN moved |-> moved[i].value] ELSE <<>>
    BY <1>8 DEF O!PrintArguments
  <2>2. DOMAIN moved = 1..Len(moved)
    BY <1>1 DEF OptTyped
  <2>3. CASE O!Given("--abbreviated")' # {}
    BY <1>5, <2>1, <2>3 DEF O!DoesAsTold
  <2>4. CASE O!Given("--abbreviated")' = {} /\ settings.verbose
    <3>1. Len(echoed') = Cardinality(O!Arguments)
      BY <1>6, <2>1, <2>2, <2>4
    <3>2. \A i \in O!Arguments : echoed'[O!Place(i)] = argv[i].value
      BY <1>6, <2>1, <2>2, <2>4
    <3>3. O!DoesAsTold'
      BY <1>1, <1>6, <2>1, <2>4, <3>1, <3>2, SameSize, WordsStay DEF O!DoesAsTold
    <3> QED
      BY <1>5, <2>1, <3>3
  <2>5. CASE O!Given("--abbreviated")' = {} /\ ~settings.verbose
    <3>1. Len(echoed') = 0
      BY <2>1, <2>5
    <3>2. O!DoesAsTold'
      BY <1>1, <1>6, <2>1, <2>5, <3>1, WordsStay DEF O!DoesAsTold
    <3> QED
      BY <1>5, <2>1, <3>2
  <2> QED
    BY <2>3, <2>4, <2>5
<1> QED
  BY <1>1, <1>3, <1>4, <1>7, <1>8 DEF O!GetSelfExecutableDirectory

LEMMA OptSteps == OptInv /\ O!Next => OptInv'
BY PassOverKeeps, DoneKeeps, OptionKeeps, EndsKeep DEF O!Next

LEMMA OptStays == OptInv /\ UNCHANGED optVars => OptInv'
<1> SUFFICES ASSUME OptInv, UNCHANGED optVars PROVE OptInv'
  OBVIOUS
<1>1. UNCHANGED <<tool, argv, optind, moved, settings, stage, outcome, echoed>>
  BY DEF optVars
<1>2. OptTyped'
  BY <1>1 DEF OptInv, OptTyped
<1>3. ASSUME NEW p, p = optind', stage' \in {"starts", "parses"} PROVE Followed(p)'
  <2>1. Followed(p)
    BY <1>1, <1>3 DEF OptInv, Seen
  <2> QED
    BY <1>1, <2>1, WordsStay DEF Followed, MovedBy
<1>4. Seen'
  BY <1>3 DEF Seen
<1>5. AllSeen'
  BY <1>1, WordsStay DEF OptInv, AllSeen
<1>6. O!DoesAsTold'
  BY <1>1, WordsStay DEF OptInv, O!DoesAsTold
<1> QED
  BY <1>2, <1>4, <1>5, <1>6 DEF OptInv

-------------------------------------------------------------------------------
(* The calculator.  The numbers' functions compute what their names say:   *)
(* the round that a least counterexample would be follows the one before.  *)
ProductStep(n1, n2, g, k) ==
  IF k = 0 THEN C!Number(0)
  ELSE LET sum == C!Add(g[k - 1].n, n2)
       IN  [n |-> sum.n, cells |-> sum.cells + g[k - 1].cells - g[k - 1].n]

Rounds(n1, n2) == CHOOSE g : g = [k \in 0..n1 |-> ProductStep(n1, n2, g, k)]

LEMMA ProductRounds == ASSUME NEW n1, NEW n2 PROVE C!Product(n1, n2) = Rounds(n1, n2)[n1]
BY DEF C!Product, Rounds, ProductStep

LEMMA Times == ASSUME NEW m \in Nat, NEW n \in Nat PROVE m * n \in Nat /\ (m + 1) * n = m * n + n
OBVIOUS

LEMMA ProductStepIs ==
  ASSUME NEW n1 \in Nat, NEW n2 \in Nat, NEW g, NEW k \in 0..n1, k > 0 => g[k - 1] = C!Number((k - 1) * n2)
  PROVE  ProductStep(n1, n2, g, k) = C!Number(k * n2)
<1>1. CASE k = 0
  BY <1>1 DEF ProductStep
<1>2. CASE k > 0
  <2>0. k - 1 \in Nat /\ (k - 1) + 1 = k
    BY <1>2
  <2>1. PICK m \in Nat : m = (k - 1) * n2
    BY <2>0, Times
  <2>2. k * n2 = m + n2
    BY <2>0, <2>1, Times
  <2>3. g[k - 1] = [n |-> m, cells |-> m]
    BY <1>2, <2>1 DEF C!Number
  <2>4. C!Add(g[k - 1].n, n2) = [n |-> n2 + m, cells |-> n2 + m]
    BY <2>3 DEF C!Add, C!CopyNumber, C!Number
  <2>5. ProductStep(n1, n2, g, k) = [n |-> n2 + m, cells |-> n2 + m + m - m]
    BY <1>2, <2>3, <2>4 DEF ProductStep
  <2> QED
    BY <2>2, <2>5 DEF C!Number
<1> QED
  BY <1>1, <1>2

LEMMA ProductIs == ASSUME NEW n1 \in Nat, NEW n2 \in Nat PROVE C!Product(n1, n2) = C!Number(n1 * n2)
<1> DEFINE Solves(g) == g = [k \in 0..n1 |-> ProductStep(n1, n2, g, k)]
<1>1. \E g : Solves(g)
  <2> DEFINE g == [k \in 0..n1 |-> C!Number(k * n2)]
  <2>1. \A k \in 0..n1 : k > 0 => g[k - 1] = C!Number((k - 1) * n2)
    <3> SUFFICES ASSUME NEW k \in 0..n1, k > 0 PROVE g[k - 1] = C!Number((k - 1) * n2)
      OBVIOUS
    <3>1. PICK j \in 0..n1 : j = k - 1
      OBVIOUS
    <3>2. g[j] = C!Number(j * n2)
      BY Zenon
    <3> QED
      BY <3>1, <3>2, Zenon
  <2> HIDE DEF g
  <2>2. \A k \in 0..n1 : ProductStep(n1, n2, g, k) = C!Number(k * n2)
    BY <2>1, ProductStepIs
  <2>3. g = [k \in 0..n1 |-> ProductStep(n1, n2, g, k)]
    BY <2>2 DEF g
  <2> QED
    BY <2>3
<1>2. Solves(Rounds(n1, n2))
  BY <1>1 DEF Rounds
<1>3. PICK g : g = Rounds(n1, n2)
  OBVIOUS
<1>4. \A k \in 0..n1 : g[k] = ProductStep(n1, n2, g, k)
  BY <1>2, <1>3
<1> DEFINE K == {k \in 0..n1 : g[k] # C!Number(k * n2)}
<1>5. K = {}
  <2> SUFFICES ASSUME K # {} PROVE FALSE
    OBVIOUS
  <2>1. PICK k \in K : \A j \in K : k <= j
    <3>1. K \subseteq Nat
      OBVIOUS
    <3> HIDE DEF K
    <3> QED
      BY <3>1, LeastNatural
  <2>2. k > 0 => g[k - 1] = C!Number((k - 1) * n2)
    <3> SUFFICES ASSUME k > 0 PROVE g[k - 1] = C!Number((k - 1) * n2)
      OBVIOUS
    <3>1. PICK j \in 0..n1 : j = k - 1 /\ ~(k <= j)
      OBVIOUS
    <3>2. j \notin K
      BY <2>1, <3>1
    <3>3. g[j] = C!Number(j * n2)
      BY <3>2, Zenon
    <3> QED
      BY <3>1, <3>3, Zenon
  <2>3. g[k] = C!Number(k * n2)
    BY <1>4, <2>2, ProductStepIs
  <2> QED
    BY <2>3
<1>6. g[n1] = C!Number(n1 * n2)
  BY <1>5
<1> QED
  BY <1>3, <1>6, ProductRounds

Other(f) == IF f = "even" THEN "odd" ELSE "even"

ParityStep(g, call) == IF call[2] > 0 THEN g[<<Other(call[1]), call[2] - 1>>]
                       ELSE IF call[1] = "even" THEN C!Add(0, 1) ELSE C!Number(0)

Parities(operand) == CHOOSE g : g = [call \in C!Unary \X (0..operand) |-> ParityStep(g, call)]

LEMMA ParityRounds == ASSUME NEW f, NEW operand PROVE C!Parity(f, operand) = Parities(operand)[<<f, operand>>]
BY DEF C!Parity, Parities, ParityStep, Other

(* One more makes an odd number of an even one.                            *)
LEMMA EvenOdd == ASSUME NEW k \in Nat, k > 0 PROVE k % 2 = 0 <=> ~((k - 1) % 2 = 0)
OBVIOUS

LEMMA ParityStepIs ==
  ASSUME NEW operand \in Nat, NEW g, NEW f \in C!Unary, NEW k \in 0..operand,
         \A e \in C!Unary : k > 0 => g[<<e, k - 1>>] = C!Number(C!Holds(e, k - 1))
  PROVE  ParityStep(g, <<f, k>>) = C!Number(C!Holds(f, k))
<1>1. f \in {"even", "odd"} /\ Other(f) \in C!Unary
  BY DEF C!Unary, Other
<1>2. CASE k = 0
  <2>1. C!Holds(f, 0) = IF f = "even" THEN 1 ELSE 0
    BY DEF C!Holds
  <2> QED
    BY <1>2, <2>1 DEF ParityStep, C!Add, C!CopyNumber, C!Number
<1>3. CASE k > 0
  <2>1. ParityStep(g, <<f, k>>) = C!Number(C!Holds(Other(f), k - 1))
    BY <1>1, <1>3 DEF ParityStep
  <2>2. C!Holds(Other(f), k - 1) = C!Holds(f, k)
    <3>1. ~(k < 0) /\ ~(k - 1 < 0)
      BY <1>3
    <3>2. (Other(f) = "even") <=> ~(f = "even")
      BY <1>1 DEF Other
    <3> QED
      BY <1>3, <3>1, <3>2, EvenOdd DEF C!Holds
  <2> QED
    BY <2>1, <2>2
<1> QED
  BY <1>2, <1>3

LEMMA ParityIs == ASSUME NEW f \in C!Unary, NEW operand \in Nat PROVE C!Parity(f, operand) = C!Number(C!Holds(f, operand))
<1> DEFINE Solves(g) == g = [call \in C!Unary \X (0..operand) |-> ParityStep(g, call)]
<1>1. \E g : Solves(g)
  <2> DEFINE g == [call \in C!Unary \X (0..operand) |-> C!Number(C!Holds(call[1], call[2]))]
  <2>1. \A k \in 0..operand : \A e \in C!Unary : k > 0 => g[<<e, k - 1>>] = C!Number(C!Holds(e, k - 1))
    OBVIOUS
  <2> HIDE DEF g
  <2>2. \A e \in C!Unary, k \in 0..operand : ParityStep(g, <<e, k>>) = C!Number(C!Holds(e, k))
    BY <2>1, ParityStepIs
  <2>3. \A call \in C!Unary \X (0..operand) : ParityStep(g, call) = C!Number(C!Holds(call[1], call[2]))
    <3> SUFFICES ASSUME NEW call \in C!Unary \X (0..operand)
                 PROVE  ParityStep(g, call) = C!Number(C!Holds(call[1], call[2]))
      OBVIOUS
    <3>1. call[1] \in C!Unary /\ call[2] \in 0..operand /\ call = <<call[1], call[2]>>
      OBVIOUS
    <3> QED
      BY <2>2, <3>1
  <2>4. g = [call \in C!Unary \X (0..operand) |-> ParityStep(g, call)]
    BY <2>3 DEF g
  <2> QED
    BY <2>4
<1>2. Solves(Parities(operand))
  BY <1>1 DEF Parities
<1>3. PICK g : g = Parities(operand)
  OBVIOUS
<1>4. \A e \in C!Unary, k \in 0..operand : g[<<e, k>>] = ParityStep(g, <<e, k>>)
  BY <1>2, <1>3
<1> DEFINE K == {k \in 0..operand : ~ \A e \in C!Unary : g[<<e, k>>] = C!Number(C!Holds(e, k))}
<1>5. K = {}
  <2> SUFFICES ASSUME K # {} PROVE FALSE
    OBVIOUS
  <2>1. PICK k \in K : \A j \in K : k <= j
    <3>1. K \subseteq Nat
      OBVIOUS
    <3> HIDE DEF K
    <3> QED
      BY <3>1, LeastNatural
  <2>2. \A e \in C!Unary : k > 0 => g[<<e, k - 1>>] = C!Number(C!Holds(e, k - 1))
    <3> SUFFICES ASSUME k > 0, NEW e \in C!Unary PROVE g[<<e, k - 1>>] = C!Number(C!Holds(e, k - 1))
      OBVIOUS
    <3>1. PICK j \in 0..operand : j = k - 1 /\ ~(k <= j)
      OBVIOUS
    <3>2. j \notin K
      BY <2>1, <3>1
    <3>3. g[<<e, j>>] = C!Number(C!Holds(e, j))
      BY <3>2, Zenon
    <3> QED
      BY <3>1, <3>3, Zenon
  <2>3. \A e \in C!Unary : g[<<e, k>>] = C!Number(C!Holds(e, k))
    BY <1>4, <2>2, ParityStepIs
  <2> QED
    BY <2>3
<1>6. g[<<f, operand>>] = C!Number(C!Holds(f, operand))
  BY <1>5
<1> QED
  BY <1>3, <1>6, ParityRounds

(* Of two numbers each operator makes the number it names, and takes a cell*)
(* for each of its units.                                                  *)
LEMMA ApplyIs ==
  ASSUME NEW op \in C!Binary, NEW x \in Nat, NEW y \in Nat
  PROVE  /\ C!Apply(op, x, y) = C!Number(C!Arithmetic(op, x, y))
         /\ C!Arithmetic(op, x, y) \in Int
<1>0. ~(x < 0 \/ y < 0)
  OBVIOUS
<1>1. CASE op = "+"
  <2>1. C!Apply(op, x, y) = C!Add(x, y) /\ C!Arithmetic(op, x, y) = x + y
    BY <1>0, <1>1 DEF C!Apply, C!Arithmetic
  <2> QED
    BY <2>1 DEF C!Add, C!CopyNumber, C!Number
<1>2. CASE op = "-"
  <2>1. C!Apply(op, x, y) = C!Subtract(x, y) /\ C!Arithmetic(op, x, y) = x - y
    BY <1>0, <1>2 DEF C!Apply, C!Arithmetic
  <2> QED
    BY <2>1 DEF C!Subtract, C!CopyNumber, C!Number
<1>3. CASE op = "*"
  <2>1. C!Apply(op, x, y) = C!Product(x, y) /\ C!Arithmetic(op, x, y) = x * y
    BY <1>0, <1>3 DEF C!Apply, C!Arithmetic
  <2>2. x * y \in Int
    OBVIOUS
  <2> QED
    BY <2>1, <2>2, ProductIs
<1> QED
  BY <1>1, <1>2, <1>3 DEF C!Binary

(* The words of a line.                                                    *)
Tokens == {"other", "number", "unary", "binary"} \X (Nat \cup {"word"} \cup C!Unary \cup C!Binary)

IsToken(w) == \/ w[1] = "other"
              \/ w[1] = "number" /\ w[2] \in Nat
              \/ w[1] = "unary" /\ w[2] \in C!Unary
              \/ w[1] = "binary" /\ w[2] \in C!Binary

Typeable(l) == l \in Seq(Tokens) /\ \A i \in 1..Len(l) : IsToken(l[i])

Readings(i) == [value : Int, from : 0..i]

(* What a word makes of the readings of the words before it is a reading,  *)
(* and depends on nothing else.                                            *)
LEMMA ArithmeticIs == ASSUME NEW op \in C!Binary, NEW x \in Int, NEW y \in Int PROVE C!Arithmetic(op, x, y) \in Int
<1>1. CASE x < 0 \/ y < 0
  <2>1. C!Arithmetic(op, x, y) \in {-1, x + y, x - y, x * y}
    BY <1>1 DEF C!Arithmetic, C!Binary
  <2>2. x * y \in Int
    OBVIOUS
  <2> QED
    BY <2>1, <2>2
<1>2. CASE ~(x < 0 \/ y < 0)
  <2>1. C!Arithmetic(op, x, y) \in {x + y, x - y, x * y}
    BY <1>2 DEF C!Arithmetic, C!Binary
  <2>2. x * y \in Int
    OBVIOUS
  <2> QED
    BY <2>1, <2>2
<1> QED
  BY <1>1, <1>2

LEMMA LeftIs ==
  ASSUME NEW i \in Nat \ {0}, NEW g, \A j \in 0..(i - 1) : g[j] \in Readings(j)
  PROVE  C!Left(g, g[i - 1]) \in Readings(i)
<1>1. PICK j \in 0..(i - 1) : j = i - 1
  OBVIOUS
<1>2. g[j].from \in 0..j
  BY DEF Readings
<1>3. CASE g[j].from = 0
  BY <1>1, <1>3 DEF C!Left, C!Absent, Readings
<1>4. CASE g[j].from # 0
  <2>1. PICK k \in 0..(i - 1) : k = g[j].from - 1
    BY <1>1, <1>2, <1>4
  <2>2. C!Left(g, g[i - 1]) = g[k]
    BY <1>1, <1>4, <2>1 DEF C!Left
  <2>3. g[k] \in Readings(k) /\ 0..k \subseteq 0..i
    BY <2>1
  <2> QED
    BY <2>2, <2>3 DEF Readings
<1> QED
  BY <1>3, <1>4

LEMMA ReadingFits ==
  ASSUME NEW l, Typeable(l), NEW i \in 0..Len(l), NEW g, \A j \in 0..(i - 1) : g[j] \in Readings(j)
  PROVE  C!Reading(l, g, i) \in Readings(i)
<1>0. Len(l) \in Nat /\ i \in Nat
  BY DEF Typeable
<1>1. CASE i = 0
  BY <1>1 DEF C!Reading, C!Absent, Readings
<1>2. CASE i # 0
  <2>1. IsToken(l[i])
    BY <1>0, <1>2 DEF Typeable
  <2>2. PICK operand2 : operand2 = g[i - 1]
    OBVIOUS
  <2>3. operand2 \in Readings(i)
    <3>1. PICK j \in 0..(i - 1) : j = i - 1
      BY <1>0, <1>2
    <3>2. g[j] \in Readings(j) /\ 0..j \subseteq 0..i
      BY <1>0, <3>1
    <3> QED
      BY <2>2, <3>1, <3>2 DEF Readings
  <2>4. PICK operand1 \in Readings(i) : operand1 = C!Left(g, operand2)
    BY <1>0, <1>2, <2>2, LeftIs
  <2>5. C!Reading(l, g, i) = C!Sense(l[i], i, operand1, operand2)
    BY <1>2, <2>2, <2>4 DEF C!Reading
  <2>6. CASE l[i][1] = "other"
    BY <2>3, <2>5, <2>6 DEF C!Sense
  <2>7. CASE l[i][1] = "number"
    <3>1. l[i][2] % (UIntMax + 1) \in Int
      BY <2>1, <2>7, CalcAssumption DEF IsToken
    <3>2. C!Reading(l, g, i) = [value |-> l[i][2] % (UIntMax + 1), from |-> i]
      BY <2>5, <2>7 DEF C!Sense
    <3> QED
      BY <1>0, <3>1, <3>2 DEF Readings
  <2>8. CASE l[i][1] = "unary"
    <3>1. C!Holds(l[i][2], operand2.value) \in Int
      BY DEF C!Holds
    <3>2. C!Reading(l, g, i) = [value |-> C!Holds(l[i][2], operand2.value), from |-> operand2.from]
      BY <2>5, <2>8 DEF C!Sense
    <3> QED
      BY <2>3, <3>1, <3>2 DEF Readings
  <2>9. CASE l[i][1] = "binary"
    <3>1. C!Arithmetic(l[i][2], operand1.value, operand2.value) \in Int
      BY <2>1, <2>3, <2>9, ArithmeticIs DEF IsToken, Readings
    <3>2. C!Reading(l, g, i) = [value |-> C!Arithmetic(l[i][2], operand1.value, operand2.value), from |-> operand1.from]
      BY <2>5, <2>9 DEF C!Sense
    <3> QED
      BY <3>1, <3>2 DEF Readings
  <2> QED
    BY <2>1, <2>6, <2>7, <2>8, <2>9 DEF IsToken
<1> QED
  BY <1>1, <1>2

LEMMA ReadingSame ==
  ASSUME NEW i \in Nat, NEW l, NEW m, i > 0 => l[i] = m[i], NEW g, NEW h,
         \A j \in 0..(i - 1) : g[j] = h[j] /\ g[j] \in Readings(j)
  PROVE  C!Reading(l, g, i) = C!Reading(m, h, i)
<1>1. CASE i = 0
  BY <1>1 DEF C!Reading
<1>2. CASE i > 0
  <2>1. PICK j \in 0..(i - 1) : j = i - 1
    BY <1>2
  <2>2. g[i - 1] = h[i - 1] /\ g[j].from \in 0..j
    BY <2>1 DEF Readings
  <2>3. C!Left(g, g[i - 1]) = C!Left(h, h[i - 1])
    <3>1. CASE g[j].from = 0
      BY <2>1, <2>2, <3>1 DEF C!Left
    <3>2. CASE g[j].from # 0
      <4>1. PICK k \in 0..(i - 1) : k = g[j].from - 1
        BY <2>1, <2>2, <3>2
      <4>2. g[k] = h[k]
        OBVIOUS
      <4> QED
        BY <2>1, <2>2, <3>2, <4>1, <4>2 DEF C!Left
    <3> QED
      BY <3>1, <3>2
  <2>4. PICK operand2 : operand2 = g[i - 1] /\ operand2 = h[i - 1]
    BY <2>2
  <2>5. PICK operand1 : operand1 = C!Left(g, operand2) /\ operand1 = C!Left(h, operand2)
    BY <2>3, <2>4
  <2>6. PICK w : w = l[i] /\ w = m[i]
    BY <1>2
  <2> QED
    BY <1>2, <2>4, <2>5, <2>6 DEF C!Reading
<1> QED
  BY <1>1, <1>2

-------------------------------------------------------------------------------
(* The readings of a line exist, and are those of any line it begins with. *)
ReadUpTo(l, g, n) == \A i \in 0..n : g[i] = C!Reading(l, g, i)

LEMMA ReadTyped ==
  ASSUME NEW l, Typeable(l), NEW n \in 0..Len(l), NEW g, ReadUpTo(l, g, n)
  PROVE  \A i \in 0..n : g[i] \in Readings(i)
<1> DEFINE K == {i \in 0..n : g[i] \notin Readings(i)}
<1> SUFFICES ASSUME K # {} PROVE FALSE
  OBVIOUS
<1>0. Len(l) \in Nat /\ n \in Nat
  BY DEF Typeable
<1>1. PICK i \in K : \A j \in K : i <= j
  <2>1. K \subseteq Nat
    OBVIOUS
  <2> HIDE DEF K
  <2> QED
    BY <2>1, LeastNatural
<1>2. \A j \in 0..(i - 1) : g[j] \in Readings(j)
  <2> SUFFICES ASSUME NEW j \in 0..(i - 1) PROVE g[j] \in Readings(j)
    OBVIOUS
  <2>1. j \in 0..n /\ ~(i <= j)
    BY <1>0
  <2> QED
    BY <1>1, <2>1
<1>3. i \in 0..Len(l)
  BY <1>0
<1>4. g[i] \in Readings(i)
  BY <1>2, <1>3, ReadingFits DEF ReadUpTo
<1> QED
  BY <1>4

LEMMA ReadSame ==
  ASSUME NEW l, NEW m, Typeable(l), NEW n \in 0..Len(l), \A i \in 1..n : l[i] = m[i],
         NEW g, NEW h, ReadUpTo(l, g, n), ReadUpTo(m, h, n)
  PROVE  \A i \in 0..n : g[i] = h[i]
<1> DEFINE K == {i \in 0..n : g[i] # h[i]}
<1> SUFFICES ASSUME K # {} PROVE FALSE
  OBVIOUS
<1>0. Len(l) \in Nat /\ n \in Nat
  BY DEF Typeable
<1>1. PICK i \in K : \A j \in K : i <= j
  <2>1. K \subseteq Nat
    OBVIOUS
  <2> HIDE DEF K
  <2> QED
    BY <2>1, LeastNatural
<1>2. \A j \in 0..(i - 1) : g[j] = h[j] /\ g[j] \in Readings(j)
  <2> SUFFICES ASSUME NEW j \in 0..(i - 1) PROVE g[j] = h[j] /\ g[j] \in Readings(j)
    OBVIOUS
  <2>1. j \in 0..n /\ ~(i <= j)
    BY <1>0
  <2> QED
    BY <1>1, <2>1, ReadTyped
<1>3. i \in Nat /\ (i > 0 => l[i] = m[i])
  BY <1>0
<1>4. C!Reading(l, g, i) = C!Reading(m, h, i)
  BY <1>2, <1>3, ReadingSame
<1>5. g[i] = h[i]
  BY <1>4 DEF ReadUpTo
<1> QED
  BY <1>5

LEMMA ReadMore ==
  ASSUME NEW l, Typeable(l), NEW n \in 0..Len(l), NEW g, ReadUpTo(l, g, n)
  PROVE  \E h : h = [i \in 0..Len(l) |-> h[i]] /\ ReadUpTo(l, h, IF n < Len(l) THEN n + 1 ELSE n)
<1> DEFINE h == [i \in 0..Len(l) |-> C!Reading(l, g, i)]
           more == IF n < Len(l) THEN n + 1 ELSE n
<1>0. Len(l) \in Nat /\ n \in Nat /\ more \in 0..Len(l) /\ more <= n + 1
  BY DEF Typeable
<1>1. \A i \in 0..n : h[i] = g[i] /\ g[i] \in Readings(i)
  BY <1>0, ReadTyped DEF ReadUpTo
<1>2. h = [i \in 0..Len(l) |-> h[i]]
  OBVIOUS
<1>3. \A i \in 0..Len(l) : h[i] = C!Reading(l, g, i)
  OBVIOUS
<1> HIDE DEF h, more
<1>4. ASSUME NEW i \in 0..more PROVE h[i] = C!Reading(l, h, i)
  <2>1. i \in Nat /\ i \in 0..Len(l) /\ \A j \in 0..(i - 1) : j \in 0..n
    BY <1>0
  <2>2. C!Reading(l, g, i) = C!Reading(l, h, i)
    BY <1>1, <2>1, ReadingSame
  <2> QED
    BY <1>3, <2>1, <2>2
<1> QED
  BY <1>2, <1>4 DEF ReadUpTo, more

LEMMA ReadAll ==
  ASSUME NEW l, Typeable(l)
  PROVE  \E g : g = [i \in 0..Len(l) |-> g[i]] /\ ReadUpTo(l, g, Len(l))
<1> DEFINE Found(n) == \E g : g = [i \in 0..Len(l) |-> g[i]] /\ ReadUpTo(l, g, n)
           K == {n \in 0..Len(l) : ~Found(n)}
<1>0. Len(l) \in Nat
  BY DEF Typeable
<1>1. Found(0)
  <2> DEFINE g == [i \in 0..Len(l) |-> C!Absent]
  <2>1. g = [i \in 0..Len(l) |-> g[i]] /\ g[0] = C!Absent
    BY <1>0
  <2> HIDE DEF g
  <2>2. ReadUpTo(l, g, 0)
    BY <2>1 DEF ReadUpTo, C!Reading
  <2> QED
    BY <2>1, <2>2
<1>2. K = {}
  <2> SUFFICES ASSUME K # {} PROVE FALSE
    OBVIOUS
  <2>1. PICK n \in K : \A j \in K : n <= j
    <3>1. K \subseteq Nat
      OBVIOUS
    <3> HIDE DEF K
    <3> QED
      BY <3>1, LeastNatural
  <2>2. n # 0
    BY <1>1
  <2>3. PICK j \in 0..Len(l) : j = n - 1
    BY <1>0, <2>2
  <2>4. j + 1 = n /\ ~(n <= j) /\ j < Len(l)
    BY <1>0, <2>3
  <2>5. Found(j)
    BY <2>1, <2>4
  <2>6. Found(n)
    <3> HIDE DEF K
    <3>1. PICK g : ReadUpTo(l, g, j)
      BY <2>5
    <3>2. (IF j < Len(l) THEN j + 1 ELSE j) = n
      BY <2>4
    <3> QED
      BY <3>1, <3>2, ReadMore
  <2> QED
    BY <2>6
<1>3. Len(l) \in 0..Len(l)
  BY <1>0
<1> QED
  BY <1>2, <1>3

LEMMA ValuesAre ==
  ASSUME NEW l, Typeable(l)
  PROVE  ReadUpTo(l, C!Values(l), Len(l)) /\ \A i \in 0..Len(l) : C!Values(l)[i] \in Readings(i)
<1> DEFINE Solves(g) == g = [i \in 0..Len(l) |-> C!Reading(l, g, i)]
<1>1. C!Values(l) = CHOOSE g : Solves(g)
  BY DEF C!Values
<1>2. \E g : Solves(g)
  <2>1. PICK g : g = [i \in 0..Len(l) |-> g[i]] /\ ReadUpTo(l, g, Len(l))
    BY ReadAll
  <2>2. \A i \in 0..Len(l) : g[i] = C!Reading(l, g, i)
    BY <2>1 DEF ReadUpTo
  <2>3. Solves(g)
    BY <2>1, <2>2
  <2> QED
    BY <2>3
<1>3. Solves(C!Values(l))
  BY <1>1, <1>2
<1>4. PICK v : v = C!Values(l)
  OBVIOUS
<1>5. \A i \in 0..Len(l) : v[i] = C!Reading(l, v, i)
  BY <1>3, <1>4
<1>6. ReadUpTo(l, v, Len(l))
  BY <1>5 DEF ReadUpTo
<1>7. Len(l) \in 0..Len(l)
  BY DEF Typeable
<1> QED
  BY <1>4, <1>6, <1>7, ReadTyped

(* One word more leaves the readings of the others as they were.           *)
LEMMA LongerLine ==
  ASSUME NEW l, Typeable(l), NEW w \in Tokens, IsToken(w)
  PROVE  /\ Typeable(Append(l, w)) /\ Len(Append(l, w)) = Len(l) + 1 /\ Len(l) \in Nat
         /\ \A i \in 1..Len(l) : Append(l, w)[i] = l[i]
         /\ Append(l, w)[Len(l) + 1] = w
<1>1. l \in Seq(Tokens) /\ Len(l) \in Nat
  BY DEF Typeable
<1>2. Append(l, w) \in Seq(Tokens) /\ Len(Append(l, w)) = Len(l) + 1
  BY <1>1
<1>3. \A i \in 1..Len(l) : Append(l, w)[i] = l[i]
  BY <1>1
<1>4. Append(l, w)[Len(l) + 1] = w
  BY <1>1
<1>5. \A i \in 1..Len(Append(l, w)) : i \in 1..Len(l) \/ i = Len(l) + 1
  BY <1>1, <1>2
<1>6. \A i \in 1..Len(Append(l, w)) : IsToken(Append(l, w)[i])
  BY <1>3, <1>4, <1>5 DEF Typeable
<1> QED
  BY <1>1, <1>2, <1>3, <1>4, <1>6 DEF Typeable

LEMMA ValuesAgree ==
  ASSUME NEW l, Typeable(l), NEW m, Typeable(m), Len(l) <= Len(m), \A i \in 1..Len(l) : m[i] = l[i]
  PROVE  \A i \in 0..Len(l) : C!Values(m)[i] = C!Values(l)[i]
<1>1. PICK n : n = Len(l)
  OBVIOUS
<1>2. n \in 0..Len(l) /\ 0..n \subseteq 0..Len(m)
  BY <1>1 DEF Typeable
<1>3. PICK g : g = C!Values(l)
  OBVIOUS
<1>4. PICK h : h = C!Values(m)
  OBVIOUS
<1>5. ReadUpTo(l, g, n) /\ ReadUpTo(m, h, Len(m))
  BY <1>1, <1>3, <1>4, ValuesAre
<1>6. ReadUpTo(m, h, n)
  BY <1>2, <1>5 DEF ReadUpTo
<1>7. \A i \in 1..n : l[i] = m[i]
  BY <1>1
<1>8. \A i \in 0..n : g[i] = h[i]
  BY <1>2, <1>5, <1>6, <1>7, ReadSame
<1> QED
  BY <1>1, <1>3, <1>4, <1>8

LEMMA ValuesGrow ==
  ASSUME NEW l, Typeable(l), NEW w \in Tokens, IsToken(w), NEW m, m = Append(l, w)
  PROVE  /\ \A i \in 0..Len(l) : C!Values(m)[i] = C!Values(l)[i]
         /\ C!Values(m)[Len(l) + 1] =
              C!Sense(w, Len(l) + 1, C!Left(C!Values(l), C!Values(l)[Len(l)]), C!Values(l)[Len(l)])
<1>1. /\ Typeable(m) /\ Len(m) = Len(l) + 1 /\ Len(l) \in Nat
      /\ \A i \in 1..Len(l) : m[i] = l[i]
      /\ m[Len(l) + 1] = w
  BY LongerLine
<1>2. PICK n \in Nat : n = Len(l)
  BY <1>1
<1>3. PICK g : g = C!Values(l)
  OBVIOUS
<1>4. PICK h : h = C!Values(m)
  OBVIOUS
<1>5. ReadUpTo(m, h, n + 1) /\ \A i \in 0..n : g[i] \in Readings(i)
  BY <1>1, <1>2, <1>3, <1>4, ValuesAre
<1>6. \A i \in 0..n : g[i] = h[i]
  <2>1. Len(l) <= Len(m)
    BY <1>1
  <2> QED
    BY <1>1, <1>2, <1>3, <1>4, <2>1, ValuesAgree
<1>7. h[n + 1] = C!Reading(m, h, n + 1)
  BY <1>5 DEF ReadUpTo
<1>8. C!Reading(m, h, n + 1) = C!Sense(w, n + 1, C!Left(h, h[n]), h[n])
  <2>1. n + 1 # 0 /\ (n + 1) - 1 = n /\ m[n + 1] = w
    BY <1>1, <1>2
  <2> QED
    BY <2>1 DEF C!Reading
<1>9. C!Left(h, h[n]) = C!Left(g, g[n]) /\ h[n] = g[n]
  <2>1. h[n] = g[n] /\ g[n].from \in 0..n
    BY <1>5, <1>6 DEF Readings
  <2>2. CASE g[n].from = 0
    BY <2>1, <2>2 DEF C!Left
  <2>3. CASE g[n].from # 0
    <3>1. g[n].from - 1 \in 0..n
      BY <2>1, <2>3
    <3> QED
      BY <1>6, <2>1, <2>3, <3>1 DEF C!Left
  <2> QED
    BY <2>1, <2>2, <2>3
<1> QED
  BY <1>2, <1>3, <1>4, <1>6, <1>7, <1>8, <1>9

-------------------------------------------------------------------------------
(* The stack holds, from the top, the values of the expressions the line   *)
(* ends with, each read from where the one above it begins, and below the  *)
(* last there is none; the cells in use are those of the numbers on it.    *)
Ends(l, s, e) ==
  /\ e = [k \in 0..Len(s) |-> e[k]]
  /\ \A k \in 0..Len(s) : e[k] \in 0..Len(l)
  /\ e[Len(s)] = Len(l)
  /\ C!Values(l)[e[0]].from = 0
  /\ \A k \in 1..Len(s) : /\ C!Values(l)[e[k]].value = s[k]
                          /\ C!Values(l)[e[k]].from > 0
                          /\ e[k - 1] = C!Values(l)[e[k]].from - 1

Cells(s, t, c) ==
  /\ \A k \in 0..Len(s) : t[k] \in Nat
  /\ t[0] = 0
  /\ \A k \in 1..Len(s) : t[k] = t[k - 1] + s[k]
  /\ c = t[Len(s)]

(* All but the lowest m numbers make way for one.                          *)
LEMMA KeptAndOne ==
  ASSUME NEW s \in Seq(Nat), NEW m \in 0..Len(s), NEW x \in Nat, NEW r, r = Append(SubSeq(s, 1, m), x)
  PROVE  /\ r \in Seq(Nat) /\ Len(r) = m + 1 /\ m \in Nat /\ r[m + 1] = x
         /\ \A k \in 1..m : r[k] = s[k]
<1>1. m \in Nat /\ Len(s) \in Nat /\ m <= Len(s)
  OBVIOUS
<1>2. PICK p : p = SubSeq(s, 1, m)
  OBVIOUS
<1>3. p \in Seq(Nat) /\ Len(p) = m /\ \A k \in 1..m : p[k] = s[k]
  <2>1. \A k \in 1..m : s[k] \in Nat
    BY <1>1
  <2>2. p \in Seq(Nat) /\ Len(p) = m
    BY <1>1, <1>2, SubSeqProperties
  <2>3. \A k \in 1..m : p[k] = s[k]
    BY <1>1, <1>2, SubSeqProperties
  <2> QED
    BY <2>2, <2>3
<1>4. r = Append(p, x)
  BY <1>2
<1>5. r \in Seq(Nat) /\ Len(r) = m + 1
  BY <1>3, <1>4
<1>6. r[m + 1] = x /\ \A k \in 1..m : r[k] = p[k]
  BY <1>3, <1>4
<1> QED
  BY <1>1, <1>3, <1>5, <1>6

LEMMA CellsKept ==
  ASSUME NEW s \in Seq(Nat), NEW m \in 0..Len(s), NEW x \in Nat, NEW r, r = Append(SubSeq(s, 1, m), x),
         NEW t, NEW c, Cells(s, t, c)
  PROVE  \E u : Cells(r, u, t[m] + x)
<1> DEFINE u == [k \in 0..(m + 1) |-> IF k <= m THEN t[k] ELSE t[m] + x]
<1>1. /\ Len(r) = m + 1 /\ m \in Nat /\ Len(s) \in Nat /\ r[m + 1] = x /\ \A k \in 1..m : r[k] = s[k]
  BY KeptAndOne
<1>2. \A k \in 0..m : k \in 0..Len(s) /\ u[k] = t[k] /\ t[k] \in Nat
  BY <1>1 DEF Cells
<1>3. u[m + 1] = t[m] + x /\ u[m + 1] \in Nat /\ u[m] = t[m]
  <2>1. m \in 0..m /\ m + 1 \in 0..(m + 1) /\ ~(m + 1 <= m)
    BY <1>1
  <2>2. t[m] \in Nat /\ u[m] = t[m]
    BY <1>2, <2>1
  <2>3. u[m + 1] = t[m] + x
    BY <2>1
  <2> QED
    BY <2>2, <2>3
<1> HIDE DEF u
<1>4. \A k \in 0..Len(r) : k \in 0..m \/ k = m + 1
  BY <1>1
<1>5. \A k \in 0..Len(r) : u[k] \in Nat
  BY <1>2, <1>3, <1>4
<1>6. u[0] = 0
  BY <1>1, <1>2 DEF Cells
<1>7. ASSUME NEW k \in 1..Len(r) PROVE u[k] = u[k - 1] + r[k]
  <2>1. CASE k \in 1..m
    <3>1. k - 1 \in 0..m /\ k \in 0..m /\ k \in 1..Len(s)
      BY <1>1, <2>1
    <3>2. u[k] = t[k] /\ u[k - 1] = t[k - 1] /\ r[k] = s[k]
      BY <1>1, <1>2, <2>1, <3>1
    <3> QED
      BY <3>1, <3>2 DEF Cells
  <2>2. CASE k = m + 1
    <3>1. k - 1 = m
      BY <1>1, <2>2
    <3> QED
      BY <1>1, <1>3, <2>2, <3>1
  <2> QED
    BY <1>1, <2>1, <2>2
<1>8. Cells(r, u, t[m] + x)
  BY <1>1, <1>3, <1>5, <1>6, <1>7 DEF Cells
<1> QED
  BY <1>8

LeavesOn(s, m, x, r) == r = Append(SubSeq(s, 1, m), x)

OneMore(l, w, longer) == longer = Append(l, w)

(* A new expression that begins where the last one kept ends.              *)
LEMMA EndsKept ==
  ASSUME NEW s \in Seq(Nat), NEW m \in 0..Len(s), NEW x \in Nat, NEW r, LeavesOn(s, m, x, r),
         NEW l, Typeable(l), NEW w \in Tokens, IsToken(w), NEW longer, OneMore(l, w, longer),
         NEW e, Ends(l, s, e),
         C!Values(longer)[Len(l) + 1].value = x, C!Values(longer)[Len(l) + 1].from > 0,
         C!Values(longer)[Len(l) + 1].from - 1 = e[m]
  PROVE  \E f : Ends(longer, r, f)
<1> DEFINE f == [k \in 0..(m + 1) |-> IF k <= m THEN e[k] ELSE Len(l) + 1]
<1>1. /\ Len(r) = m + 1 /\ m \in Nat /\ Len(s) \in Nat /\ r[m + 1] = x /\ \A k \in 1..m : r[k] = s[k]
  BY KeptAndOne DEF LeavesOn
<1>2. Len(longer) = Len(l) + 1 /\ Len(l) \in Nat
  BY LongerLine DEF OneMore
<1>3. PICK v : v = C!Values(l)
  OBVIOUS
<1>4. PICK z : z = C!Values(longer)
  OBVIOUS
<1>5. \A i \in 0..Len(l) : z[i] = v[i]
  BY <1>3, <1>4, ValuesGrow DEF OneMore
<1>6. \A k \in 0..m : k \in 0..Len(s) /\ f[k] = e[k] /\ e[k] \in 0..Len(l)
  BY <1>1 DEF Ends
<1>7. f[m + 1] = Len(l) + 1
  BY <1>1
<1>8. f = [k \in 0..Len(r) |-> f[k]]
  BY <1>1
<1> HIDE DEF f
<1>9. \A k \in 0..Len(r) : k \in 0..m \/ k = m + 1
  BY <1>1
<1>10. ASSUME NEW k \in 0..Len(r) PROVE f[k] \in 0..Len(longer)
  <2>1. CASE k \in 0..m
    <3>1. f[k] \in 0..Len(l)
      BY <1>6, <2>1
    <3> QED
      BY <1>2, <3>1
  <2>2. CASE k = m + 1
    BY <1>2, <1>7, <2>2
  <2> QED
    BY <1>9, <2>1, <2>2
<1>11. z[f[0]].from = 0
  <2>1. 0 \in 0..m
    BY <1>1
  <2>2. f[0] = e[0] /\ e[0] \in 0..Len(l)
    BY <1>6, <2>1
  <2> QED
    BY <1>3, <1>5, <2>2 DEF Ends
<1>12. ASSUME NEW k \in 1..Len(r) PROVE z[f[k]].value = r[k] /\ z[f[k]].from > 0 /\ f[k - 1] = z[f[k]].from - 1
  <2>1. CASE k \in 1..m
    <3>1. k - 1 \in 0..m /\ k \in 0..m /\ k \in 1..Len(s)
      BY <1>1, <2>1
    <3>2. f[k] = e[k] /\ f[k - 1] = e[k - 1] /\ r[k] = s[k] /\ z[e[k]] = v[e[k]]
      BY <1>1, <1>5, <1>6, <2>1, <3>1
    <3>3. v[e[k]].value = s[k] /\ v[e[k]].from > 0 /\ e[k - 1] = v[e[k]].from - 1
      BY <1>3, <3>1 DEF Ends
    <3> QED
      BY <3>2, <3>3
  <2>2. CASE k = m + 1
    <3>1. f[k - 1] = e[m] /\ f[k] = Len(l) + 1 /\ r[k] = x
      BY <1>1, <1>6, <1>7, <2>2
    <3> QED
      BY <1>4, <3>1
  <2> QED
    BY <1>1, <2>1, <2>2
<1>13. Ends(longer, r, f)
  BY <1>1, <1>2, <1>4, <1>7, <1>8, <1>10, <1>11, <1>12 DEF Ends
<1> QED
  BY <1>13

LEMMA CellsPopped ==
  ASSUME NEW s \in Seq(Nat), s # <<>>, NEW r, r = SubSeq(s, 1, Len(s) - 1), NEW t, NEW c, Cells(s, t, c)
  PROVE  r \in Seq(Nat) /\ Cells(r, t, c - s[Len(s)])
<1>1. Len(s) \in Nat /\ Len(s) > 0
  OBVIOUS
<1>2. PICK m \in Nat : m = Len(s) - 1 /\ m + 1 = Len(s)
  <2>1. Len(s) - 1 \in Nat /\ (Len(s) - 1) + 1 = Len(s)
    BY <1>1
  <2> QED
    BY <2>1
<1>3. r = SubSeq(s, 1, m)
  BY <1>2
<1>4. r \in Seq(Nat) /\ Len(r) = m
  <2>1. \A k \in 1..m : s[k] \in Nat
    BY <1>2
  <2> QED
    BY <1>2, <1>3, <2>1, SubSeqProperties
<1>5. \A k \in 1..m : r[k] = s[k]
  BY <1>2, <1>3, SubSeqProperties
<1>6. /\ \A k \in 0..m : k \in 0..Len(s)
      /\ \A k \in 1..m : k \in 1..Len(s)
      /\ m + 1 \in 1..Len(s) /\ (m + 1) - 1 = m /\ m \in 0..Len(s)
  BY <1>2
<1>7. t[m + 1] = t[m] + s[m + 1] /\ c = t[m + 1] /\ t[m] \in Nat /\ s[m + 1] \in Nat
  BY <1>2, <1>6 DEF Cells
<1>8. c - s[Len(s)] = t[m]
  BY <1>2, <1>7
<1>9. Cells(r, t, t[m])
  BY <1>4, <1>5, <1>6 DEF Cells
<1> QED
  BY <1>4, <1>8, <1>9

(* What the readings of the line say of its last two expressions.          *)
LEMMA EntryRead ==
  ASSUME NEW l, Typeable(l), NEW s \in Seq(Nat), NEW e, Ends(l, s, e), NEW k \in 1..Len(s)
  PROVE  C!Values(l)[e[k]] = [value |-> s[k], from |-> e[k - 1] + 1] /\ e[k - 1] \in Nat
<1>1. k \in 0..Len(s) /\ k - 1 \in 0..Len(s)
  OBVIOUS
<1>2. PICK v : v = C!Values(l)
  OBVIOUS
<1>3. PICK i \in 0..Len(l) : i = e[k]
  BY <1>1 DEF Ends
<1>4. v[i].value = s[k] /\ v[i].from > 0 /\ e[k - 1] = v[i].from - 1
  BY <1>2, <1>3 DEF Ends
<1>5. v[i] \in [value : Int, from : 0..i]
  BY <1>2, ValuesAre DEF Readings
<1>6. PICK a \in Int : a = v[i].from
  BY <1>5
<1>7. e[k - 1] + 1 = a /\ e[k - 1] \in Nat
  BY <1>4, <1>6
<1> QED
  BY <1>2, <1>3, <1>4, <1>5, <1>6, <1>7

LEMMA TopRead ==
  ASSUME NEW l, Typeable(l), NEW s \in Seq(Nat), NEW e, Ends(l, s, e), NEW n, n = Len(s), n > 0
  PROVE  C!Values(l)[Len(l)] = [value |-> s[n], from |-> e[n - 1] + 1] /\ e[n - 1] \in Nat
<1>1. n \in 1..Len(s) /\ e[n] = Len(l)
  BY DEF Ends
<1> QED
  BY <1>1, EntryRead

LEMMA NothingRead ==
  ASSUME NEW l, Typeable(l), NEW s, Len(s) = 0, NEW e, Ends(l, s, e), NEW v, v = C!Values(l)
  PROVE  v[Len(l)].from = 0 /\ C!Left(v, v[Len(l)]) = C!Absent
<1>1. v[Len(l)].from = 0
  BY DEF Ends
<1> QED
  BY <1>1 DEF C!Left

LEMMA LeftRead ==
  ASSUME NEW l, Typeable(l), NEW s \in Seq(Nat), NEW e, Ends(l, s, e), NEW n, n = Len(s), n > 0,
         NEW v, v = C!Values(l)
  PROVE  C!Left(v, v[Len(l)]) = v[e[n - 1]]
<1>1. v[Len(l)].from = e[n - 1] + 1 /\ e[n - 1] \in Nat
  <2>1. C!Values(l)[Len(l)] = [value |-> s[n], from |-> e[n - 1] + 1] /\ e[n - 1] \in Nat
    BY TopRead
  <2> QED
    BY <2>1
<1>2. PICK a \in Nat : a = e[n - 1]
  BY <1>1
<1>3. v[Len(l)].from = a + 1 /\ a + 1 # 0 /\ (a + 1) - 1 = a
  BY <1>1, <1>2
<1> QED
  BY <1>2, <1>3 DEF C!Left

LEMMA OneRead ==
  ASSUME NEW l, Typeable(l), NEW s \in Seq(Nat), NEW e, Ends(l, s, e), Len(s) = 1, NEW v, v = C!Values(l)
  PROVE  C!Left(v, v[Len(l)]).from = 0
<1>1. PICK k \in 1..Len(s) : k = 1
  OBVIOUS
<1>2. C!Values(l)[e[k]] = [value |-> s[k], from |-> e[k - 1] + 1] /\ e[k - 1] \in Nat
  BY EntryRead
<1>3. PICK a \in Nat : a = e[0]
  BY <1>1, <1>2
<1>4. e[1] = Len(l) /\ v[a].from = 0
  BY <1>3 DEF Ends
<1>5. v[Len(l)].from = a + 1 /\ a + 1 # 0 /\ (a + 1) - 1 = a
  BY <1>1, <1>2, <1>3, <1>4
<1> QED
  BY <1>4, <1>5 DEF C!Left

LEMMA TwoRead ==
  ASSUME NEW l, Typeable(l), NEW s \in Seq(Nat), NEW e, Ends(l, s, e), NEW n, n = Len(s), n > 1,
         NEW v, v = C!Values(l)
  PROVE  C!Left(v, v[Len(l)]) = [value |-> s[n - 1], from |-> e[n - 2] + 1] /\ e[n - 2] \in Nat
<1>1. PICK k \in 1..Len(s) : k = n - 1 /\ k - 1 = n - 2
  <2>1. n - 1 \in 1..Len(s) /\ (n - 1) - 1 = n - 2
    OBVIOUS
  <2> QED
    BY <2>1
<1>2. v[e[k]] = [value |-> s[k], from |-> e[k - 1] + 1] /\ e[k - 1] \in Nat
  BY EntryRead
<1>3. C!Left(v, v[Len(l)]) = v[e[n - 1]]
  <2>1. n > 0
    OBVIOUS
  <2> QED
    BY <2>1, LeftRead
<1> QED
  BY <1>1, <1>2, <1>3

LEMMA NoWords == C!Values(<<>>)[0].from = 0 /\ Ends(<<>>, <<>>, [k \in 0..0 |-> 0])
<1>1. Typeable(<<>>) /\ Len(<<>>) = 0
  BY DEF Typeable
<1>2. PICK l : l = <<>>
  OBVIOUS
<1>3. C!Values(l)[0] = C!Reading(l, C!Values(l), 0)
  BY <1>1, <1>2, ValuesAre DEF ReadUpTo
<1>4. C!Values(l)[0].from = 0
  BY <1>3 DEF C!Reading, C!Absent
<1>5. Ends(l, <<>>, [k \in 0..0 |-> 0])
  BY <1>1, <1>2, <1>4 DEF Ends
<1> QED
  BY <1>2, <1>4, <1>5

LEMMA NoNumbers == Cells(<<>>, [k \in 0..0 |-> 0], 0)
BY DEF Cells

-------------------------------------------------------------------------------
(* On a line the stack holds the values of the expressions the line ends   *)
(* with; until the next prompt the cells in use are those of its numbers.  *)
Expressions == \E e : Ends(line, stack, e)

InUse == \E t : Cells(stack, t, live)

CalcInv ==
  /\ at \in {"prompt", "line", "clear", "returned 0", "returned 1", "aborted"}
  /\ Typeable(line) /\ stack \in Seq(Nat)
  /\ at = "line" => Expressions
  /\ at \in {"prompt", "line", "clear"} => InUse
  /\ at = "prompt" => stack = <<>>
  /\ C!RightAnswer

LEMMA CalcNext ==
  ASSUME NEW l, l = line', NEW s, s = stack', NEW c, c = live'
  PROVE  /\ Typeable(line)' <=> Typeable(l)
         /\ C!Meaning' = C!Values(l)[Len(l)]
         /\ Expressions' <=> \E e : Ends(l, s, e)
         /\ InUse' <=> \E t : Cells(s, t, c)
<1>1. Typeable(line)' <=> Typeable(l)
  BY DEF Typeable, IsToken
<1>2. C!Meaning' = C!Values(l)[Len(l)]
  BY DEF C!Meaning, C!Values, C!Reading, C!Sense, C!Left, C!Absent, C!Arithmetic, C!Holds
<1>3. Expressions' <=> \E e : Ends(l, s, e)
  BY DEF Expressions, Ends, C!Values, C!Reading, C!Sense, C!Left, C!Absent, C!Arithmetic, C!Holds
<1>4. InUse' <=> \E t : Cells(s, t, c)
  BY DEF InUse, Cells
<1> QED
  BY <1>1, <1>2, <1>3, <1>4

LEMMA CalcNow ==
  /\ C!Meaning = C!Values(line)[Len(line)]
  /\ Expressions <=> \E e : Ends(line, stack, e)
  /\ InUse <=> \E t : Cells(stack, t, live)
BY DEF C!Meaning, Expressions, InUse

LEMMA CalcStarts == C!Init => CalcInv
<1> SUFFICES ASSUME C!Init PROVE CalcInv
  OBVIOUS
<1>1. at = "prompt" /\ line = <<>> /\ stack = <<>> /\ live = 0
  BY DEF C!Init
<1>2. InUse
  BY <1>1, CalcNow, NoNumbers
<1>3. Typeable(line)
  BY <1>1 DEF Typeable
<1> QED
  BY <1>1, <1>2, <1>3 DEF CalcInv, C!RightAnswer

LEMMA CalcStays == CalcInv /\ UNCHANGED calcVars => CalcInv'
<1> SUFFICES ASSUME CalcInv, UNCHANGED calcVars PROVE CalcInv'
  OBVIOUS
<1>1. at' = at /\ line' = line /\ stack' = stack /\ live' = live /\ answer' = answer
  BY DEF calcVars
<1>2. PICK l, s, c : l = line' /\ s = stack' /\ c = live'
  OBVIOUS
<1>3. l = line /\ s = stack /\ c = live
  BY <1>1, <1>2
<1>4. C!Meaning' = C!Meaning /\ (Typeable(line)' <=> Typeable(line)) /\ (Expressions' <=> Expressions) /\ (InUse' <=> InUse)
  BY <1>2, <1>3, CalcNext, CalcNow
<1> QED
  BY <1>1, <1>4 DEF CalcInv, C!RightAnswer

LEMMA GetLineKeeps == CalcInv /\ C!GetLine => CalcInv'
<1> SUFFICES ASSUME CalcInv, C!GetLine PROVE CalcInv'
  OBVIOUS
<1>1. /\ stack = <<>> /\ InUse /\ at' \in {"line", "returned 0"} /\ line' = <<>>
      /\ stack' = stack /\ live' = live /\ answer' = answer
  BY DEF C!GetLine, CalcInv
<1>2. PICK l, s, c : l = line' /\ s = stack' /\ c = live'
  OBVIOUS
<1>3. l = <<>> /\ s = <<>> /\ s = stack /\ c = live
  BY <1>1, <1>2
<1>4. Expressions'
  BY <1>2, <1>3, CalcNext, NoWords
<1>5. InUse'
  BY <1>1, <1>2, <1>3, CalcNext, CalcNow
<1>6. Typeable(line)'
  <2>1. Typeable(l)
    BY <1>3 DEF Typeable
  <2> QED
    BY <1>2, <2>1, CalcNext
<1> QED
  BY <1>1, <1>4, <1>5, <1>6 DEF CalcInv, C!RightAnswer

(* A word that leaves the number x above the m lowest.                     *)
LEMMA Pushes ==
  ASSUME CalcInv, at = "line", at' = at, NEW w \in Tokens, IsToken(w), line' = Append(line, w),
         NEW m \in 0..Len(stack), NEW x \in Nat, stack' = Append(SubSeq(stack, 1, m), x),
         NEW v, v = C!Values(line),
         \A e : Ends(line, stack, e) =>
           C!Sense(w, Len(line) + 1, C!Left(v, v[Len(line)]), v[Len(line)]) = [value |-> x, from |-> e[m] + 1],
         \A t : Cells(stack, t, live) => live' = t[m] + x
  PROVE  CalcInv'
<1>1. Typeable(line) /\ stack \in Seq(Nat)
  BY DEF CalcInv
<1>2. PICK e : Ends(line, stack, e)
  BY CalcNow DEF CalcInv
<1>3. PICK t : Cells(stack, t, live)
  BY CalcNow DEF CalcInv
<1>4. PICK l, s, c : l = line' /\ s = stack' /\ c = live'
  OBVIOUS
<1>5. l = Append(line, w) /\ s = Append(SubSeq(stack, 1, m), x) /\ c = t[m] + x
  BY <1>3, <1>4
<1>6. C!Values(l)[Len(line) + 1] = [value |-> x, from |-> e[m] + 1]
  BY <1>1, <1>2, <1>5, ValuesGrow
<1>7. e[m] \in Nat
  <2>1. m \in 0..Len(stack) /\ Len(line) \in Nat
    BY <1>1 DEF Typeable
  <2>2. e[m] \in 0..Len(line)
    BY <1>2, <2>1 DEF Ends
  <2> QED
    BY <2>1, <2>2
<1>8. /\ C!Values(l)[Len(line) + 1].value = x /\ C!Values(l)[Len(line) + 1].from > 0
      /\ C!Values(l)[Len(line) + 1].from - 1 = e[m]
  <2>1. PICK a \in Nat : a = e[m]
    BY <1>7
  <2>2. C!Values(l)[Len(line) + 1] = [value |-> x, from |-> a + 1]
    BY <1>6, <2>1
  <2>3. a + 1 > 0 /\ (a + 1) - 1 = a
    OBVIOUS
  <2> QED
    BY <2>1, <2>2, <2>3
<1>9. \E f : Ends(l, s, f)
  <2>1. PICK k : k = line
    OBVIOUS
  <2>2. PICK r : r = stack
    OBVIOUS
  <2>3. Typeable(k) /\ r \in Seq(Nat) /\ m \in 0..Len(r) /\ OneMore(k, w, l) /\ LeavesOn(r, m, x, s)
    BY <1>1, <1>5, <2>1, <2>2 DEF OneMore, LeavesOn
  <2>4. /\ Ends(k, r, e) /\ C!Values(l)[Len(k) + 1].value = x /\ C!Values(l)[Len(k) + 1].from > 0
        /\ C!Values(l)[Len(k) + 1].from - 1 = e[m]
    BY <1>2, <1>8, <2>1, <2>2
  <2> QED
    BY <2>3, <2>4, EndsKept
<1>10. \E u : Cells(s, u, c)
  BY <1>1, <1>3, <1>5, CellsKept
<1>11. Typeable(l) /\ s \in Seq(Nat)
  <2>1. Typeable(l)
    BY <1>1, <1>5, LongerLine
  <2>2. s \in Seq(Nat)
    BY <1>1, <1>5, KeptAndOne
  <2> QED
    BY <2>1, <2>2
<1>12. Expressions' /\ InUse' /\ Typeable(line)'
  BY <1>4, <1>9, <1>10, <1>11, CalcNext
<1> QED
  BY <1>4, <1>11, <1>12 DEF CalcInv, C!RightAnswer

(* A word that ends the program there.                                     *)
LEMMA GivesUp ==
  ASSUME CalcInv, NEW w \in Tokens, IsToken(w), line' = Append(line, w), stack' \in Seq(Nat),
         NEW v, v = C!Values(line),
         NEW y, y = C!Sense(w, Len(line) + 1, C!Left(v, v[Len(line)]), v[Len(line)]),
         \/ at' = "returned 1" /\ y.from = 0
         \/ at' = "aborted" /\ y.from > 0 /\ y.value < 0
  PROVE  CalcInv'
<1>1. Typeable(line)
  BY DEF CalcInv
<1>2. PICK l, s, c : l = line' /\ s = stack' /\ c = live'
  OBVIOUS
<1>3. l = Append(line, w)
  BY <1>2
<1>4. C!Values(l)[Len(line) + 1] = y
  BY <1>1, <1>3, ValuesGrow
<1>5. Typeable(l) /\ Len(l) = Len(line) + 1
  BY <1>1, <1>3, LongerLine
<1>6. C!Meaning' = y /\ Typeable(line)'
  BY <1>2, <1>4, <1>5, CalcNext
<1> QED
  BY <1>6 DEF CalcInv, C!RightAnswer

LEMMA WholeStack == ASSUME NEW s \in Seq(Nat), s # <<>>
                    PROVE  s = Append(SubSeq(s, 1, Len(s) - 1), s[Len(s)])
<1>1. PICK m \in Nat : m = Len(s) - 1 /\ m + 1 = Len(s)
  <2>1. Len(s) - 1 \in Nat /\ (Len(s) - 1) + 1 = Len(s)
    OBVIOUS
  <2> QED
    BY <2>1
<1>2. m \in 0..Len(s) /\ s[m + 1] \in Nat
  BY <1>1
<1>3. PICK x \in Nat : x = s[m + 1]
  BY <1>2
<1>4. PICK r : r = Append(SubSeq(s, 1, m), x)
  OBVIOUS
<1>5. r \in Seq(Nat) /\ Len(r) = m + 1 /\ r[m + 1] = x /\ \A k \in 1..m : r[k] = s[k]
  BY <1>2, <1>4, KeptAndOne
<1>6. \A k \in 1..Len(s) : k \in 1..m \/ k = m + 1
  BY <1>1
<1>7. \A k \in 1..Len(s) : r[k] = s[k]
  BY <1>3, <1>5, <1>6
<1>8. r = s
  <2>1. r = [k \in 1..Len(s) |-> r[k]]
    BY <1>1, <1>5
  <2>2. s = [k \in 1..Len(s) |-> s[k]]
    OBVIOUS
  <2> QED
    BY <1>7, <2>1, <2>2
<1> QED
  BY <1>1, <1>3, <1>4, <1>8

LEMMA AllOf == ASSUME NEW s \in Seq(Nat) PROVE SubSeq(s, 1, Len(s)) = s
OBVIOUS

(* What the stack tells of the words read, at a word of the line.          *)
LEMMA AtAWord ==
  ASSUME CalcInv, NEW w, C!Word(w)
  PROVE  /\ at = "line" /\ line' = Append(line, w) /\ Typeable(line) /\ stack \in Seq(Nat) /\ Len(line) \in Nat
         /\ Len(stack) \in Nat /\ \E e : Ends(line, stack, e)
         /\ \E t : Cells(stack, t, live)
<1>1. at = "line" /\ line' = Append(line, w)
  BY DEF C!Word
<1>2. Typeable(line) /\ stack \in Seq(Nat) /\ Expressions /\ InUse
  BY <1>1 DEF CalcInv
<1>3. Len(line) \in Nat /\ Len(stack) \in Nat
  BY <1>2 DEF Typeable
<1> QED
  BY <1>1, <1>2, <1>3, CalcNow

LEMMA PushKeeps == CalcInv /\ C!PushNumber => CalcInv'
<1> SUFFICES ASSUME CalcInv, NEW typed \in Numerals, C!Word(<<"number", typed>>),
                    stack' = Append(stack, C!StringToNumber(typed).n),
                    live' = live + C!StringToNumber(typed).cells, at' = at
             PROVE  CalcInv'
  BY DEF C!PushNumber
<1>1. PICK w : w = <<"number", typed>>
  OBVIOUS
<1>2. w \in Tokens /\ IsToken(w) /\ w[1] = "number" /\ w[2] = typed
  BY <1>1, CalcAssumption DEF Tokens, IsToken
<1>3. PICK x \in Nat : x = typed % (UIntMax + 1)
  BY CalcAssumption
<1>4. stack' = Append(stack, x) /\ live' = live + x
  BY <1>3 DEF C!StringToNumber, C!Number
<1>5. /\ at = "line" /\ line' = Append(line, w) /\ stack \in Seq(Nat) /\ Len(line) \in Nat /\ Len(stack) \in Nat
  BY <1>1, AtAWord
<1>6. PICK m \in 0..Len(stack) : m = Len(stack)
  BY <1>5
<1>7. stack' = Append(SubSeq(stack, 1, m), x)
  BY <1>4, <1>5, <1>6, AllOf
<1>8. PICK v : v = C!Values(line)
  OBVIOUS
<1>9. ASSUME NEW e, Ends(line, stack, e)
      PROVE  C!Sense(w, Len(line) + 1, C!Left(v, v[Len(line)]), v[Len(line)]) = [value |-> x, from |-> e[m] + 1]
  <2>1. C!Sense(w, Len(line) + 1, C!Left(v, v[Len(line)]), v[Len(line)]) = [value |-> x, from |-> Len(line) + 1]
    BY <1>2, <1>3 DEF C!Sense
  <2>2. e[m] = Len(line)
    BY <1>6, <1>9 DEF Ends
  <2> QED
    BY <2>1, <2>2
<1>10. ASSUME NEW t, Cells(stack, t, live) PROVE live' = t[m] + x
  BY <1>4, <1>6, <1>10 DEF Cells
<1> QED
  BY <1>2, <1>5, <1>7, <1>8, <1>9, <1>10, Pushes

LEMMA SkipKeeps == CalcInv /\ C!SkipWord => CalcInv'
<1> SUFFICES ASSUME CalcInv, C!Word(<<"other", "word">>), at' = at, stack' = stack, live' = live PROVE CalcInv'
  BY DEF C!SkipWord
<1>1. PICK w : w = <<"other", "word">>
  OBVIOUS
<1>2. w \in Tokens /\ IsToken(w) /\ w[1] = "other"
  BY <1>1 DEF Tokens, IsToken
<1>3. /\ at = "line" /\ line' = Append(line, w) /\ Typeable(line) /\ stack \in Seq(Nat)
      /\ Len(line) \in Nat /\ Len(stack) \in Nat
  BY <1>1, AtAWord
<1>4. PICK v : v = C!Values(line)
  OBVIOUS
<1>5. C!Sense(w, Len(line) + 1, C!Left(v, v[Len(line)]), v[Len(line)]) = v[Len(line)]
  BY <1>2 DEF C!Sense
<1>6. CASE stack = <<>>
  <2>1. PICK e : Ends(line, stack, e)
    BY AtAWord
  <2>2. v[Len(line)].from = 0
    BY <1>3, <1>4, <1>6, <2>1, NothingRead
  <2>3. PICK l, s, c : l = line' /\ s = stack' /\ c = live'
    OBVIOUS
  <2>4. l = Append(line, w) /\ s = <<>> /\ s = stack /\ c = live
    BY <1>3, <1>6, <2>3
  <2>5. C!Values(l)[Len(line) + 1].from = 0
    BY <1>2, <1>3, <1>4, <1>5, <2>2, <2>4, ValuesGrow
  <2>6. Typeable(l) /\ Len(l) = Len(line) + 1
    BY <1>2, <1>3, <2>4, LongerLine
  <2>7. PICK n \in Nat : n = Len(l)
    BY <1>3, <2>6
  <2>8. C!Values(l)[n].from = 0
    BY <2>5, <2>6, <2>7
  <2>9. Ends(l, <<>>, [k \in 0..0 |-> n])
    BY <2>7, <2>8 DEF Ends
  <2>10. Expressions' /\ Typeable(line)'
    BY <2>3, <2>4, <2>6, <2>9, CalcNext
  <2>11. InUse'
    BY <2>3, <2>4, AtAWord, CalcNext
  <2> QED
    BY <1>3, <2>10, <2>11 DEF CalcInv, C!RightAnswer
<1>7. CASE stack # <<>>
  <2>1. PICK m \in 0..Len(stack) : m = Len(stack) - 1 /\ m + 1 = Len(stack) /\ Len(stack) > 0
    <3>1. Len(stack) > 0 /\ Len(stack) - 1 \in 0..Len(stack) /\ (Len(stack) - 1) + 1 = Len(stack)
      BY <1>3, <1>7
    <3> QED
      BY <3>1
  <2>2. PICK x \in Nat : x = stack[Len(stack)]
    BY <1>3, <2>1
  <2>3. stack' = Append(SubSeq(stack, 1, m), x)
    BY <1>3, <1>7, <2>1, <2>2, WholeStack
  <2>4. ASSUME NEW e, Ends(line, stack, e)
        PROVE  C!Sense(w, Len(line) + 1, C!Left(v, v[Len(line)]), v[Len(line)]) = [value |-> x, from |-> e[m] + 1]
    <3>1. PICK n : n = Len(stack)
      OBVIOUS
    <3>2. v[Len(line)] = [value |-> stack[n], from |-> e[n - 1] + 1]
      BY <1>3, <1>4, <2>1, <2>4, <3>1, TopRead
    <3> QED
      BY <1>5, <2>1, <2>2, <3>1, <3>2
  <2>5. ASSUME NEW t, Cells(stack, t, live) PROVE live' = t[m] + x
    <3>1. Len(stack) \in 1..Len(stack)
      BY <1>3, <2>1
    <3> QED
      BY <2>1, <2>2, <2>5, <3>1 DEF Cells
  <2> QED
    BY <1>2, <1>3, <1>4, <2>3, <2>4, <2>5, Pushes
<1> QED
  BY <1>6, <1>7

LEMMA UnaryKeeps == ASSUME CalcInv, NEW op \in C!Unary, C!ApplyUnary(op) PROVE CalcInv'
<1>1. PICK w : w = <<"unary", op>>
  OBVIOUS
<1>2. w \in Tokens /\ IsToken(w) /\ w[1] = "unary" /\ w[2] = op
  BY <1>1 DEF Tokens, IsToken, C!Unary
<1>3. C!Word(w)
  BY <1>1 DEF C!ApplyUnary
<1>4. /\ at = "line" /\ line' = Append(line, w) /\ Typeable(line) /\ stack \in Seq(Nat)
      /\ Len(line) \in Nat /\ Len(stack) \in Nat
  BY <1>3, AtAWord
<1>5. PICK v : v = C!Values(line)
  OBVIOUS
<1>6. C!Sense(w, Len(line) + 1, C!Left(v, v[Len(line)]), v[Len(line)])
        = [value |-> C!Holds(op, v[Len(line)].value), from |-> v[Len(line)].from]
  BY <1>2 DEF C!Sense
<1>7. CASE stack = <<>>
  <2>1. at' = "returned 1" /\ stack' = stack
    BY <1>7 DEF C!ApplyUnary
  <2>2. PICK e : Ends(line, stack, e)
    BY <1>3, AtAWord
  <2>3. v[Len(line)].from = 0
    BY <1>4, <1>5, <1>7, <2>2, NothingRead
  <2>4. PICK y : y = C!Sense(w, Len(line) + 1, C!Left(v, v[Len(line)]), v[Len(line)])
    OBVIOUS
  <2>5. y.from = 0
    BY <1>6, <2>3, <2>4
  <2> QED
    BY <1>2, <1>4, <1>5, <2>1, <2>4, <2>5, GivesUp
<1>8. CASE stack # <<>>
  <2>1. PICK m \in 0..Len(stack) : m = Len(stack) - 1 /\ m + 1 = Len(stack) /\ Len(stack) > 0
    <3>1. Len(stack) > 0 /\ Len(stack) - 1 \in 0..Len(stack) /\ (Len(stack) - 1) + 1 = Len(stack)
      BY <1>4, <1>8
    <3> QED
      BY <3>1
  <2>2. PICK top \in Nat : top = stack[Len(stack)]
    BY <1>4, <2>1
  <2>3. PICK x \in Nat : x = C!Holds(op, top)
    BY DEF C!Holds
  <2>4. C!Parity(op, top).n = x /\ C!Parity(op, top).cells = x
    BY <2>3, ParityIs DEF C!Number
  <2>5. stack' = Append(SubSeq(stack, 1, m), x) /\ live' = live + x - top /\ at' = at
    BY <1>8, <2>1, <2>2, <2>4 DEF C!ApplyUnary, C!Top, C!Popped
  <2>6. ASSUME NEW e, Ends(line, stack, e)
        PROVE  C!Sense(w, Len(line) + 1, C!Left(v, v[Len(line)]), v[Len(line)]) = [value |-> x, from |-> e[m] + 1]
    <3>1. v[Len(line)] = [value |-> top, from |-> e[m] + 1]
      <4>1. PICK n : n = Len(stack)
        OBVIOUS
      <4>2. v[Len(line)] = [value |-> stack[n], from |-> e[n - 1] + 1]
        BY <1>4, <1>5, <2>1, <2>6, <4>1, TopRead
      <4> QED
        BY <2>1, <2>2, <4>1, <4>2
    <3> QED
      BY <1>6, <2>3, <3>1
  <2>7. ASSUME NEW t, Cells(stack, t, live) PROVE live' = t[m] + x
    <3>1. Len(stack) \in 1..Len(stack)
      BY <1>4, <2>1
    <3>2. live = t[m] + top /\ t[m] \in Nat
      BY <2>1, <2>2, <2>7, <3>1 DEF Cells
    <3> QED
      BY <2>5, <3>2
  <2> QED
    BY <1>2, <1>4, <1>5, <2>5, <2>6, <2>7, Pushes
<1> QED
  BY <1>7, <1>8

LEMMA BinaryGivesUp ==
  ASSUME CalcInv, NEW op \in C!Binary, C!ApplyBinary(op), ~(Len(stack) > 1) PROVE CalcInv'
<1>1. PICK w : w = <<"binary", op>>
  OBVIOUS
<1>2. w \in Tokens /\ IsToken(w) /\ w[1] = "binary" /\ w[2] = op
  BY <1>1 DEF Tokens, IsToken, C!Binary
<1>3. C!Word(w)
  BY <1>1 DEF C!ApplyBinary
<1>4. /\ at = "line" /\ line' = Append(line, w) /\ Typeable(line) /\ stack \in Seq(Nat)
      /\ Len(line) \in Nat /\ Len(stack) \in Nat
  BY <1>3, AtAWord
<1>5. at' = "returned 1" /\ stack' = <<>>
  <2>1. Len(stack) < 2
    BY <1>4
  <2> QED
    BY <2>1 DEF C!ApplyBinary
<1>6. PICK v : v = C!Values(line)
  OBVIOUS
<1>7. PICK y : y = C!Sense(w, Len(line) + 1, C!Left(v, v[Len(line)]), v[Len(line)])
  OBVIOUS
<1>8. y.from = C!Left(v, v[Len(line)]).from
  BY <1>2, <1>7 DEF C!Sense
<1>9. PICK e : Ends(line, stack, e)
  BY <1>3, AtAWord
<1>10. C!Left(v, v[Len(line)]).from = 0
  <2>1. CASE Len(stack) = 0
    <3>1. C!Left(v, v[Len(line)]) = C!Absent
      BY <1>4, <1>6, <1>9, <2>1, NothingRead
    <3> QED
      BY <3>1 DEF C!Absent
  <2>2. CASE Len(stack) = 1
    BY <1>4, <1>6, <1>9, <2>2, OneRead
  <2>3. Len(stack) = 0 \/ Len(stack) = 1
    <3>1. PICK n \in Nat : n = Len(stack)
      BY <1>4
    <3>2. ~(n > 1)
      BY <3>1
    <3> QED
      BY <3>1, <3>2
  <2> QED
    BY <2>1, <2>2, <2>3
<1>11. stack' \in Seq(Nat)
  <2>1. <<>> \in Seq(Nat)
    OBVIOUS
  <2> QED
    BY <1>5, <2>1
<1> QED
  BY <1>2, <1>4, <1>5, <1>6, <1>7, <1>8, <1>10, <1>11, GivesUp

LEMMA BinaryKeeps ==
  ASSUME CalcInv, NEW op \in C!Binary, C!ApplyBinary(op), Len(stack) > 1 PROVE CalcInv'
<1>1. PICK w : w = <<"binary", op>>
  OBVIOUS
<1>2. w \in Tokens /\ IsToken(w) /\ w[1] = "binary" /\ w[2] = op
  BY <1>1 DEF Tokens, IsToken, C!Binary
<1>3. C!Word(w)
  BY <1>1 DEF C!ApplyBinary
<1>4. /\ at = "line" /\ line' = Append(line, w) /\ Typeable(line) /\ stack \in Seq(Nat)
      /\ Len(line) \in Nat /\ Len(stack) \in Nat
  BY <1>3, AtAWord
<1>5. PICK n \in Nat : n = Len(stack) /\ n > 1
  BY <1>4
<1>6. PICK m \in 0..Len(stack) : m = n - 2 /\ m + 1 = n - 1 /\ m + 2 = n
  <2>1. n - 2 \in 0..Len(stack) /\ (n - 2) + 1 = n - 1 /\ (n - 2) + 2 = n
    BY <1>5
  <2> QED
    BY <2>1
<1>7. n \in 1..Len(stack) /\ n - 1 \in 1..Len(stack) /\ n > 0
  BY <1>5
<1>8. PICK operand2 \in Nat : operand2 = stack[n]
  BY <1>4, <1>7
<1>9. PICK operand1 \in Nat : operand1 = stack[n - 1]
  BY <1>4, <1>7
<1>10. PICK x \in Int : x = C!Arithmetic(op, operand1, operand2)
  BY ApplyIs
<1>11. C!Apply(op, operand1, operand2).n = x /\ C!Apply(op, operand1, operand2).cells = x
  <2>1. C!Apply(op, operand1, operand2) = C!Number(x)
    BY <1>10, ApplyIs
  <2> QED
    BY <2>1 DEF C!Number
<1>12. IF x < 0 THEN at' = "aborted" /\ stack' = stack
       ELSE /\ stack' = Append(SubSeq(stack, 1, n - 2), x)
            /\ live' = live + x - operand1 - operand2
            /\ at' = at
  <2>1. C!Top = operand2 /\ stack[Len(stack) - 1] = operand1 /\ C!Popped(2) = SubSeq(stack, 1, n - 2)
    BY <1>5, <1>8, <1>9 DEF C!Top, C!Popped
  <2>2. ~(Len(stack) < 2)
    BY <1>5
  <2> QED
    BY <1>11, <2>1, <2>2 DEF C!ApplyBinary
<1>13. PICK v : v = C!Values(line)
  OBVIOUS
<1>14. PICK y : y = C!Sense(w, Len(line) + 1, C!Left(v, v[Len(line)]), v[Len(line)])
  OBVIOUS
<1>15. ASSUME NEW e, Ends(line, stack, e) PROVE y = [value |-> x, from |-> e[m] + 1] /\ e[m] \in Nat
  <2>1. v[Len(line)].value = operand2
    <3>1. C!Values(line)[Len(line)] = [value |-> stack[n], from |-> e[n - 1] + 1] /\ e[n - 1] \in Nat
      <4>1. PICK k : k = Len(stack)
        OBVIOUS
      <4>2. Typeable(line) /\ stack \in Seq(Nat) /\ k > 0 /\ k = n
        BY <1>4, <1>5, <4>1
      <4>3. C!Values(line)[Len(line)] = [value |-> stack[k], from |-> e[k - 1] + 1] /\ e[k - 1] \in Nat
        BY <1>15, <4>1, <4>2, TopRead
      <4> QED
        BY <4>2, <4>3
    <3> QED
      BY <1>8, <1>13, <3>1
  <2>2. C!Left(v, v[Len(line)]) = [value |-> stack[n - 1], from |-> e[n - 2] + 1] /\ e[n - 2] \in Nat
    BY <1>4, <1>5, <1>13, <1>15, TwoRead
  <2>3. C!Left(v, v[Len(line)]) = [value |-> operand1, from |-> e[m] + 1] /\ e[m] \in Nat
    BY <1>6, <1>9, <2>2
  <2>4. y = [value |-> C!Arithmetic(op, operand1, operand2), from |-> e[m] + 1]
    BY <1>2, <1>14, <2>1, <2>3 DEF C!Sense
  <2> QED
    BY <1>10, <2>3, <2>4
<1>16. CASE x < 0
  <2>1. PICK e : Ends(line, stack, e)
    BY <1>3, AtAWord
  <2>2. PICK a \in Nat : a = e[m]
    BY <1>15, <2>1
  <2>3. y.value = x /\ y.from = a + 1 /\ a + 1 > 0
    BY <1>15, <2>1, <2>2
  <2>4. y.from > 0 /\ y.value < 0
    BY <1>16, <2>3
  <2>5. at' = "aborted" /\ stack' \in Seq(Nat)
    BY <1>4, <1>12, <1>16
  <2> QED
    BY <1>2, <1>4, <1>13, <1>14, <2>4, <2>5, GivesUp
<1>17. CASE ~(x < 0)
  <2>1. x \in Nat
    BY <1>17
  <2>2. stack' = Append(SubSeq(stack, 1, m), x) /\ live' = live + x - operand1 - operand2 /\ at' = at
    BY <1>6, <1>12, <1>17
  <2>3. ASSUME NEW e, Ends(line, stack, e)
        PROVE  C!Sense(w, Len(line) + 1, C!Left(v, v[Len(line)]), v[Len(line)]) = [value |-> x, from |-> e[m] + 1]
    BY <1>14, <1>15, <2>3
  <2>4. ASSUME NEW t, Cells(stack, t, live) PROVE live' = t[m] + x
    <3>1. live = t[n] /\ t[n] = t[n - 1] + operand2 /\ t[n - 1] = t[(n - 1) - 1] + operand1
      BY <1>5, <1>7, <1>8, <1>9, <2>4 DEF Cells
    <3>2. t[m] \in Nat
      BY <2>4 DEF Cells
    <3>3. (n - 1) - 1 = m
      BY <1>6
    <3>4. PICK a \in Nat : a = t[m]
      BY <3>2
    <3>5. live = a + operand1 + operand2
      BY <3>1, <3>3, <3>4
    <3> QED
      BY <2>2, <3>4, <3>5
  <2> QED
    BY <1>2, <1>4, <1>13, <2>1, <2>2, <2>3, <2>4, Pushes
<1> QED
  BY <1>16, <1>17

(* A number off the stack after the line.                                  *)
LEMMA PopKeeps ==
  ASSUME CalcInv, at \in {"line", "clear"}, stack # <<>>, at' = "clear", line' = line,
         stack' = C!Popped(1), live' = live - C!Top, C!RightAnswer'
  PROVE  CalcInv'
<1>1. Typeable(line) /\ stack \in Seq(Nat) /\ InUse
  BY DEF CalcInv
<1>2. PICK l, s, c : l = line' /\ s = stack' /\ c = live'
  OBVIOUS
<1>3. l = line /\ s = SubSeq(stack, 1, Len(stack) - 1) /\ c = live - stack[Len(stack)]
  BY <1>2 DEF C!Popped, C!Top
<1>4. PICK t : Cells(stack, t, live)
  BY <1>1, CalcNow
<1>5. s \in Seq(Nat) /\ Cells(s, t, c)
  BY <1>1, <1>3, <1>4, CellsPopped
<1>6. InUse' /\ Typeable(line)'
  BY <1>1, <1>2, <1>3, <1>5, CalcNext
<1> QED
  BY <1>2, <1>5, <1>6 DEF CalcInv

LEMMA SameMeaning == line' = line => C!Meaning' = C!Meaning
<1> SUFFICES ASSUME line' = line PROVE C!Meaning' = C!Meaning
  OBVIOUS
<1>1. PICK l, s, c : l = line' /\ s = stack' /\ c = live'
  OBVIOUS
<1> QED
  BY <1>1, CalcNext, CalcNow

LEMMA EndLineKeeps == CalcInv /\ C!EndLine => CalcInv'
<1> SUFFICES ASSUME CalcInv, C!EndLine PROVE CalcInv'
  OBVIOUS
<1>1. at = "line" /\ line' = line
  BY DEF C!EndLine
<1>2. Typeable(line) /\ stack \in Seq(Nat)
  BY DEF CalcInv
<1>3. PICK e : Ends(line, stack, e)
  BY <1>1, CalcNow DEF CalcInv
<1>4. PICK v : v = C!Values(line)
  OBVIOUS
<1>5. C!Meaning' = v[Len(line)]
  BY <1>1, <1>4, SameMeaning, CalcNow
<1>6. CASE stack = <<>>
  <2>1. at' = "returned 1" /\ stack' = stack /\ live' = live
    BY <1>6 DEF C!EndLine
  <2>2. v[Len(line)].from = 0
    BY <1>2, <1>3, <1>4, <1>6, NothingRead
  <2>3. Typeable(line)'
    BY <1>1, <1>2, <2>1, CalcNext
  <2> QED
    BY <1>2, <1>5, <2>1, <2>2, <2>3 DEF CalcInv, C!RightAnswer
<1>7. CASE stack # <<>>
  <2>1. /\ answer' = C!NumberToUnsigned(C!Top) /\ live' = live - C!Top /\ stack' = C!Popped(1)
        /\ at' = "clear"
    BY <1>7 DEF C!EndLine
  <2>2. PICK n : n = Len(stack)
    OBVIOUS
  <2>3. n > 0 /\ C!Top = stack[n]
    BY <1>2, <1>7, <2>2 DEF C!Top
  <2>4. C!Values(line)[Len(line)] = [value |-> stack[n], from |-> e[n - 1] + 1] /\ e[n - 1] \in Nat
    BY <1>2, <1>3, <2>2, <2>3, TopRead
  <2>5. PICK a \in Nat : a = e[n - 1]
    BY <2>4
  <2>6. C!Meaning'.value = C!Top /\ C!Meaning'.from = a + 1
    BY <1>4, <1>5, <2>3, <2>4, <2>5
  <2>7. a + 1 > 0
    OBVIOUS
  <2>8. C!RightAnswer'
    BY <2>1, <2>6, <2>7 DEF C!RightAnswer, C!NumberToUnsigned
  <2> QED
    BY <1>1, <1>7, <2>1, <2>8, PopKeeps
<1> QED
  BY <1>6, <1>7

LEMMA ClearKeeps == CalcInv /\ C!ClearStack => CalcInv'
<1> SUFFICES ASSUME CalcInv, C!ClearStack PROVE CalcInv'
  OBVIOUS
<1>1. at = "clear" /\ line' = line /\ answer' = answer
  BY DEF C!ClearStack
<1>2. C!Meaning' = C!Meaning
  BY <1>1, SameMeaning
<1>3. CASE stack = <<>>
  <2>1. at' = "prompt" /\ stack' = stack /\ live' = live
    BY <1>3 DEF C!ClearStack
  <2>2. PICK l, s, c : l = line' /\ s = stack' /\ c = live'
    OBVIOUS
  <2>3. l = line /\ s = stack /\ c = live
    BY <1>1, <2>1, <2>2
  <2>4. InUse' /\ Typeable(line)'
    BY <1>1, <2>2, <2>3, CalcNext, CalcNow DEF CalcInv
  <2> QED
    BY <1>1, <1>3, <2>1, <2>4 DEF CalcInv, C!RightAnswer
<1>4. CASE stack # <<>>
  <2>1. live' = live - C!Top /\ stack' = C!Popped(1) /\ at' = at
    BY <1>4 DEF C!ClearStack
  <2>2. C!RightAnswer'
    BY <1>1, <1>2, <2>1 DEF CalcInv, C!RightAnswer
  <2> QED
    BY <1>1, <1>4, <2>1, <2>2, PopKeeps
<1> QED
  BY <1>3, <1>4

LEMMA CalcSteps == CalcInv /\ C!Next => CalcInv'
BY GetLineKeeps, PushKeeps, BinaryGivesUp, BinaryKeeps, UnaryKeeps, SkipKeeps, EndLineKeeps, ClearKeeps DEF C!Next

LEMMA CalcRight == CalcInv => C!RightAnswer /\ C!NothingLeaks
<1> SUFFICES ASSUME CalcInv, at = "prompt" PROVE live = 0 /\ stack = <<>>
  BY DEF CalcInv, C!NothingLeaks
<1>1. stack = <<>> /\ InUse
  BY DEF CalcInv
<1> QED
  BY <1>1 DEF InUse, Cells

-------------------------------------------------------------------------------
(* The composition: whichever listing runs, the others rest.               *)
ListingsInv ==
  /\ program = "semaphore" => SemInv
  /\ program = "loop" => LoopInv
  /\ program = "bank" => BankInv
  /\ program = "end" => EndInv
  /\ program = "options" => OptInv
  /\ program = "calculator" => CalcInv

LEMMA ListingsStart == MCInit => ListingsInv
BY CalcStarts, SemStarts, LoopStarts, BankStarts, EndStarts, OptStarts DEF MCInit, ListingsInv

LEMMA ListingsStep == ListingsInv /\ [MCNext]_allVars => ListingsInv'
<1> SUFFICES ASSUME ListingsInv, [MCNext]_allVars PROVE ListingsInv'
  OBVIOUS
<1>1. UNCHANGED program
  BY DEF MCNext, allVars
<1>2. ASSUME program = "semaphore" PROVE SemInv'
  BY <1>2, SemSteps, SemStays DEF MCNext, allVars, ListingsInv
<1>3. ASSUME program = "loop" PROVE LoopInv'
  BY <1>3, LoopSteps, LoopStays DEF MCNext, allVars, ListingsInv
<1>4. ASSUME program = "end" PROVE EndInv'
  BY <1>4, EndSteps, EndStays DEF MCNext, allVars, ListingsInv
<1>5. ASSUME program = "bank" PROVE BankInv'
  BY <1>5, BankSteps, BankStays DEF MCNext, allVars, ListingsInv
<1>6. ASSUME program = "options" PROVE OptInv'
  BY <1>6, OptSteps, OptStays DEF MCNext, allVars, ListingsInv
<1>7. ASSUME program = "calculator" PROVE CalcInv'
  BY <1>7, CalcSteps, CalcStays DEF MCNext, allVars, ListingsInv
<1> QED
  BY <1>1, <1>2, <1>3, <1>4, <1>5, <1>6, <1>7 DEF ListingsInv

(***************************************************************************)
(* Two processes are never inside (sem_pv.c:14-41), however many there     *)
(* are, in whatever order they come, and wherever they are killed.         *)
(***************************************************************************)
THEOREM Excludes == MCSpec => []MutualExclusion
<1>1. ListingsInv => MutualExclusion
  BY DEF ListingsInv, SemInv, MutualExclusion
<1> QED
  BY <1>1, ListingsStart, ListingsStep, PTL DEF MCSpec

(***************************************************************************)
(* For any number of bytes or units of time and any width of size_t: a     *)
(* loop that reports no error has done all of it, better_sleep however     *)
(* often interrupted, the others as WholeOrError says.                     *)
(***************************************************************************)
THEOREM LoopsDoAll == MCSpec => []WholeOrError
<1>1. ListingsInv => WholeOrError
  BY LoopWhole DEF ListingsInv, WholeOrError
<1> QED
  BY <1>1, ListingsStart, ListingsStep, PTL DEF MCSpec

(***************************************************************************)
(* For any accounts, tellers, amounts and digits of a float: as long as no *)
(* two transactions overlap, wherever a thread is cancelled each has       *)
(* happened as a whole or not at all, and while no result is rounded no    *)
(* money is made or lost (critical-section.c:19-36).                       *)
(***************************************************************************)
THEOREM MoneyStays == MCSpec => []MoneyConserved
<1>1. ListingsInv => MoneyConserved
  BY BankConserves DEF ListingsInv, MoneyConserved
<1> QED
  BY <1>1, ListingsStart, ListingsStep, PTL DEF MCSpec

(***************************************************************************)
(* For any number of threads, each of them created or not, and whichever   *)
(* way it ends: what it held is released once, and none is left to use     *)
(* main's variables when main returns, but for the detached one.           *)
(***************************************************************************)
THEOREM NothingIsLeft == MCSpec => []LeavesNothing
<1>1. ListingsInv => LeavesNothing
  BY EndLeaves DEF ListingsInv, LeavesNothing
<1> QED
  BY <1>1, ListingsStart, ListingsStep, PTL DEF MCSpec

(***************************************************************************)
(* For command lines of any length and any ports: the last option of each  *)
(* kind holds, the first word that cannot be obeyed decides the exit, and  *)
(* arguments are taken wherever they stand, in order (main.c:75-162,       *)
(* getopt_long.c:55-95).                                                   *)
(***************************************************************************)
THEOREM ObeysTheOptions == MCSpec => []DoesAsTold
<1>1. ListingsInv => DoesAsTold
  BY DEF ListingsInv, OptInv, DoesAsTold
<1> QED
  BY <1>1, ListingsStart, ListingsStep, PTL DEF MCSpec

(***************************************************************************)
(* For any numerals, any width of unsigned int and lines of any length:    *)
(* the number printed is the value of the expression the line ends with,   *)
(* the program gives up only on a line that ends in none and aborts only   *)
(* on a subtraction below zero, and between two lines no cell is in use    *)
(* (calculator.c:58-100, number.c, stack.c).                               *)
(***************************************************************************)
THEOREM CalculatesRight == MCSpec => []RightAnswer
<1>1. ListingsInv => RightAnswer
  BY CalcRight DEF ListingsInv, RightAnswer
<1> QED
  BY <1>1, ListingsStart, ListingsStep, PTL DEF MCSpec
===============================================================================
