-------------------------------- MODULE Systat --------------------------------
(***************************************************************************)
(* systat and cmdnm of dsh (prog2/run.c): a thread per file of /proc fills *)
(* a buffer on the stack of the calling thread, which creates the threads, *)
(* joins them in order and prints each buffer.  cmdnm is the same with one *)
(* thread, whose buffer also holds the path it opens.                      *)
(*                                                                         *)
(* A buffer is "empty", "path", "header" (what is written before the file  *)
(* is read), "part" or "whole".                                            *)
(***************************************************************************)
EXTENDS Integers, Sequences

CONSTANTS
  Sections,      \* systat's threads: 4
  Memfo,         \* the one that writes its header before the file is opened
  ThreadMayFail  \* whether pthread_create may fail

VARIABLES
  job,      \* "systat" | "cmdnm"
  pc,       \* "create" | "join" | "print" | "returned" | "aborted" | "crashed"
  index,    \* the loop variable of either loop
  thread,   \* where each thread is
  buffer,   \* buffer[i]
  printed   \* what was printed, in order

vars == <<job, pc, index, thread, buffer, printed>>

Threads == 1..Sections
N == IF job = "systat" THEN Sections ELSE 1

Init ==
  /\ job \in {"systat", "cmdnm"}
  /\ pc = "create"
  /\ index = 1
  /\ thread = [i \in Threads |-> "none"]
  /\ buffer = [i \in Threads |-> IF job = "systat" THEN "empty" ELSE "path"]
  /\ printed = <<>>

-----------------------------------------------------------------------------
(* The calling thread.                                                     *)

(* Mutation: the last thread is not created. *)
CreateTooFew ==
  /\ pc = "create"
  /\ \/ /\ thread' = [thread EXCEPT ![index] = "open"]
        /\ IF index >= N - 1 THEN pc' = "join" /\ index' = 1
                             ELSE UNCHANGED pc /\ index' = index + 1
     \/ /\ ThreadMayFail
        /\ pc' = "aborted"
        /\ UNCHANGED <<thread, index>>
  /\ UNCHANGED <<job, buffer, printed>>

(* pthread_create, and the assert on its result. *)
Create ==
  /\ pc = "create"
  /\ \/ /\ thread' = [thread EXCEPT ![index] = "open"]
        /\ IF index = N THEN pc' = "join" /\ index' = 1
                        ELSE UNCHANGED pc /\ index' = index + 1
     \/ /\ ThreadMayFail
        /\ pc' = "aborted"
        /\ UNCHANGED <<thread, index>>
  /\ UNCHANGED <<job, buffer, printed>>

(* Mutation: the thread is not waited for. *)
JoinNobody ==
  /\ pc = "join"
  /\ pc' = "print"
  /\ UNCHANGED <<job, index, thread, buffer, printed>>

(* pthread_join *)
Join ==
  /\ pc = "join"
  /\ thread[index] = "exited"
  /\ pc' = "print"
  /\ UNCHANGED <<job, index, thread, buffer, printed>>

(* The buffer is printed as it is.  After the last one 0 is returned, even *)
(* if a file could not be read or the process cmdnm asks for is not there. *)
PrintBuffer ==
  /\ pc = "print"
  /\ printed' = Append(printed, buffer[index])
  /\ IF index = N THEN pc' = "returned" /\ UNCHANGED index
                  ELSE pc' = "join" /\ index' = index + 1
  /\ UNCHANGED <<job, thread, buffer>>

-----------------------------------------------------------------------------
(* The threads.                                                            *)

Alive == pc \notin {"aborted", "crashed"}

Step(i, from, to) == Alive /\ thread[i] = from /\ thread' = [thread EXCEPT ![i] = to]

(* fopen: a thread that cannot open its file leaves at once, except that   *)
(* systat_getMemfo writes its header first.                                *)
Open(i) ==
  /\ \/ /\ Step(i, "open", "header") /\ UNCHANGED buffer
     \/ /\ Step(i, "open", "exited")
        /\ buffer' = IF job = "systat" /\ i = Memfo
                     THEN [buffer EXCEPT ![i] = "header"] ELSE buffer
  /\ UNCHANGED <<job, pc, index, printed>>

(* systat's threads write a header, cmdnm's does not. *)
Header(i) ==
  /\ Step(i, "header", "lines")
  /\ buffer' = IF job = "systat" THEN [buffer EXCEPT ![i] = "header"] ELSE buffer
  /\ UNCHANGED <<job, pc, index, printed>>

(* The lines of the file are appended one by one.  A process that is gone  *)
(* by now has an empty comm, and cmdnm's fscanf matches nothing.           *)
Lines(i) ==
  /\ \/ Step(i, "lines", "more") /\ buffer' = [buffer EXCEPT ![i] = "part"]
     \/ job = "cmdnm" /\ Step(i, "lines", "close") /\ UNCHANGED buffer
  /\ UNCHANGED <<job, pc, index, printed>>

More(i) ==
  /\ Step(i, "more", "close")
  /\ buffer' = [buffer EXCEPT ![i] = "whole"]
  /\ UNCHANGED <<job, pc, index, printed>>

(* fclose; then systat's threads call clearerr on the stream they closed,  *)
(* which writes to freed memory: nothing comes of it, or the process dies. *)
CloseFile(i) ==
  /\ Step(i, "close", "exited")
  /\ pc' \in {pc} \cup (IF job = "systat" THEN {"crashed"} ELSE {})
  /\ UNCHANGED <<job, index, buffer, printed>>

-----------------------------------------------------------------------------
Caller  == Create \/ Join \/ PrintBuffer
Work(i) == Open(i) \/ Header(i) \/ Lines(i) \/ More(i) \/ CloseFile(i)

Next == Caller \/ \E i \in Threads : Work(i)

(* Every thread runs until it ends; reading /proc does not block. *)
Fairness == WF_vars(Caller) /\ \A i \in Threads : WF_vars(Work(i))

Spec == Init /\ [][Next]_vars /\ Fairness

-----------------------------------------------------------------------------
(***************************************************************************)
(* Every variable has its type (the locals of systat and cmdnm, and of     *)
(* their threads).                                                         *)
(***************************************************************************)
TypeOK ==
  /\ job \in {"systat", "cmdnm"}
  /\ pc \in {"create", "join", "print", "returned", "aborted", "crashed"}
  /\ index \in 1..N
  /\ thread \in [Threads -> {"none", "open", "header", "lines", "more", "close", "exited"}]
  /\ buffer \in [Threads -> {"empty", "path", "header", "part", "whole"}]
  /\ pc \in {"join", "print"} => Len(printed) = index - 1

(***************************************************************************)
(* What is printed is final: in the order version, uptime, memory, CPU,    *)
(* whatever the order the threads end in, and a buffer printed is never    *)
(* written again, so no section comes out in part.                         *)
(***************************************************************************)
PrintsFinishedBuffers ==
  \A i \in 1..Len(printed) :
    thread[i] = "exited" /\ printed[i] = buffer[i] /\ buffer[i] # "part"

(***************************************************************************)
(* The buffers are locals of the caller: when it returns, no thread that   *)
(* could still write to its stack frame is left.                           *)
(***************************************************************************)
NoThreadOutlives == pc = "returned" => \A i \in Threads : thread[i] \in {"none", "exited"}

(***************************************************************************)
(* The shell gets its command back: every thread that is joined was        *)
(* created and ends, whatever it finds in /proc and in whatever order the  *)
(* threads run, unless an assert or the use of a closed stream ends it.    *)
(***************************************************************************)
ComesBack == pc = "create" ~> pc \in {"returned", "aborted", "crashed"}

=============================================================================
