------------------------------ MODULE Pipeline ------------------------------
(***************************************************************************)
(* What run_special promises, without processes, descriptors or pipes: a   *)
(* pipeline is a sequence of programs, run to the end one after the other, *)
(* where a program that reads gets all that the one before it wrote.       *)
(***************************************************************************)
EXTENDS Integers, Sequences

CONSTANTS Jobs, MaxJobs, ForkMayFail

VARIABLES
  phase,  \* "idle" | "running" | "exited"
  njobs,  \* pipelines started
  job,    \* the pipeline
  done,   \* what each program that has ended had read and written
  ret     \* the result of the last pipeline

vars == <<phase, njobs, job, done, ret>>

Init ==
  /\ phase = "idle"
  /\ njobs = 0
  /\ job \in Jobs
  /\ done = <<>>
  /\ ret = 0

Begin ==
  /\ phase = "idle"
  /\ njobs < MaxJobs
  /\ phase' = "running"
  /\ njobs' = njobs + 1
  /\ job' \in Jobs
  /\ done' = <<>>
  /\ UNCHANGED ret

m    == Len(done) + 1
Prog == job.progs[m]

(* What the program before wrote, block by block. *)
Fed == IF m = 1 \/ ~Prog.reads THEN <<>>
       ELSE [b \in 1..done[m - 1].out |-> <<njobs, m - 1>>]

(* The next program ran to its end. *)
RunsProgram(entry) ==
  entry = [got |-> Fed, out |-> Prog.out, ran |-> TRUE, status |-> 256 * Prog.code]

(* It was not to be found. *)
FindsNone(entry) ==
  /\ ~Prog.found
  /\ entry = [got |-> <<>>, out |-> 0, ran |-> FALSE, status |-> 256]

(* The host whose output the first one was to read is unknown. *)
FindsNoHost(entry) ==
  /\ m = 1 /\ "REMOTE_HOST" \in job.mode
  /\ entry = [got |-> <<>>, out |-> 0, ran |-> FALSE, status |-> 0]

Entry(entry) == (Prog.found /\ RunsProgram(entry)) \/ FindsNone(entry) \/ FindsNoHost(entry)

(* One program: the pipeline ends with it if it fails or is the last one. *)
Step ==
  /\ phase = "running"
  /\ m <= Len(job.progs)
  /\ Len(done') = m /\ SubSeq(done', 1, m - 1) = done
  /\ Entry(done'[m])
  /\ IF done'[m].status = 256 THEN phase' = "idle" /\ ret' = -1
     ELSE IF m = Len(job.progs) THEN phase' = "idle" /\ ret' = 0
     ELSE UNCHANGED <<phase, ret>>
  /\ UNCHANGED <<njobs, job>>

(* No process for the next program. *)
GiveUp ==
  /\ phase = "running"
  /\ ForkMayFail
  /\ IF done = <<>> THEN phase' = "idle" /\ ret' = -3
                    ELSE phase' = "exited" /\ UNCHANGED ret
  /\ UNCHANGED <<njobs, job, done>>

Next == Begin \/ Step \/ GiveUp

Spec == Init /\ [][Next]_vars
=============================================================================
