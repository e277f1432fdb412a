------------------------------ MODULE MCSessions ------------------------------
(* Sessions of two lines, or of one line late in a long session.           *)
EXTENDS MCRunSpecial

(* Descriptors that the lines before left open: with so many of them the   *)
(* third or the second pipe of a line cannot be made.  (When not even the  *)
(* first can, p is never set, and close(p[1]) may hit any descriptor.)     *)
VARIABLE leaked

EarlierLines ==
  /\ pc = "idle" /\ njobs = 0
  /\ MaxJobs > 0
  /\ leaked' \in {l \in 1..FdLimit : FdLimit - 3 - l \in {2, 3}}
  /\ table' = [f \in Fds |-> IF f < 3 + leaked' THEN table[0] ELSE Closed]
  /\ njobs' = MaxJobs - 1
  /\ UNCHANGED <<pc, job, k, p, fdin, ret, child, contents, log>>

MCInit == Init /\ leaked = 0

MCNext == (Next /\ UNCHANGED leaked) \/ EarlierLines

MCSpec ==
  /\ MCInit
  /\ [][MCNext]_<<vars, leaked>>
  /\ WF_vars(Shell) /\ WF_vars(Child)

Scarce == leaked > 0

(* A line leaves one descriptor per command open and one more; the session *)
(* is short enough for those a process may have.  What happens to the lines*)
(* after that is what EarlierLines is there for.                           *)
ASSUME RoomAssumption ==
  \E l \in 1..FdLimit :
    /\ \A j \in Jobs : Len(j.progs) <= l
    /\ 3 + MaxJobs * (l + 1) <= FdLimit

-----------------------------------------------------------------------------
(* run_special never closes a standard descriptor of the shell, and while  *)
(* pipes can be had every reader comes to an end of file and no writer     *)
(* writes to nobody (special.c:548-606).                                   *)
DescriptorsInOrder == TypeOK /\ StdioIntact /\ (~Scarce => PipesStayUsable)

(* The pipeline a user has in mind, which the sessions that do not run out *)
(* of descriptors implement.                                               *)
Promised == INSTANCE Pipeline WITH
  phase <- IF Scarce THEN "idle" ELSE IF pc \in {"idle", "exited"} THEN pc ELSE "running",
  njobs <- IF Scarce THEN 0 ELSE njobs,
  job   <- IF Scarce \/ njobs = 0 THEN CHOOSE j \in Jobs : TRUE ELSE job,
  done  <- IF Scarce THEN <<>> ELSE log,
  ret   <- IF Scarce THEN 0 ELSE ret

(* run_special implements Pipeline: the commands run one at a time and in  *)
(* order, each on the output of the one before it, up to the first that    *)
(* exits with 1, and the value returned says which way it ended.  Without  *)
(* descriptors it does not: special.c:564 ignores what pipe returns.       *)
KeepsItsPromise == Promised!Spec
=============================================================================
