----------------------------- MODULE RunSpecial -----------------------------
(***************************************************************************)
(* run_special of dsh (prog2/special.c): the shell runs the commands of a  *)
(* pipeline one after the other.  For each it calls pipe, forks, waits for *)
(* the child to end, closes the write end and keeps the read end as the    *)
(* input of the next child.  Shell and child are two processes, each with  *)
(* its descriptor table; pipes are shared and bounded.                     *)
(*                                                                         *)
(* A program is what a pipeline can tell of it: whether execvp finds it,   *)
(* whether it reads its input to the end, how many blocks it writes, and   *)
(* its exit code.  The kernel's side (pipe, dup2, read, write) is modelled *)
(* as far as run_special relies on it.                                     *)
(***************************************************************************)
EXTENDS Integers, Sequences, FiniteSets, FiniteSetsExt

CONSTANTS
  Jobs,        \* the pipelines the user may type
  MaxJobs,     \* how many of them one session runs
  FdLimit,     \* descriptors a process may have open
  Capacity,    \* blocks a pipe holds before a writer blocks
  ForkMayFail  \* whether fork may return -1

Program == [found : BOOLEAN, reads : BOOLEAN, out : Nat, code : 0..255]
Flags   == {"REDIR_STDIN", "REDIR_STDOUT_W", "REDIR_STDOUT_A",
            "LOCAL_HOST", "REMOTE_HOST"}
Fds     == 0..(FdLimit - 1)

(* What a descriptor refers to.  Pipes are numbered; one that no process   *)
(* holds gives its number back.                                            *)
PipeIds == 1..(2 * FdLimit)
Tty     == <<0, "tty">>
File    == <<0, "file">>
Socket  == <<0, "socket">>
Closed  == <<0, "closed">>
Object  == {Tty, File, Socket, Closed} \cup (PipeIds \X {"r", "w"})

ASSUME JobsAssumption ==
  \A j \in Jobs : j.mode \subseteq Flags /\ j.progs \in Seq(Program) \ {<<>>}
ASSUME LimitsAssumption ==
  MaxJobs \in Nat /\ FdLimit \in Nat /\ FdLimit > 3
    /\ Capacity \in Nat \ {0} /\ ForkMayFail \in BOOLEAN

VARIABLES
  pc,        \* the shell: "idle" | "pipe" | "fork" | "wait" | "exited"
  njobs,     \* pipelines started so far
  job,       \* the pipeline being run, or the last one
  k,         \* its current command, an index into the arg_lists
  table,     \* the shell's descriptors
  p,         \* p[2], as <<p[0], p[1]>>
  fdin,      \* fd_in
  ret,       \* what run_special returned last
  child,     \* the forked process
  contents,  \* the blocks in each pipe
  log        \* per command reaped: what it had read and its status

vars == <<pc, njobs, job, k, table, p, fdin, ret, child, contents, log>>

NoChild == [at |-> "none", table |-> [f \in Fds |-> Closed],
            left |-> 0, got |-> <<>>, ran |-> FALSE, code |-> 0]

Init ==
  /\ pc = "idle"
  /\ njobs = 0
  /\ job \in Jobs
  /\ k = 1
  /\ table = [f \in Fds |-> IF f < 3 THEN Tty ELSE Closed]
  /\ p = <<-1, -1>>
  /\ fdin = 0
  /\ ret = 0
  /\ child = NoChild
  /\ contents = [i \in PipeIds |-> <<>>]
  /\ log = <<>>

Prog == job.progs[k]

(* dref(cmd + 1) == NULL *)
IsLast == k = Len(job.progs)

Block  == <<njobs, k>>

Free(t)       == {f \in Fds : t[f] = Closed}
Dup2(t, f, g) == IF f \in Fds /\ t[f] # Closed THEN [t EXCEPT ![g] = t[f]] ELSE t
Close(t, f)   == IF f \in Fds THEN [t EXCEPT ![f] = Closed] ELSE t
Holds(t, end) == \E f \in Fds : t[f] = end

-----------------------------------------------------------------------------
(* The shell.                                                              *)

(* run_special is entered with the parsed line; p[2] is uninitialised. *)
Start ==
  /\ pc = "idle"
  /\ njobs < MaxJobs
  /\ job' \in Jobs
  /\ njobs' = njobs + 1
  /\ k' = 1
  /\ fdin' = 0
  /\ log' = <<>>
  /\ pc' = "pipe"
  /\ UNCHANGED <<table, p, ret, child, contents>>

(* pipe(p) takes the two lowest free descriptors. *)
PipeMade ==
  /\ pc = "pipe"
  /\ Cardinality(Free(table)) >= 2
  /\ LET f == Min(Free(table))
         g == Min(Free(table) \ {f})
         i == Min({n \in PipeIds : \A e \in {"r", "w"} : ~Holds(table, <<n, e>>)})
     IN  /\ table' = [table EXCEPT ![f] = <<i, "r">>, ![g] = <<i, "w">>]
         /\ p' = <<f, g>>
         /\ contents' = [contents EXCEPT ![i] = <<>>]
  /\ pc' = "fork"
  /\ UNCHANGED <<njobs, job, k, fdin, ret, child, log>>

(* Its result is not looked at: without two free descriptors p keeps what  *)
(* the previous command left, or holds garbage at the first one.           *)
PipeFails ==
  /\ pc = "pipe"
  /\ Cardinality(Free(table)) < 2
  /\ IF k = 1 THEN p' \in (Fds \cup {-1}) \X (Fds \cup {-1}) ELSE UNCHANGED p
  /\ pc' = "fork"
  /\ UNCHANGED <<njobs, job, k, table, fdin, ret, child, contents, log>>

Fork ==
  /\ pc = "fork"
  /\ child' = [NoChild EXCEPT !.at = "stdio", !.table = table, !.left = Prog.out]
  /\ pc' = "wait"
  /\ UNCHANGED <<njobs, job, k, table, p, fdin, ret, contents, log>>

(* The first command's fork failure is returned, a later one's ends dsh. *)
ForkFails ==
  /\ pc = "fork"
  /\ ForkMayFail
  /\ IF k = 1 THEN pc' = "idle" /\ ret' = -3 ELSE pc' = "exited" /\ UNCHANGED ret
  /\ UNCHANGED <<njobs, job, k, table, p, fdin, child, contents, log>>

(* What the properties remember of a command that has ended. *)
Entry == [got |-> child.got, out |-> Prog.out - child.left,
          ran |-> child.ran, status |-> 256 * child.code]

(* Mutation: the status is not looked at (as in prog2/prog2/special.c). *)
NoFailure == FALSE

(* status == 256 *)
Failed == child.code = 1

(* wait(&status) with the status of exit(1): reported as a command that    *)
(* was not found; nothing is closed.                                       *)
ReapFailed ==
  /\ pc = "wait"
  /\ child.at = "exited"
  /\ Failed
  /\ log' = Append(log, Entry)
  /\ child' = NoChild
  /\ ret' = -1
  /\ pc' = "idle"
  /\ UNCHANGED <<njobs, job, k, table, p, fdin, contents>>

(* Mutation: the write end stays open in the shell. *)
KeepWriteEnd(t) == t

(* Mutation: the previous input is closed too, the terminal included. *)
DropOldInput(t) == Close(Close(t, p[2]), fdin)

(* close(p[1]) *)
DropWriteEnd(t) == Close(t, p[2])

(* fd_in = p[0] *)
NextInput == p[1]

(* Any other status: the read end becomes the next command's input. *)
ReapDone ==
  /\ pc = "wait"
  /\ child.at = "exited"
  /\ ~Failed
  /\ log' = Append(log, Entry)
  /\ child' = NoChild
  /\ table' = DropWriteEnd(table)
  /\ fdin' = NextInput
  /\ IF IsLast THEN pc' = "idle" /\ ret' = 0 /\ UNCHANGED k
               ELSE pc' = "pipe" /\ k' = k + 1 /\ UNCHANGED ret
  /\ UNCHANGED <<njobs, job, p, contents>>

-----------------------------------------------------------------------------
(* The child, up to execvp.                                                *)

(* The standard input of the first command: a file, or a socket from       *)
(* dclient, which takes the lowest free descriptor if there is one.  The   *)
(* table, and the descriptor that is then dup2'ed to the standard input.   *)
FirstInput(t) ==
  IF "REDIR_STDIN" \in job.mode
    THEN {<<[t EXCEPT ![0] = o], 0>> : o \in {File, Closed}}
  ELSE IF "REMOTE_HOST" \in job.mode
    THEN IF Free(t) = {} THEN {<<t, -1>>}
         ELSE {<<[t EXCEPT ![Min(Free(t))] = Socket], Min(Free(t))>>}
  ELSE {<<t, fdin>>}

(* The standard output: the pipe but for the last command, which writes to *)
(* the file given, if it opens. (The socket takes an accept: see below.)   *)
Output(t) ==
  IF ~IsLast THEN {Dup2(t, p[2], 1)}
  ELSE IF job.mode \cap {"REDIR_STDOUT_W", "REDIR_STDOUT_A"} # {}
    THEN {[t EXCEPT ![1] = o] : o \in {File, Closed}}
  ELSE {t}

ListensFirst ==
  IsLast /\ "LOCAL_HOST" \in job.mode
         /\ job.mode \cap {"REDIR_STDOUT_W", "REDIR_STDOUT_A"} = {}

(* Input and output of the child, in the order of its branch. *)
ChildStdio ==
  /\ child.at = "stdio"
  /\ \E in \in IF k = 1 THEN FirstInput(child.table)
                        ELSE {<<Dup2(child.table, fdin, 0), 0>>} :
       \E t \in Output(in[1]) :
         child' = [child EXCEPT !.table = Dup2(t, in[2], 0),
                                !.at = IF ListensFirst THEN "accept" ELSE "exec"]
  /\ UNCHANGED <<pc, njobs, job, k, table, p, fdin, ret, contents, log>>

(* dclient: no such host, and the child leaves by exit(0). *)
HostUnknown ==
  /\ child.at = "stdio"
  /\ k = 1 /\ "REMOTE_HOST" \in job.mode /\ "REDIR_STDIN" \notin job.mode
  /\ child' = [child EXCEPT !.at = "exited"]
  /\ UNCHANGED <<pc, njobs, job, k, table, p, fdin, ret, contents, log>>

(* dserver: accept returns when a peer connects, or fails, and then the    *)
(* standard output stays as it was.                                        *)
Accepted ==
  /\ child.at = "accept"
  /\ \E t \in {child.table, [child.table EXCEPT ![1] = Socket]} :
       child' = [child EXCEPT !.at = "exec", !.table = t]
  /\ UNCHANGED <<pc, njobs, job, k, table, p, fdin, ret, contents, log>>

(* close(p[0]), then execvp, which returns only when it failed. *)
Exec ==
  /\ child.at = "exec"
  /\ child' = [child EXCEPT !.table = Close(@, p[1]),
                            !.at = IF Prog.found THEN "run" ELSE "exited",
                            !.ran = Prog.found,
                            !.code = IF Prog.found THEN 0 ELSE 1]
  /\ UNCHANGED <<pc, njobs, job, k, table, p, fdin, ret, contents, log>>

-----------------------------------------------------------------------------
(* The program the child has become, and the pipes of the kernel.          *)

ReadsPipe(i)  == child.at = "run" /\ Prog.reads /\ child.table[0] = <<i, "r">>
WritesPipe(i) == child.at = "run" /\ child.table[1] = <<i, "w">>

Read(i) ==
  /\ ReadsPipe(i)
  /\ contents[i] # <<>>
  /\ child' = [child EXCEPT !.got = Append(@, Head(contents[i]))]
  /\ contents' = [contents EXCEPT ![i] = Tail(@)]
  /\ UNCHANGED <<pc, njobs, job, k, table, p, fdin, ret, log>>

(* A write to a full pipe blocks: some process still holds the read end. *)
Write(i) ==
  /\ WritesPipe(i)
  /\ child.left > 0
  /\ Len(contents[i]) < Capacity
  /\ child' = [child EXCEPT !.left = @ - 1]
  /\ contents' = [contents EXCEPT ![i] = Append(@, Block)]
  /\ UNCHANGED <<pc, njobs, job, k, table, p, fdin, ret, log>>

(* Output to a terminal, file or socket, or to a descriptor that is not    *)
(* open for writing, does not wait.                                        *)
WriteElsewhere ==
  /\ child.at = "run"
  /\ \A i \in PipeIds : ~WritesPipe(i)
  /\ child.left > 0
  /\ child' = [child EXCEPT !.left = @ - 1]
  /\ UNCHANGED <<pc, njobs, job, k, table, p, fdin, ret, contents, log>>

(* End of file on a pipe: empty, and its write end open in no process. *)
AtEof(i) ==
  /\ contents[i] = <<>>
  /\ ~Holds(table, <<i, "w">>)
  /\ ~Holds(child.table, <<i, "w">>)

ProgramExits ==
  /\ child.at = "run"
  /\ child.left = 0
  /\ \A i \in PipeIds : ReadsPipe(i) => AtEof(i)
  /\ child' = [child EXCEPT !.at = "exited", !.code = Prog.code]
  /\ UNCHANGED <<pc, njobs, job, k, table, p, fdin, ret, contents, log>>

-----------------------------------------------------------------------------
Shell == PipeMade \/ PipeFails \/ Fork \/ ForkFails \/ ReapFailed \/ ReapDone

Child ==
  \/ ChildStdio \/ HostUnknown \/ Exec \/ WriteElsewhere \/ ProgramExits
  \/ \E i \in PipeIds : Read(i) \/ Write(i)

Next == Start \/ Shell \/ Child \/ Accepted

(* Both processes get the processor.  Nobody need type a pipeline, and     *)
(* nobody need connect to dserver.                                         *)
Spec == Init /\ [][Next]_vars /\ WF_vars(Shell) /\ WF_vars(Child)

-----------------------------------------------------------------------------
(***************************************************************************)
(* Every variable has its type (run_special's locals, the processes'       *)
(* descriptor tables and the pipes).                                       *)
(***************************************************************************)
TypeOK ==
  /\ pc \in {"idle", "pipe", "fork", "wait", "exited"}
  /\ njobs \in 0..MaxJobs
  /\ job \in Jobs
  /\ k \in 1..Len(job.progs)
  /\ table \in [Fds -> Object]
  /\ p \in (Fds \cup {-1}) \X (Fds \cup {-1})
  /\ fdin \in Fds \cup {-1}
  /\ ret \in {0, -1, -3}
  /\ child.at \in {"none", "stdio", "accept", "exec", "run", "exited"}
  /\ child.table \in [Fds -> Object]
  /\ child.left \in Nat
  /\ \A i \in PipeIds : Len(contents[i]) <= Capacity
  /\ Len(log) <= Len(job.progs)

(***************************************************************************)
(* No command waits for input that cannot end, and none is killed for      *)
(* writing: when a program reads a pipe, no process (itself included)      *)
(* still holds its write end, and when it writes one, the shell holds the  *)
(* read end.                                                               *)
(***************************************************************************)
PipesStayUsable ==
  \A i \in PipeIds :
    /\ ReadsPipe(i)  => ~Holds(table, <<i, "w">>) /\ ~Holds(child.table, <<i, "w">>)
    /\ WritesPipe(i) => Holds(table, <<i, "r">>)

(***************************************************************************)
(* The shell's own standard descriptors survive every pipeline: no close   *)
(* of run_special hits one it did not open.                                *)
(***************************************************************************)
StdioIntact == \A f \in 0..2 : table[f] = Tty

(***************************************************************************)
(* Every pipeline that does not wait for a peer to connect ends, with the  *)
(* shell back at its prompt unless a later command's fork failed           *)
(* (special.c:509-515).                                                    *)
(***************************************************************************)
Returns ==
  pc = "pipe" /\ "LOCAL_HOST" \notin job.mode
    ~> pc = "idle" \/ (ForkMayFail /\ pc = "exited")
=============================================================================
