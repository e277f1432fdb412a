------------------------------ MODULE ForkedPipe ------------------------------
(***************************************************************************)
(* ALP-listings/chapter-5/pipe.c and dup2.c: a parent writes lines through *)
(* stdio to a pipe; its child prints them itself (pipe.c) or has become    *)
(* sort (dup2.c).  pipe.c flushes after each line and does not wait for    *)
(* its child; dup2.c flushes once and waits.                               *)
(***************************************************************************)
EXTENDS Naturals

CONSTANTS Lines,    \* lines written
          Capacity  \* lines the pipe holds

VARIABLES sorts,   \* TRUE for dup2.c
          parent,  \* where the parent is
          child,   \* where the child is, "none" before the fork or without it
          left,    \* lines still to be printed
          held,    \* lines in the parent's stdio buffer
          inPipe,  \* lines in the pipe
          writers, \* who has the write end open
          readers, \* who has the read end open
          printed  \* lines the child, or sort, has read

pipeVars == <<sorts, parent, child, left, held, inPipe, writers, readers, printed>>

Init == /\ sorts \in BOOLEAN /\ parent = "fork" /\ child = "none" /\ left = Lines /\ held = 0
        /\ inPipe = 0 /\ writers = {"parent"} /\ readers = {"parent"} /\ printed = 0

Fork == /\ parent = "fork" /\ parent' = "close" /\ child' = "close"
        /\ writers' = {"parent", "child"} /\ readers' = {"parent", "child"}
        /\ UNCHANGED <<sorts, left, held, inPipe, printed>>

(* fork's -1 is not 0: the parent goes on, to write to nobody.             *)
ForkFails == /\ parent = "fork" /\ parent' = "close"
             /\ UNCHANGED <<sorts, child, left, held, inPipe, writers, readers, printed>>

CloseRead == /\ parent = "close" /\ parent' = "print" /\ readers' = readers \ {"parent"}
             /\ UNCHANGED <<sorts, child, left, held, inPipe, writers, printed>>

PrintLine == /\ parent = "print" /\ left > 0 /\ left' = left - 1 /\ held' = held + 1
             /\ parent' = IF sorts /\ left' > 0 THEN "print" ELSE "flush"
             /\ UNCHANGED <<sorts, child, inPipe, writers, readers, printed>>

Flush == /\ parent = "flush" /\ held > 0 /\ inPipe < Capacity /\ readers # {}
         /\ inPipe' = inPipe + 1 /\ held' = held - 1
         /\ UNCHANGED <<sorts, parent, child, left, writers, readers, printed>>

(* A write to a pipe that nobody can read is fatal.                        *)
BrokenPipe == /\ parent = "flush" /\ held > 0 /\ readers = {}
              /\ parent' = "ended" /\ writers' = writers \ {"parent"}
              /\ UNCHANGED <<sorts, child, left, held, inPipe, readers, printed>>

Flushed == /\ parent = "flush" /\ held = 0 /\ parent' = IF left > 0 THEN "print" ELSE "shut"
           /\ UNCHANGED <<sorts, child, left, held, inPipe, writers, readers, printed>>

(* close and, in dup2.c, waitpid.                                          *)
Shut == /\ parent = "shut" /\ writers' = writers \ {"parent"}
        /\ parent' = IF sorts THEN "wait" ELSE "ended"
        /\ UNCHANGED <<sorts, child, left, held, inPipe, readers, printed>>

Waited == /\ parent = "wait" /\ child \in {"none", "ended", "failed"} /\ parent' = "ended"
          /\ UNCHANGED <<sorts, child, left, held, inPipe, writers, readers, printed>>

(* Mutation: the child keeps the write end it has inherited.               *)
KeepWrite == child = "close" /\ child' = "begin" /\ UNCHANGED <<sorts, parent, left, held, inPipe, writers, readers, printed>>

CloseWrite == /\ child = "close" /\ child' = "begin" /\ writers' = writers \ {"child"}
              /\ UNCHANGED <<sorts, parent, left, held, inPipe, readers, printed>>

(* fdopen, or dup2 and execlp, which may fail: the child then returns.     *)
Begin == /\ child = "begin" /\ child' = "read"
         /\ UNCHANGED <<sorts, parent, left, held, inPipe, writers, readers, printed>>

ExecFails == /\ child = "begin" /\ sorts /\ child' = "failed" /\ readers' = readers \ {"child"}
             /\ UNCHANGED <<sorts, parent, left, held, inPipe, writers, printed>>

Read == /\ child = "read" /\ inPipe > 0 /\ inPipe' = inPipe - 1 /\ printed' = printed + 1
        /\ UNCHANGED <<sorts, parent, child, left, held, writers, readers>>

Eof == /\ child = "read" /\ inPipe = 0 /\ writers = {} /\ child' = "ended" /\ readers' = readers \ {"child"}
       /\ UNCHANGED <<sorts, parent, left, held, inPipe, writers, printed>>

Parent == CloseRead \/ PrintLine \/ Flush \/ BrokenPipe \/ Flushed \/ Shut \/ Waited
Child == CloseWrite \/ Begin \/ ExecFails \/ Read \/ Eof

Next == Fork \/ ForkFails \/ Parent \/ Child

Fairness == WF_pipeVars(Parent) /\ WF_pipeVars(Child)

Spec == Init /\ [][Next]_pipeVars /\ Fairness
-------------------------------------------------------------------------------
(* A child that was forked ends, having printed every line if it could     *)
(* begin, and the parent ends.                                             *)
EveryLinePrinted == child = "close" ~> (/\ parent = "ended"
                                        /\ child = "failed" \/ (child = "ended" /\ printed = Lines))
===============================================================================
