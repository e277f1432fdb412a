--------------------------------- MODULE Pages ---------------------------------
(***************************************************************************)
(* The pages of the HTTP server (ALP-listings/chapter-11: time.c, issue.c, *)
(* diskfree.c and processes.c).  Each is a module_generate that writes a   *)
(* page to the client, in the child that handles the connection, whose     *)
(* exit closes it.  The child has inherited the server's SIGCHLD handler,  *)
(* which calls wait.                                                       *)
(***************************************************************************)
EXTENDS Naturals, Sequences

CONSTANTS MaxProcesses,  \* bound: processes in /proc
          VecSize,       \* the size vec starts with: 16
          IovMax         \* what writev takes: IOV_MAX, 1024

VARIABLES at,      \* where the child is
          url,     \* the page asked for
          sent,    \* what was written to the client, in order
          end,     \* what the client does when it has sent its request:
                   \* "waits" for the answer, "closes" or "resets" the connection
          df,      \* diskfree's child
          sigchld, \* a SIGCHLD is pending
          rows,    \* processes' vec, without the start and the end of the page
          vecSize  \* vec_size

pageVars == <<at, url, sent, end, df, sigchld, rows, vecSize>>

Ended == {"exit0", "exit1", "crashed", "killed"}

PagesInit == sent = <<>> /\ df = "none" /\ sigchld = FALSE /\ rows = <<>> /\ vecSize = VecSize

(* A write to a client that is no longer there raises SIGPIPE, which kills *)
(* the child, or is lost.                                                  *)
Sends(parts, next) == \/ at' = next /\ sent' = sent \o parts
                      \/ end # "waits" /\ at' = "killed" /\ UNCHANGED sent

Plain == UNCHANGED <<url, end, df, sigchld, rows, vecSize>>

Time == at = "generate" /\ url = "/time" /\ Sends(<<"start", "body", "end">>, "done") /\ Plain

(* open fails: system_error, after the client was told 200 OK.  fstat      *)
(* fails: a page that says so.  sendfile fails: a message in the page.     *)
Issue == /\ at = "generate" /\ url = "/issue"
         /\ \/ at' = "exit1" /\ UNCHANGED sent
            \/ Sends(<<"error_page">>, "done")
            \/ \E body \in {"body", "error_message"} : Sends(<<"start", body, "end">>, "done")
         /\ Plain

-------------------------------------------------------------------------------
(* diskfree.c: df runs as a child of this child and writes to the client;  *)
(* when it dies the inherited handler may run before waitpid is called,    *)
(* takes df's status, and waitpid fails.                                   *)
DiskStart == /\ at = "generate" /\ url = "/diskfree"
             /\ Sends(<<"start">>, "fork")
             /\ Plain

DiskFork == /\ at = "fork"
            /\ \/ at' = "forked" /\ df' = "running"
               \/ at' = "exit1" /\ UNCHANGED df
            /\ UNCHANGED <<url, sent, end, sigchld, rows, vecSize>>

DfRuns == /\ df = "running"
          /\ \/ sent' \in {Append(sent, "body"), Append(sent, "no_df")}
             \/ end # "waits" /\ UNCHANGED sent
          /\ df' = "zombie"
          /\ sigchld' = TRUE
          /\ UNCHANGED <<at, url, end, rows, vecSize>>

(* clean_up_child_process, in this child.                                  *)
Handler == /\ sigchld /\ at \notin Ended \cup {"waitpid"}
           /\ sigchld' = FALSE
           /\ df' = IF df = "zombie" THEN "reaped" ELSE df
           /\ UNCHANGED <<at, url, sent, end, rows, vecSize>>

(* A waitpid that is already blocked gets df's status before the handler.  *)
CallWaitpid == at = "forked" /\ at' = "waitpid" /\ UNCHANGED sent /\ Plain

(* Mutation: the page ends without waiting for df. *)
NoWaitpid == at = "waitpid" /\ at' = "page_end" /\ UNCHANGED sent /\ Plain

Waitpid == /\ at = "waitpid"
           /\ \/ df = "zombie" /\ df' = "reaped" /\ at' = "page_end"
              \/ df = "reaped" /\ at' = "exit1" /\ UNCHANGED df
           /\ UNCHANGED <<url, sent, end, sigchld, rows, vecSize>>

DiskEnd == at = "page_end" /\ Sends(<<"end">>, "done") /\ Plain

-------------------------------------------------------------------------------
(* processes.c.  A process lives through the first `reads' of the three    *)
(* looks format_process_info takes at it: stat, statm and its stat file.   *)
UidGid(reads)      == reads >= 1
Rss(reads)         == reads >= 2
ProgramName(reads) == reads >= 3

(* A user or group without a name ends the program: system_error.          *)
Format(reads, named) == IF ~UidGid(reads) \/ ~Rss(reads) \/ ~ProgramName(reads) THEN "ERROR"
                        ELSE IF named THEN "row" ELSE "exit"

Grown(used) == IF used = vecSize - 1 THEN 2 * vecSize ELSE vecSize

(* Without /proc, opendir fails before the first of them.                  *)
ListProcess == /\ at = "generate" /\ url = "/processes" /\ Len(rows) < MaxProcesses
               /\ \/ rows = <<>> /\ at' = "exit1" /\ UNCHANGED <<rows, vecSize>>
                  \/ \E reads \in 0..3, named \in BOOLEAN :
                       LET info == Format(reads, named)
                       IN  IF info = "exit" THEN at' = "exit1" /\ UNCHANGED <<rows, vecSize>>
                           ELSE /\ rows' = Append(rows, info)
                                /\ vecSize' = Grown(Len(rows) + 1)
                                /\ UNCHANGED at
               /\ UNCHANGED <<url, sent, end, df, sigchld>>

(* writev, whose failure (more buffers than IOV_MAX) nobody notices.       *)
WritePage == /\ at = "generate" /\ url = "/processes"
             /\ IF Len(rows) + 2 <= IovMax THEN Sends(<<"start">> \o rows \o <<"end">>, "free")
                                          ELSE at' = "free" /\ UNCHANGED sent
             /\ Plain

(* The rows are freed, and with them the literal that stands for a process *)
(* that vanished: free of what malloc never returned.                      *)
FreeRows == /\ at = "free"
            /\ \/ at' = "done"
               \/ (\E i \in DOMAIN rows : rows[i] = "ERROR") /\ at' = "crashed"
            /\ UNCHANGED sent /\ Plain

Generate == \/ Time \/ Issue \/ DiskStart \/ DiskFork \/ DfRuns \/ Handler \/ CallWaitpid
            \/ Waitpid \/ DiskEnd \/ ListProcess \/ WritePage \/ FreeRows
===============================================================================
