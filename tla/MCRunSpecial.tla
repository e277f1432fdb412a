---------------------------- MODULE MCRunSpecial ----------------------------
(* Small sets of pipelines: what each program does is one of a few kinds.  *)
EXTENDS RunSpecial, SequencesExt

Writer(n)  == [found |-> TRUE,  reads |-> FALSE, out |-> n, code |-> 0]
Filter(n)  == [found |-> TRUE,  reads |-> TRUE,  out |-> n, code |-> 0]
Failing(n) == [found |-> TRUE,  reads |-> TRUE,  out |-> n, code |-> 1]
Missing    == [found |-> FALSE, reads |-> FALSE, out |-> 1, code |-> 0]

Pipelines(progs, n, modes) ==
  {[mode |-> m, progs |-> s] : m \in modes, s \in BoundedSeq(progs, n) \ {<<>>}}

(* Local pipelines of up to three commands, any of which may fail. *)
LocalJobs == Pipelines({Writer(2), Filter(1), Filter(2), Missing}, 3,
                       {{}, {"REDIR_STDIN", "REDIR_STDOUT_W"}})

(* The same with sockets at either end, and with programs that exit with 1. *)
HostJobs == Pipelines({Writer(2), Filter(1), Failing(1), Missing}, 2,
                      {{"REMOTE_HOST"}, {"LOCAL_HOST"}, {"REMOTE_HOST", "LOCAL_HOST"},
                       {"REDIR_STDIN", "LOCAL_HOST", "REDIR_STDOUT_A"}})

AllJobs == LocalJobs \cup HostJobs

(* The pipeline of the disagreement with the documentation. *)
BigOutput == {[mode |-> {}, progs |-> <<Writer(3), Filter(1)>>]}

=============================================================================
