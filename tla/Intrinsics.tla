------------------------------- MODULE Intrinsics -------------------------------
(***************************************************************************)
(* The intrinsic commands of dsh without threads: send_signal, cd and pwd  *)
(* (prog2/run.c), while other processes make and remove the files cd is    *)
(* asked for.  cd looks at the path (stat) and then changes to it (chdir). *)
(***************************************************************************)
EXTENDS Integers

CONSTANTS
  Numbers,  \* what atoi may make of the arguments of signal
  Live,     \* the processes there are
  Paths     \* what may be typed after cd

None     == "none"
FileKind == {"dir", "file", "other", None}  \* "other": a device, a fifo...
Nowhere  == "nowhere"                       \* the directory dsh was started in

VARIABLES
  files,  \* what each path is at the moment
  pc,     \* "idle" | "chdir"
  path,   \* cd's argument
  cwd,    \* the working directory, and whether it has been removed since
  ret,    \* the value the last command returned
  kill,   \* the last call of kill: its arguments and whether it succeeded
  shown,  \* what pwd printed last
  moved   \* history: the path of the last cd that returned 0

vars == <<files, pc, path, cwd, ret, kill, shown, moved>>

Init ==
  /\ files \in [Paths -> FileKind]
  /\ pc = "idle"
  /\ path \in Paths
  /\ cwd = [path |-> Nowhere, removed |-> FALSE]
  /\ ret = 0
  /\ kill = [args |-> <<0, 0>>, pid |-> 0, sig |-> 0, ok |-> TRUE]
  /\ shown = Nowhere
  /\ moved = Nowhere

-----------------------------------------------------------------------------
(* The process and the signal: swapped when the first argument is above 32. *)
Target(sig, pid) == IF sig > 32 THEN <<sig, pid>> ELSE <<pid, sig>>

Reachable(pid) == pid \in Live \/ -pid \in Live \/ pid \in {0, -1}

(* send_signal: a kill that fails is reported, and 0 returned all the same. *)
SendSignal ==
  /\ pc = "idle"
  /\ \E a1, a2 \in Numbers :
       LET t == Target(a1, a2)
       IN  kill' = [args |-> <<a1, a2>>, pid |-> t[1], sig |-> t[2],
                    ok |-> Reachable(t[1]) /\ t[2] \in 0..64]
  /\ ret' = 0
  /\ UNCHANGED <<files, pc, path, cwd, shown, moved>>

(* cd, stat: a regular file is -2.  stat of a path that is not there       *)
(* leaves path_info as it was, and the test finds any answer in it.        *)
CdStat ==
  /\ pc = "idle"
  /\ path' \in Paths
  /\ \/ files[path'] \in {"file", None} /\ ret' = -2 /\ UNCHANGED pc
     \/ files[path'] # "file" /\ pc' = "chdir" /\ UNCHANGED ret
  /\ UNCHANGED <<files, cwd, kill, shown, moved>>

(* Mutation: the result of chdir is not looked at. *)
CdIgnoresChdir ==
  /\ pc = "chdir"
  /\ pc' = "idle"
  /\ ret' = 0 /\ moved' = path
  /\ cwd' = IF files[path] = "dir" THEN [path |-> path, removed |-> FALSE] ELSE cwd
  /\ UNCHANGED <<files, path, kill, shown>>

(* cd, chdir: -1 unless the path is a directory by now. *)
CdChdir ==
  /\ pc = "chdir"
  /\ pc' = "idle"
  /\ IF files[path] = "dir"
     THEN ret' = 0 /\ cwd' = [path |-> path, removed |-> FALSE] /\ moved' = path
     ELSE ret' = -1 /\ UNCHANGED <<cwd, moved>>
  /\ UNCHANGED <<files, path, kill, shown>>

(* pwd: when getcwd fails the line printed is empty. *)
Pwd ==
  /\ pc = "idle"
  /\ shown' = IF cwd.removed THEN "blank" ELSE cwd.path
  /\ ret' = 0
  /\ UNCHANGED <<files, pc, path, cwd, kill, moved>>

(* Another process makes or removes a file. *)
FilesChange ==
  /\ \E p \in Paths, k \in FileKind :
       /\ (files[p] = None) # (k = None)
       /\ files' = [files EXCEPT ![p] = k]
       /\ cwd' = IF k = None /\ cwd.path = p THEN [cwd EXCEPT !.removed = TRUE] ELSE cwd
  /\ UNCHANGED <<pc, path, ret, kill, shown, moved>>

Next == SendSignal \/ CdStat \/ CdChdir \/ Pwd \/ FilesChange

Spec == Init /\ [][Next]_vars

-----------------------------------------------------------------------------
(***************************************************************************)
(* Every variable has its type (the commands' arguments and results).      *)
(***************************************************************************)
TypeOK ==
  /\ files \in [Paths -> FileKind]
  /\ pc \in {"idle", "chdir"}
  /\ path \in Paths
  /\ cwd.path \in Paths \cup {Nowhere} /\ cwd.removed \in BOOLEAN
  /\ ret \in {0, -1, -2}
  /\ {kill.pid, kill.sig} \subseteq Numbers \cup {0}
  /\ shown \in Paths \cup {Nowhere, "blank"}

(***************************************************************************)
(* "If the command is signal then the order of the remaining arguments     *)
(* doesn't matter" (dsh.c:205-206), as far as it is so: a process above 32 *)
(* is sent a signal of 1 to 32 whichever of the two is typed first.        *)
(***************************************************************************)
SignalsTheProcess ==
  \A pid \in Live, sig \in 1..32 :
    pid > 32 /\ kill.args \in {<<sig, pid>>, <<pid, sig>>} =>
      kill.pid = pid /\ kill.sig = sig /\ kill.ok

(***************************************************************************)
(* However the files change between its two looks at the path, cd has      *)
(* moved the shell when it returns 0 and only then: the shell is where the *)
(* last successful cd went, even if that is no longer a directory.         *)
(***************************************************************************)
CdMovesOrSaysSo == cwd.path = moved

=============================================================================
