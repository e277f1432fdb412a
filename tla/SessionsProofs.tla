--------------------------- MODULE SessionsProofs ---------------------------
(***************************************************************************)
(* run_special for any pipelines, any number of lines, any capacity of the *)
(* pipes and any number of descriptors that suffices for them.             *)
(*                                                                         *)
(* The invariant says where everything is.  The shell's open descriptors   *)
(* are always the lowest n (Layout), with the pipe of the current command  *)
(* at the top (OwnPipe) and the read end of the one before below it        *)
(* (InputInv); n grows by one per command and is left one higher by the    *)
(* line (Room).  From this pipe always returns descriptors above 2, so the *)
(* standard ones are safe, and the write end the shell closes is the only  *)
(* other one: readers come to their end of file.  DataInv adds what is in  *)
(* the pipes, which is what the refinement of Pipeline needs.              *)
(***************************************************************************)
EXTENDS MCSessions, TLAPS, FiniteSetTheorems, WellFoundedInduction

BlockIds == Nat \X Nat

Children == [at : {"none", "stdio", "accept", "exec", "run", "exited"},
             table : [Fds -> Object], left : Nat, got : Seq(BlockIds),
             ran : BOOLEAN, code : 0..255]

Entries == [got : Seq(BlockIds), out : Nat, ran : BOOLEAN, status : Nat]

ShellTypes ==
  /\ pc \in {"idle", "pipe", "fork", "wait", "exited"}
  /\ njobs \in 0..MaxJobs
  /\ job \in Jobs
  /\ k \in 1..Len(job.progs)
  /\ table \in [Fds -> Object]
  /\ p \in (Fds \cup {-1}) \X (Fds \cup {-1})
  /\ fdin \in Fds \cup {-1}
  /\ ret \in {0, -1, -3}
  /\ leaked \in 0..FdLimit

PipeTypes ==
  /\ contents \in [PipeIds -> Seq(BlockIds)]
  /\ \A i \in PipeIds : Len(contents[i]) <= Capacity

LogTypes == log \in Seq(Entries) /\ Len(log) <= Len(job.progs)

TypeInv == ShellTypes /\ child \in Children /\ PipeTypes /\ LogTypes

(* The descriptors are small naturals, and the objects they refer to are   *)
(* of their type.                                                          *)
LEMMA Limits ==
  /\ FdLimit \in Nat /\ FdLimit > 3 /\ 0 \in Fds /\ 1 \in Fds
  /\ Fds \subseteq Nat
  /\ MaxJobs \in Nat /\ Capacity \in Nat
  /\ \A f \in Fds : f < FdLimit
  /\ Tty \in Object /\ Closed \in Object /\ File \in Object /\ Socket \in Object
  /\ \A i \in PipeIds : <<i, "r">> \in Object /\ <<i, "w">> \in Object
BY LimitsAssumption DEF Fds, Object, PipeIds, Tty, Closed, File, Socket

(* The arithmetic facts about descriptors, alone, for the steps that only  *)
(* count.                                                                  *)
LEMMA FdNat ==
  /\ FdLimit \in Nat /\ FdLimit > 3 /\ MaxJobs \in Nat
  /\ \A f \in Fds : f \in Nat /\ f >= 0 /\ f < FdLimit
BY LimitsAssumption DEF Fds

(* The current command is a program.                                       *)
LEMMA ProgType ==
  ASSUME job \in Jobs, k \in 1..Len(job.progs)
  PROVE  Prog \in Program /\ Prog.out \in Nat /\ Prog.code \in 0..255
         /\ Prog.found \in BOOLEAN /\ Prog.reads \in BOOLEAN
         /\ job.progs # <<>> /\ job.progs \in Seq(Program) /\ Len(job.progs) \in Nat
<1>1. job.progs # <<>> /\ job.progs \in Seq(Program)
  BY JobsAssumption
<1>2. Prog \in Program
  BY <1>1 DEF Prog
<1> QED BY <1>1, <1>2 DEF Program

(* A fresh shell is of its type.                                           *)
LEMMA InitType == MCInit => TypeInv
<1> SUFFICES ASSUME MCInit PROVE TypeInv
  OBVIOUS
<1>1. job \in Jobs /\ job.progs \in Seq(Program) \ {<<>>}
  BY JobsAssumption DEF MCInit, Init
<1>2. Len(job.progs) \in Nat /\ Len(job.progs) >= 1
  BY <1>1
<1>3. <<>> \in Seq(BlockIds)
  OBVIOUS
<1>4. <<>> \in Seq(Entries)
  OBVIOUS
<1>5. contents \in [PipeIds -> Seq(BlockIds)] /\ \A i \in PipeIds : Len(contents[i]) <= Capacity
  BY <1>3, Limits DEF MCInit, Init
<1>6. NoChild \in Children /\ NoChild.at = "none"
  BY <1>3, Limits DEF NoChild, Children
<1>7. child.at \in {"none", "stdio", "accept", "exec", "run", "exited"} /\ child.table \in [Fds -> Object] /\ child.left \in Nat
  BY <1>6 DEF MCInit, Init, Children
<1>8. log \in Seq(Entries) /\ Len(log) <= Len(job.progs)
  BY <1>2, <1>4 DEF MCInit, Init
<1>9. table \in [Fds -> Object]
  BY Limits DEF MCInit, Init
<1> QED
  BY <1>1, <1>2, <1>5, <1>6, <1>7, <1>8, <1>9, Limits DEF TypeInv, ShellTypes, PipeTypes, LogTypes, MCInit, Init

(* dup2 and close leave a descriptor table.                                *)
LEMMA Dup2Type ==
  ASSUME NEW t \in [Fds -> Object], NEW f \in Fds \cup {-1}, NEW g \in Fds
  PROVE  Dup2(t, f, g) \in [Fds -> Object]
BY DEF Dup2

(* Closing a descriptor leaves a descriptor table, close(-1) included.     *)
LEMMA CloseType ==
  ASSUME NEW t \in [Fds -> Object], NEW f \in Fds \cup {-1}
  PROVE  Close(t, f) \in [Fds -> Object]
BY Limits DEF Close

(* Every set of naturals that is not empty has a least one: the ordering   *)
(* of the finite sets by inclusion is well-founded, and 0..n grows with n. *)
LEMMA LeastNatural ==
  ASSUME NEW S, S \subseteq Nat, S # {}
  PROVE  \E x \in S : \A y \in S : x <= y
<1> DEFINE Ups == {0..n : n \in S}
<1>1. IsWellFoundedOn(StrictSubsetOrdering(Nat), FiniteSubsetsOf(Nat))
  BY FS_StrictSubsetOrderingWellFounded
<1>2. \A n \in S : 0..n \in SUBSET Nat /\ IsFiniteSet(0..n)
  BY FS_Interval
<1>3. Ups \subseteq FiniteSubsetsOf(Nat) /\ Ups # {}
  BY <1>2 DEF FiniteSubsetsOf
<1>4. PICK u \in Ups : \A v \in Ups : ~ (<<v, u>> \in StrictSubsetOrdering(Nat))
  BY <1>1, <1>3, WFMin
<1>5. PICK x \in S : u = 0..x
  BY <1>4
<1>6. ASSUME NEW y \in S PROVE x <= y
  <2> SUFFICES ASSUME y < x PROVE FALSE
    BY <1>5, <1>6
  <2>1. 0..y \in Ups /\ 0..y \in SUBSET Nat /\ 0..x \in SUBSET Nat
    BY <1>2
  <2>2. 0..y \subseteq 0..x /\ 0..y # 0..x
    BY <1>6
  <2>3. <<0..y, u>> \in StrictSubsetOrdering(Nat)
    BY <2>1, <2>2, <1>5 DEF StrictSubsetOrdering
  <2> QED BY <2>1, <2>3, <1>4
<1> QED BY <1>6

(* So Min, which CHOOSEs it, finds it.  Cited for the lowest free          *)
(* descriptor.                                                             *)
LEMMA NatMin ==
  ASSUME NEW S, S \subseteq Nat, S # {}
  PROVE  Min(S) \in S /\ \A x \in S : Min(S) <= x
BY LeastNatural DEF Min

Longest == CHOOSE l \in 1..FdLimit :
             /\ \A j \in Jobs : Len(j.progs) <= l
             /\ 3 + MaxJobs * (l + 1) <= FdLimit

PerLine == Longest + 1

Running == pc \in {"pipe", "fork", "wait"}

(* The shell's open descriptors are the lowest n, and no pipe among them   *)
(* has a number above m: the standard ones, and what earlier commands left.*)
Layout(n, m) ==
  /\ \A f \in Fds : table[f] # Closed <=> f < n
  /\ \A f \in Fds : f < 3 => table[f] = Tty
  /\ \A f \in Fds : f >= 3 /\ f < n => table[f] = Tty \/ table[f] \in (1..m) \X {"r", "w"}

(* A line leaves at most one descriptor per command, and one more. *)
Room(n) ==
  /\ ~Scarce =>
       /\ pc = "idle" => n <= 3 + njobs * PerLine
       /\ pc = "pipe" => n <= 3 + (njobs - 1) * PerLine + (k - 1)
       /\ pc \in {"fork", "wait"} => n <= 3 + (njobs - 1) * PerLine + (k + 1)
  /\ Scarce =>
       /\ njobs = MaxJobs \/ (pc = "idle" /\ njobs = MaxJobs - 1 /\ n + 2 <= FdLimit)
       /\ pc = "pipe" /\ k = 1 => n + 2 <= FdLimit

(* p, once set: the pipe of the current command, at the two highest open   *)
(* descriptors, or (when no other could be made) a pipe whose write end    *)
(* has been closed.                                                        *)
OwnPipe(n, m) ==
  /\ n >= 5 /\ m <= n - 4 /\ p = <<n - 2, n - 1>>
  /\ \E i \in PipeIds :
       /\ table[n - 2] = <<i, "r">> /\ table[n - 1] = <<i, "w">>
       /\ \A f \in Fds : f < n - 2 => table[f] \notin {<<i, "r">>, <<i, "w">>}
StalePipe(n) == p[1] \in Fds /\ p[2] \in Fds /\ p[1] >= 3 /\ p[2] >= n

PipeInv(n, m) ==
  /\ pc = "pipe" /\ k > 1 => StalePipe(n)
  /\ pc \in {"fork", "wait"} => OwnPipe(n, m) \/ (Scarce /\ StalePipe(n))

InputInv ==
  /\ Running /\ k = 1 => fdin = 0
  /\ Running /\ k > 1 /\ ~Scarce =>
       /\ fdin \in Fds /\ fdin >= 3
       /\ \E i \in PipeIds : table[fdin] = <<i, "r">> /\ ~Holds(table, <<i, "w">>)

ShellAt(n, m) == Layout(n, m) /\ Room(n) /\ PipeInv(n, m)

ShellInv == \E n \in 3..FdLimit : \E m \in 0..(n - 3) : ShellAt(n, m)

ProgressInv ==
  /\ njobs = 0 /\ ~Scarce => pc = "idle" /\ log = <<>> /\ ret = 0
  /\ Running => njobs >= 1 /\ Len(log) = k - 1
  /\ pc = "wait" <=> child.at # "none"

Started == child.at \in {"accept", "exec", "run"}

IsPipeEnd(o) == o \in PipeIds \X {"r", "w"}

StdioInv ==
  Started /\ ~Scarce =>
    /\ IF k = 1 THEN ~IsPipeEnd(child.table[0]) ELSE child.table[0] = table[fdin]
    /\ IF IsLast THEN ~IsPipeEnd(child.table[1]) ELSE child.table[1] = table[p[2]]
    /\ \A f \in Fds \ {0, 1} : child.table[f] \in {table[f], Closed, Socket}

ChildInv ==
  pc = "wait" =>
  /\ child.left \in 0..Prog.out
  /\ child.at \in {"stdio", "accept", "exec"} =>
       child.got = <<>> /\ ~child.ran /\ child.code = 0 /\ child.left = Prog.out
  /\ child.at = "run" => child.ran /\ child.code = 0 /\ Prog.found
  /\ child.at = "stdio" => child.table = table
  /\ child.at = "accept" => IsLast

Blocks(n, j) == [b \in 1..n |-> <<njobs, j>>]

(* The pipe the current command writes to, and the one it reads from. *)
OutPipe == table[p[2]][1]
InPipe  == table[fdin][1]

(* The pipe of the current command holds what it has written. *)
OutInv ==
  ~Scarce =>
  /\ pc = "fork" => contents[OutPipe] = <<>>
  /\ pc = "wait" /\ ~IsLast => contents[OutPipe] = Blocks(Prog.out - child.left, k)

(* What the command before has written is what the current one has read    *)
(* and what is left in the pipe between them.                              *)
InInv ==
  /\ ~Scarce /\ pc = "wait" /\ k = 1 => child.got = <<>>
  /\ ~Scarce /\ k > 1 =>
     /\ pc \in {"pipe", "fork"} => contents[InPipe] = Blocks(log[k - 1].out, k - 1)
     /\ pc = "wait" /\ child.at # "exited" =>
          \E c, g \in Nat :
             /\ c + g = log[k - 1].out
             /\ contents[InPipe] = Blocks(c, k - 1)
             /\ child.got = Blocks(g, k - 1)
             /\ child.at # "run" \/ ~Prog.reads => g = 0

(* How a child ends: the program ran to its end, or there was none, or the *)
(* first one's host was unknown.                                           *)
EndInv ==
  pc = "wait" /\ child.at = "exited" /\ ~Scarce =>
  \/ /\ Prog.found /\ child.ran /\ child.code = Prog.code /\ child.left = 0
     /\ child.got = IF k = 1 \/ ~Prog.reads THEN <<>> ELSE Blocks(log[k - 1].out, k - 1)
  \/ /\ ~Prog.found /\ ~child.ran /\ child.code = 1 /\ child.left = Prog.out
     /\ child.got = <<>>
  \/ /\ k = 1 /\ "REMOTE_HOST" \in job.mode /\ ~child.ran /\ child.code = 0
     /\ child.left = Prog.out
     /\ child.got = <<>>

(* The free descriptors are those above the open ones.                     *)
LEMMA FreeOnes ==
  ASSUME TypeInv, NEW n \in 3..FdLimit, NEW m \in 0..(n - 3), Layout(n, m)
  PROVE  /\ Free(table) = n..(FdLimit - 1)
         /\ Cardinality(Free(table)) = FdLimit - n
<1>1. Free(table) = n..(FdLimit - 1)
  BY LimitsAssumption DEF Free, Layout, Fds
<1>2. n \in Int /\ FdLimit - 1 \in Int /\ (n > FdLimit - 1 => FdLimit - n = 0)
  BY Limits
<1>3. Cardinality(n..(FdLimit - 1)) = FdLimit - n
  BY <1>2, FS_Interval, Limits
<1> QED BY <1>1, <1>3

(* The least of an interval is where it begins.                            *)
LEMMA IntervalMin ==
  ASSUME NEW a \in Nat, NEW b \in Nat, a <= b
  PROVE  Min(a..b) = a
<1>1. a..b \subseteq Nat /\ a \in a..b
  OBVIOUS
<1>2. Min(a..b) \in a..b /\ Min(a..b) <= a
  BY <1>1, NatMin
<1> QED BY <1>2

(* pipe makes a pipe that the shell held no end of.                        *)
LEMMA PipeNumber ==
  ASSUME TypeInv, NEW n \in 3..FdLimit, NEW m \in 0..(n - 3), Layout(n, m),
         NEW i, i = Min({x \in PipeIds : \A e \in {"r", "w"} : ~Holds(table, <<x, e>>)})
  PROVE  /\ i \in PipeIds /\ i <= m + 1
         /\ \A f \in Fds : table[f] \notin {<<i, "r">>, <<i, "w">>}
<1> DEFINE S == {x \in PipeIds : \A e \in {"r", "w"} : ~Holds(table, <<x, e>>)}
<1>1. m + 1 \in PipeIds
  BY Limits DEF PipeIds
<1>2. ASSUME NEW e \in {"r", "w"}, NEW f \in Fds PROVE table[f] # <<m + 1, e>>
  <2>1. CASE f < n
    <3>1. table[f] = Tty \/ table[f] \in (1..m) \X {"r", "w"}
      BY <2>1, Limits DEF Layout
    <3>2. CASE table[f] \in (1..m) \X {"r", "w"}
      <4>1. PICK j \in 1..m, d \in {"r", "w"} : table[f] = <<j, d>>
        BY <3>2
      <4>2. j # m + 1
        OBVIOUS
      <4> QED BY <4>1, <4>2
    <3> QED BY <3>1, <3>2 DEF Tty
  <2>2. CASE ~(f < n)
    <3>1. table[f] = Closed
      BY <2>2 DEF Layout
    <3> QED BY <3>1 DEF Closed
  <2> QED BY <2>1, <2>2
<1>3. m + 1 \in S
  BY <1>1, <1>2 DEF Holds
<1>4. S \subseteq Nat
  BY Limits DEF PipeIds
<1>5. i \in S /\ i <= m + 1
  BY <1>3, <1>4, NatMin
<1> QED BY <1>5 DEF Holds

(* pipe takes the two descriptors above the open ones (special.c:564).     *)
LEMMA PipeEffect ==
  ASSUME TypeInv, NEW n \in 3..FdLimit, NEW m \in 0..(n - 3), Layout(n, m), PipeMade
  PROVE  /\ n + 2 <= FdLimit /\ n \in Fds /\ n + 1 \in Fds
         /\ p' = <<n, n + 1>>
         /\ \E i \in PipeIds :
              /\ i <= m + 1
              /\ \A f \in Fds : table[f] \notin {<<i, "r">>, <<i, "w">>}
              /\ table' = [table EXCEPT ![n] = <<i, "r">>, ![n + 1] = <<i, "w">>]
              /\ contents' = [contents EXCEPT ![i] = <<>>]
<1>1. n + 2 <= FdLimit /\ n \in Fds /\ n + 1 \in Fds /\ n \in Nat
  BY FreeOnes, Limits DEF PipeMade, Fds
<1>2. Min(Free(table)) = n
  BY FreeOnes, IntervalMin, <1>1, Limits
<1>3. Free(table) \ {n} = (n + 1)..(FdLimit - 1)
  <2>1. (n..(FdLimit - 1)) \ {n} = (n + 1)..(FdLimit - 1)
    BY <1>1, Limits
  <2> QED BY <2>1, FreeOnes
<1>4. Min(Free(table) \ {n}) = n + 1
  <2>1. n + 1 \in Nat /\ FdLimit - 1 \in Nat /\ n + 1 <= FdLimit - 1
    BY <1>1, Limits
  <2>2. Min((n + 1)..(FdLimit - 1)) = n + 1
    BY <2>1, IntervalMin
  <2> QED BY <1>3, <2>2
<1> DEFINE i == Min({x \in PipeIds : \A e \in {"r", "w"} : ~Holds(table, <<x, e>>)})
<1>5. /\ i \in PipeIds /\ i <= m + 1
      /\ \A f \in Fds : table[f] \notin {<<i, "r">>, <<i, "w">>}
  BY PipeNumber
<1>6. /\ table' = [table EXCEPT ![n] = <<i, "r">>, ![n + 1] = <<i, "w">>]
      /\ p' = <<n, n + 1>>
      /\ contents' = [contents EXCEPT ![i] = <<>>]
  BY <1>2, <1>4 DEF PipeMade
<1> QED BY <1>1, <1>5, <1>6

(* It fails only when fewer than two are left.                             *)
LEMMA NoPipe ==
  ASSUME TypeInv, NEW n \in 3..FdLimit, NEW m \in 0..(n - 3), Layout(n, m), PipeFails
  PROVE  n + 2 > FdLimit
BY FreeOnes, Limits DEF PipeFails

-----------------------------------------------------------------------------
(* The descriptors of the shell.                                           *)

(* Longest is what RoomAssumption says there is, and the descriptors       *)
(* suffice for as many lines as the session has.                           *)
LEMMA LineRoom ==
  /\ PerLine \in Nat /\ Longest \in Nat
  /\ \A j \in Jobs : Len(j.progs) < PerLine
  /\ \A a \in 0..MaxJobs : a * PerLine \in Nat /\ 3 + a * PerLine <= FdLimit
  /\ \A a \in 1..MaxJobs : (a - 1) * PerLine + PerLine = a * PerLine
<1>1. /\ Longest \in 1..FdLimit
      /\ \A j \in Jobs : Len(j.progs) <= Longest
      /\ 3 + MaxJobs * (Longest + 1) <= FdLimit
  BY RoomAssumption DEF Longest
<1>2. PerLine \in Nat /\ 3 + MaxJobs * PerLine <= FdLimit /\ MaxJobs \in Nat /\ FdLimit \in Nat
  BY <1>1, Limits DEF PerLine
<1>3. \A j \in Jobs : Len(j.progs) \in Nat /\ Len(j.progs) < PerLine
  BY <1>1, JobsAssumption DEF PerLine
<1>4. ASSUME NEW a \in 0..MaxJobs PROVE a * PerLine \in Nat /\ a * PerLine <= MaxJobs * PerLine
  BY <1>2
<1>5. ASSUME NEW a \in 1..MaxJobs PROVE (a - 1) * PerLine + PerLine = a * PerLine
  BY <1>2
<1>6. MaxJobs * PerLine \in Nat
  BY <1>2
<1> HIDE DEF PerLine
<1> QED BY <1>1, <1>2, <1>3, <1>4, <1>5, <1>6

(* Entering run_special keeps the layout: it opens nothing.                *)
LEMMA ShellStart ==
  ASSUME TypeInv, UNCHANGED leaked, Start, NEW n \in 3..FdLimit, NEW m \in 0..(n - 3), ShellAt(n, m)
  PROVE  ShellAt(n, m)' /\ InputInv'
<1> USE DEF Start
<1>1. Layout(n, m)'
  BY DEF Layout, ShellAt
<1>2. Room(n)'
  <2>1. njobs' - 1 = njobs /\ njobs \in 0..MaxJobs
    BY DEF TypeInv, ShellTypes
  <2> QED BY <2>1, LineRoom, Limits DEF Room, Scarce, ShellAt
<1>3. PipeInv(n, m)'
  BY DEF PipeInv
<1>4. InputInv'
  BY DEF InputInv
<1> QED BY <1>1, <1>2, <1>3, <1>4 DEF ShellAt

(* A pipe that is made adds two descriptors to the layout and is the new   *)
(* p.                                                                      *)
LEMMA ShellPipeMade ==
  ASSUME TypeInv, UNCHANGED leaked, PipeMade, InputInv,
         NEW n \in 3..FdLimit, NEW m \in 0..(n - 3), ShellAt(n, m)
  PROVE  n + 2 \in 3..FdLimit /\ m + 1 \in 0..(n + 2 - 3) /\ ShellAt(n + 2, m + 1)' /\ InputInv'
<1>0. n \in Nat /\ m \in Nat /\ Layout(n, m) /\ table \in [Fds -> Object]
  BY Limits DEF ShellAt, TypeInv, ShellTypes
<1>1. /\ n + 2 <= FdLimit /\ n \in Fds /\ n + 1 \in Fds
      /\ p' = <<n, n + 1>>
  BY PipeEffect, <1>0
<1>2. PICK i \in PipeIds :
              /\ i <= m + 1
              /\ \A f \in Fds : table[f] \notin {<<i, "r">>, <<i, "w">>}
              /\ table' = [table EXCEPT ![n] = <<i, "r">>, ![n + 1] = <<i, "w">>]
              /\ contents' = [contents EXCEPT ![i] = <<>>]
  BY PipeEffect, <1>0
<1>3. /\ table'[n] = <<i, "r">> /\ table'[n + 1] = <<i, "w">>
      /\ \A f \in Fds : f # n /\ f # n + 1 => table'[f] = table[f]
  BY <1>0, <1>1, <1>2
<1>4. \A d : <<i, d>> # Closed /\ <<i, d>> # Tty
  BY Limits DEF PipeIds, Closed, Tty
<1>5. i \in 1..(m + 1)
  BY <1>2, Limits, <1>0 DEF PipeIds
<1>6. Layout(n + 2, m + 1)'
  <2>1. ASSUME NEW f \in Fds PROVE table'[f] # Closed <=> f < n + 2
    BY <1>3, <1>4, <1>0, Limits DEF Layout
  <2>2. ASSUME NEW f \in Fds, f < 3 PROVE table'[f] = Tty
    BY <1>3, <1>0, <2>2, Limits DEF Layout
  <2>3. ASSUME NEW f \in Fds, f >= 3, f < n + 2
        PROVE table'[f] = Tty \/ table'[f] \in (1..(m + 1)) \X {"r", "w"}
    <3>1. CASE f = n \/ f = n + 1
      BY <3>1, <1>3, <1>5
    <3>2. CASE f < n
      <4>1. table'[f] = table[f]
        BY <3>2, <1>3, <1>0, Limits
      <4>2. table[f] = Tty \/ table[f] \in (1..m) \X {"r", "w"}
        BY <3>2, <1>0, <2>3 DEF Layout
      <4>3. 1..m \subseteq 1..(m + 1)
        BY <1>0
      <4> QED BY <4>1, <4>2, <4>3
    <3> QED BY <3>1, <3>2, <2>3, <1>0, Limits
  <2> QED BY <2>1, <2>2, <2>3 DEF Layout
<1>7. Room(n + 2)'
  BY <1>0, Limits, LineRoom DEF PipeMade, Room, Scarce, ShellAt, TypeInv, ShellTypes
<1>8. OwnPipe(n + 2, m + 1)'
  <2>1. \A f \in Fds : f < n => table'[f] \notin {<<i, "r">>, <<i, "w">>}
    BY <1>2, <1>3, <1>0, Limits
  <2> QED BY <1>0, <1>1, <1>3, <2>1 DEF OwnPipe
<1>9. PipeInv(n + 2, m + 1)'
  BY <1>8 DEF PipeInv, PipeMade
<1>10. InputInv'
  <2>1. CASE k > 1 /\ ~Scarce
    <3>1. fdin \in Fds /\ fdin >= 3
      BY <2>1 DEF InputInv, PipeMade, Running
    <3>2. PICK j \in PipeIds : table[fdin] = <<j, "r">> /\ ~Holds(table, <<j, "w">>)
      BY <2>1 DEF InputInv, PipeMade, Running
    <3>3. table[fdin] # Closed
      BY <3>2, Limits DEF PipeIds, Closed
    <3>4. fdin < n
      BY <3>1, <3>3, <1>0 DEF Layout
    <3>5. table'[fdin] = <<j, "r">>
      BY <3>1, <3>2, <3>4, <1>3, <1>0, Limits
    <3>6. j # i
      BY <3>2, <1>2, <3>1
    <3>7. ~Holds(table', <<j, "w">>)
      BY <3>2, <3>6, <1>3 DEF Holds
    <3>8. k' = k /\ fdin' = fdin /\ k # 1
      BY <2>1, Limits DEF PipeMade, TypeInv, ShellTypes
    <3>9. ~Holds(table, <<j, "w">>)'
      BY <3>7 DEF Holds
    <3> QED BY <3>1, <3>5, <3>8, <3>9 DEF InputInv
  <2>2. CASE ~(k > 1 /\ ~Scarce)
    BY <2>2 DEF InputInv, PipeMade, Running, Scarce
  <2> QED BY <2>1, <2>2
<1> QED BY <1>0, <1>1, <1>6, <1>7, <1>9, <1>10 DEF ShellAt

(* While descriptors suffice pipe does not fail; when they do not, p keeps *)
(* the descriptors of the command before.                                  *)
LEMMA ShellPipeFails ==
  ASSUME TypeInv, UNCHANGED leaked, PipeFails, InputInv, ProgressInv,
         NEW n \in 3..FdLimit, NEW m \in 0..(n - 3), ShellAt(n, m)
  PROVE  Scarce /\ k # 1 /\ ShellAt(n, m)' /\ InputInv'
<1>0. /\ n \in Nat /\ Layout(n, m) /\ n + 2 > FdLimit /\ pc = "pipe"
      /\ njobs \in 1..MaxJobs /\ k \in Nat /\ k >= 1 /\ k < PerLine
  <2>1. k \in 1..Len(job.progs) /\ Len(job.progs) \in Nat /\ Len(job.progs) < PerLine
    BY ProgType, LineRoom DEF TypeInv, ShellTypes
  <2>2. Layout(n, m) /\ pc = "pipe" /\ n \in Nat
    BY Limits DEF ShellAt, PipeFails
  <2>3. n + 2 > FdLimit
    BY <2>2, NoPipe
  <2>4. njobs \in 1..MaxJobs
    BY <2>2 DEF TypeInv, ShellTypes, ProgressInv, Running
  <2>5. PerLine \in Nat
    BY LineRoom
  <2> QED BY <2>1, <2>2, <2>3, <2>4, <2>5
<1>1. Scarce
  <2> SUFFICES ASSUME ~Scarce PROVE FALSE
    OBVIOUS
  <2>1. n <= 3 + (njobs - 1) * PerLine + (k - 1)
    BY <1>0 DEF ShellAt, Room
  <2>2. (njobs - 1) * PerLine + PerLine = njobs * PerLine /\ 3 + njobs * PerLine <= FdLimit
        /\ (njobs - 1) * PerLine \in Nat /\ njobs * PerLine \in Nat /\ PerLine \in Nat
    BY <1>0, LineRoom, Limits
  <2> QED BY <2>1, <2>2, <1>0, Limits
<1>2. k # 1
  BY <1>0, <1>1, Limits DEF ShellAt, Room
<1>3. Layout(n, m)'
  BY <1>0 DEF Layout, PipeFails
<1>4. Room(n)'
  BY <1>0, <1>1, <1>2 DEF PipeFails, Room, Scarce, ShellAt
<1>5. PipeInv(n, m)'
  <2>1. StalePipe(n)
    BY <1>0, <1>2 DEF ShellAt, PipeInv
  <2>2. p' = p
    BY <1>2 DEF PipeFails
  <2> QED BY <1>1, <2>1, <2>2 DEF PipeFails, PipeInv, StalePipe, Scarce
<1>6. InputInv'
  BY <1>0, <1>1, <1>2 DEF PipeFails, InputInv, Running, Scarce
<1> QED BY <1>1, <1>2, <1>3, <1>4, <1>5, <1>6 DEF ShellAt

(* fork, its failure and a child that failed leave the shell's table       *)
(* alone.                                                                  *)
LEMMA ShellForks ==
  ASSUME TypeInv, UNCHANGED leaked, Fork \/ ForkFails \/ ReapFailed, InputInv, ProgressInv,
         NEW n \in 3..FdLimit, NEW m \in 0..(n - 3), ShellAt(n, m)
  PROVE  ShellAt(n, m)' /\ InputInv'
<1> USE DEF Fork, ForkFails, ReapFailed
<1>0. /\ n \in Nat /\ pc \in {"fork", "wait"} /\ pc' \in {"wait", "idle", "exited"}
      /\ (pc' = "wait" => pc = "fork")
      /\ UNCHANGED <<njobs, k, table, p, fdin>>
  BY Limits
<1>1. /\ njobs \in 1..MaxJobs /\ k \in Nat /\ k >= 1 /\ k < PerLine
  <2>1. k \in 1..Len(job.progs) /\ Len(job.progs) \in Nat /\ Len(job.progs) < PerLine
    BY ProgType, LineRoom DEF TypeInv, ShellTypes
  <2>4. njobs \in 1..MaxJobs
    BY <1>0 DEF TypeInv, ShellTypes, ProgressInv, Running
  <2>5. PerLine \in Nat
    BY LineRoom
  <2> QED BY <2>1, <2>4, <2>5
<1>3. Layout(n, m)'
  BY <1>0 DEF Layout, ShellAt
<1>4. Room(n)'
  <2>0. njobs - 1 \in 0..MaxJobs /\ njobs \in 0..MaxJobs
    BY <1>1, Limits
  <2>1. (njobs - 1) * PerLine + PerLine = njobs * PerLine
        /\ (njobs - 1) * PerLine \in Nat /\ njobs * PerLine \in Nat /\ PerLine \in Nat
    BY <1>1, <2>0, LineRoom
  <2>2. ~Scarce => n <= 3 + (njobs - 1) * PerLine + (k + 1) /\ n <= 3 + njobs * PerLine
    <3>1. ~Scarce => n <= 3 + (njobs - 1) * PerLine + (k + 1)
      BY <1>0 DEF ShellAt, Room
    <3>2. PICK a \in Nat, b \in Nat : a = (njobs - 1) * PerLine /\ b = njobs * PerLine
      BY <2>1
    <3>3. a + PerLine = b /\ PerLine \in Nat /\ k + 1 <= PerLine
      BY <3>2, <2>1, <1>1
    <3>4. ~Scarce => n <= 3 + a + (k + 1)
      BY <3>1, <3>2
    <3>5. ~Scarce => n <= 3 + b
      BY <3>3, <3>4, <1>0, <1>1
    <3> QED BY <3>4, <3>5, <3>2
  <2>3. Scarce => njobs = MaxJobs
    BY <1>0 DEF ShellAt, Room
  <2> QED BY <1>0, <2>2, <2>3 DEF Room, Scarce
<1>5. PipeInv(n, m)'
  <2>1. OwnPipe(n, m) => OwnPipe(n, m)'
    BY <1>0 DEF OwnPipe
  <2>2. StalePipe(n) => StalePipe(n)'
    BY <1>0 DEF StalePipe
  <2> QED BY <1>0, <2>1, <2>2 DEF PipeInv, Scarce, ShellAt
<1>6. InputInv'
  BY <1>0 DEF InputInv, Running, Scarce, Holds
<1> QED BY <1>3, <1>4, <1>5, <1>6 DEF ShellAt

(* After a child the shell closes the write end, the highest descriptor it *)
(* has, so the layout loses one (special.c:604-606).                       *)
LEMMA ShellReapDone ==
  ASSUME TypeInv, UNCHANGED leaked, ReapDone, InputInv, ProgressInv,
         NEW n \in 3..FdLimit, NEW m \in 0..(n - 3), ShellAt(n, m)
  PROVE  ShellInv' /\ InputInv'
<1>0. /\ n \in Nat /\ m \in Nat /\ pc = "wait" /\ pc' \in {"idle", "pipe"}
      /\ fdin' = p[1] /\ p' = p /\ njobs' = njobs /\ table' = Close(table, p[2])
      /\ pc' = "idle" => k' = k
      /\ pc' = "pipe" => k' = k + 1
      /\ Layout(n, m) /\ table \in [Fds -> Object]
  BY Limits DEF ReapDone, DropWriteEnd, NextInput, ShellAt, TypeInv, ShellTypes
<1>1. /\ njobs \in 1..MaxJobs /\ k \in Nat /\ k >= 1 /\ k < PerLine
  <2>1. k \in 1..Len(job.progs) /\ Len(job.progs) \in Nat /\ Len(job.progs) < PerLine
    BY ProgType, LineRoom DEF TypeInv, ShellTypes
  <2>4. njobs \in 1..MaxJobs
    BY <1>0 DEF TypeInv, ShellTypes, ProgressInv, Running
  <2>5. PerLine \in Nat
    BY LineRoom
  <2> QED BY <2>1, <2>4, <2>5
<1>2. (njobs - 1) * PerLine + PerLine = njobs * PerLine
        /\ (njobs - 1) * PerLine \in Nat /\ njobs * PerLine \in Nat /\ PerLine \in Nat
    BY <1>1, LineRoom, Limits
<1>3. CASE OwnPipe(n, m)
  <2>0. n - 2 \in Fds /\ n - 1 \in Fds /\ n >= 5 /\ n - 1 \in 3..FdLimit
        /\ m <= n - 4 /\ m \in 0..(n - 1 - 3) /\ p = <<n - 2, n - 1>>
    BY <1>3, <1>0, Limits DEF OwnPipe, Fds
  <2>1. PICK i \in PipeIds :
       /\ table[n - 2] = <<i, "r">> /\ table[n - 1] = <<i, "w">>
       /\ \A f \in Fds : f < n - 2 => table[f] \notin {<<i, "r">>, <<i, "w">>}
    BY <1>3 DEF OwnPipe
  <2>2. table'[n - 1] = Closed /\ \A f \in Fds : f # n - 1 => table'[f] = table[f]
    BY <2>0, <1>0, Limits DEF Close
  <2>3. Layout(n - 1, m)'
    <3>1. ASSUME NEW f \in Fds PROVE table'[f] # Closed <=> f < n - 1
      BY <2>0, <2>2, <1>0, Limits DEF Layout
    <3>2. ASSUME NEW f \in Fds, f < 3 PROVE table'[f] = Tty
      BY <2>0, <2>2, <1>0, <3>2, Limits DEF Layout
    <3>3. ASSUME NEW f \in Fds, f >= 3, f < n - 1
          PROVE table'[f] = Tty \/ table'[f] \in (1..m) \X {"r", "w"}
      BY <2>0, <2>2, <1>0, <3>3, Limits DEF Layout
    <3> QED BY <3>1, <3>2, <3>3 DEF Layout
  <2>4. Room(n - 1)'
    <3>1. ~Scarce => n <= 3 + (njobs - 1) * PerLine + (k + 1)
      BY <1>0, <1>1, <1>2, Limits DEF ShellAt, Room
    <3>2. ~Scarce => n - 1 <= 3 + (njobs - 1) * PerLine + ((k + 1) - 1) /\ n - 1 <= 3 + njobs * PerLine
      BY <3>1, <1>0, <1>1, <1>2
    <3>3. Scarce => njobs = MaxJobs
      BY <1>0 DEF ShellAt, Room
    <3>4. k + 1 # 1
      BY <1>1
    <3> QED BY <1>0, <3>2, <3>3, <3>4 DEF Room, Scarce
  <2>5. PipeInv(n - 1, m)'
    <3>1. p[1] = n - 2 /\ p[2] = n - 1 /\ n - 2 >= 3 /\ n - 1 >= n - 1
      BY <2>0, <1>0
    <3>2. StalePipe(n - 1)'
      BY <3>1, <2>0, <1>0 DEF StalePipe
    <3> QED BY <1>0, <3>2 DEF PipeInv
  <2>6. InputInv'
    <3>1. fdin' = n - 2 /\ n - 2 >= 3 /\ n - 2 \in Fds /\ k + 1 # 1
      BY <2>0, <1>0, <1>1
    <3>2. table'[n - 2] = <<i, "r">>
      BY <2>0, <2>1, <2>2
    <3>3. ASSUME NEW f \in Fds PROVE table'[f] # <<i, "w">>
      <4>1. CASE f < n - 2
        BY <4>1, <2>0, <2>1, <2>2, Limits
      <4>2. CASE f = n - 2
        BY <4>2, <3>2
      <4>3. CASE f >= n - 1
        <5>1. table'[f] = Closed
          BY <4>3, <2>2, <2>0, <1>0, Limits DEF Layout
        <5> QED BY <5>1, Limits DEF Closed, PipeIds
      <4> QED BY <4>1, <4>2, <4>3, <1>0, Limits
    <3>4. ~Holds(table, <<i, "w">>)'
      BY <3>3 DEF Holds
    <3> QED BY <3>1, <3>2, <3>4, <1>0 DEF InputInv, Running
  <2> QED BY <2>0, <2>3, <2>4, <2>5, <2>6 DEF ShellInv, ShellAt
<1>4. CASE Scarce /\ StalePipe(n)
  <2>1. p[1] \in Fds /\ p[2] \in Fds /\ p[1] >= 3 /\ p[2] >= n
    BY <1>4 DEF StalePipe
  <2>2. table' = table
    <3>0. ~(p[2] < n)
      BY <2>1, <1>0, FdNat
    <3>1. table[p[2]] = Closed
      BY <2>1, <3>0, <1>0 DEF Layout
    <3> QED BY <2>1, <3>1, <1>0 DEF Close
  <2>3. Layout(n, m)'
    BY <2>2, <1>0 DEF Layout
  <2>4. Room(n)'
    <3>1. njobs = MaxJobs /\ k + 1 # 1
      BY <1>0, <1>1, <1>4 DEF ShellAt, Room
    <3> QED BY <1>0, <3>1, <1>4 DEF Room, Scarce
  <2>5. PipeInv(n, m)'
    BY <1>0, <2>1 DEF PipeInv, StalePipe
  <2>6. InputInv'
    BY <1>0, <1>1, <1>4 DEF InputInv, Running, Scarce
  <2> QED BY <2>3, <2>4, <2>5, <2>6 DEF ShellInv, ShellAt
<1> QED BY <1>0, <1>3, <1>4 DEF ShellAt, PipeInv

(* The descriptors the lines before have left open are a layout.           *)
LEMMA ShellEarlier ==
  ASSUME TypeInv, EarlierLines, NEW n \in 3..FdLimit, NEW m \in 0..(n - 3), ShellAt(n, m)
  PROVE  ShellInv' /\ InputInv'
<1>1. PICK q \in 3..FdLimit :
        q = 3 + leaked' /\ q + 2 <= FdLimit /\ leaked' > 0 /\ 0 \in 0..(q - 3)
  <2>1. PICK l \in 1..FdLimit : leaked' = l /\ FdLimit - 3 - l \in {2, 3}
    BY DEF EarlierLines
  <2>2. l \in Nat /\ l > 0 /\ 3 + l + 2 <= FdLimit
    BY <2>1, FdNat
  <2>3. 3 + l \in 3..FdLimit /\ 0 \in 0..(3 + l - 3)
    BY <2>2, FdNat
  <2> QED BY <2>1, <2>2, <2>3
<1>2. table[0] = Tty
  BY Limits DEF ShellAt, Layout
<1>3. \A f \in Fds : table'[f] = IF f < q THEN Tty ELSE Closed
  BY <1>1, <1>2 DEF EarlierLines
<1>4. Layout(q, 0)'
  BY <1>1, <1>3, Limits DEF Layout, Tty, Closed
<1>5. Room(q)'
  BY <1>1 DEF EarlierLines, Room, Scarce
<1>6. PipeInv(q, 0)'
  BY DEF EarlierLines, PipeInv
<1>7. InputInv'
  BY DEF EarlierLines, InputInv, Running
<1> QED BY <1>1, <1>4, <1>5, <1>6, <1>7 DEF ShellInv, ShellAt

-----------------------------------------------------------------------------
(* Types and progress.                                                     *)

(* What is remembered of a command is of its type.                         *)
LEMMA EntryType ==
  ASSUME TypeInv, ChildInv, pc = "wait"
  PROVE  Entry \in Entries /\ Entry.out = Prog.out - child.left /\ Entry.got = child.got
         /\ Entry.ran = child.ran /\ Entry.status = 256 * child.code
<1>1. /\ child.got \in Seq(BlockIds) /\ child.ran \in BOOLEAN /\ child.code \in 0..255
  BY DEF TypeInv, Children
<1>2. child.left \in 0..Prog.out /\ Prog.out \in Nat
  BY ProgType DEF TypeInv, ShellTypes, ChildInv
<1>3. \A a \in Nat : \A b \in 0..a : a - b \in Nat
  OBVIOUS
<1>4. Prog.out - child.left \in Nat
  BY <1>2, <1>3
<1>5. \A c \in 0..255 : 256 * c \in Nat
  OBVIOUS
<1> QED BY <1>1, <1>4, <1>5 DEF Entry, Entries

(* Appending to the log adds an entry after those it has.                  *)
LEMMA LogAppend ==
  ASSUME NEW l \in Seq(Entries), NEW e \in Entries
  PROVE  /\ Append(l, e) \in Seq(Entries)
         /\ Len(Append(l, e)) = Len(l) + 1 /\ Len(l) \in Nat
         /\ \A x \in 1..Len(l) : Append(l, e)[x] = l[x]
         /\ Append(l, e)[Len(l) + 1] = e
OBVIOUS

(* A step of the shell keeps the types.                                    *)
LEMMA ShellType ==
  ASSUME TypeInv, ProgressInv, ChildInv, ShellInv, UNCHANGED leaked, Start \/ Shell
  PROVE  TypeInv'
<1>0. /\ job.progs \in Seq(Program) /\ Len(job.progs) \in Nat /\ Prog \in Program /\ Prog.out \in Nat
      /\ k \in 1..Len(job.progs)
  BY ProgType DEF TypeInv, ShellTypes
<1>1. CASE PipeMade
  <2>0. PICK n \in 3..FdLimit : \E m \in 0..(n - 3) : ShellAt(n, m)
    BY DEF ShellInv
  <2>1. PICK m \in 0..(n - 3) : Layout(n, m)
    BY <2>0 DEF ShellAt
  <2>2. n \in Fds /\ n + 1 \in Fds /\ p' = <<n, n + 1>>
    BY <1>1, <2>1, PipeEffect
  <2>3. PICK i \in PipeIds :
              /\ table' = [table EXCEPT ![n] = <<i, "r">>, ![n + 1] = <<i, "w">>]
              /\ contents' = [contents EXCEPT ![i] = <<>>]
    BY <1>1, <2>1, PipeEffect
  <2>4. table' \in [Fds -> Object]
    BY <2>2, <2>3, Limits DEF TypeInv, ShellTypes
  <2>5. <<>> \in Seq(BlockIds) /\ Len(<<>>) = 0
    OBVIOUS
  <2>6. PipeTypes'
    BY <2>3, <2>5, LimitsAssumption DEF TypeInv, PipeTypes
  <2>7. ShellTypes'
    <3>1. p' \in (Fds \cup {-1}) \X (Fds \cup {-1})
      BY <2>2
    <3> QED BY <1>1, <3>1, <2>4 DEF PipeMade, ShellTypes, TypeInv
  <2> QED BY <1>1, <2>6, <2>7 DEF PipeMade, TypeInv, LogTypes
<1>2. CASE PipeFails
  BY <1>2 DEF PipeFails, TypeInv, ShellTypes, PipeTypes, LogTypes
<1>3. CASE Fork
  <2>0. <<>> \in Seq(BlockIds)
    OBVIOUS
  <2>1. child' = [at |-> "stdio", table |-> table, left |-> Prog.out, got |-> <<>>,
                  ran |-> FALSE, code |-> 0]
    BY <1>3 DEF Fork, NoChild
  <2>2. child' \in Children
    BY <2>0, <2>1, <1>0 DEF Children, TypeInv, ShellTypes
  <2> QED BY <1>3, <2>2 DEF Fork, TypeInv, ShellTypes, PipeTypes, LogTypes
<1>4. CASE ForkFails
  BY <1>4 DEF ForkFails, TypeInv, ShellTypes, PipeTypes, LogTypes
<1>5. CASE ReapFailed \/ ReapDone
  <2>0. <<>> \in Seq(BlockIds)
    OBVIOUS
  <2>1. NoChild \in Children
    BY <2>0, Limits DEF NoChild, Children
  <2>2. child' = NoChild /\ log' = Append(log, Entry) /\ pc = "wait"
        /\ UNCHANGED <<njobs, job, p, contents, leaked>>
    BY <1>5 DEF ReapFailed, ReapDone
  <2>3. Entry \in Entries /\ Len(log) = k - 1
    BY <2>2, EntryType DEF ProgressInv, Running
  <2>4. LogTypes'
    BY <2>2, <2>3, <1>0, LogAppend DEF TypeInv, LogTypes
  <2>5. p[1] \in Fds \cup {-1} /\ p[2] \in Fds \cup {-1} /\ table \in [Fds -> Object] /\ fdin \in Fds \cup {-1}
    BY DEF TypeInv, ShellTypes
  <2>6. table' \in [Fds -> Object] /\ fdin' \in Fds \cup {-1}
    <3>1. Close(table, p[2]) \in [Fds -> Object]
      BY <2>5, CloseType
    <3> QED BY <1>5, <2>5, <3>1 DEF ReapFailed, ReapDone, DropWriteEnd, NextInput
  <2>7. k' \in 1..Len(job.progs)
    BY <1>5, <1>0 DEF ReapFailed, ReapDone, IsLast
  <2>8. pc' \in {"idle", "pipe"} /\ ret' \in {0, -1, -3}
    BY <1>5 DEF ReapFailed, ReapDone, TypeInv, ShellTypes
  <2>9. ShellTypes'
    BY <2>2, <2>6, <2>7, <2>8 DEF TypeInv, ShellTypes
  <2> QED BY <2>1, <2>2, <2>4, <2>9 DEF TypeInv, PipeTypes
<1>6. CASE Start
  <2>1. job' \in Jobs /\ k' = 1 /\ log' = <<>> /\ njobs' = njobs + 1 /\ njobs < MaxJobs
    BY <1>6 DEF Start
  <2>2. job'.progs \in Seq(Program) \ {<<>>}
    BY <2>1, JobsAssumption
  <2>3. Len(job'.progs) \in Nat /\ Len(job'.progs) >= 1
    BY <2>2
  <2>4. k' \in 1..Len(job'.progs)
    BY <2>1, <2>3
  <2>5. LogTypes'
    BY <2>1, <2>3 DEF LogTypes
  <2>6. njobs' \in 0..MaxJobs
    BY <2>1, FdNat DEF TypeInv, ShellTypes
  <2>7. 0 \in Fds
    BY Limits
  <2>8. ShellTypes'
    BY <1>6, <2>1, <2>4, <2>6, <2>7 DEF Start, TypeInv, ShellTypes
  <2> QED BY <1>6, <2>5, <2>8 DEF Start, TypeInv, PipeTypes
<1> QED BY <1>1, <1>2, <1>3, <1>4, <1>5, <1>6 DEF Shell

(* So do the lines before.                                                 *)
LEMMA EarlierType ==
  ASSUME TypeInv, EarlierLines
  PROVE  TypeInv'
<1>1. table' \in [Fds -> Object]
  BY Limits DEF EarlierLines, TypeInv, ShellTypes
<1>2. leaked' \in 0..FdLimit /\ njobs' \in 0..MaxJobs
  BY FdNat DEF EarlierLines
<1> QED BY <1>1, <1>2 DEF EarlierLines, TypeInv, ShellTypes, PipeTypes, LogTypes

(* The child's redirections leave a descriptor table.                      *)
LEMMA StdioTables ==
  ASSUME TypeInv, ChildStdio
  PROVE  child'.table \in [Fds -> Object]
<1>0. child.table \in [Fds -> Object] /\ fdin \in Fds \cup {-1} /\ p[2] \in Fds \cup {-1}
  BY DEF TypeInv, ShellTypes, Children
<1>1. ASSUME NEW in \in FirstInput(child.table)
      PROVE  in[1] \in [Fds -> Object] /\ in[2] \in Fds \cup {-1}
  <2>1. CASE "REDIR_STDIN" \in job.mode
    <3>1. PICK o \in {File, Closed} : in = <<[child.table EXCEPT ![0] = o], 0>>
      BY <1>1, <2>1 DEF FirstInput
    <3> QED BY <3>1, <1>0, Limits
  <2>2. CASE "REDIR_STDIN" \notin job.mode /\ "REMOTE_HOST" \in job.mode /\ Free(child.table) = {}
    BY <1>1, <2>2, <1>0 DEF FirstInput
  <2>3. CASE "REDIR_STDIN" \notin job.mode /\ "REMOTE_HOST" \in job.mode /\ Free(child.table) # {}
    <3>1. in = <<[child.table EXCEPT ![Min(Free(child.table))] = Socket], Min(Free(child.table))>>
      BY <1>1, <2>3 DEF FirstInput
    <3>2. Free(child.table) \subseteq Fds /\ Fds \subseteq Nat
      BY Limits DEF Free
    <3>3. Min(Free(child.table)) \in Fds
      BY <3>2, <2>3, NatMin
    <3> QED BY <3>1, <3>3, <1>0, Limits
  <2>4. CASE "REDIR_STDIN" \notin job.mode /\ "REMOTE_HOST" \notin job.mode
    BY <1>1, <2>4, <1>0 DEF FirstInput
  <2> QED BY <2>1, <2>2, <2>3, <2>4
<1>2. ASSUME NEW s \in [Fds -> Object], NEW t \in Output(s) PROVE t \in [Fds -> Object]
  <2>1. Dup2(s, p[2], 1) \in [Fds -> Object]
    BY <1>0, Dup2Type, Limits
  <2>2. \A o \in {File, Closed} : [s EXCEPT ![1] = o] \in [Fds -> Object]
    BY Limits
  <2> QED BY <1>2, <2>1, <2>2 DEF Output
<1>3a. PICK in \in IF k = 1 THEN FirstInput(child.table) ELSE {<<Dup2(child.table, fdin, 0), 0>>} :
           \E t \in Output(in[1]) : child'.table = Dup2(t, in[2], 0)
  <2>1. PICK in \in IF k = 1 THEN FirstInput(child.table) ELSE {<<Dup2(child.table, fdin, 0), 0>>} :
           \E t \in Output(in[1]) :
         child' = [child EXCEPT !.table = Dup2(t, in[2], 0),
                                !.at = IF ListensFirst THEN "accept" ELSE "exec"]
    BY DEF ChildStdio
  <2>2. PICK t \in Output(in[1]) :
         child' = [child EXCEPT !.table = Dup2(t, in[2], 0),
                                !.at = IF ListensFirst THEN "accept" ELSE "exec"]
    BY <2>1
  <2>3. child'.table = Dup2(t, in[2], 0)
    BY <2>2 DEF TypeInv, Children
  <2> QED BY <2>3
<1>3. PICK t \in Output(in[1]) : child'.table = Dup2(t, in[2], 0)
  BY <1>3a
<1>4. in[1] \in [Fds -> Object] /\ in[2] \in Fds \cup {-1}
  <2>1. Dup2(child.table, fdin, 0) \in [Fds -> Object]
    BY <1>0, Dup2Type, Limits
  <2> QED BY <1>1, <1>3, <2>1, Limits
<1>5. t \in [Fds -> Object]
  BY <1>2, <1>3, <1>4
<1>6. Dup2(t, in[2], 0) \in [Fds -> Object]
  BY <1>4, <1>5, Dup2Type, Limits
<1> QED BY <1>3, <1>6

-----------------------------------------------------------------------------
(* The child.                                                              *)

(* What none of its steps changes. *)
Frame == /\ UNCHANGED <<pc, njobs, job, k, table, p, fdin, ret, log, leaked>>
         /\ pc = "wait" /\ child.at # "none"

ChildSteps == Child \/ Accepted

(* A step of the child changes the child and the pipes, nothing of the     *)
(* shell.                                                                  *)
LEMMA ChildFrame ==
  ASSUME ProgressInv, UNCHANGED leaked, ChildSteps
  PROVE  Frame
<1>1. ASSUME NEW i \in PipeIds, Read(i) \/ Write(i) PROVE Frame
  BY <1>1 DEF Read, Write, ReadsPipe, WritesPipe, Frame, ProgressInv
<1>2. ASSUME ChildStdio \/ HostUnknown \/ Exec \/ WriteElsewhere \/ ProgramExits \/ Accepted PROVE Frame
  BY <1>2 DEF ChildStdio, HostUnknown, Exec, WriteElsewhere, ProgramExits, Accepted, Frame, ProgressInv
<1> QED BY <1>1, <1>2 DEF ChildSteps, Child

(* What a read does: the first block of the pipe goes to the child.        *)
LEMMA ReadEffect ==
  ASSUME TypeInv, NEW i \in PipeIds, Read(i)
  PROVE  /\ child' \in Children /\ child'.at = "run" /\ child.at = "run" /\ child'.table = child.table
         /\ child'.left = child.left /\ child'.ran = child.ran /\ child'.code = child.code
         /\ child'.got = Append(child.got, Head(contents[i]))
         /\ contents' = [contents EXCEPT ![i] = Tail(contents[i])]
         /\ contents[i] # <<>> /\ child.table[0] = <<i, "r">> /\ Prog.reads
<1>1. child' = [child EXCEPT !.got = Append(child.got, Head(contents[i]))]
  BY DEF Read, TypeInv, Children
<1>2. child \in Children /\ contents[i] \in Seq(BlockIds) /\ contents[i] # <<>>
  BY DEF Read, TypeInv, PipeTypes
<1>3. Head(contents[i]) \in BlockIds
  BY <1>2
<1>4. Append(child.got, Head(contents[i])) \in Seq(BlockIds)
  BY <1>2, <1>3 DEF Children
<1>5. child' \in Children
  BY <1>1, <1>2, <1>4 DEF Children
<1>6. /\ child'.at = child.at /\ child'.table = child.table
      /\ child'.left = child.left /\ child'.ran = child.ran /\ child'.code = child.code
      /\ child'.got = Append(child.got, Head(contents[i]))
  BY <1>1, <1>2 DEF Children
<1>7. contents' = [contents EXCEPT ![i] = Tail(contents[i])]
  BY DEF Read, TypeInv, PipeTypes
<1> QED BY <1>2, <1>5, <1>6, <1>7 DEF Read, ReadsPipe

(* What a write does: a block more in the pipe, one less to write.         *)
LEMMA WriteEffect ==
  ASSUME TypeInv, NEW i \in PipeIds, Write(i)
  PROVE  /\ child' \in Children /\ child'.at = "run" /\ child.at = "run" /\ child'.table = child.table
         /\ child'.left = child.left - 1 /\ child'.ran = child.ran /\ child'.code = child.code
         /\ child'.got = child.got
         /\ contents' = [contents EXCEPT ![i] = Append(contents[i], Block)]
         /\ child.left > 0 /\ child.table[1] = <<i, "w">>
<1>1. child' = [child EXCEPT !.left = child.left - 1]
  BY DEF Write, TypeInv, Children
<1>2. child \in Children /\ child.left \in Nat /\ child.left > 0
  BY DEF Write, TypeInv, Children
<1>3. child.left - 1 \in Nat
  BY <1>2
<1>4. child' \in Children
  BY <1>1, <1>2, <1>3 DEF Children
<1>5. /\ child'.at = child.at /\ child'.table = child.table
      /\ child'.left = child.left - 1 /\ child'.ran = child.ran /\ child'.code = child.code
      /\ child'.got = child.got
  BY <1>1, <1>2 DEF Children
<1>6. contents' = [contents EXCEPT ![i] = Append(contents[i], Block)]
  BY DEF Write, TypeInv, PipeTypes
<1> QED BY <1>2, <1>4, <1>5, <1>6 DEF Write, WritesPipe

(* What a write to the terminal, a file or a connection does.              *)
LEMMA ElsewhereEffect ==
  ASSUME TypeInv, WriteElsewhere
  PROVE  /\ child' \in Children /\ child'.at = "run" /\ child.at = "run" /\ child'.table = child.table
         /\ child'.left = child.left - 1 /\ child'.ran = child.ran /\ child'.code = child.code
         /\ child'.got = child.got
         /\ contents' = contents
         /\ child.left > 0
<1>1. child' = [child EXCEPT !.left = child.left - 1]
  BY DEF WriteElsewhere, TypeInv, Children
<1>2. child \in Children /\ child.left \in Nat /\ child.left > 0
  BY DEF WriteElsewhere, TypeInv, Children
<1>3. child.left - 1 \in Nat
  BY <1>2
<1>4. child' \in Children
  BY <1>1, <1>2, <1>3 DEF Children
<1>5. /\ child'.at = child.at /\ child'.table = child.table
      /\ child'.left = child.left - 1 /\ child'.ran = child.ran /\ child'.code = child.code
      /\ child'.got = child.got
  BY <1>1, <1>2 DEF Children
<1> QED BY <1>2, <1>4, <1>5 DEF WriteElsewhere

(* What the child does with its descriptors before exec.                   *)
LEMMA StdioEffect ==
  ASSUME TypeInv, ChildStdio
  PROVE  /\ child' \in Children /\ child.at = "stdio"
         /\ child'.at = IF ListensFirst THEN "accept" ELSE "exec"
         /\ child'.left = child.left /\ child'.ran = child.ran /\ child'.code = child.code
         /\ child'.got = child.got
         /\ contents' = contents
         /\ \E in \in IF k = 1 THEN FirstInput(child.table) ELSE {<<Dup2(child.table, fdin, 0), 0>>} :
              \E t \in Output(in[1]) : child'.table = Dup2(t, in[2], 0)
<1>1. PICK in \in IF k = 1 THEN FirstInput(child.table) ELSE {<<Dup2(child.table, fdin, 0), 0>>} :
           \E t \in Output(in[1]) :
         child' = [child EXCEPT !.table = Dup2(t, in[2], 0),
                                !.at = IF ListensFirst THEN "accept" ELSE "exec"]
    BY DEF ChildStdio
<1>2. PICK t \in Output(in[1]) :
         child' = [child EXCEPT !.table = Dup2(t, in[2], 0),
                                !.at = IF ListensFirst THEN "accept" ELSE "exec"]
    BY <1>1
<1>3. child \in Children /\ (IF ListensFirst THEN "accept" ELSE "exec") \in {"accept", "exec"}
  BY DEF TypeInv
<1>4. /\ child'.table = Dup2(t, in[2], 0) /\ child'.at = IF ListensFirst THEN "accept" ELSE "exec"
      /\ child'.left = child.left /\ child'.ran = child.ran /\ child'.code = child.code
      /\ child'.got = child.got
  BY <1>2, <1>3 DEF Children
<1>5. child'.table \in [Fds -> Object]
  BY StdioTables
<1>6. child' \in Children
  BY <1>2, <1>3, <1>4, <1>5 DEF Children
<1> QED BY <1>1, <1>4, <1>6 DEF ChildStdio

(* What accept, a failed lookup of the host, exec and exit do to the       *)
(* child.                                                                  *)
LEMMA AcceptExecEffect ==
  ASSUME TypeInv, HostUnknown \/ Accepted \/ Exec \/ ProgramExits
  PROVE  /\ child' \in Children
         /\ child'.left = child.left /\ child'.got = child.got
         /\ contents' = contents
         /\ HostUnknown => child.at = "stdio" /\ child'.at = "exited" /\ child'.ran = child.ran
                            /\ child'.code = child.code
         /\ Accepted => child.at = "accept" /\ child'.at = "exec" /\ child'.ran = child.ran
                            /\ child'.code = child.code
                            /\ child'.table \in {child.table, [child.table EXCEPT ![1] = Socket]}
         /\ Exec => /\ child.at = "exec" /\ child'.at = IF Prog.found THEN "run" ELSE "exited"
                    /\ child'.ran = Prog.found /\ child'.code = IF Prog.found THEN 0 ELSE 1
                    /\ child'.table = Close(child.table, p[1])
         /\ ProgramExits => child.at = "run" /\ child'.at = "exited" /\ child'.ran = child.ran
                            /\ child'.code = Prog.code
<1>0. child \in Children /\ child.table \in [Fds -> Object]
  BY DEF TypeInv, Children
<1>1. CASE HostUnknown
  BY <1>0, <1>1 DEF HostUnknown, Children, Accepted, Exec, ProgramExits
<1>2. CASE Accepted
  <2>1. PICK t \in {child.table, [child.table EXCEPT ![1] = Socket]} :
       child' = [child EXCEPT !.at = "exec", !.table = t]
    BY <1>2 DEF Accepted
  <2>2. t \in [Fds -> Object]
    BY <1>0, Limits
  <2>3. child' \in Children /\ child'.at = "exec" /\ child'.table = t /\ child'.ran = child.ran
        /\ child'.code = child.code /\ child'.left = child.left /\ child'.got = child.got
    BY <1>0, <2>1, <2>2 DEF Children
  <2> QED BY <1>2, <2>3 DEF HostUnknown, Accepted, Exec, ProgramExits
<1>3. CASE Exec
  <2>1. Prog.found \in BOOLEAN
    BY ProgType DEF TypeInv, ShellTypes
  <2>2. Close(child.table, p[1]) \in [Fds -> Object]
    BY <1>0, CloseType DEF TypeInv, ShellTypes
  <2>3. PICK t \in [Fds -> Object], a \in {"run", "exited"}, r \in BOOLEAN, c \in 0..255 :
          /\ t = Close(child.table, p[1]) /\ r = Prog.found
          /\ a = IF Prog.found THEN "run" ELSE "exited"
          /\ c = IF Prog.found THEN 0 ELSE 1
    BY <2>1, <2>2
  <2>4. child' = [child EXCEPT !.table = t, !.at = a, !.ran = r, !.code = c]
    BY <1>3, <1>0, <2>3 DEF Exec, Children
  <2>5. /\ child' \in Children /\ child'.at = a /\ child'.ran = r /\ child'.code = c
        /\ child'.table = t /\ child'.left = child.left /\ child'.got = child.got
    BY <1>0, <2>4 DEF Children
  <2> QED BY <1>3, <2>3, <2>5 DEF HostUnknown, Accepted, Exec, ProgramExits
<1>4. CASE ProgramExits
  <2>1. PICK c \in 0..255 : c = Prog.code
    BY ProgType DEF TypeInv, ShellTypes
  <2>2. child' = [child EXCEPT !.at = "exited", !.code = c]
    BY <1>4, <2>1 DEF ProgramExits
  <2>3. child' \in Children /\ child'.at = "exited" /\ child'.code = c
        /\ child'.ran = child.ran /\ child'.left = child.left /\ child'.got = child.got
    BY <1>0, <2>2 DEF Children
  <2> QED BY <1>4, <2>1, <2>3 DEF HostUnknown, Accepted, Exec, ProgramExits
<1> QED BY <1>1, <1>2, <1>3, <1>4

(* A step of the child keeps the types.                                    *)
LEMMA ChildType ==
  ASSUME TypeInv, Frame, ChildSteps
  PROVE  TypeInv'
<1>1. child' \in Children /\ PipeTypes'
  <2>1. ASSUME NEW i \in PipeIds, Read(i) PROVE child' \in Children /\ PipeTypes'
    <3>1. contents[i] \in Seq(BlockIds) /\ contents[i] # <<>> /\ Len(contents[i]) <= Capacity
      BY <2>1, ReadEffect DEF TypeInv, PipeTypes
    <3>2. Tail(contents[i]) \in Seq(BlockIds) /\ Len(Tail(contents[i])) <= Capacity
      BY <3>1, LimitsAssumption
    <3> QED BY <2>1, <3>2, ReadEffect DEF TypeInv, PipeTypes
  <2>2. ASSUME NEW i \in PipeIds, Write(i) PROVE child' \in Children /\ PipeTypes'
    <3>1. contents[i] \in Seq(BlockIds) /\ Len(contents[i]) < Capacity
      BY <2>2 DEF TypeInv, PipeTypes, Write
    <3>2. Block \in BlockIds
      BY ProgType, FdNat DEF Block, BlockIds, TypeInv, ShellTypes
    <3>3. Append(contents[i], Block) \in Seq(BlockIds) /\ Len(Append(contents[i], Block)) <= Capacity
      BY <3>1, <3>2, LimitsAssumption
    <3> QED BY <2>2, <3>3, WriteEffect DEF TypeInv, PipeTypes
  <2>3. CASE ChildStdio
    BY <2>3, StdioEffect DEF TypeInv, PipeTypes
  <2>4. CASE WriteElsewhere
    BY <2>4, ElsewhereEffect DEF TypeInv, PipeTypes
  <2>5. CASE HostUnknown \/ Accepted \/ Exec \/ ProgramExits
    BY <2>5, AcceptExecEffect DEF TypeInv, PipeTypes
  <2> QED BY <2>1, <2>2, <2>3, <2>4, <2>5 DEF ChildSteps, Child
<1>2. ShellTypes' /\ LogTypes'
  BY DEF TypeInv, Frame, ShellTypes, LogTypes
<1> QED BY <1>1, <1>2 DEF TypeInv

(* A step of the child keeps what is known of the shell.                   *)
LEMMA ChildKeeps ==
  ASSUME ShellInv, InputInv, ProgressInv, Frame, ChildSteps, TypeInv
  PROVE  ShellInv' /\ InputInv' /\ ProgressInv'
<1>1. ShellInv'
  <2>1. PICK n \in 3..FdLimit : \E m \in 0..(n - 3) : ShellAt(n, m)
    BY DEF ShellInv
  <2>2. PICK m \in 0..(n - 3) : ShellAt(n, m)
    BY <2>1
  <2>3. Layout(n, m)' /\ Room(n)'
    BY <2>2 DEF ShellAt, Layout, Room, Frame, Scarce
  <2>4. PipeInv(n, m)'
    BY <2>2 DEF ShellAt, PipeInv, OwnPipe, StalePipe, Frame, Scarce
  <2> QED BY <2>3, <2>4 DEF ShellInv, ShellAt
<1>2. InputInv'
  BY DEF InputInv, Frame, Holds, Running, Scarce
<1>3. child'.at # "none"
  <2>1. ASSUME NEW i \in PipeIds, Read(i) PROVE child'.at # "none"
    BY <2>1, ReadEffect
  <2>2. ASSUME NEW i \in PipeIds, Write(i) PROVE child'.at # "none"
    BY <2>2, WriteEffect
  <2> QED BY <2>1, <2>2, StdioEffect, ElsewhereEffect, AcceptExecEffect DEF ChildSteps, Child
<1>4. ProgressInv'
  BY <1>3 DEF ProgressInv, Frame, Running, Scarce
<1> QED BY <1>1, <1>2, <1>4

(* And what is known of the child's progress.                              *)
LEMMA ChildProgress ==
  ASSUME TypeInv, ChildInv, Frame, ChildSteps
  PROVE  ChildInv'
<1>0. Prog' = Prog /\ IsLast' = IsLast /\ Prog.out \in Nat /\ pc = "wait" /\ Prog.found \in BOOLEAN
      /\ table' = table
  BY ProgType DEF Frame, Prog, IsLast, TypeInv, ShellTypes
<1>1. child.left \in 0..Prog.out
  BY <1>0 DEF ChildInv
<1>2. ASSUME NEW i \in PipeIds, Read(i) PROVE ChildInv'
  BY <1>0, <1>2, ReadEffect DEF ChildInv
<1>3. ASSUME NEW i \in PipeIds, Write(i) PROVE ChildInv'
  <2>1. child.left - 1 \in 0..Prog.out
    BY <1>0, <1>1, <1>3, WriteEffect
  <2> QED BY <1>0, <2>1, <1>3, WriteEffect DEF ChildInv
<1>4. CASE WriteElsewhere
  <2>1. child.left - 1 \in 0..Prog.out
    BY <1>0, <1>1, <1>4, ElsewhereEffect
  <2> QED BY <1>0, <2>1, <1>4, ElsewhereEffect DEF ChildInv
<1>5. CASE ChildStdio
  BY <1>0, <1>5, StdioEffect DEF ChildInv, ListensFirst
<1>6. CASE HostUnknown \/ Accepted \/ Exec \/ ProgramExits
  BY <1>0, <1>6, AcceptExecEffect DEF ChildInv
<1> QED BY <1>2, <1>3, <1>4, <1>5, <1>6 DEF ChildSteps, Child

-----------------------------------------------------------------------------
(* A forked child has the shell's table and all its blocks to write.       *)
LEMMA ForkEffect ==
  ASSUME TypeInv, Fork
  PROVE  /\ child' = [at |-> "stdio", table |-> table, left |-> Prog.out, got |-> <<>>,
                      ran |-> FALSE, code |-> 0]
         /\ pc = "fork" /\ pc' = "wait"
BY DEF Fork, NoChild

(* A step of the shell keeps count of the commands and of the child.       *)
LEMMA ShellProgress ==
  ASSUME TypeInv, ProgressInv, ChildInv, UNCHANGED leaked, Start \/ Shell
  PROVE  ProgressInv' /\ ChildInv'
<1>0. Prog.out \in Nat /\ k \in Nat /\ njobs \in Nat /\ k >= 1 /\ MaxJobs \in Nat
      /\ log \in Seq(Entries) /\ Len(log) \in Nat
  BY ProgType, FdNat DEF TypeInv, ShellTypes, LogTypes
<1>1. CASE PipeMade \/ PipeFails \/ ForkFails
  BY <1>1, <1>0 DEF PipeMade, PipeFails, ForkFails, ProgressInv, ChildInv, Running, Scarce
<1>2. CASE Fork
  <2>1. ProgressInv'
    BY <1>0, <1>2, ForkEffect DEF Fork, ProgressInv, Running, Scarce
  <2>2. Prog' = Prog /\ Prog.out \in 0..Prog.out /\ table' = table
    BY <1>0, <1>2 DEF Fork, Prog
  <2>3. ChildInv'
    BY <2>2, <1>2, ForkEffect DEF ChildInv
  <2> QED BY <2>1, <2>3
<1>3. CASE ReapFailed \/ ReapDone
  <2>1. pc = "wait" /\ pc' \in {"idle", "pipe"} /\ child'.at = "none" /\ njobs' = njobs
        /\ log' = Append(log, Entry) /\ (pc' = "pipe" => k' = k + 1)
    BY <1>3 DEF ReapFailed, ReapDone, NoChild
  <2>2. njobs >= 1 /\ Len(log) = k - 1
    BY <2>1 DEF ProgressInv, Running
  <2>3. Len(log') = k
    BY <2>1, <2>2, <1>0, EntryType, LogAppend
  <2> QED BY <2>1, <2>2, <2>3, <1>0 DEF ProgressInv, ChildInv, Running
<1>4. CASE Start
  BY <1>0, <1>4 DEF Start, ProgressInv, ChildInv, Running
<1> QED BY <1>1, <1>2, <1>3, <1>4 DEF Shell

(* So do the lines before.                                                 *)
LEMMA EarlierProgress ==
  ASSUME TypeInv, ProgressInv, ChildInv, EarlierLines
  PROVE  ProgressInv' /\ ChildInv'
<1>1. leaked' > 0 /\ pc' = "idle" /\ pc = "idle" /\ child' = child
  BY DEF EarlierLines
<1> QED BY <1>1 DEF ProgressInv, ChildInv, Running, Scarce

-----------------------------------------------------------------------------
(* The child's standard input and output, while descriptors last.          *)

(* Between fork and wait the current command has two pipes, and they       *)
(* differ; the shell has closed the write end of the one it reads.         *)
LEMMA TwoPipes ==
  ASSUME TypeInv, ShellInv, InputInv, ProgressInv, pc \in {"fork", "wait"}, ~Scarce
  PROVE  /\ p[1] \in Fds /\ p[2] \in Fds /\ p[1] >= 3 /\ p[2] >= 3 /\ p[1] # p[2]
         /\ OutPipe \in PipeIds
         /\ table[p[1]] = <<OutPipe, "r">> /\ table[p[2]] = <<OutPipe, "w">>
         /\ \A f \in 0..2 : f \in Fds /\ table[f] = Tty
         /\ k > 1 => /\ fdin \in Fds /\ fdin >= 3 /\ InPipe \in PipeIds /\ InPipe # OutPipe
                     /\ table[fdin] = <<InPipe, "r">> /\ ~Holds(table, <<InPipe, "w">>)
         /\ k = 1 => fdin = 0
<1>1. PICK n \in 3..FdLimit : \E m \in 0..(n - 3) : ShellAt(n, m)
  BY DEF ShellInv
<1>2. PICK m \in 0..(n - 3) : ShellAt(n, m)
  BY <1>1
<1>3. OwnPipe(n, m) /\ Layout(n, m)
  BY <1>2 DEF ShellAt, PipeInv
<1>4. n >= 5 /\ p = <<n - 2, n - 1>> /\ n - 2 \in Fds /\ n - 1 \in Fds /\ n \in Nat
  BY <1>3, FdNat DEF OwnPipe, Fds
<1>5. PICK i \in PipeIds : table[n - 2] = <<i, "r">> /\ table[n - 1] = <<i, "w">>
  BY <1>3 DEF OwnPipe
<1>6. p[1] = n - 2 /\ p[2] = n - 1 /\ OutPipe = i
  BY <1>4, <1>5 DEF OutPipe
<1>7. \A f \in 0..2 : f \in Fds /\ table[f] = Tty
  BY <1>3, FdNat DEF Layout, Fds
<1>8. ASSUME k > 1
      PROVE  /\ fdin \in Fds /\ fdin >= 3 /\ InPipe \in PipeIds /\ InPipe # OutPipe
             /\ table[fdin] = <<InPipe, "r">> /\ ~Holds(table, <<InPipe, "w">>)
  <2>1. fdin \in Fds /\ fdin >= 3
    BY <1>8 DEF InputInv, Running
  <2>2. PICK j \in PipeIds : table[fdin] = <<j, "r">> /\ ~Holds(table, <<j, "w">>)
    BY <1>8 DEF InputInv, Running
  <2>3. InPipe = j
    BY <2>2 DEF InPipe
  <2>4. j # i
    BY <2>2, <1>4, <1>5 DEF Holds
  <2> QED BY <2>1, <2>2, <2>3, <2>4, <1>6
<1>9. k = 1 => fdin = 0
  BY DEF InputInv, Running
<1> QED BY <1>4, <1>5, <1>6, <1>7, <1>8, <1>9

(* Terminals, files and connections are not ends of pipes.                 *)
LEMMA NotAnEnd ==
  /\ ~IsPipeEnd(Tty) /\ ~IsPipeEnd(File) /\ ~IsPipeEnd(Socket) /\ ~IsPipeEnd(Closed)
  /\ \A i \in PipeIds : <<i, "r">> # Closed /\ <<i, "w">> # Closed
                        /\ IsPipeEnd(<<i, "r">>) /\ IsPipeEnd(<<i, "w">>)
<1>1. 0 \notin PipeIds
  BY FdNat DEF PipeIds
<1> QED BY <1>1 DEF IsPipeEnd, Tty, File, Socket, Closed

(* After its redirections the child reads where the command before wrote,  *)
(* and writes to its own pipe; the last one writes to no pipe              *)
(* (special.c:570-594).                                                    *)
LEMMA StdioSet ==
  ASSUME TypeInv, ShellInv, InputInv, ProgressInv, ChildInv, ChildStdio, ~Scarce, Frame
  PROVE  /\ IF k = 1 THEN ~IsPipeEnd(child'.table[0]) ELSE child'.table[0] = table[fdin]
         /\ IF IsLast THEN ~IsPipeEnd(child'.table[1]) ELSE child'.table[1] = table[p[2]]
         /\ \A f \in Fds \ {0, 1} : child'.table[f] \in {table[f], Closed, Socket}
<1>0. /\ child.table = table /\ pc = "wait" /\ table \in [Fds -> Object] /\ 0 \in Fds /\ 1 \in Fds
  BY Limits DEF ChildStdio, Frame, ChildInv, TypeInv, ShellTypes
<1>1. /\ p[2] \in Fds /\ p[2] >= 3 /\ p[2] # 0 /\ p[2] # 1 /\ table[p[2]] = <<OutPipe, "w">> /\ OutPipe \in PipeIds
      /\ table[0] = Tty /\ table[1] = Tty /\ table[p[2]] # Closed
      /\ k > 1 => /\ fdin \in Fds /\ fdin >= 3 /\ InPipe \in PipeIds
                  /\ table[fdin] = <<InPipe, "r">> /\ table[fdin] # Closed
      /\ k = 1 => fdin = 0
  BY <1>0, TwoPipes, NotAnEnd
<1>2. PICK in \in IF k = 1 THEN FirstInput(table) ELSE {<<Dup2(table, fdin, 0), 0>>} :
              \E t \in Output(in[1]) : child'.table = Dup2(t, in[2], 0)
  BY <1>0, StdioEffect
<1>3. PICK t \in Output(in[1]) : child'.table = Dup2(t, in[2], 0)
  BY <1>2
<1>4. /\ in[1] \in [Fds -> Object] /\ in[1][1] = Tty /\ in[1][p[2]] = table[p[2]]
      /\ \A f \in Fds \ {0, 1} : in[1][f] \in {table[f], Closed, Socket}
      /\ in[2] = 0 \/ in[2] = -1 \/ (in[2] \in Fds /\ in[2] >= 3 /\ in[2] # p[2] /\ in[1][in[2]] = Socket)
      /\ IF k = 1 THEN ~IsPipeEnd(in[1][0]) ELSE in[2] = 0 /\ in[1][0] = table[fdin]
  <2>1. CASE k # 1
    <3>0. k > 1
      BY <2>1, ProgType DEF TypeInv, ShellTypes
    <3>1. in = <<[table EXCEPT ![0] = table[fdin]], 0>>
      BY <1>1, <1>2, <2>1, <3>0 DEF Dup2
    <3>2. in[1] = [table EXCEPT ![0] = table[fdin]] /\ in[2] = 0
      BY <3>1
    <3>3. in[1] \in [Fds -> Object] /\ in[1][0] = table[fdin] /\ \A f \in Fds \ {0} : in[1][f] = table[f]
      BY <3>2, <3>0, <1>0, <1>1
    <3> QED BY <3>2, <3>3, <2>1, <1>0, <1>1
  <2>2. CASE k = 1 /\ "REDIR_STDIN" \in job.mode
    <3>1. PICK o \in {File, Closed} : in = <<[table EXCEPT ![0] = o], 0>>
      BY <1>2, <2>2 DEF FirstInput
    <3>2. o \in Object /\ ~IsPipeEnd(o)
      BY NotAnEnd, Limits
    <3> QED BY <3>1, <3>2, <2>2, <1>0, <1>1
  <2>3. CASE k = 1 /\ "REDIR_STDIN" \notin job.mode /\ "REMOTE_HOST" \in job.mode /\ Free(table) = {}
    <3>1. in = <<table, -1>>
      BY <1>2, <2>3 DEF FirstInput
    <3> QED BY <3>1, <2>3, <1>0, <1>1, NotAnEnd
  <2>4. CASE k = 1 /\ "REDIR_STDIN" \notin job.mode /\ "REMOTE_HOST" \in job.mode /\ Free(table) # {}
    <3>1. PICK g \in Fds : g = Min(Free(table)) /\ g \in Free(table)
      <4>1. Free(table) \subseteq Fds /\ Fds \subseteq Nat
        BY Limits DEF Free
      <4> QED BY <4>1, <2>4, NatMin
    <3>2. in = <<[table EXCEPT ![g] = Socket], g>>
      BY <1>2, <2>4, <3>1 DEF FirstInput
    <3>3. g # 0 /\ g # 1 /\ g # 2 /\ g # p[2]
      <4>1. table[g] = Closed
        BY <3>1 DEF Free
      <4>2. \A f \in 0..2 : table[f] = Tty
        BY <1>0, TwoPipes
      <4> QED BY <4>1, <4>2, <1>1 DEF Tty, Closed
    <3>4. g >= 3
      BY <3>3, FdNat
    <3> QED BY <3>2, <3>3, <3>4, <2>4, <1>0, <1>1, Limits, NotAnEnd
  <2>5. CASE k = 1 /\ "REDIR_STDIN" \notin job.mode /\ "REMOTE_HOST" \notin job.mode
    <3>1. in = <<table, 0>>
      BY <1>1, <1>2, <2>5 DEF FirstInput
    <3> QED BY <3>1, <2>5, <1>0, <1>1, NotAnEnd
  <2> QED BY <2>1, <2>2, <2>3, <2>4, <2>5
<1>5. /\ t \in [Fds -> Object] /\ \A f \in Fds \ {1} : t[f] = in[1][f]
      /\ IF IsLast THEN ~IsPipeEnd(t[1]) ELSE t[1] = table[p[2]]
  <2>1. CASE ~IsLast
    <3>1. t = [in[1] EXCEPT ![1] = table[p[2]]]
      BY <1>1, <1>3, <1>4, <2>1 DEF Output, Dup2
    <3> QED BY <3>1, <2>1, <1>0, <1>1, <1>4
  <2>2. CASE IsLast /\ job.mode \cap {"REDIR_STDOUT_W", "REDIR_STDOUT_A"} # {}
    <3>1. PICK o \in {File, Closed} : t = [in[1] EXCEPT ![1] = o]
      BY <1>3, <2>2 DEF Output
    <3>2. o \in Object /\ ~IsPipeEnd(o)
      BY NotAnEnd, Limits
    <3> QED BY <3>1, <3>2, <2>2, <1>0, <1>4
  <2>3. CASE IsLast /\ job.mode \cap {"REDIR_STDOUT_W", "REDIR_STDOUT_A"} = {}
    <3>1. t = in[1]
      BY <1>3, <2>3 DEF Output
    <3> QED BY <3>1, <2>3, <1>4, NotAnEnd
  <2> QED BY <2>1, <2>2, <2>3
<1>6. CASE in[2] = 0
  <2>1. child'.table = [t EXCEPT ![0] = t[0]] \/ child'.table = t
    BY <1>3, <1>6 DEF Dup2
  <2>2. child'.table = t
    BY <2>1, <1>5
  <2> QED BY <2>2, <1>0, <1>4, <1>5
<1>7. CASE in[2] = -1
  <2>1. child'.table = t
    BY <1>3, <1>7, FdNat DEF Dup2
  <2> QED BY <2>1, <1>0, <1>4, <1>5
<1>8. CASE in[2] \in Fds /\ in[2] >= 3 /\ in[2] # p[2] /\ in[1][in[2]] = Socket
  <2>1. t[in[2]] = Socket /\ Socket # Closed
    BY <1>5, <1>8 DEF Socket, Closed
  <2>2. child'.table = [t EXCEPT ![0] = Socket]
    BY <1>3, <1>8, <2>1 DEF Dup2
  <2>3. child'.table[0] = Socket /\ \A f \in Fds \ {0} : child'.table[f] = t[f]
    BY <2>2, <1>0, <1>5
  <2>4. k = 1
    BY <1>4, <1>8
  <2> QED BY <2>3, <2>4, <1>0, <1>4, <1>5, NotAnEnd
<1> QED BY <1>4, <1>6, <1>7, <1>8

(* The child keeps these descriptors to its end.                           *)
LEMMA StdioKept ==
  ASSUME TypeInv, ShellInv, InputInv, ProgressInv, ChildInv, StdioInv, Frame, ChildSteps
  PROVE  StdioInv'
<1>0. Scarce' = Scarce /\ IsLast' = IsLast /\ pc = "wait" /\ UNCHANGED <<k, table, fdin, p>>
  BY DEF Frame, Scarce, IsLast
<1> SUFFICES ASSUME ~Scarce
             PROVE  Started' =>
    /\ IF k = 1 THEN ~IsPipeEnd(child'.table[0]) ELSE child'.table[0] = table[fdin]
    /\ IF IsLast THEN ~IsPipeEnd(child'.table[1]) ELSE child'.table[1] = table[p[2]]
    /\ \A f \in Fds \ {0, 1} : child'.table[f] \in {table[f], Closed, Socket}
  BY <1>0 DEF StdioInv, Started, IsPipeEnd
<1>1. Started =>
    /\ IF k = 1 THEN ~IsPipeEnd(child.table[0]) ELSE child.table[0] = table[fdin]
    /\ IF IsLast THEN ~IsPipeEnd(child.table[1]) ELSE child.table[1] = table[p[2]]
    /\ \A f \in Fds \ {0, 1} : child.table[f] \in {table[f], Closed, Socket}
  BY DEF StdioInv
<1>2. child.table \in [Fds -> Object] /\ 0 \in Fds /\ 1 \in Fds
  BY Limits DEF TypeInv, Children
<1>3. CASE child'.table = child.table /\ (Started' => Started)
  BY <1>1, <1>3
<1>4. CASE ChildStdio
  BY <1>0, <1>4, StdioSet
<1>5. CASE Accepted
  <2>1. IsLast /\ child.at = "accept"
        /\ child'.table \in {child.table, [child.table EXCEPT ![1] = Socket]}
    BY <1>0, <1>5, AcceptExecEffect DEF ChildInv
  <2>2. CASE child'.table = child.table
    BY <2>1, <2>2, <1>1 DEF Started
  <2>3. CASE child'.table = [child.table EXCEPT ![1] = Socket]
    <3>1. child'.table[1] = Socket /\ \A f \in Fds \ {1} : child'.table[f] = child.table[f]
      BY <2>3, <1>2
    <3> QED BY <2>1, <3>1, <1>1, <1>2, NotAnEnd DEF Started
  <2> QED BY <2>1, <2>2, <2>3
<1>6. CASE Exec
  <2>1. child.at = "exec" /\ child'.table = Close(child.table, p[1])
    BY <1>6, AcceptExecEffect
  <2>2. p[1] \in Fds /\ p[1] # 0 /\ p[1] # 1
    BY <1>0, TwoPipes
  <2>3. child'.table = [child.table EXCEPT ![p[1]] = Closed]
    BY <2>1, <2>2 DEF Close
  <2>4. child'.table[p[1]] = Closed /\ \A f \in Fds \ {p[1]} : child'.table[f] = child.table[f]
    BY <2>2, <2>3, <1>2
  <2> QED BY <2>1, <2>2, <2>4, <1>1, <1>2 DEF Started
<1>7. CASE HostUnknown \/ ProgramExits
  BY <1>7, AcceptExecEffect DEF Started
<1>8. ASSUME NEW i \in PipeIds, Read(i) \/ Write(i) PROVE child'.table = child.table /\ (Started' => Started)
  BY <1>8, ReadEffect, WriteEffect DEF Started
<1>9. WriteElsewhere => child'.table = child.table /\ (Started' => Started)
  BY ElsewhereEffect DEF Started
<1> QED BY <1>3, <1>4, <1>5, <1>6, <1>7, <1>8, <1>9 DEF ChildSteps, Child

(* When the shell moves, no child has its descriptors set.                 *)
LEMMA StdioShell ==
  ASSUME TypeInv, ProgressInv, ProgressInv', UNCHANGED leaked, Start \/ Shell
  PROVE  ~Started'
<1>1. CASE Fork
  BY <1>1, ForkEffect DEF Started
<1>2. CASE PipeMade \/ PipeFails \/ ForkFails \/ Start
  <2>1. child' = child /\ pc # "wait"
    BY <1>2 DEF PipeMade, PipeFails, ForkFails, Start
  <2> QED BY <2>1 DEF ProgressInv, Started
<1>3. CASE ReapFailed \/ ReapDone
  BY <1>3 DEF ReapFailed, ReapDone, NoChild, Started
<1> QED BY <1>1, <1>2, <1>3 DEF Shell

-----------------------------------------------------------------------------
(* So while pipes can be had every reader comes to an end of file, and no  *)
(* writer writes to nobody.                                                *)
LEMMA EndsRight ==
  ASSUME TypeInv, ShellInv, InputInv, ProgressInv, ChildInv, StdioInv, ~Scarce
  PROVE  PipesStayUsable
<1> SUFFICES ASSUME NEW i \in PipeIds, child.at = "run"
             PROVE  /\ child.table[0] = <<i, "r">> => ~Holds(table, <<i, "w">>) /\ ~Holds(child.table, <<i, "w">>)
                    /\ child.table[1] = <<i, "w">> => Holds(table, <<i, "r">>)
  BY DEF PipesStayUsable, ReadsPipe, WritesPipe
<1>0. pc = "wait" /\ k \in Nat /\ k >= 1
  BY ProgType DEF ProgressInv, TypeInv, ShellTypes
<1>1. /\ IF k = 1 THEN ~IsPipeEnd(child.table[0]) ELSE child.table[0] = table[fdin]
      /\ IF IsLast THEN ~IsPipeEnd(child.table[1]) ELSE child.table[1] = table[p[2]]
      /\ \A f \in Fds \ {0, 1} : child.table[f] \in {table[f], Closed, Socket}
  BY DEF StdioInv, Started
<1>2. /\ p[1] \in Fds /\ OutPipe \in PipeIds
      /\ table[p[1]] = <<OutPipe, "r">> /\ table[p[2]] = <<OutPipe, "w">>
      /\ k > 1 => /\ InPipe \in PipeIds /\ InPipe # OutPipe
                  /\ table[fdin] = <<InPipe, "r">> /\ ~Holds(table, <<InPipe, "w">>)
  BY <1>0, TwoPipes
<1>3. ASSUME child.table[0] = <<i, "r">>
      PROVE  ~Holds(table, <<i, "w">>) /\ ~Holds(child.table, <<i, "w">>)
  <2>0. IsPipeEnd(child.table[0])
    BY <1>3 DEF IsPipeEnd
  <2>1. k # 1 /\ k > 1
    BY <1>0, <1>1, <2>0
  <2>2. i = InPipe
    BY <2>1, <1>1, <1>2, <1>3
  <2>3. ~Holds(table, <<i, "w">>)
    BY <2>1, <2>2, <1>2
  <2>4. ASSUME NEW f \in Fds PROVE child.table[f] # <<i, "w">>
    <3>1. CASE f = 0
      BY <3>1, <1>3
    <3>2. CASE f = 1
      BY <3>2, <1>1, <1>2, <2>1, <2>2, NotAnEnd
    <3>3. CASE f # 0 /\ f # 1
      <4>1. child.table[f] \in {table[f], Closed, Socket}
        BY <3>3, <1>1
      <4>2. table[f] # <<i, "w">>
        BY <2>3 DEF Holds
      <4> QED BY <4>1, <4>2, NotAnEnd
    <3> QED BY <3>1, <3>2, <3>3
  <2> QED BY <2>3, <2>4 DEF Holds
<1>4. ASSUME child.table[1] = <<i, "w">> PROVE Holds(table, <<i, "r">>)
  <2>0. IsPipeEnd(child.table[1])
    BY <1>4 DEF IsPipeEnd
  <2>1. i = OutPipe
    BY <1>1, <1>2, <1>4, <2>0
  <2> QED BY <2>1, <1>2 DEF Holds
<1> QED BY <1>3, <1>4

(* The shell's standard descriptors stay open.                             *)
LEMMA StdioSafe ==
  ASSUME TypeInv, ShellInv
  PROVE  StdioIntact
<1>1. PICK n \in 3..FdLimit : \E m \in 0..(n - 3) : ShellAt(n, m)
  BY DEF ShellInv
<1>2. PICK m \in 0..(n - 3) : Layout(n, m)
  BY <1>1 DEF ShellAt
<1> QED BY <1>2, FdNat DEF Layout, StdioIntact, Fds

(* All of it but the data. *)
TableInv ==
  /\ TypeInv /\ ShellInv /\ InputInv
  /\ ProgressInv /\ ChildInv /\ StdioInv

(* The invariant holds in a fresh shell.                                   *)
LEMMA TableInit == MCInit => TableInv
<1> SUFFICES ASSUME MCInit PROVE TableInv
  OBVIOUS
<1>1. TypeInv
  BY InitType
<1>2. ShellInv
  <2>1. 3 \in 3..FdLimit /\ 0 \in 0..(3 - 3)
    BY FdNat
  <2>2. Layout(3, 0)
    BY FdNat DEF MCInit, Init, Layout, Tty, Closed
  <2>3. Room(3)
    BY LineRoom DEF MCInit, Init, Room, Scarce
  <2>4. PipeInv(3, 0)
    BY DEF MCInit, Init, PipeInv
  <2> QED BY <2>1, <2>2, <2>3, <2>4 DEF ShellInv, ShellAt
<1>3. InputInv /\ ProgressInv /\ ChildInv /\ StdioInv
  BY DEF MCInit, Init, InputInv, ProgressInv, ChildInv, StdioInv, Running, Started, NoChild
<1> QED BY <1>1, <1>2, <1>3 DEF TableInv

(* And every step keeps it.                                                *)
LEMMA TableStep ==
  ASSUME TableInv, [MCNext]_<<vars, leaked>>
  PROVE  TableInv'
<1> USE DEF TableInv
<1>1. CASE UNCHANGED leaked /\ (Start \/ Shell)
  <2>1. TypeInv'
    BY <1>1, ShellType
  <2>2. ProgressInv' /\ ChildInv'
    BY <1>1, ShellProgress
  <2>3. StdioInv'
    BY <1>1, <2>2, StdioShell DEF StdioInv
  <2>4. PICK n \in 3..FdLimit : \E m \in 0..(n - 3) : ShellAt(n, m)
    BY DEF ShellInv
  <2>5. PICK m \in 0..(n - 3) : ShellAt(n, m)
    BY <2>4
  <2>6. ShellInv' /\ InputInv'
    <3>1. CASE Start
      <4>1. ShellAt(n, m)' /\ InputInv'
        BY <3>1, <2>5, <1>1, ShellStart
      <4> QED BY <4>1 DEF ShellInv
    <3>2. CASE PipeMade
      <4>1. n + 2 \in 3..FdLimit /\ m + 1 \in 0..(n + 2 - 3) /\ ShellAt(n + 2, m + 1)' /\ InputInv'
        BY <3>2, <2>5, <1>1, ShellPipeMade
      <4> QED BY <4>1 DEF ShellInv
    <3>3. CASE PipeFails
      <4>1. ShellAt(n, m)' /\ InputInv'
        BY <3>3, <2>5, <1>1, ShellPipeFails
      <4> QED BY <4>1 DEF ShellInv
    <3>4. CASE Fork \/ ForkFails \/ ReapFailed
      <4>1. ShellAt(n, m)' /\ InputInv'
        BY <3>4, <2>5, <1>1, ShellForks
      <4> QED BY <4>1 DEF ShellInv
    <3>5. CASE ReapDone
      BY <3>5, <2>5, <1>1, ShellReapDone
    <3> QED BY <1>1, <3>1, <3>2, <3>3, <3>4, <3>5 DEF Shell
  <2> QED BY <2>1, <2>2, <2>3, <2>6
<1>2. CASE UNCHANGED leaked /\ ChildSteps
  <2>1. Frame
    BY <1>2, ChildFrame
  <2>2. TypeInv'
    BY <1>2, <2>1, ChildType
  <2>3. ShellInv' /\ InputInv' /\ ProgressInv'
    BY <1>2, <2>1, ChildKeeps
  <2>4. ChildInv'
    BY <1>2, <2>1, ChildProgress
  <2>5. StdioInv'
    BY <1>2, <2>1, StdioKept
  <2> QED BY <2>2, <2>3, <2>4, <2>5
<1>3. CASE EarlierLines
  <2>1. PICK n \in 3..FdLimit : \E m \in 0..(n - 3) : ShellAt(n, m)
    BY DEF ShellInv
  <2>2. PICK m \in 0..(n - 3) : ShellAt(n, m)
    BY <2>1
  <2>3. ShellInv' /\ InputInv'
    BY <1>3, <2>2, ShellEarlier
  <2>4. TypeInv' /\ ProgressInv' /\ ChildInv'
    BY <1>3, EarlierType, EarlierProgress
  <2>5. StdioInv'
    BY <1>3 DEF EarlierLines, StdioInv, Scarce
  <2> QED BY <2>3, <2>4, <2>5
<1>4. CASE UNCHANGED <<vars, leaked>>
  <2>0. UNCHANGED <<pc, njobs, job, k, table, p, fdin, ret, child, contents, log, leaked>>
    BY <1>4 DEF vars
  <2>1. TypeInv'
    BY <2>0 DEF TypeInv, ShellTypes, PipeTypes, LogTypes
  <2>2. ShellInv'
    <3>1. PICK n \in 3..FdLimit : \E m \in 0..(n - 3) : ShellAt(n, m)
      BY DEF ShellInv
    <3>2. PICK m \in 0..(n - 3) : ShellAt(n, m)
      BY <3>1
    <3>3. Layout(n, m)' /\ Room(n)'
      BY <3>2, <2>0 DEF ShellAt, Layout, Room, Scarce
    <3>4. PipeInv(n, m)'
      BY <3>2, <2>0 DEF ShellAt, PipeInv, OwnPipe, StalePipe, Scarce
    <3> QED BY <3>3, <3>4 DEF ShellInv, ShellAt
  <2>3. InputInv' /\ ProgressInv'
    BY <2>0 DEF InputInv, ProgressInv, Running, Holds, Scarce
  <2>4. ChildInv' /\ StdioInv'
    BY <2>0 DEF ChildInv, StdioInv, Started, Prog, IsLast, IsPipeEnd, Scarce
  <2> QED BY <2>1, <2>2, <2>3, <2>4
<1> QED BY <1>1, <1>2, <1>3, <1>4 DEF MCNext, Next, ChildSteps

(* THE DESCRIPTORS.  run_special never closes a standard descriptor of the *)
(* shell, and while pipes can be had every reader comes to an end of file  *)
(* and no writer writes to nobody, however long the lines, and however     *)
(* many the session has of them, as long as descriptors suffice            *)
(* (special.c:548-606).                                                    *)
THEOREM SessionsOrdered == MCSpec => []DescriptorsInOrder
<1>1. TableInv => DescriptorsInOrder
  <2> SUFFICES ASSUME TableInv PROVE DescriptorsInOrder
    OBVIOUS
  <2>1. TypeOK
    BY DEF TableInv, TypeInv, ShellTypes, PipeTypes, LogTypes, Children, TypeOK
  <2> QED BY <2>1, StdioSafe, EndsRight DEF TableInv, DescriptorsInOrder
<1> QED BY <1>1, TableInit, TableStep, PTL DEF MCSpec

-----------------------------------------------------------------------------
(* The data.                                                               *)

(* A command that has written nothing has written no block.                *)
LEMMA BlocksZero ==
  ASSUME NEW j
  PROVE  Blocks(0, j) = <<>>
BY DEF Blocks

(* n blocks are a sequence of length n.                                    *)
LEMMA BlocksType ==
  ASSUME NEW n \in Nat, NEW j
  PROVE  Blocks(n, j) \in Seq({<<njobs, j>>}) /\ Len(Blocks(n, j)) = n
BY DEF Blocks

(* And only none are an empty one.                                         *)
LEMMA BlocksNone ==
  ASSUME NEW n \in Nat, NEW j, Blocks(n, j) = <<>>
  PROVE  n = 0
BY BlocksType

(* One block more at the end makes n + 1.                                  *)
LEMMA BlocksAppend ==
  ASSUME NEW n \in Nat, NEW j
  PROVE  Append(Blocks(n, j), <<njobs, j>>) = Blocks(n + 1, j)
BY BlocksType DEF Blocks

(* And one taken at the front leaves n - 1.                                *)
LEMMA BlocksHeadTail ==
  ASSUME NEW n \in Nat, NEW j, n > 0
  PROVE  Head(Blocks(n, j)) = <<njobs, j>> /\ Tail(Blocks(n, j)) = Blocks(n - 1, j)
BY BlocksType DEF Blocks

DataInv == OutInv /\ InInv /\ EndInv

(* A step of the shell keeps what is known of the data: a new pipe is      *)
(* empty, and the output of a command that has ended becomes the input of  *)
(* the next.                                                               *)
LEMMA DataShell ==
  ASSUME TableInv, TableInv', DataInv, UNCHANGED leaked, Start \/ Shell
  PROVE  DataInv'
<1>0. /\ Scarce' = Scarce /\ k \in Nat /\ k >= 1 /\ Prog.out \in Nat /\ table \in [Fds -> Object]
      /\ contents \in [PipeIds -> Seq(BlockIds)]
      /\ TypeInv /\ ShellInv /\ InputInv /\ ProgressInv /\ ChildInv
  BY ProgType DEF TableInv, TypeInv, ShellTypes, PipeTypes, Scarce
<1>1. CASE PipeMade
  <2>1. /\ pc = "pipe" /\ pc' = "fork" /\ UNCHANGED <<njobs, k, fdin, log, child>>
    BY <1>1 DEF PipeMade
  <2>2. PICK n \in 3..FdLimit : \E m \in 0..(n - 3) : ShellAt(n, m)
    BY <1>0 DEF ShellInv
  <2>3. PICK m \in 0..(n - 3) : Layout(n, m)
    BY <2>2 DEF ShellAt
  <2>4. n \in Fds /\ n + 1 \in Fds /\ p' = <<n, n + 1>> /\ n \in Nat
    BY <1>0, <1>1, <2>3, PipeEffect, FdNat
  <2>5. PICK i \in PipeIds :
              /\ \A f \in Fds : table[f] \notin {<<i, "r">>, <<i, "w">>}
              /\ table' = [table EXCEPT ![n] = <<i, "r">>, ![n + 1] = <<i, "w">>]
              /\ contents' = [contents EXCEPT ![i] = <<>>]
    BY <1>0, <1>1, <2>3, PipeEffect
  <2>6. OutInv'
    <3>1. p'[2] = n + 1 /\ table'[n + 1] = <<i, "w">>
      BY <1>0, <2>4, <2>5
    <3>2. OutPipe' = i
      BY <3>1 DEF OutPipe
    <3>3. contents'[i] = <<>>
      BY <1>0, <2>5
    <3> QED BY <2>1, <3>2, <3>3 DEF OutInv
  <2>7. ASSUME k > 1, ~Scarce PROVE contents'[InPipe'] = Blocks(log[k - 1].out, k - 1)
    <3>1. PICK j \in PipeIds : fdin \in Fds /\ table[fdin] = <<j, "r">>
      BY <2>1, <2>7, <1>0 DEF InputInv, Running
    <3>2. fdin # n /\ fdin # n + 1
      <4>1. table[fdin] # Closed
        BY <3>1, NotAnEnd
      <4>2. fdin < n
        BY <4>1, <3>1, <2>3 DEF Layout
      <4> QED BY <4>2, <2>4, <3>1, FdNat
    <3>3. table'[fdin] = <<j, "r">> /\ j # i
      BY <1>0, <2>4, <2>5, <3>1, <3>2
    <3>4. InPipe = j /\ InPipe' = j
      BY <2>1, <3>1, <3>3 DEF InPipe
    <3>5. contents[j] = Blocks(log[k - 1].out, k - 1)
      BY <2>1, <2>7, <3>4 DEF DataInv, InInv
    <3>6. contents'[j] = contents[j]
      BY <1>0, <2>5, <3>3
    <3> QED BY <3>4, <3>5, <3>6
  <2>8. InInv'
    BY <1>0, <2>1, <2>7 DEF InInv, Blocks
  <2>9. EndInv'
    BY <2>1 DEF EndInv
  <2> QED BY <2>6, <2>8, <2>9 DEF DataInv
<1>2. CASE PipeFails
  <2>1. Scarce
    <3>1. PICK n \in 3..FdLimit : \E m \in 0..(n - 3) : ShellAt(n, m)
      BY <1>0 DEF ShellInv
    <3>2. PICK m \in 0..(n - 3) : ShellAt(n, m)
      BY <3>1
    <3> QED BY <1>0, <1>2, <3>2, ShellPipeFails
  <2> QED BY <2>1, <1>0, <1>2 DEF PipeFails, DataInv, OutInv, InInv, EndInv
<1>3. CASE Fork
  <2>1. /\ pc = "fork" /\ pc' = "wait" /\ UNCHANGED <<njobs, job, k, table, p, fdin, contents, log>>
        /\ child'.at = "stdio" /\ child'.left = Prog.out /\ child'.got = <<>>
    BY <1>0, <1>3, ForkEffect DEF Fork
  <2>2. OutInv'
    <3>1. OutPipe' = OutPipe /\ Prog' = Prog /\ Blocks(0, k)' = <<>> /\ Prog.out - Prog.out = 0
      BY <1>0, <2>1, BlocksZero DEF OutPipe, Prog, Blocks
    <3>2. ~Scarce => contents[OutPipe] = <<>>
      BY <2>1 DEF DataInv, OutInv
    <3> QED BY <1>0, <2>1, <3>1, <3>2 DEF OutInv
  <2>3. InInv'
    <3>1. InPipe' = InPipe
      BY <2>1 DEF InPipe
    <3>2. ASSUME ~Scarce, k > 1
          PROVE  \E c, g \in Nat :
             /\ c + g = log[k - 1].out
             /\ contents[InPipe] = Blocks(c, k - 1)
             /\ <<>> = Blocks(g, k - 1)
             /\ g = 0
      <4>1. contents[InPipe] = Blocks(log[k - 1].out, k - 1)
        BY <2>1, <3>2 DEF DataInv, InInv
      <4>2. log[k - 1].out \in Nat
        <5>1. log \in Seq(Entries) /\ Len(log) = k - 1
          BY <1>0, <2>1 DEF TypeInv, LogTypes, ProgressInv, Running
        <5>2. log[k - 1] \in Entries
          BY <1>0, <3>2, <5>1
        <5> QED BY <5>2 DEF Entries
      <4>3. Blocks(0, k - 1) = <<>> /\ log[k - 1].out + 0 = log[k - 1].out
        BY <4>2, BlocksZero
      <4> QED BY <4>1, <4>2, <4>3
    <3>3. ASSUME ~Scarce, k > 1
          PROVE  \E c, g \in Nat :
             /\ c + g = log'[k' - 1].out
             /\ contents'[InPipe'] = Blocks(c, k - 1)'
             /\ child'.got = Blocks(g, k - 1)'
             /\ g = 0
      BY <2>1, <3>1, <3>2, <3>3 DEF Blocks
    <3>4. (pc = "wait" /\ k = 1 => child.got = <<>>)'
      BY <2>1
    <3>5. pc' # "pipe" /\ pc' # "fork"
      BY <2>1
    <3> QED BY <1>0, <2>1, <3>3, <3>4, <3>5 DEF InInv
  <2>4. EndInv'
    BY <2>1 DEF EndInv
  <2> QED BY <2>2, <2>3, <2>4 DEF DataInv
<1>4. CASE ForkFails \/ ReapFailed
  <2>1. pc' \in {"idle", "exited"}
    BY <1>4 DEF ForkFails, ReapFailed
  <2> QED BY <2>1 DEF DataInv, OutInv, InInv, EndInv
<1>5. CASE Start
  <2>1. pc' = "pipe" /\ k' = 1
    BY <1>5 DEF Start
  <2> QED BY <2>1 DEF DataInv, OutInv, InInv, EndInv
<1>6. CASE ReapDone
  <2>1. /\ pc = "wait" /\ child.at = "exited" /\ pc' \in {"idle", "pipe"} /\ log' = Append(log, Entry)
        /\ table' = Close(table, p[2]) /\ fdin' = p[1] /\ UNCHANGED <<njobs, job, p, contents>>
        /\ pc' = "pipe" => k' = k + 1 /\ ~IsLast
    BY <1>6 DEF ReapDone, DropWriteEnd, NextInput
  <2>2. OutInv' /\ EndInv'
    BY <2>1 DEF OutInv, EndInv
  <2>3. ASSUME pc' = "pipe", ~Scarce
        PROVE  contents'[InPipe'] = [b \in 1..log'[k' - 1].out |-> <<njobs', k' - 1>>]
    <3>1. /\ p[1] \in Fds /\ p[2] \in Fds /\ p[1] # p[2] /\ table[p[1]] = <<OutPipe, "r">>
      BY <1>0, <2>1, <2>3, TwoPipes
    <3>2. table'[p[1]] = <<OutPipe, "r">>
      BY <1>0, <2>1, <3>1 DEF Close
    <3>3. InPipe' = OutPipe
      BY <2>1, <3>2 DEF InPipe
    <3>4. contents[OutPipe] = Blocks(Prog.out - child.left, k)
      BY <2>1, <2>3 DEF DataInv, OutInv
    <3>5. log \in Seq(Entries) /\ Len(log) = k - 1 /\ Entry \in Entries /\ Entry.out = Prog.out - child.left
      BY <1>0, <2>1, EntryType DEF TypeInv, LogTypes, ProgressInv, Running
    <3>6. log'[k] = Entry
      <4>1. Append(log, Entry)[Len(log) + 1] = Entry
        BY <3>5, LogAppend
      <4>2. Len(log) + 1 = k
        BY <3>5, <1>0
      <4> QED BY <4>1, <4>2, <2>1
    <3>7. k' - 1 = k
      BY <1>0, <2>1, <2>3
    <3>8. contents'[InPipe'] = Blocks(log'[k].out, k)
      BY <2>1, <3>3, <3>4, <3>5, <3>6
    <3> QED BY <2>1, <3>7, <3>8 DEF Blocks
  <2>4. InInv'
    <3>1. ~Scarce /\ pc' = "pipe" => contents'[InPipe'] = Blocks(log[k - 1].out, k - 1)'
      BY <2>3 DEF Blocks
    <3>2. pc' # "wait" /\ pc' # "fork"
      BY <2>1
    <3> QED BY <1>0, <3>1, <3>2 DEF InInv
  <2> QED BY <2>2, <2>4 DEF DataInv
<1> QED BY <1>1, <1>2, <1>3, <1>4, <1>5, <1>6 DEF Shell

(* So does a step of the child: what it reads and has read make up the     *)
(* output of the command before.                                           *)
LEMMA DataChild ==
  ASSUME TableInv, DataInv, UNCHANGED leaked, ChildSteps
  PROVE  DataInv'
<1>0. /\ k \in Nat /\ k >= 1 /\ Prog.out \in Nat
      /\ contents \in [PipeIds -> Seq(BlockIds)] /\ child \in Children
      /\ TypeInv /\ ShellInv /\ InputInv /\ ProgressInv /\ ChildInv /\ StdioInv
  BY ProgType DEF TableInv, TypeInv, ShellTypes, PipeTypes
<1>1. Frame
  BY <1>0, ChildFrame
<1>2. /\ Scarce' = Scarce /\ Prog' = Prog /\ IsLast' = IsLast /\ OutPipe' = OutPipe /\ InPipe' = InPipe
      /\ UNCHANGED <<pc, njobs, job, k, log>> /\ pc = "wait"
      /\ \A n, j : Blocks(n, j)' = Blocks(n, j)
  BY <1>1 DEF Frame, Scarce, Prog, IsLast, OutPipe, InPipe, Blocks
<1>3. /\ child.left \in 0..Prog.out
      /\ child.at = "stdio" => child.got = <<>> /\ ~child.ran /\ child.code = 0 /\ child.left = Prog.out
      /\ child.at = "exec" => child.got = <<>> /\ ~child.ran /\ child.code = 0 /\ child.left = Prog.out
      /\ child.at = "run" => child.ran /\ Prog.found
  BY <1>2, <1>0 DEF ChildInv
<1> DEFINE Out(c, l) == ~IsLast => c[OutPipe] = Blocks(Prog.out - l, k)
           Fed == log[k - 1].out
           Got(c, d) == \E x, g \in Nat :
                          /\ x + g = Fed
                          /\ c[InPipe] = Blocks(x, k - 1)
                          /\ d.got = Blocks(g, k - 1)
                          /\ d.at # "run" \/ ~Prog.reads => g = 0
           In(c, d) == k > 1 /\ d.at # "exited" => Got(c, d)
           Ended(d) ==
             d.at = "exited" =>
             \/ /\ Prog.found /\ d.ran /\ d.code = Prog.code /\ d.left = 0
                /\ d.got = IF k = 1 \/ ~Prog.reads THEN <<>> ELSE Blocks(Fed, k - 1)
             \/ /\ ~Prog.found /\ ~d.ran /\ d.code = 1 /\ d.left = Prog.out /\ d.got = <<>>
             \/ /\ k = 1 /\ "REMOTE_HOST" \in job.mode /\ ~d.ran /\ d.code = 0
                /\ d.left = Prog.out /\ d.got = <<>>
<1>4. /\ ~Scarce /\ k = 1 => child.got = <<>>
      /\ ~Scarce => Out(contents, child.left) /\ In(contents, child) /\ Ended(child)
  BY <1>2 DEF DataInv, OutInv, InInv, EndInv
<1>5. ASSUME ~Scarce /\ k = 1 => child'.got = <<>>,
             ~Scarce => Out(contents', child'.left) /\ In(contents', child') /\ Ended(child')
      PROVE  DataInv'
  <2>1. OutInv'
    BY <1>2, <1>5 DEF OutInv, Blocks
  <2>2. InInv'
    <3>1. ASSUME ~Scarce, k > 1, child'.at # "exited"
          PROVE  \E c, g \in Nat :
             /\ c + g = log'[k' - 1].out
             /\ contents'[InPipe'] = Blocks(c, k - 1)'
             /\ child'.got = Blocks(g, k - 1)'
             /\ child'.at # "run" \/ ~Prog'.reads => g = 0
      <4>1. Got(contents', child')
        BY <1>5, <3>1
      <4>2. PICK c, g \in Nat :
              /\ c + g = Fed /\ contents'[InPipe] = Blocks(c, k - 1)
              /\ child'.got = Blocks(g, k - 1)
              /\ child'.at # "run" \/ ~Prog.reads => g = 0
        BY <4>1
      <4>3. Blocks(c, k - 1)' = Blocks(c, k - 1) /\ Blocks(g, k - 1)' = Blocks(g, k - 1)
        BY <1>2 DEF Blocks
      <4>4. Fed' = Fed /\ InPipe' = InPipe /\ Prog' = Prog
        BY <1>2
      <4> QED BY <4>2, <4>3, <4>4
    <3>2. k' = k /\ pc' = "wait" /\ Scarce' = Scarce
      BY <1>2
    <3> QED BY <1>5, <3>1, <3>2 DEF InInv
  <2>3. EndInv'
    BY <1>2, <1>5 DEF EndInv, Blocks
  <2> QED BY <2>1, <2>2, <2>3 DEF DataInv
<1> HIDE DEF Out, In, Ended
<1>6. ~Scarce =>
        /\ OutPipe \in PipeIds /\ table[p[2]] = <<OutPipe, "w">>
        /\ k > 1 => InPipe \in PipeIds /\ InPipe # OutPipe /\ table[fdin] = <<InPipe, "r">>
  BY <1>0, <1>2, TwoPipes
<1>7. ~Scarce /\ child.at = "run" =>
        /\ IF k = 1 THEN ~IsPipeEnd(child.table[0]) ELSE child.table[0] = table[fdin]
        /\ IF IsLast THEN ~IsPipeEnd(child.table[1]) ELSE child.table[1] = table[p[2]]
  BY <1>0 DEF StdioInv, Started
<1>8. ASSUME NEW i \in PipeIds, Read(i) PROVE DataInv'
  <2>0. /\ child'.at = "run" /\ child.at = "run" /\ child'.left = child.left
        /\ child'.got = Append(child.got, Head(contents[i]))
        /\ contents' = [contents EXCEPT ![i] = Tail(contents[i])]
        /\ contents[i] # <<>> /\ child.table[0] = <<i, "r">> /\ Prog.reads
    BY <1>0, <1>8, ReadEffect
  <2>1. ASSUME ~Scarce PROVE k > 1 /\ i = InPipe
    <3>1. IsPipeEnd(child.table[0])
      BY <2>0 DEF IsPipeEnd
    <3>2. k # 1
      BY <2>0, <2>1, <3>1, <1>7
    <3> QED BY <2>0, <2>1, <3>2, <1>0, <1>6, <1>7
  <2>2. ASSUME ~Scarce PROVE Out(contents', child'.left)
    <3>1. contents'[OutPipe] = contents[OutPipe]
      BY <2>0, <2>1, <2>2, <1>0, <1>6
    <3> QED BY <2>0, <2>2, <3>1, <1>4 DEF Out
  <2>3. ASSUME ~Scarce PROVE In(contents', child')
    <3>1. PICK x, g \in Nat : x + g = Fed /\ contents[i] = Blocks(x, k - 1) /\ child.got = Blocks(g, k - 1)
      BY <2>0, <2>1, <2>3, <1>4 DEF In
    <3>2. x > 0
      BY <2>0, <3>1, BlocksZero
    <3>3. contents'[i] = Blocks(x - 1, k - 1) /\ child'.got = Blocks(g + 1, k - 1)
      <4>1. Head(contents[i]) = <<njobs, k - 1>> /\ Tail(contents[i]) = Blocks(x - 1, k - 1)
        BY <3>1, <3>2, BlocksHeadTail
      <4>2. Append(child.got, <<njobs, k - 1>>) = Blocks(g + 1, k - 1)
        BY <3>1, BlocksAppend
      <4> QED BY <2>0, <4>1, <4>2, <1>0
    <3>4. x - 1 \in Nat /\ g + 1 \in Nat /\ (x - 1) + (g + 1) = Fed
      BY <3>1, <3>2
    <3>5. Got(contents', child')
      BY <2>0, <2>1, <2>3, <3>3, <3>4
    <3> QED BY <3>5 DEF In
  <2>4. Ended(child')
    BY <2>0 DEF Ended
  <2>5. ~Scarce /\ k = 1 => child'.got = <<>>
    BY <2>1
  <2> QED BY <2>2, <2>3, <2>4, <2>5, <1>5
<1>9. ASSUME NEW i \in PipeIds, Write(i) PROVE DataInv'
  <2>0. /\ child'.at = "run" /\ child.at = "run" /\ child'.left = child.left - 1
        /\ child'.got = child.got
        /\ contents' = [contents EXCEPT ![i] = Append(contents[i], Block)]
        /\ child.left > 0 /\ child.table[1] = <<i, "w">>
    BY <1>0, <1>9, WriteEffect
  <2>1. ASSUME ~Scarce PROVE ~IsLast /\ i = OutPipe
    <3>1. IsPipeEnd(child.table[1])
      BY <2>0 DEF IsPipeEnd
    <3> QED BY <2>0, <2>1, <3>1, <1>6, <1>7
  <2>2. ASSUME ~Scarce PROVE Out(contents', child'.left)
    <3>1. contents[i] = Blocks(Prog.out - child.left, k)
      BY <2>1, <2>2, <1>4 DEF Out
    <3>2. PICK w \in Nat : w = Prog.out - child.left /\ Prog.out - (child.left - 1) = w + 1
      BY <1>0, <1>3
    <3>3. Append(contents[i], <<njobs, k>>) = Blocks(w + 1, k)
      BY <3>1, <3>2, BlocksAppend
    <3>4. contents'[i] = Blocks(Prog.out - child'.left, k)
      BY <2>0, <3>2, <3>3, <1>0 DEF Block
    <3> QED BY <3>4, <2>1, <2>2 DEF Out
  <2>3. ASSUME ~Scarce PROVE In(contents', child')
    <3>1. k > 1 => contents'[InPipe] = contents[InPipe]
      BY <2>0, <2>1, <2>3, <1>0, <1>6
    <3>2. k > 1 => Got(contents, child)
      BY <2>0, <2>3, <1>4 DEF In
    <3>3. k > 1 => Got(contents', child')
      BY <2>0, <3>1, <3>2
    <3> QED BY <3>3 DEF In
  <2>4. Ended(child')
    BY <2>0 DEF Ended
  <2> QED BY <2>0, <2>2, <2>3, <2>4, <1>4, <1>5
<1>10. CASE WriteElsewhere
  <2>0. /\ child'.at = "run" /\ child.at = "run" /\ child'.got = child.got /\ contents' = contents
    BY <1>0, <1>10, ElsewhereEffect
  <2>1. ASSUME ~Scarce PROVE IsLast
    <3>1. ~WritesPipe(OutPipe)
      BY <1>6, <1>10, <2>1 DEF WriteElsewhere
    <3> QED BY <3>1, <2>0, <2>1, <1>6, <1>7 DEF WritesPipe
  <2>2. ~Scarce => Out(contents', child'.left)
    BY <2>1 DEF Out
  <2>3. ~Scarce => In(contents', child')
    BY <2>0, <1>4 DEF In
  <2>4. Ended(child')
    BY <2>0 DEF Ended
  <2> QED BY <2>0, <2>2, <2>3, <2>4, <1>4, <1>5
<1>11. CASE ChildStdio
  <2>0. /\ child'.at # "run" /\ child'.at # "exited" /\ child'.left = child.left /\ child.at = "stdio"
        /\ child'.got = child.got /\ contents' = contents
    BY <1>0, <1>11, StdioEffect
  <2>1. ~Scarce => In(contents', child')
    BY <2>0, <1>4 DEF In
  <2>2. Ended(child')
    BY <2>0 DEF Ended
  <2> QED BY <2>0, <2>1, <2>2, <1>4, <1>5
<1>12. CASE HostUnknown
  <2>0. /\ child'.at = "exited" /\ child.at = "stdio" /\ child'.left = child.left
        /\ child'.got = child.got /\ contents' = contents /\ child'.ran = child.ran /\ child'.code = child.code
    BY <1>0, <1>12, AcceptExecEffect
  <2>1. k = 1 /\ "REMOTE_HOST" \in job.mode
    BY <1>12 DEF HostUnknown
  <2>2. In(contents', child') /\ Ended(child')
    BY <2>0, <2>1, <1>3 DEF In, Ended
  <2> QED BY <2>0, <2>2, <1>4, <1>5
<1>13. CASE Accepted
  <2>0. /\ child'.at = "exec" /\ child.at = "accept" /\ child'.left = child.left
        /\ child'.got = child.got /\ contents' = contents
    BY <1>0, <1>13, AcceptExecEffect
  <2>1. ~Scarce => In(contents', child')
    BY <2>0, <1>4 DEF In
  <2>2. Ended(child')
    BY <2>0 DEF Ended
  <2> QED BY <2>0, <2>1, <2>2, <1>4, <1>5
<1>14. CASE Exec
  <2>0. /\ child.at = "exec" /\ child'.at = (IF Prog.found THEN "run" ELSE "exited")
        /\ child'.ran = Prog.found /\ child'.code = (IF Prog.found THEN 0 ELSE 1)
        /\ child'.left = child.left /\ child'.got = child.got /\ contents' = contents
    BY <1>0, <1>14, AcceptExecEffect
  <2>1. ASSUME ~Scarce PROVE In(contents', child')
    <3>1. k > 1 => Got(contents, child)
      BY <2>0, <2>1, <1>4 DEF In
    <3>2. k > 1 => \A g \in Nat : child.got = Blocks(g, k - 1) => g = 0
      BY <2>0, <1>3, BlocksNone
    <3>3. k > 1 => Got(contents', child')
      BY <2>0, <3>1, <3>2
    <3> QED BY <3>3 DEF In
  <2>2. Ended(child')
    BY <2>0, <1>3 DEF Ended
  <2> QED BY <2>0, <2>1, <2>2, <1>4, <1>5
<1>15. CASE ProgramExits
  <2>0. /\ child.at = "run" /\ child'.at = "exited" /\ child'.ran = child.ran /\ child'.code = Prog.code
        /\ child'.left = child.left /\ child'.got = child.got /\ contents' = contents
    BY <1>0, <1>15, AcceptExecEffect
  <2>1. child.left = 0 /\ \A i \in PipeIds : ReadsPipe(i) => contents[i] = <<>>
    BY <1>15 DEF ProgramExits, AtEof
  <2>2. ASSUME ~Scarce PROVE child.got = IF k = 1 \/ ~Prog.reads THEN <<>> ELSE Blocks(Fed, k - 1)
    <3>1. CASE k = 1
      BY <3>1, <2>2, <1>4
    <3>2. CASE k > 1
      <4>1. PICK x, g \in Nat :
              /\ x + g = Fed /\ contents[InPipe] = Blocks(x, k - 1)
              /\ child.got = Blocks(g, k - 1)
              /\ ~Prog.reads => g = 0
        BY <3>2, <2>0, <2>2, <1>4 DEF In
      <4>2. CASE ~Prog.reads
        BY <4>1, <4>2, <3>2, BlocksZero
      <4>3. CASE Prog.reads
        <5>1. ReadsPipe(InPipe) /\ InPipe \in PipeIds
          BY <4>3, <3>2, <2>0, <2>2, <1>6, <1>7 DEF ReadsPipe
        <5>2. x = 0
          BY <5>1, <2>1, <4>1, BlocksNone
        <5>3. g = Fed
          BY <5>2, <4>1
        <5> QED BY <5>3, <4>1, <4>3, <3>2
      <4> QED BY <4>2, <4>3
    <3> QED BY <3>1, <3>2, <1>0
  <2>3. ~Scarce => Ended(child')
    BY <2>0, <2>1, <2>2, <1>3 DEF Ended
  <2>4. In(contents', child')
    BY <2>0 DEF In
  <2> QED BY <2>0, <2>3, <2>4, <1>4, <1>5
<1> QED BY <1>8, <1>9, <1>10, <1>11, <1>12, <1>13, <1>14, <1>15 DEF ChildSteps, Child

-----------------------------------------------------------------------------
(* The refinement.                                                         *)

(* A fresh shell is a fresh Pipeline.                                      *)
LEMMA PromisedInit == MCInit => Promised!Init
<1> SUFFICES ASSUME MCInit PROVE Promised!Init
  OBVIOUS
<1>1. pc = "idle" /\ njobs = 0 /\ job \in Jobs /\ log = <<>> /\ ret = 0 /\ leaked = 0
  BY DEF MCInit, Init
<1>2. (CHOOSE j \in Jobs : TRUE) \in Jobs
  BY <1>1
<1> QED BY <1>1, <1>2 DEF Promised!Init, Scarce

(* A step that starts no line, ends none and reaps nobody is none of       *)
(* Pipeline's.                                                             *)
LEMMA PromisedStutter ==
  ASSUME UNCHANGED <<njobs, job, log, ret, leaked>>,
         (pc \in {"idle", "exited"} \/ pc' \in {"idle", "exited"}) => pc' = pc
  PROVE  UNCHANGED Promised!vars
BY DEF Promised!vars, Scarce

(* Entering run_special is Pipeline's Begin.                               *)
LEMMA PromisedStart ==
  ASSUME TableInv, UNCHANGED leaked, Start, ~Scarce
  PROVE  Promised!Begin
<1>1. /\ pc = "idle" /\ njobs < MaxJobs /\ job' \in Jobs /\ njobs' = njobs + 1 /\ log' = <<>>
      /\ pc' = "pipe" /\ ret' = ret /\ njobs \in Nat /\ Scarce' = Scarce
  BY FdNat DEF Start, TableInv, TypeInv, ShellTypes, Scarce
<1>2. njobs' # 0
  BY <1>1
<1> QED BY <1>1, <1>2 DEF Promised!Begin

(* A fork that fails is Pipeline's GiveUp.                                 *)
LEMMA PromisedGiveUp ==
  ASSUME TableInv, UNCHANGED leaked, ForkFails, ~Scarce
  PROVE  Promised!GiveUp
<1>1. /\ pc = "fork" /\ ForkMayFail /\ UNCHANGED <<njobs, job, log>> /\ Scarce' = Scarce
      /\ IF k = 1 THEN pc' = "idle" /\ ret' = -3 ELSE pc' = "exited" /\ UNCHANGED ret
  BY DEF ForkFails, Scarce
<1>2. njobs # 0 /\ (log = <<>> <=> k = 1)
  <2>1. log \in Seq(Entries) /\ Len(log) = k - 1 /\ njobs >= 1 /\ njobs \in Nat /\ k \in Nat
    BY <1>1, ProgType, FdNat DEF TableInv, TypeInv, ShellTypes, LogTypes, ProgressInv, Running
  <2> QED BY <2>1
<1> QED BY <1>1, <1>2 DEF Promised!GiveUp

(* Reaping a child is Pipeline's Step: the command has run to its end on   *)
(* all that the one before it wrote.                                       *)
LEMMA PromisedReap ==
  ASSUME TableInv, DataInv, UNCHANGED leaked, ReapFailed \/ ReapDone, ~Scarce
  PROVE  Promised!Step
<1>0. /\ TypeInv /\ ChildInv /\ ProgressInv
  BY DEF TableInv
<1>1. /\ pc = "wait" /\ UNCHANGED <<njobs, job>> /\ Scarce' = Scarce /\ log' = Append(log, Entry)
      /\ child.at = "exited"
      /\ IF child.code = 1 THEN pc' = "idle" /\ ret' = -1
         ELSE IF IsLast THEN pc' = "idle" /\ ret' = 0
         ELSE pc' = "pipe" /\ ret' = ret
  BY DEF ReapFailed, ReapDone, Scarce, Failed
<1>2. /\ log \in Seq(Entries) /\ Len(log) = k - 1 /\ njobs # 0 /\ k \in Nat /\ k >= 1
      /\ k \in 1..Len(job.progs) /\ Len(job.progs) \in Nat
      /\ Prog.out \in Nat /\ Prog.code \in 0..255 /\ child.code \in 0..255
  BY <1>0, <1>1, ProgType, FdNat DEF TypeInv, ShellTypes, LogTypes, ProgressInv, Running, Children
<1>3. Entry \in Entries
  BY <1>0, <1>1, EntryType
<1>4. /\ Len(log') = k /\ log'[k] = Entry /\ SubSeq(log', 1, k - 1) = log
  <2>1. Len(log) + 1 = k /\ log' \in Seq(Entries)
    BY <1>1, <1>2, <1>3
  <2>2. Len(log') = k /\ log'[k] = Entry /\ \A x \in 1..(k - 1) : log'[x] = log[x]
    BY <1>1, <1>2, <1>3, <2>1, LogAppend
  <2>3. SubSeq(log', 1, k - 1) = log
    BY <1>2, <2>1, <2>2
  <2> QED BY <2>2, <2>3
<1>5. Len(log) + 1 = k
  BY <1>2
<1>6. Entry.got = child.got /\ Entry.out = Prog.out - child.left /\ Entry.ran = child.ran /\ Entry.status = 256 * child.code
  BY <1>0, <1>1, EntryType
<1>7. Promised!Entry(Entry)
  <2>0. /\ Promised!m = k
        /\ Promised!Prog = Prog
        /\ Promised!Entry(Entry) <=> \/ Prog.found /\ Promised!RunsProgram(Entry)
                                    \/ Promised!FindsNone(Entry)
                                    \/ Promised!FindsNoHost(Entry)
    BY <1>2, <1>5 DEF Promised!m, Promised!Prog, Prog, Promised!Entry
  <2>1. CASE /\ Prog.found /\ child.ran /\ child.code = Prog.code /\ child.left = 0
             /\ child.got = IF k = 1 \/ ~Prog.reads THEN <<>> ELSE Blocks(log[k - 1].out, k - 1)
    <3>1. Promised!Fed = child.got
      <4> DEFINE nj == IF Scarce THEN 0 ELSE njobs
                 done == IF Scarce THEN <<>> ELSE log
                 pr == Promised!Prog
                 mm == Promised!m
      <4>1. Promised!Fed = IF mm = 1 \/ ~pr.reads THEN <<>>
                           ELSE [b \in 1..done[mm - 1].out |-> <<nj, mm - 1>>]
        BY DEF Promised!Fed
      <4>2. nj = njobs /\ done = log
        OBVIOUS
      <4>3. pr = Prog /\ mm = k
        BY <2>0
      <4> HIDE DEF nj, done, pr, mm
      <4>4. Promised!Fed = IF k = 1 \/ ~Prog.reads THEN <<>>
                           ELSE [b \in 1..log[k - 1].out |-> <<njobs, k - 1>>]
        BY <4>1, <4>2, <4>3
      <4> QED BY <2>1, <4>4 DEF Blocks
    <3>2. Entry = [got |-> child.got, out |-> Prog.out, ran |-> TRUE, status |-> 256 * Prog.code]
      <4>1. child.ran = TRUE
        BY <1>0, <2>1 DEF TypeInv, Children
      <4>2. Prog.out - child.left = Prog.out
        BY <1>2, <2>1
      <4> QED BY <4>1, <4>2, <2>1 DEF Entry
    <3>3. Promised!RunsProgram(Entry)
      <4>1. PICK pr : pr = Promised!Prog /\ pr = Prog
        BY <2>0
      <4>2. Promised!RunsProgram(Entry) <=>
              Entry = [got |-> Promised!Fed, out |-> pr.out, ran |-> TRUE, status |-> 256 * pr.code]
        BY <4>1, Zenon DEF Promised!RunsProgram
      <4> QED BY <3>1, <3>2, <4>1, <4>2, Zenon
    <3> QED BY <2>0, <2>1, <3>3
  <2>2. CASE /\ ~Prog.found /\ ~child.ran /\ child.code = 1 /\ child.left = Prog.out
             /\ child.got = <<>>
    <3>1. child.ran = FALSE /\ Prog.out - child.left = 0 /\ 256 * child.code = 256
      BY <1>0, <1>2, <2>2 DEF TypeInv, Children
    <3>2. Entry = [got |-> <<>>, out |-> 0, ran |-> FALSE, status |-> 256]
      BY <2>2, <3>1, Zenon DEF Entry
    <3>3. Promised!FindsNone(Entry)
      <4>1. PICK pr : pr = Promised!Prog /\ pr = Prog
        BY <2>0
      <4>2. Promised!FindsNone(Entry) <=>
              ~pr.found /\ Entry = [got |-> <<>>, out |-> 0, ran |-> FALSE, status |-> 256]
        BY <4>1, Zenon DEF Promised!FindsNone
      <4> QED BY <2>2, <3>2, <4>1, <4>2, Zenon
    <3> QED BY <2>0, <3>3
  <2>3. CASE /\ k = 1 /\ "REMOTE_HOST" \in job.mode /\ ~child.ran /\ child.code = 0
             /\ child.left = Prog.out
             /\ child.got = <<>>
    <3>1. child.ran = FALSE /\ Prog.out - child.left = 0 /\ 256 * child.code = 0
      BY <1>0, <1>2, <2>3 DEF TypeInv, Children
    <3>2. Entry = [got |-> <<>>, out |-> 0, ran |-> FALSE, status |-> 0]
      BY <2>3, <3>1, Zenon DEF Entry
    <3>3. Promised!FindsNoHost(Entry)
      <4>1. PICK mm : mm = Promised!m /\ mm = 1
        BY <2>0, <2>3
      <4>2. (IF Scarce \/ njobs = 0 THEN CHOOSE j \in Jobs : TRUE ELSE job) = job
        BY <1>2
      <4>3. PICK jb : jb = (IF Scarce \/ njobs = 0 THEN CHOOSE j \in Jobs : TRUE ELSE job) /\ jb = job
        BY <4>2
      <4>4. Promised!FindsNoHost(Entry) <=>
              /\ mm = 1 /\ "REMOTE_HOST" \in jb.mode
              /\ Entry = [got |-> <<>>, out |-> 0, ran |-> FALSE, status |-> 0]
        BY <4>1, <4>3, Zenon DEF Promised!FindsNoHost
      <4> QED BY <2>3, <3>2, <4>1, <4>3, <4>4, Zenon
    <3> QED BY <2>0, <3>3
  <2> QED BY <1>1, <2>1, <2>2, <2>3 DEF DataInv, EndInv
<1>8. Entry.status = 256 <=> child.code = 1
  <2>1. \A c \in 0..255 : 256 * c = 256 <=> c = 1
    OBVIOUS
  <2>2. PICK c \in 0..255 : c = child.code
    BY <1>2
  <2> QED BY <1>6, <2>1, <2>2
<1>9. IF log'[k].status = 256 THEN pc' = "idle" /\ ret' = -1
      ELSE IF k = Len(job.progs) THEN pc' = "idle" /\ ret' = 0
      ELSE pc' = "pipe" /\ ret' = ret
  BY <1>1, <1>4, <1>8 DEF IsLast
<1> QED BY <1>1, <1>2, <1>4, <1>5, <1>7, <1>9 DEF Promised!Step, Promised!m

(* Every step of the shell and of the child is one of Pipeline or a        *)
(* stutter.                                                                *)
LEMMA PromisedStep ==
  ASSUME TableInv, DataInv, [MCNext]_<<vars, leaked>>
  PROVE  [Promised!Next]_(Promised!vars)
<1>0. ProgressInv
  BY DEF TableInv
<1>1. CASE UNCHANGED leaked /\ Next /\ Scarce
  BY <1>1 DEF Promised!vars, Scarce
<1>2. CASE UNCHANGED leaked /\ Start /\ ~Scarce
  BY <1>2, PromisedStart DEF Promised!Next
<1>3. CASE UNCHANGED leaked /\ ForkFails /\ ~Scarce
  BY <1>3, PromisedGiveUp DEF Promised!Next
<1>4. CASE UNCHANGED leaked /\ (ReapFailed \/ ReapDone) /\ ~Scarce
  BY <1>4, PromisedReap DEF Promised!Next
<1>5. CASE UNCHANGED leaked /\ (PipeMade \/ PipeFails \/ Fork)
  <2>1. /\ UNCHANGED <<njobs, job, log, ret, leaked>>
        /\ pc \notin {"idle", "exited"} /\ pc' \notin {"idle", "exited"}
    BY <1>5 DEF PipeMade, PipeFails, Fork
  <2> QED BY <2>1, PromisedStutter
<1>6. CASE UNCHANGED leaked /\ ChildSteps
  <2>1. Frame
    BY <1>0, <1>6, ChildFrame
  <2> QED BY <2>1, PromisedStutter DEF Frame
<1>7. CASE EarlierLines
  <2>1. leaked' > 0 /\ pc = "idle" /\ njobs = 0
    BY <1>7 DEF EarlierLines
  <2>2. CASE Scarce
    BY <2>1, <2>2 DEF Promised!vars, Scarce
  <2>3. CASE ~Scarce
    <3>1. log = <<>> /\ ret = 0
      BY <1>0, <2>1, <2>3 DEF ProgressInv
    <3> QED BY <2>1, <2>3, <3>1 DEF Promised!vars, Scarce
  <2> QED BY <2>2, <2>3
<1>8. CASE UNCHANGED <<vars, leaked>>
  BY <1>8, PromisedStutter DEF vars
<1> QED BY <1>1, <1>2, <1>3, <1>4, <1>5, <1>6, <1>7, <1>8 DEF MCNext, Next, Shell, ChildSteps

(* Every step keeps what is known of the data.                             *)
LEMMA DataStep ==
  ASSUME TableInv, TableInv', DataInv, [MCNext]_<<vars, leaked>>
  PROVE  DataInv'
<1>1. CASE UNCHANGED leaked /\ (Start \/ Shell)
  BY <1>1, DataShell
<1>2. CASE UNCHANGED leaked /\ ChildSteps
  BY <1>2, DataChild
<1>3. CASE EarlierLines
  BY <1>3 DEF EarlierLines, Scarce, DataInv, OutInv, InInv, EndInv
<1>4. CASE UNCHANGED <<vars, leaked>>
  <2>1. UNCHANGED <<pc, njobs, job, k, table, p, fdin, ret, child, contents, log, leaked>>
    BY <1>4 DEF vars
  <2>2. OutInv' /\ EndInv'
    BY <2>1 DEF Scarce, DataInv, OutInv, EndInv, OutPipe, Prog, IsLast, Blocks
  <2>3. /\ Scarce' = Scarce /\ Prog' = Prog /\ InPipe' = InPipe /\ k' = k /\ pc' = pc
        /\ log' = log /\ contents' = contents /\ child' = child
    BY <2>1 DEF Scarce, InPipe, Prog
  <2>4. \A n, j : Blocks(n, j)' = Blocks(n, j)
    BY <2>1 DEF Blocks
  <2>5. ASSUME ~Scarce, k > 1, pc = "wait", child.at # "exited"
        PROVE  \E c, g \in Nat :
             /\ c + g = log'[k' - 1].out
             /\ contents'[InPipe'] = Blocks(c, k - 1)'
             /\ child'.got = Blocks(g, k - 1)'
             /\ child'.at # "run" \/ ~Prog'.reads => g = 0
    <3>1. PICK c, g \in Nat :
            /\ c + g = log[k - 1].out
            /\ contents[InPipe] = Blocks(c, k - 1)
            /\ child.got = Blocks(g, k - 1)
            /\ child.at # "run" \/ ~Prog.reads => g = 0
      BY <2>5 DEF DataInv, InInv
    <3>2. Blocks(c, k - 1)' = Blocks(c, k - 1) /\ Blocks(g, k - 1)' = Blocks(g, k - 1)
      BY <2>1 DEF Blocks
    <3> QED BY <3>1, <3>2, <2>3
  <2>6. ASSUME ~Scarce, k > 1, pc \in {"pipe", "fork"}
        PROVE  contents'[InPipe'] = Blocks(log[k - 1].out, k - 1)'
    <3>1. contents[InPipe] = Blocks(log[k - 1].out, k - 1)
      BY <2>6 DEF DataInv, InInv
    <3>2. Blocks(log[k - 1].out, k - 1)' = Blocks(log[k - 1].out, k - 1)
      BY <2>1 DEF Blocks
    <3> QED BY <3>1, <3>2, <2>3
  <2>7. ~Scarce /\ pc = "wait" /\ k = 1 => child.got = <<>>
    BY DEF DataInv, InInv
  <2>8. InInv'
    BY <2>3, <2>5, <2>6, <2>7 DEF InInv
  <2> QED BY <2>2, <2>8 DEF DataInv
<1> QED BY <1>1, <1>2, <1>3, <1>4 DEF MCNext, Next, ChildSteps

(* There is none in a fresh shell.                                         *)
LEMMA DataInit == MCInit => DataInv
BY DEF MCInit, Init, DataInv, OutInv, InInv, EndInv

(* THE REFINEMENT.  run_special implements Pipeline: the commands run one  *)
(* at a time and in order, each on the whole output of the one before it,  *)
(* up to the first that exits with 1, and the value returned says which    *)
(* way it ended (special.c:548-614).                                       *)
THEOREM SessionsImplement == MCSpec => KeepsItsPromise
<1>1. MCInit => Promised!Init
  BY PromisedInit
<1>2. TableInv /\ TableInv' /\ DataInv /\ [MCNext]_<<vars, leaked>> => [Promised!Next]_(Promised!vars)
  BY PromisedStep
<1>3. TableInv /\ TableInv' /\ DataInv /\ [MCNext]_<<vars, leaked>> => DataInv'
  BY DataStep
<1>4. TableInv /\ [MCNext]_<<vars, leaked>> => TableInv'
  BY TableStep
<1> QED
  BY <1>1, <1>2, <1>3, <1>4, TableInit, DataInit, PTL DEF MCSpec, KeepsItsPromise, Promised!Spec
====
