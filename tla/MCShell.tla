-------------------------------- MODULE MCShell --------------------------------
(***************************************************************************)
(* The loops of the two shells: main of prog2 and its New_Process (Shell), *)
(* the reading of its lines (Prompt), and the whole of prog1 (FirstShell). *)
(* `program' says which of them runs; the variables of the others rest.    *)
(***************************************************************************)
EXTENDS Shell, Sequences, SequencesExt

CONSTANTS Sessions, Block, MaxBlocks, ReallocMayFail,  \* of Prompt
          Inputs, ReadAhead, MaxReads                  \* of FirstShell

VARIABLES program,
          typed, stdin, reading, text, blocks, numRead, promptStatus, delivered, starved,
          version, at, result, command, first, terminal, lineCount, offset, ahead, read, taken, rewound

ASSUME BlocksAssumption == Block \in Nat \ {0} /\ MaxBlocks \in Nat \ {0} /\ ReallocMayFail \in BOOLEAN
ASSUME SessionsAssumption ==
  \A s \in Sessions : s.lens \in Seq(Nat) /\ s.exits \in SUBSET (Nat \X Nat) /\ s.newline \in BOOLEAN

-------------------------------------------------------------------------------
(* Shell: one or a few lines of each kind.                                 *)
Typed(kind) == [kind |-> kind, name |-> "pwd", args |-> 1, effect |-> "returns", found |-> TRUE, code |-> 0]

Commands == {[Typed("intrinsic") EXCEPT !.name = n, !.args = a] : n \in Intrinsics, a \in 1..4}
  \cup {[Typed("intrinsic") EXCEPT !.name = "hb", !.args = 4, !.effect = "stays"]}
  \cup {[Typed("intrinsic") EXCEPT !.name = "signal", !.args = 3, !.effect = e] : e \in {"stays", "dies"}}
Programs == {[Typed("program") EXCEPT !.found = f, !.code = c] : f \in BOOLEAN, c \in {0, 1, 255}}

AllLines   == {Typed(k) : k \in Kinds} \cup Commands \cup Programs
Everything == {"malloc", "fork", "thread"}

(* Prompt: two lines of every length up to the memory there is and one     *)
(* more, or three of up to Block + 1, the last with and without a newline; *)
(* one character of the session, or the first of any lines, reads exit.    *)
LastColumn == MaxBlocks * Block + 1

TypedSessions ==
  {s \in [lens    : BoundedSeq(0..LastColumn, 2) \cup BoundedSeq(0..(Block + 1), 3),
          exits   : {{p} : p \in (1..3) \X (1..LastColumn)} \cup SUBSET ((1..3) \X {1}),
          newline : BOOLEAN] :
     \A p \in s.exits : p[1] <= Len(s.lens) /\ p[2] <= s.lens[p[1]]}

P == INSTANCE Prompt WITH pc <- reading, line <- text, status <- promptStatus,
                          MemoryMayFail <- ReallocMayFail
F == INSTANCE FirstShell WITH Block <- ReadAhead, status <- result, line <- command, child <- first,
                              lines <- lineCount

ASSUME InputsAssumption == Inputs \subseteq Nat /\ ReadAhead \in Nat

promptVars == <<typed, stdin, reading, text, blocks, numRead, promptStatus, delivered, starved>>
firstVars  == <<version, at, result, command, first, terminal, lineCount, offset, ahead, read, taken, rewound>>
allVars    == <<program, vars, promptVars, firstVars>>

ShellRests ==
  /\ faults = {} /\ line = Typed("exit") /\ pc = "ended" /\ status = 2 /\ mode = 0
  /\ input = "NULL" /\ argList = "NULL" /\ specRes = "NULL" /\ heap = {} /\ lost = {}
  /\ unflushed = FALSE /\ child = NoChild /\ word = 0
PromptRests ==
  /\ typed = [lens |-> <<>>, exits |-> {}, newline |-> TRUE] /\ stdin = <<1, 1>> /\ reading = "ended" /\ text = <<>>
  /\ blocks = 1 /\ numRead = 0 /\ promptStatus = 2 /\ delivered = <<>> /\ starved = {}
FirstRests ==
  /\ version = "current" /\ at = "returned" /\ result = 2 /\ command = "none" /\ first = <<"none">> /\ terminal = TRUE
  /\ lineCount = 0 /\ offset = 0 /\ ahead = <<>> /\ read = <<>> /\ taken = {} /\ rewound = FALSE

MCInit ==
  \/ program = "main" /\ Init /\ PromptRests /\ FirstRests
  \/ program = "dsh_prompt" /\ P!Init /\ ShellRests /\ FirstRests
  \/ program = "prog1" /\ F!Init /\ ShellRests /\ PromptRests

MCNext ==
  /\ UNCHANGED program
  /\ \/ program = "main" /\ Next /\ UNCHANGED <<promptVars, firstVars>>
     \/ program = "dsh_prompt" /\ P!Next /\ UNCHANGED <<vars, firstVars>>
     \/ program = "prog1" /\ F!Next /\ UNCHANGED <<vars, promptVars>>

MCSpec == MCInit /\ [][MCNext]_allVars /\ Fairness

-------------------------------------------------------------------------------
(* Prompt: each line reaches the parser whole and once (dsh.c:36-84), two  *)
(* are not mixed, out of memory or not (dsh.c:61-64), and none is read     *)
(* after an exit (dsh.c:75-79).                                            *)
DeliversTheLines == program = "dsh_prompt" => P!TypeOK /\ P!DeliversTheLines /\ P!NeverMixesLines /\ P!EndsAtExit

(* FirstShell: prog1 takes its lines in turn (prog1/dsh.c:32-83).          *)
LinesInTurn == program = "prog1" => F!LinesInTurn
===============================================================================
