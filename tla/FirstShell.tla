------------------------------- MODULE FirstShell -------------------------------
(***************************************************************************)
(* The first version of dsh (prog1/dsh.c and prog1/run.c), line by line of *)
(* its input: what main does with each, and the child a command is run in; *)
(* and the copy that was submitted (prog1/prog1), whose tokenizer and main *)
(* do not look at the number of arguments.  Lines are numbered, and what a *)
(* line is comes out when it is read; characters are Prompt's.             *)
(*                                                                         *)
(* stdin may be a file.  Then stdio reads ahead, and a forked child shares *)
(* the file's offset and has a copy of the buffer.  A program reads from   *)
(* where the offset is; and exit, in the child whose execvp failed, moves  *)
(* it back by what its copy of the buffer still holds, while the shell     *)
(* goes on with its own.                                                   *)
(***************************************************************************)
EXTENDS Integers, Sequences, FiniteSetsExt

CONSTANTS Inputs,   \* how many lines there may be
          Block,    \* lines stdio reads at once from a file
          MaxReads  \* bound: lines read

Intrinsics == {"cmdnm", "signal", "systat", " exit", "cd", "pwd"}
Kinds      == Intrinsics \cup {"blank", "exit", "odd quotes", "spaces", "program"}

VARIABLES version,  \* "current" or "submitted"
          at,       \* where main is
          status,
          line,     \* the line in hand: its kind
          child,    \* "none", "forked", "exec", or <<"zombie", code>>
          terminal, \* stdin is a terminal
          lines,    \* how many lines the input has
          offset,   \* how many of them lie before the file's offset
          ahead,    \* numbers of the lines in stdio's buffer
          read,     \* history: numbers of the lines dsh_prompt took
          taken,    \* history: numbers of the lines programs read
          rewound   \* history: a child moved the offset back

shellVars == <<version, at, status, line, child, terminal, lines, offset, ahead, read, taken, rewound>>
stdin     == <<version, terminal, lines, offset, ahead, read, taken, rewound>>

Init == /\ version \in {"current", "submitted"}
        /\ at = "prompt" /\ status = 0 /\ line = "none" /\ child = <<"none">>
        /\ terminal \in BOOLEAN /\ lines \in Inputs
        /\ offset = 0 /\ ahead = <<>> /\ read = <<>> /\ taken = {} /\ rewound = FALSE

(* A read of an empty buffer fills it.                                     *)
Filled == LET upto == IF terminal THEN offset + 1 ELSE offset + Block
          IN  [i \in 1..(Min({upto, lines}) - offset) |-> offset + i]
Buffer == IF ahead # <<>> THEN ahead ELSE Filled
Fill   == offset' = IF ahead # <<>> THEN offset ELSE offset + Len(Filled)

(* dsh_prompt and the character main skips after it: 1 for a blank line    *)
(* and at the end of the input, 2 for exit.                                *)
DshPrompt == /\ at = "prompt" /\ Len(read) < MaxReads
             /\ Fill
             /\ IF Buffer = <<>> THEN /\ status' = 1 /\ line' = "none"
                                      /\ UNCHANGED <<ahead, read>>
                ELSE /\ line' \in Kinds
                     /\ status' = CASE line' = "blank" -> 1 [] line' = "exit" -> 2 [] OTHER -> 0
                     /\ ahead' = Tail(Buffer)
                     /\ read' = Append(read, Head(Buffer))
             /\ at' = IF status' = 0 THEN "parse" ELSE "free"
             /\ UNCHANGED <<version, child, terminal, lines, taken, rewound>>

(* Without memory for a block -1.  What is left of the line, one character *)
(* less, is the next one; or nothing is left, of a blank line or of one of *)
(* 256, 512... characters.                                                 *)
PromptFails == /\ at = "prompt" /\ Len(read) < MaxReads
               /\ Fill
               /\ \/ ahead' = Buffer /\ UNCHANGED read
                  \/ /\ Buffer # <<>>
                     /\ ahead' = Tail(Buffer) /\ read' = Append(read, Head(Buffer))
               /\ status' = -1
               /\ at' = "free"
               /\ UNCHANGED <<version, line, child, terminal, lines, taken, rewound>>

(* Number of arguments; main runs a command only if there are any, and     *)
(* writes what stdout holds before it does.                                *)
ParseInput == CASE line = "odd quotes" -> -1 [] line = "spaces" -> 0 [] OTHER -> 1

(* The submitted parse_input stores the NULL that ends the vector also     *)
(* where it has allocated none, and its main runs a command whatever the   *)
(* number is.                                                              *)
Survives == version = "current" \/ ParseInput > 0

Parse == /\ at = "parse"
         /\ at' = IF ~Survives THEN "crashed" ELSE IF ParseInput <= 0 THEN "free"
                  ELSE IF line \in Intrinsics THEN "run" ELSE "fork"
         /\ UNCHANGED <<status, line, child, stdin>>

-------------------------------------------------------------------------------
(* What the intrinsic commands return: systat one less for each of its     *)
(* four files that does not open.                                          *)
Cmdnm      == {0, -1}
SendSignal == {0}
Systat     == {0 - Cardinality(missing) : missing \in SUBSET {"version", "uptime", "meminfo", "cpuinfo"}}
Cd         == {0, -1, -2}
Pwd        == {0}

(* -1 as well for a wrong number of arguments.                             *)
Results == CASE line = "cmdnm" -> Cmdnm [] line = "signal" -> SendSignal \cup {-1} [] line = "systat" -> Systat
             [] line = "cd" -> Cd [] line = "pwd" -> Pwd [] line = " exit" -> {2}

(* systat uses streams it has closed, and signal may be sent to the shell. *)
Run == /\ at = "run"
       /\ status' \in Results
       /\ at' \in {"free"} \cup IF line \in {"systat", "signal"} THEN {"crashed"} ELSE {}
       /\ UNCHANGED <<line, child, stdin>>

(* New_Process takes the parent's branch also when fork fails.             *)
Fork == /\ at = "fork" /\ at' = "wait"
        /\ child' \in {<<"forked">>, <<"none">>}
        /\ UNCHANGED <<status, line, stdin>>

Exec == /\ child = <<"forked">>
        /\ child' \in {<<"program">>, <<"exec_failed">>}
        /\ UNCHANGED <<at, status, line, stdin>>

(* Mutation: no exit, and the child goes on as a second shell for a while. *)
ChildReturns == /\ child = <<"exec_failed">>
                /\ child' = <<"zombie", 0>>
                /\ offset' \in offset..lines
                /\ UNCHANGED <<version, at, status, line, terminal, lines, ahead, read, taken, rewound>>

(* exit (-1) flushes stdin: lseek, back by the length of what is in the    *)
(* buffer.  The lines it passes over need not be those of the buffer, the  *)
(* offset may have been moved before, so they may be any number; or lseek  *)
(* fails.                                                                  *)
ChildExits == /\ child = <<"exec_failed">>
              /\ child' = <<"zombie", 255>>
              /\ IF terminal \/ ahead = <<>> THEN UNCHANGED <<offset, rewound>>
                 ELSE offset' \in 0..offset /\ rewound' = TRUE
              /\ UNCHANGED <<version, at, status, line, terminal, lines, ahead, read, taken>>

(* The program has the shell's stdin: it may read on from the offset, and, *)
(* in a file, seek.                                                        *)
ProgramReads == /\ child = <<"program">>
                /\ offset' \in IF terminal THEN offset..lines ELSE 0..lines
                /\ taken' = taken \cup ((offset + 1)..offset')
                /\ rewound' = (rewound \/ offset' < offset)
                /\ UNCHANGED <<version, at, status, line, child, terminal, lines, ahead, read>>

ProgramEnds == /\ child = <<"program">>
               /\ \E code \in {0, 1, 255} : child' = <<"zombie", code>>
               /\ UNCHANGED <<at, status, line, stdin>>

(* 65280, 255 in a wait status, is taken for a command that was not found; *)
(* without a child the status wait3 did not set may be anything.           *)
Wait3 == /\ at = "wait" /\ child[1] \in {"zombie", "none"}
         /\ status' \in IF child[1] = "none" THEN {0, -1} ELSE IF child[2] = 255 THEN {-1} ELSE {0}
         /\ child' = <<"none">>
         /\ at' = "free"
         /\ UNCHANGED <<line, stdin>>

(* free, and while (status < 2).                                           *)
FreeAndLoop == /\ at = "free"
               /\ at' = IF status < 2 THEN "prompt" ELSE "returned"
               /\ line' = "none"
               /\ UNCHANGED <<status, child, stdin>>

Next == DshPrompt \/ PromptFails \/ Parse \/ Run \/ Fork \/ Exec \/ ChildExits \/ ProgramReads
        \/ ProgramEnds \/ Wait3 \/ FreeAndLoop

Spec == Init /\ [][Next]_shellVars
-------------------------------------------------------------------------------
Seen(n, i) == n \in taken \/ \E j \in 1..(i - 1) : read[j] = n

(***************************************************************************)
(* Whatever the lines are and whatever fails, the shell skips no line of   *)
(* its input but those its programs have read, and takes none before its   *)
(* turn; and none comes twice unless the input is a file and a child moved *)
(* the offset back, which one does whose command was not found             *)
(* (run.c:282).                                                            *)
(***************************************************************************)
LinesInTurn == \A i \in DOMAIN read :
  /\ \A n \in 1..(read[i] - 1) : Seen(n, i)
  /\ ~rewound => \A j \in 1..(i - 1) : read[j] < read[i]
===============================================================================
