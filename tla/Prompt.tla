-------------------------------- MODULE Prompt --------------------------------
(***************************************************************************)
(* dsh_prompt and the scanf of main that follows it (prog2/dsh.c): lines   *)
(* of any length are read from the standard input through a buffer that    *)
(* grows by one block at a time, and each ends up, whole, at the parser.   *)
(*                                                                         *)
(* A character is <<line, column>>, and the newline that ends the line has *)
(* the column after the last.  Where a line reads "exit", at its beginning *)
(* or further on, is said beside it.                                       *)
(***************************************************************************)
EXTENDS Integers, Sequences

CONSTANTS
  Sessions,       \* what is typed: [lens, exits, newline], the lines' lengths,
                  \* the characters from which on a line reads "exit", and
                  \* whether the last line ends in a newline
  Block,          \* 256
  MaxBlocks,      \* blocks after which no realloc succeeds (INT_MAX / 256)
  MemoryMayFail   \* whether an allocation may fail before that

VARIABLES
  typed,      \* the session (for the properties)
  stdin,      \* the place of the next character
  pc,         \* "prompt" | "grow" | "eat" | "ended"
  line,       \* the characters in the buffer
  blocks,     \* buffer_size / 256
  numRead,    \* num_read
  status,     \* what dsh_prompt returned
  delivered,  \* the lines passed on so far
  starved     \* history: the lines during which an allocation failed early

vars == <<typed, stdin, pc, line, blocks, numRead, status, delivered, starved>>

LineCount == Len(typed.lens)
Row(i)    == [c \in 1..typed.lens[i] |-> <<i, c>>]

(* What is left of the line, and whether nothing is left at all. *)
Left  == IF stdin[1] > LineCount THEN 0 ELSE typed.lens[stdin[1]] + 1 - stdin[2]
AtEnd == stdin[1] > LineCount \/ (stdin[1] = LineCount /\ Left = 0 /\ ~typed.newline)

Init ==
  /\ typed \in Sessions
  /\ stdin = <<1, 1>>
  /\ pc = "prompt"
  /\ line = <<>>
  /\ blocks = 1
  /\ numRead = 0
  /\ status = 0
  /\ delivered = <<>>
  /\ starved = {}

-----------------------------------------------------------------------------
(* What "%256[^\n]" matches: what is left of the line, up to a block. *)
Matched == [n \in 1..(IF Left < Block THEN Left ELSE Block) |-> <<stdin[1], stdin[2] + n - 1>>]
Rest    == <<stdin[1], stdin[2] + Len(Matched)>>

(* One character more: after a newline comes the next line. *)
Skipped == CASE AtEnd                    -> stdin
             [] ~AtEnd /\ Left = 0       -> <<stdin[1] + 1, 1>>
             [] OTHER                    -> <<stdin[1], stdin[2] + 1>>

(* strncmp looks at what is in the buffer, which after an allocation that  *)
(* failed is the rest of a line.                                           *)
BeginsWithExit == line # <<>> /\ line[1] \in typed.exits

(* The first block: no memory is -1, nothing to match is 1. *)
Read ==
  /\ pc = "prompt"
  /\ blocks' = 1
  /\ \/ /\ MemoryMayFail
        /\ status' = -1 /\ pc' = "eat" /\ line' = <<>> /\ numRead' = 0
        /\ starved' = starved \cup {stdin[1]}
        /\ UNCHANGED stdin
     \/ /\ line' = Matched /\ numRead' = Len(Matched) /\ stdin' = Rest
        /\ IF Matched = <<>> THEN status' = 1 /\ pc' = "eat"
                             ELSE UNCHANGED status /\ pc' = "grow"
        /\ UNCHANGED starved
  /\ UNCHANGED <<typed, delivered>>

(* Mutation: the new block is read over the previous one. *)
GrowOverwrites ==
  /\ pc = "grow" /\ numRead = Block
  /\ blocks < MaxBlocks
  /\ blocks' = blocks + 1
  /\ line' = Matched
  /\ numRead' = IF Matched = <<>> THEN numRead ELSE Len(Matched)
  /\ stdin' = Rest
  /\ UNCHANGED <<typed, pc, status, delivered, starved>>

(* A full block: one more is allocated and read into.  A scanf that        *)
(* matches nothing leaves num_read as it is.                               *)
Grow ==
  /\ pc = "grow" /\ numRead = Block
  /\ blocks < MaxBlocks
  /\ blocks' = blocks + 1
  /\ line' = line \o Matched
  /\ numRead' = IF Matched = <<>> THEN numRead ELSE Len(Matched)
  /\ stdin' = Rest
  /\ UNCHANGED <<typed, pc, status, delivered, starved>>

(* realloc fails: the line read so far is dropped. *)
GrowFails ==
  /\ pc = "grow" /\ numRead = Block
  /\ MemoryMayFail \/ blocks = MaxBlocks
  /\ status' = -1 /\ pc' = "eat" /\ line' = <<>>
  /\ starved' = IF blocks < MaxBlocks THEN starved \cup {stdin[1]} ELSE starved
  /\ UNCHANGED <<typed, stdin, blocks, numRead, delivered>>

(* The line is complete: 2 if it reads "exit", otherwise 0. *)
Return ==
  /\ pc = "grow" /\ numRead # Block
  /\ IF BeginsWithExit THEN status' = 2 /\ line' = <<>>
                       ELSE status' = 0 /\ UNCHANGED line
  /\ pc' = "eat"
  /\ UNCHANGED <<typed, stdin, blocks, numRead, delivered, starved>>

(* main: scanf("%*1c"), then the line goes to the parser and is freed.     *)
(* Only a status of 2 ends the loop here: at end of file it goes round.    *)
Eat ==
  /\ pc = "eat"
  /\ stdin' = Skipped
  /\ delivered' = IF status = 0 THEN Append(delivered, line) ELSE delivered
  /\ pc' = IF status < 2 THEN "prompt" ELSE "ended"
  /\ line' = <<>>
  /\ UNCHANGED <<typed, blocks, numRead, status, starved>>

Next == Read \/ Grow \/ GrowFails \/ Return \/ Eat

Spec == Init /\ [][Next]_vars /\ WF_vars(Next)

-----------------------------------------------------------------------------
(***************************************************************************)
(* Every variable has its type (dsh_prompt's locals); the buffer holds     *)
(* what was read, at most a block for each one allocated.                  *)
(***************************************************************************)
TypeOK ==
  /\ typed \in Sessions
  /\ pc \in {"prompt", "grow", "eat", "ended"}
  /\ blocks \in 1..MaxBlocks
  /\ numRead \in 0..Block
  /\ status \in {-1, 0, 1, 2}
  /\ Len(line) <= blocks * Block
  /\ pc = "prompt" => line = <<>>

(* Whether the i-th line has been read past. *)
Gone(i) == stdin[1] > i \/ AtEnd

(* A line that there is memory for, and one that leaves room in its last   *)
(* block as well.                                                          *)
Short(i) == typed.lens[i] <= MaxBlocks * Block
Fits(i)  == Short(i) /\ typed.lens[i] % Block # 0

(***************************************************************************)
(* "While 256 characters are read, allocate 256 more bytes and keep        *)
(* reading" (dsh.c:56): each line typed reaches the parser once, whole and *)
(* in order, however many blocks it takes.  The only lines that do not are *)
(* those an allocation failed on, and those of exactly 256, 512... bytes,  *)
(* which run into the end of memory because num_read keeps its value.      *)
(***************************************************************************)
DeliversTheLines ==
  /\ \A n \in 1..Len(delivered) : \A i \in 1..LineCount :
       delivered[n][1][1] = i /\ Short(i) /\ i \notin starved => delivered[n] = Row(i)
  /\ pc = "prompt" => \A i \in 1..LineCount :
       Gone(i) /\ Fits(i) /\ i \notin starved => \E n \in 1..Len(delivered) : delivered[n] = Row(i)

(***************************************************************************)
(* Even when memory runs out in the middle of a line, what reaches the     *)
(* parser is a piece of one line, the pieces come in the order in which    *)
(* they were typed, and nothing is passed on twice.                        *)
(***************************************************************************)
Piece(k) ==
  LET s == delivered[k]
      i == s[1][1]
  IN  /\ s # <<>> /\ i \in 1..LineCount
      /\ \A c \in 1..Len(s) : s[c] = <<i, s[1][2] + c - 1>> /\ s[c][2] \in 1..typed.lens[i]

Before(j, k) ==
  LET last  == delivered[j][Len(delivered[j])]
      first == delivered[k][1]
  IN  last[1] < first[1] \/ (last[1] = first[1] /\ last[2] < first[2])

NeverMixesLines ==
  /\ \A k \in 1..Len(delivered) : Piece(k)
  /\ \A j, k \in 1..Len(delivered) : j < k => Before(j, k)

(***************************************************************************)
(* The shell ends where a line reads exit: at its beginning, or, in a line *)
(* that memory ran out for, where it was taken up again.  What it passed   *)
(* on stands before that, and nothing after the line was touched.          *)
(***************************************************************************)
EndsAtExit ==
  pc = "ended" => \E e \in typed.exits :
    /\ e[2] = 1 \/ e[1] \in starved \/ ~Short(e[1])
    /\ \A k \in 1..Len(delivered) :
         LET last == delivered[k][Len(delivered[k])]
         IN  last[1] < e[1] \/ (last[1] = e[1] /\ last[2] < e[2])
    /\ stdin = IF e[1] = LineCount /\ ~typed.newline
               THEN <<e[1], typed.lens[e[1]] + 1>> ELSE <<e[1] + 1, 1>>

=============================================================================
