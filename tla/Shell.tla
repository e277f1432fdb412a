--------------------------------- MODULE Shell ---------------------------------
(***************************************************************************)
(* The main loop of dsh (prog2/dsh.c) and what it calls in run.c: a line   *)
(* is read, parsed twice and run, by the shell itself, in a child, or by   *)
(* run_special.  Of dsh_prompt, parse_input, parse_special and run_special *)
(* only what they return and what they allocate or free is left here; each *)
(* of them has a module of its own.                                        *)
(*                                                                         *)
(* The pointers of main and the objects on the heap are told apart, and    *)
(* the output that stdio still holds is followed into the child.           *)
(***************************************************************************)
EXTENDS Integers

CONSTANTS
  Lines,   \* what may be typed
  Faults   \* what may go wrong in a session: "malloc", "fork", "thread"

Kinds      == {"nothing",    \* a newline, or end of file
               "exit",       \* begins with exit
               "spaces",     \* not empty, and no argument in it
               "unmatched",  \* an odd number of quotes
               "mistake",    \* an operator out of place
               "operators",  \* a pipeline or a redirect
               "intrinsic", "program"}
Intrinsics == {"cmdnm", "signal", "systat", "exit", "cd", "pwd", "hb"}
Objects    == {"line", "vector", "set", "fields"}
Pointers   == Objects \cup {"NULL"}

(* What wait3 stores for a process that has exited. *)
StatusWord == {256 * c : c \in 0..255}

(* What the words after hb and signal come to.  hb "stays" when the        *)
(* interval is not positive and the end is; signal "stays" or "dies" when  *)
(* it stops or kills the shell itself.                                     *)
Effects == {"returns", "stays", "dies"}

(* name, args and effect are of an intrinsic, found and code of a program. *)
Line == [kind : Kinds, name : Intrinsics, args : Nat, effect : Effects,
         found : BOOLEAN, code : 0..255]

ASSUME LinesAssumption   == Lines \subseteq Line
ASSUME FaultsAssumption  == Faults \subseteq {"malloc", "fork", "thread"}

VARIABLES
  faults,     \* what does go wrong in this session
  line,       \* the line typed last
  pc,         \* "prompt" | "parse" | "special" | "dispatch" | "stays" (in hb or stopped) |
              \* "pipeline" (in run_special) | "fork" | "wait" | "reap" | "loop" | "ended" |
              \* "killed" (by exit in run_special) | "crashed"
  status, mode, input, argList, specRes,  \* main's variables
  heap,       \* what is allocated in this round of the loop
  lost,       \* kinds of objects earlier rounds left allocated
  unflushed,  \* stdio holds output
  child,      \* New_Process's child: [at, unflushed]
  word        \* the status word wait3 stored

vars == <<faults, line, pc, status, mode, input, argList, specRes, heap, lost,
          unflushed, child, word>>

NoChild == [at |-> "none", unflushed |-> FALSE]

MemoryMayFail == "malloc" \in faults
ForkMayFail   == "fork" \in faults
ThreadMayFail == "thread" \in faults

Init ==
  /\ faults \in SUBSET Faults
  /\ line \in Lines
  /\ pc = "prompt"
  /\ status = 0 /\ mode = 0
  /\ input = "NULL" /\ argList = "NULL" /\ specRes = "NULL"
  /\ heap = {} /\ lost = {}
  /\ unflushed = FALSE
  /\ child = NoChild
  /\ word = 0

-----------------------------------------------------------------------------
(* Mutation: the line of an exit is passed to main all the same. *)
PromptGivesAll ==
  /\ pc = "prompt"
  /\ line' \in Lines
  /\ argList' = "NULL"
  /\ unflushed' = TRUE
  /\ IF line'.kind = "nothing" THEN status' = 1 /\ pc' = "loop"
     ELSE IF line'.kind = "exit" THEN status' = 2 /\ pc' = "loop"
     ELSE status' = 0 /\ pc' = "parse"
  /\ input' = IF line'.kind = "nothing" THEN "NULL" ELSE "line"
  /\ heap' = IF line'.kind \in {"nothing", "exit"} THEN heap ELSE heap \cup {"line"}
  /\ UNCHANGED <<faults, mode, specRes, lost, child, word>>

(* dsh_prompt: -1 without memory, 1 for nothing, 2 for exit, and then main *)
(* has no line.  Of a line whose realloc failed the old block is left, and *)
(* nothing points to it: line = realloc(line, ...).  specRes and mode keep *)
(* their values.                                                           *)
Prompt ==
  /\ pc = "prompt"
  /\ line' \in Lines
  /\ argList' = "NULL"
  /\ \/ /\ MemoryMayFail
        /\ status' = -1 /\ pc' = "loop" /\ input' = "NULL"
        /\ unflushed' \in {unflushed, TRUE}
        /\ heap' \in {heap, heap \cup {"line"}}
     \/ /\ line'.kind \in {"nothing", "exit"}
        /\ status' = IF line'.kind = "exit" THEN 2 ELSE 1
        /\ pc' = "loop" /\ input' = "NULL" /\ unflushed' = TRUE
        /\ UNCHANGED heap
     \/ /\ line'.kind \notin {"nothing", "exit"}
        /\ status' = 0 /\ pc' = "parse" /\ input' = "line" /\ unflushed' = TRUE
        /\ heap' = heap \cup {"line"}
  /\ UNCHANGED <<faults, mode, specRes, lost, child, word>>

(* parse_input: no vector without arguments or with an odd quote; the      *)
(* vector's malloc is written through unchecked.                           *)
ParseInput ==
  /\ pc = "parse"
  /\ \/ /\ line.kind \in {"spaces", "unmatched"}
        /\ status' = IF line.kind = "unmatched" THEN -1 ELSE 0
        /\ pc' = "special"
        /\ UNCHANGED <<argList, heap>>
     \/ /\ line.kind \notin {"spaces", "unmatched"}
        /\ status' = 0 /\ pc' = "special"
        /\ argList' = "vector" /\ heap' = heap \cup {"vector"}
     \/ /\ line.kind \notin {"spaces", "unmatched"}
        /\ MemoryMayFail
        /\ pc' = "crashed"
        /\ UNCHANGED <<status, argList, heap>>
  /\ UNCHANGED <<faults, line, mode, input, specRes, lost, unflushed, child, word>>

(* What parse_special returns, stores in *spec_res and leaves allocated,   *)
(* as <<mode, specRes, objects>>.  parse_set_free frees the fields only.   *)
SpecialResults ==
  LET parsed == CASE line.kind = "mistake"   -> <<-1, "set", {"set"}>>
                  [] line.kind = "operators" -> <<1, "set", {"set", "fields"}>>
                  [] OTHER                   -> <<0, "set", {"set"}>>
  IN  {parsed} \cup IF ~MemoryMayFail THEN {} ELSE
        {<<-2, "NULL", {}>>} \cup
        (IF parsed[1] = 0 THEN {} ELSE {<<-2, "set", {"set"}>>, <<-2, "NULL", {"set"}>>})

(* Mutation: the parse_set is freed after every line that has operators. *)
FreesAlways(r) == r[1] # 0

(* parse_set_free may free a field that was never set. *)
FreesJunk(r) == r[1] = -1 \/ (r[1] = -2 /\ r[3] # {})

(* Mutation: main does not flush. *)
ParseSpecialNoFlush ==
  /\ pc = "special"
  /\ IF argList = "NULL" THEN pc' = "crashed" /\ UNCHANGED <<mode, specRes, heap>>
     ELSE \E r \in SpecialResults :
            pc' = "dispatch" /\ mode' = r[1] /\ specRes' = r[2] /\ heap' = heap \cup r[3]
  /\ UNCHANGED <<faults, line, status, input, argList, lost, unflushed, child, word>>

(* parse_special dereferences the vector, be there one or not; then        *)
(* main's fflush(stdout).                                                  *)
ParseSpecial ==
  /\ pc = "special"
  /\ \/ /\ argList # "NULL"
        /\ unflushed' = FALSE
        /\ \E r \in SpecialResults :
             /\ mode' = r[1] /\ specRes' = r[2] /\ heap' = heap \cup r[3]
             /\ pc' \in {"dispatch"} \cup (IF FreesJunk(r) THEN {"crashed"} ELSE {})
     \/ /\ argList = "NULL"
        /\ pc' = "crashed"
        /\ UNCHANGED <<mode, specRes, heap, unflushed>>
  /\ UNCHANGED <<faults, line, status, input, argList, lost, child, word>>

-----------------------------------------------------------------------------
(* Whether the words of hb or signal are as many as it takes. *)
Acts == \/ line.name = "hb" /\ line.args = 4
        \/ line.name = "signal" /\ line.args = 3

(* What Run returns, if it does.  hb -1 also for units it does not know. *)
RunResults ==
  CASE line.name = "cmdnm"  -> IF line.args = 2 THEN {0} ELSE {-1}
    [] line.name = "cd"     -> IF line.args = 2 THEN {0, -1, -2} ELSE {-1}
    [] line.name = "exit"   -> {2}
    [] line.name = "hb"     -> {-1} \cup IF Acts /\ line.effect # "stays" THEN {0} ELSE {}
    [] line.name = "signal" -> IF ~Acts THEN {-1} ELSE IF line.effect = "returns" THEN {0} ELSE {}
    [] OTHER                -> {0}

(* cmdnm, systat and hb assert that pthread_create succeeds. *)
Asserts == /\ ThreadMayFail
           /\ \/ line.name = "systat"
              \/ line.name = "cmdnm" /\ line.args = 2
              \/ line.name = "hb" /\ Acts

(* systat's threads use a stream they have closed. *)
MayDie == Asserts \/ line.name = "systat" \/ (line.name = "signal" /\ Acts /\ line.effect = "dies")

(* A syntax error is reported and leaves status as it is. *)
SyntaxError ==
  /\ pc = "dispatch" /\ mode = -1
  /\ pc' = "loop"
  /\ UNCHANGED <<faults, line, status, mode, input, argList, specRes, heap, lost,
                 unflushed, child, word>>

(* run_command with one of the seven names: Run. *)
RunIntrinsic ==
  /\ pc = "dispatch" /\ mode = 0 /\ line.kind = "intrinsic"
  /\ unflushed' \in {unflushed, TRUE}
  /\ \/ status' \in RunResults /\ pc' = "loop"
     \/ Acts /\ line.effect = "stays" /\ pc' = "stays" /\ UNCHANGED status
     \/ MayDie /\ pc' = "crashed" /\ UNCHANGED status
  /\ UNCHANGED <<faults, line, mode, input, argList, specRes, heap, lost, child, word>>

(* buffer_pos of an hb that never ends wraps, and is an index all the same. *)
Overruns ==
  /\ pc = "stays" /\ line.name = "hb"
  /\ pc' = "crashed"
  /\ UNCHANGED <<faults, line, status, mode, input, argList, specRes, heap, lost,
                 unflushed, child, word>>

(* run_command with any other: New_Process. *)
RunProgram ==
  /\ pc = "dispatch" /\ mode = 0 /\ line.kind = "program"
  /\ pc' = "fork"
  /\ UNCHANGED <<faults, line, status, mode, input, argList, specRes, heap, lost,
                 unflushed, child, word>>

(* run_special.  With -2 there is no set, or one whose pbargs nobody has   *)
(* set.                                                                    *)
RunSpecial ==
  /\ pc = "dispatch" /\ mode \notin {0, -1}
  /\ pc' = IF mode = -2 THEN "crashed" ELSE "pipeline"
  /\ UNCHANGED <<faults, line, status, mode, input, argList, specRes, heap, lost,
                 unflushed, child, word>>

(* It comes back when its commands have, if they do: it waits for each     *)
(* before it starts the next, and accepts connections.  The set is freed,  *)
(* but nothing in it.                                                      *)
SpecialReturns ==
  /\ pc = "pipeline"
  /\ \/ /\ pc' = "loop" /\ heap' = heap \ {"set"}
        /\ status' \in {0, -1} \cup (IF ForkMayFail THEN {-3} ELSE {})
     \/ ForkMayFail /\ pc' = "killed" /\ UNCHANGED <<status, heap>>
  /\ UNCHANGED <<faults, line, mode, input, argList, specRes, lost, unflushed, child, word>>

-----------------------------------------------------------------------------
(* New_Process: the child has a copy of what stdio holds. *)
Fork ==
  /\ pc = "fork"
  /\ pc' = "wait"
  /\ child' = [at |-> "exec", unflushed |-> unflushed]
  /\ UNCHANGED <<faults, line, status, mode, input, argList, specRes, heap, lost, unflushed, word>>

(* fork returns -1, which is not 0: there is no child to wait for, and the *)
(* status word stays uninitialised.                                        *)
ForkFails ==
  /\ pc = "fork"
  /\ ForkMayFail
  /\ pc' = "reap"
  /\ word' \in {0, 65280}
  /\ UNCHANGED <<faults, line, status, mode, input, argList, specRes, heap, lost, unflushed, child>>

(* Mutation: the child does not leave when execvp fails. *)
ExecOrStay ==
  /\ child.at = "exec"
  /\ child' = [child EXCEPT !.at = IF line.found THEN "running" ELSE "stays"]
  /\ UNCHANGED <<faults, line, pc, status, mode, input, argList, specRes, heap, lost,
                 unflushed, word>>

(* execvp; if it returns, exit(-1). *)
Exec ==
  /\ child.at = "exec"
  /\ IF line.found THEN child' = [child EXCEPT !.at = "running"] /\ UNCHANGED word
                   ELSE child' = [child EXCEPT !.at = "zombie"] /\ word' = 256 * 255
  /\ UNCHANGED <<faults, line, pc, status, mode, input, argList, specRes, heap, lost, unflushed>>

ProgramEnds ==
  /\ child.at = "running"
  /\ child' = [child EXCEPT !.at = "zombie"]
  /\ word' = 256 * line.code
  /\ UNCHANGED <<faults, line, pc, status, mode, input, argList, specRes, heap, lost, unflushed>>

Wait3 ==
  /\ pc = "wait"
  /\ child.at = "zombie"
  /\ pc' = "reap"
  /\ child' = [child EXCEPT !.at = "reaped"]
  /\ UNCHANGED <<faults, line, status, mode, input, argList, specRes, heap, lost, unflushed, word>>

(* 65280 is taken for a command that was not found, any other word for one *)
(* whose usage is printed.                                                 *)
Reap ==
  /\ pc = "reap"
  /\ IF word = 65280 THEN status' = -1 /\ UNCHANGED unflushed
                     ELSE status' = 0 /\ unflushed' = TRUE
  /\ pc' = "loop"
  /\ UNCHANGED <<faults, line, mode, input, argList, specRes, heap, lost, child, word>>

-----------------------------------------------------------------------------
(* Mutation: "while status = 0", as in the pseudocode of prog2.tex. *)
LoopWhileZero ==
  /\ pc = "loop"
  /\ heap' = {} /\ lost' = lost \cup (heap \ {input, argList})
  /\ input' = "NULL" /\ argList' = "NULL" /\ child' = NoChild
  /\ pc' = IF status = 0 THEN "prompt" ELSE "ended"
  /\ UNCHANGED <<faults, line, status, mode, specRes, unflushed, word>>

(* The line and the vector are freed, and the loop goes on while status    *)
(* is below 2 (input and arg_list become NULL at the top of the loop).     *)
Loop ==
  /\ pc = "loop"
  /\ heap' = {} /\ lost' = lost \cup (heap \ {input, argList})
  /\ input' = "NULL" /\ argList' = "NULL" /\ child' = NoChild
  /\ pc' = IF status < 2 THEN "prompt" ELSE "ended"
  /\ UNCHANGED <<faults, line, status, mode, specRes, unflushed, word>>

Parent ==
  \/ ParseInput \/ ParseSpecial \/ SyntaxError \/ RunIntrinsic \/ RunProgram
  \/ RunSpecial \/ Fork \/ ForkFails \/ Wait3 \/ Reap \/ Loop
Child == Exec \/ ProgramEnds

Next == Prompt \/ Parent \/ Child \/ Overruns \/ SpecialReturns

(* The shell and its child run, and a program run alone ends.  Nobody need *)
(* type, and the commands of a pipeline need not end.                      *)
Fairness == WF_vars(Parent) /\ WF_vars(Child)

Spec == Init /\ [][Next]_vars /\ Fairness

-----------------------------------------------------------------------------
MainTypes ==
  /\ faults \subseteq Faults /\ line \in Lines
  /\ pc \in {"prompt", "parse", "special", "dispatch", "stays", "pipeline", "fork",
             "wait", "reap", "loop", "ended", "killed", "crashed"}
  /\ status \in -3..2
  /\ mode \in -2..1
  /\ input \in {"NULL", "line"} /\ argList \in {"NULL", "vector"}
  /\ specRes \in {"NULL", "set"}
  /\ heap \subseteq Objects /\ lost \subseteq Objects

ChildTypes ==
  /\ unflushed \in BOOLEAN
  /\ child \in [at : {"none", "exec", "running", "zombie", "reaped"}, unflushed : BOOLEAN]
  /\ word \in StatusWord
  /\ child.at \in {"exec", "running", "zombie"} <=> pc = "wait"

(***************************************************************************)
(* Every variable has its type (main's variables and New_Process's), and   *)
(* the shell waits just as long as its child is not reaped.                *)
(***************************************************************************)
TypeOK == MainTypes /\ ChildTypes

(***************************************************************************)
(* main frees the line and the vector of every round exactly once, though  *)
(* dsh_prompt may have freed the line already and parse_input may not have *)
(* made a vector: a pointer it will free points to an allocated object, no *)
(* vector is left over from an earlier round, and a line is only where an  *)
(* allocation may fail.                                                    *)
(***************************************************************************)
FreesItsOwn ==
  /\ input # "NULL" => input \in heap
  /\ argList # "NULL" => argList \in heap
  /\ "vector" \notin lost
  /\ "line" \in lost => MemoryMayFail

(***************************************************************************)
(* Nothing is printed twice: a child that may still end by exit has no     *)
(* copy of output the shell has yet to write.                              *)
(***************************************************************************)
NoOutputTwice == child.at = "exec" => ~child.unflushed

IsExit == line.kind = "exit" \/ (line.kind = "intrinsic" /\ line.name = "exit")

(***************************************************************************)
(* The loop ends only at an exit, typed first on the line or run as a      *)
(* command, and never because of what a command returned.                  *)
(***************************************************************************)
OnlyExitEnds == pc = "ended" => IsExit

(***************************************************************************)
(* "It waits for the exit command to terminate" (dsh.c:246-247): otherwise *)
(* the shell dies only                                                     *)
(*  - of a vector parse_special is given though parse_input made none (no  *)
(*    argument, or an odd quote), and of operators out of place, for which *)
(*    fields of the parse_set that were never set are freed;               *)
(*  - when memory, a process or a thread is not to be had;                 *)
(*  - in systat, which uses closed streams, and in an hb that never ends;  *)
(*  - of the signal it sends itself.                                       *)
(***************************************************************************)
DiesAlone ==
  /\ line.kind = "intrinsic"
  /\ \/ line.name = "systat"
     \/ line.name \in {"hb", "signal"} /\ line.effect # "returns"

LacksThread == line.kind = "intrinsic" /\ ThreadMayFail /\ line.name \in {"cmdnm", "systat", "hb"}

OnlyBadLinesCrash ==
  /\ pc = "crashed" =>
       MemoryMayFail \/ line.kind \in {"spaces", "unmatched", "mistake"} \/ LacksThread \/ DiesAlone
  /\ pc = "killed" => ForkMayFail /\ line.kind = "operators"

(***************************************************************************)
(* Whatever fails, the shell comes back to its prompt, ends or dies on     *)
(* every line that is no pipeline (those are RunSpecial's), is no hb whose *)
(* interval is not positive and does not stop the shell.                   *)
(***************************************************************************)
BackToPrompt ==
  pc = "parse" /\ line.kind # "operators" /\ line.effect # "stays"
    ~> pc \in {"prompt", "ended", "crashed"}
=============================================================================
