---------------------------- MODULE ParseSpecial ----------------------------
(***************************************************************************)
(* parse_special, pipeBuilder and parse_set_free of dsh (prog2/special.c): *)
(* the argument vector of one command line is scanned for the reserved     *)
(* operators, the scan records what it finds in a struct parse_set, and    *)
(* pipeBuilder then cuts the vector into one argument list per piped       *)
(* command.                                                                *)
(*                                                                         *)
(* The scan and pipeBuilder do not agree on what a pipe is: the scan takes *)
(* the one-character word "|", pipeBuilder every word that begins with a   *)
(* bar.  Words are therefore kept apart by that, and by nothing else.      *)
(***************************************************************************)
EXTENDS Integers, Sequences, FiniteSets

CONSTANT Lines  \* the argument vectors parse_input may deliver

Operator == {"<", ">", ">>", "|", "))", "(("}
Token    == Operator \cup {"word", "|word"}
NULL     == "NULL"

Flags == {"REDIR_STDIN", "REDIR_STDOUT_W", "REDIR_STDOUT_A",
          "PIPE_BUILDER", "LOCAL_HOST", "REMOTE_HOST"}

(* What a field of the parse_set holds when it is not the position of an   *)
(* operand: the malloc'ed garbage, NULL, a struct with an unset member.    *)
Junk  == -2
Null  == -1
Blank == 0

Fields == {"rdin", "rdout", "pbargs", "lhost", "rhost"}

ASSUME LinesAssumption == Lines \subseteq Seq(Token) \ {<<>>}

VARIABLES
  line,   \* the vector as parse_input delivered it (for the properties)
  arr,    \* arg_list[], NULL included, overwritten by both phases
  pc,     \* "alloc" | "scan" | "free" | "build" | "done" | "crashed"
  pos,    \* the cursor of either phase
  mode,   \* the mode bits set so far
  err,    \* 0, -1 for a syntax error, -2 for an allocation error
  count,  \* command_count
  set,    \* the fields of *arg_set
  lists,  \* pip->arg_lists: where each command begins
  spec    \* whether the caller will find *spec_res set

vars == <<line, arr, pc, pos, mode, err, count, set, lists, spec>>

Init ==
  /\ line \in Lines
  /\ arr = Append(line, NULL)
  /\ pc = "alloc"
  /\ pos = 1
  /\ mode = {}
  /\ err = 0
  /\ count = 1
  /\ set = [f \in Fields |-> Junk]
  /\ lists = <<>>
  /\ spec = FALSE

(* malloc of the parse_set: its fields stay uninitialised. *)
Alloc ==
  /\ pc = "alloc"
  /\ \/ pc' = "scan" /\ spec' = TRUE /\ UNCHANGED <<err, set>>
     \/ /\ pc' = "free" /\ err' = -2
        /\ set' = [f \in Fields |-> Null]
        /\ UNCHANGED spec
  /\ UNCHANGED <<line, arr, pos, mode, count, lists>>

At(token) == pc = "scan" /\ arr[pos] = token

Fail(code) == pc' = "free" /\ err' = code

(* Mutation: a second redirect of the same stream is not looked for. *)
NeverRefused(clash) == FALSE

(* One of these mode bits is set already. *)
Refused(clash) == mode \cap clash # {}

(* The k-th word after the operator is not there. *)
Missing(k) == arr[pos + k] = NULL

(* Mutation: the operator stays in the vector. *)
CutsNothing == arr' = arr

(* The operator's slot becomes NULL: it ends the command before it. *)
Cut == arr' = [arr EXCEPT ![pos] = NULL]

Stdin  == {"REDIR_STDIN", "REMOTE_HOST"}
Stdout == {"REDIR_STDOUT_W", "REDIR_STDOUT_A"}

(***************************************************************************)
(* The handler of "<", ">" and ">>": refuse a stream already redirected,   *)
(* set the mode bit, require a file name, allocate its struct.             *)
(***************************************************************************)
Redirect(token, clash, flag, field) ==
  /\ At(token)
  /\ Cut
  /\ \/ Refused(clash) /\ Fail(-1) /\ UNCHANGED <<pos, mode, set>>
     \/ /\ ~Refused(clash)
        /\ mode' = mode \cup {flag}
        /\ \/ Missing(1) /\ Fail(-1) /\ pos' = pos + 1 /\ UNCHANGED set
           \/ /\ ~Missing(1)
              /\ Fail(-2)
              /\ set' = [set EXCEPT ![field] = Null]
              /\ pos' = pos + 1
           \/ /\ ~Missing(1)
              /\ set' = [set EXCEPT ![field] = pos + 1]
              /\ pos' = pos + 2
              /\ UNCHANGED <<pc, err>>
  /\ UNCHANGED <<line, count, lists, spec>>

RedirectIn     == Redirect("<", Stdin, "REDIR_STDIN", "rdin")
RedirectOut    == Redirect(">", Stdout, "REDIR_STDOUT_W", "rdout")
RedirectAppend == Redirect(">>", Stdout, "REDIR_STDOUT_A", "rdout")

(* Mutation: the command is counted twice. *)
PipeCountsTwo ==
  /\ At("|")
  /\ ~Refused(Stdout \cup {"REDIR_STDIN"})
  /\ ~Missing(1)
  /\ count' = count + 2
  /\ mode' = mode \cup {"PIPE_BUILDER"}
  /\ pos' = pos + 2
  /\ UNCHANGED <<line, arr, pc, err, set, lists, spec>>

(* "|": no redirect so far, and a word to follow, which is stepped over. *)
Pipe ==
  /\ At("|")
  /\ \/ /\ Refused(Stdout \cup {"REDIR_STDIN"})
        /\ Fail(-1)
        /\ UNCHANGED <<pos, mode, count>>
     \/ /\ ~Refused(Stdout \cup {"REDIR_STDIN"}) /\ Missing(1)
        /\ Fail(-1)
        /\ pos' = pos + 1
        /\ UNCHANGED <<mode, count>>
     \/ /\ ~Refused(Stdout \cup {"REDIR_STDIN"}) /\ ~Missing(1)
        /\ count' = count + 1
        /\ mode' = mode \cup {"PIPE_BUILDER"}
        /\ pos' = pos + 2
        /\ UNCHANGED <<pc, err>>
  /\ UNCHANGED <<line, arr, set, lists, spec>>

(* "))": the struct is allocated before the port is looked for, and the    *)
(* mode bit comes last.                                                    *)
LocalHost ==
  /\ At("))")
  /\ Cut
  /\ \/ Refused(Stdout) /\ Fail(-1) /\ UNCHANGED <<pos, mode, set>>
     \/ /\ ~Refused(Stdout)
        /\ Fail(-2)
        /\ set' = [set EXCEPT !.lhost = Null]
        /\ UNCHANGED <<pos, mode>>
     \/ /\ ~Refused(Stdout) /\ Missing(1)
        /\ Fail(-1)
        /\ set' = [set EXCEPT !.lhost = Blank]
        /\ pos' = pos + 1
        /\ UNCHANGED mode
     \/ /\ ~Refused(Stdout) /\ ~Missing(1)
        /\ set' = [set EXCEPT !.lhost = pos + 1]
        /\ mode' = mode \cup {"LOCAL_HOST"}
        /\ pos' = pos + 2
        /\ UNCHANGED <<pc, err>>
  /\ UNCHANGED <<line, count, lists, spec>>

(* "((": the mode bit first, then the struct, then an address and a port;  *)
(* set.rhost is the address's position, the port is the word after it.     *)
RemoteHost ==
  /\ At("((")
  /\ Cut
  /\ \/ Refused(Stdin) /\ Fail(-1) /\ UNCHANGED <<pos, mode, set>>
     \/ /\ ~Refused(Stdin)
        /\ mode' = mode \cup {"REMOTE_HOST"}
        /\ \/ Fail(-2) /\ set' = [set EXCEPT !.rhost = Null] /\ pos' = pos
           \/ \E k \in {1, 2} :
                /\ k = 2 => ~Missing(1)
                /\ Missing(k)
                /\ Fail(-1)
                /\ set' = [set EXCEPT !.rhost = Blank]
                /\ pos' = pos + k
           \/ /\ ~Missing(1) /\ ~Missing(2)
              /\ set' = [set EXCEPT !.rhost = pos + 1]
              /\ pos' = pos + 3
              /\ UNCHANGED <<pc, err>>
  /\ UNCHANGED <<line, count, lists, spec>>

(* Every other word, one that merely begins with a bar included. *)
Word ==
  /\ pc = "scan"
  /\ arr[pos] \in Token \ Operator
  /\ pos' = pos + 1
  /\ UNCHANGED <<line, arr, pc, mode, err, count, set, lists, spec>>

(* The NULL: without an operator the vector goes back as it came, with the *)
(* parse_set; otherwise pipeBuilder takes over from the first word.        *)
EndScan ==
  /\ At(NULL)
  /\ IF mode = {}
     THEN pc' = "done" /\ UNCHANGED pos
     ELSE pc' = "build" /\ pos' = 1
  /\ UNCHANGED <<line, arr, mode, err, count, set, lists, spec>>

(* parse_set_free frees every field that is not NULL: an uninitialised one *)
(* holds what the heap left there, and freeing that may end the shell.     *)
ParseSetFree ==
  /\ pc = "free"
  /\ \/ pc' = "done"
     \/ (\E f \in Fields : set[f] = Junk) /\ pc' = "crashed"
  /\ UNCHANGED <<line, arr, pos, mode, err, count, set, lists, spec>>

(* Neither of pipeBuilder's two allocations need succeed; *spec_res is then *)
(* left NULL, as it is when the parse_set itself was not allocated.         *)
BuildFails ==
  /\ pc = "build" /\ lists = <<>>
  /\ Fail(-2)
  /\ set' = [set EXCEPT !.pbargs = Null]
  /\ spec' = FALSE
  /\ UNCHANGED <<line, arr, pos, mode, count, lists>>

(* Where pipeBuilder's inner loop stops. *)
Stops(i) == arr[i] \in {NULL, "|", "|word"}

(* One command: it begins at the cursor, its end is overwritten by NULL. *)
BuildCommand ==
  /\ pc = "build"
  /\ Len(lists) < count
  /\ lists' = Append(lists, pos)
  /\ \E i \in pos..Len(arr) :
       /\ Stops(i) /\ \A j \in pos..(i - 1) : ~Stops(j)
       /\ arr' = [arr EXCEPT ![i] = NULL]
       /\ pos' = i + 1
  /\ UNCHANGED <<line, pc, mode, err, count, set, spec>>

(* arg_lists[command_count] = NULL, and the whole is returned. *)
BuildEnd ==
  /\ pc = "build"
  /\ Len(lists) = count
  /\ set' = [set EXCEPT !.pbargs = 1]
  /\ pc' = "done"
  /\ UNCHANGED <<line, arr, pos, mode, err, count, lists, spec>>

Next ==
  \/ Alloc \/ RedirectIn \/ RedirectOut \/ RedirectAppend \/ Pipe
  \/ LocalHost \/ RemoteHost \/ Word \/ EndScan \/ ParseSetFree
  \/ BuildFails \/ BuildCommand \/ BuildEnd

Spec == Init /\ [][Next]_vars

-----------------------------------------------------------------------------
(* The language the documentation describes, defined on the line alone.    *)

Succeeded == pc = "done" /\ err = 0

(* The argument list that begins at i, as positions of its words. *)
ArgsFrom(i) == {j \in i..Len(line) : \A k \in i..j : arr[k] # NULL}

Redirects == {"<", ">", ">>", "))", "(("}
Arity(op) == IF op = "((" THEN 2 ELSE 1

(* The first operator that is not a pipe; what precedes it is the pipeline. *)
TailStarts(t) ==
  /\ t \in 1..(Len(line) + 1)
  /\ \A i \in 1..(t - 1) : line[i] \notin Redirects
  /\ t <= Len(line) => line[t] \in Redirects

(* Non-empty commands joined by pipes, then redirects with their operands, *)
(* each stream redirected at most once.                                    *)
Documented(t) ==
  /\ TailStarts(t)
  /\ \A i \in 1..Len(line) : line[i] # "|word"
  /\ t > 1 /\ line[1] = "word" /\ line[t - 1] = "word"
  /\ \A i \in 1..Len(line) : line[i] = "|" => i + 1 < t /\ line[i + 1] = "word"
  /\ \A i \in t..Len(line) : line[i] \in Redirects =>
       LET next == i + Arity(line[i]) + 1
       IN  /\ next <= Len(line) + 1
           /\ \A j \in (i + 1)..(next - 1) : line[j] = "word"
           /\ next <= Len(line) => line[next] \in Redirects
  /\ Cardinality({i \in t..Len(line) : line[i] \in {"<", "(("}}) <= 1
  /\ Cardinality({i \in t..Len(line) : line[i] \in {">", ">>", "))"}}) <= 1

FlagOf == [op \in Operator |->
  CASE op = "<"  -> "REDIR_STDIN"    [] op = ">"  -> "REDIR_STDOUT_W"
    [] op = ">>" -> "REDIR_STDOUT_A" [] op = "|"  -> "PIPE_BUILDER"
    [] op = "))" -> "LOCAL_HOST"     [] op = "((" -> "REMOTE_HOST"]

FieldOf(flag) ==
  CASE flag = "REDIR_STDIN"                           -> "rdin"
    [] flag \in {"REDIR_STDOUT_W", "REDIR_STDOUT_A"} -> "rdout"
    [] flag = "LOCAL_HOST"                            -> "lhost"
    [] flag = "REMOTE_HOST"                           -> "rhost"
    [] flag = "PIPE_BUILDER"                          -> "pbargs"

(***************************************************************************)
(* Every variable has its type (the locals of parse_special and            *)
(* pipeBuilder and the parse_set).                                         *)
(***************************************************************************)
TypeOK ==
  /\ line \in Seq(Token) \ {<<>>}
  /\ arr \in Seq(Token \cup {NULL})
  /\ Len(arr) = Len(line) + 1
  /\ pc \in {"alloc", "scan", "free", "build", "done", "crashed"}
  /\ pos \in Nat
  /\ mode \subseteq Flags
  /\ err \in {0, -1, -2}
  /\ count \in Nat
  /\ set \in [Fields -> Junk..Len(line)]
  /\ lists \in Seq(1..Len(arr))
  /\ spec \in BOOLEAN

(***************************************************************************)
(* Neither loop dereferences the vector past its NULL.  pipeBuilder counts *)
(* commands instead of looking for the end: there must be a separator left *)
(* for every command still to cut, although it recognises separators by    *)
(* another rule than the scan that counted them.                           *)
(***************************************************************************)
InBounds ==
  pc = "scan" \/ (pc = "build" /\ Len(lists) < count) => pos \in 1..Len(arr)

(***************************************************************************)
(* What run_special relies on: for every mode bit it tests, the struct it  *)
(* then dereferences was allocated and filled, from the words after the    *)
(* operator of that bit; and no stream has two redirections of the kinds   *)
(* parse_special checks against each other.                                *)
(***************************************************************************)
FieldsMatchMode ==
  Succeeded /\ mode # {} =>
    /\ set.pbargs > 0
    /\ \A flag \in mode \ {"PIPE_BUILDER"} :
         LET f == set[FieldOf(flag)]
         IN  f > 1 /\ line[f - 1] \in Operator /\ FlagOf[line[f - 1]] = flag
    /\ ~(Stdin \subseteq mode)
    /\ ~(Stdout \subseteq mode)

(***************************************************************************)
(* A line in the documented form is never a syntax error; unless an        *)
(* allocation fails its mode is the set of its operators, and its argument *)
(* lists are its commands, none of them holding an operator or an operand. *)
(***************************************************************************)
DocumentedLinesParse ==
  \A t \in 1..(Len(line) + 1) : Documented(t) =>
    /\ err # -1
    /\ Succeeded =>
        LET ops  == {i \in 1..Len(line) : line[i] \in Operator}
            bars == {0} \cup {i \in ops : line[i] = "|"}
        IN  /\ mode = {FlagOf[line[i]] : i \in ops}
            /\ ops # {} =>
                 /\ {lists[k] : k \in 1..Len(lists)} = {i + 1 : i \in bars}
                 /\ \A k \in 1..Len(lists) : ArgsFrom(lists[k]) =
                      {i \in lists[k]..(t - 1) :
                         \A j \in lists[k]..i : line[j] = "word"}

=============================================================================
