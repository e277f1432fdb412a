----------------------------- MODULE ParseInput -----------------------------
(***************************************************************************)
(* parse_input of dsh (prog2/dsh.c): one command line is tokenized in      *)
(* place.  A first loop overwrites every separator with a NUL and counts   *)
(* the arguments; the argument vector is then allocated for exactly that   *)
(* count, and a second loop over the mutilated buffer, with a rule of its  *)
(* own for where an argument begins, fills it.                             *)
(*                                                                         *)
(* A character is abstracted to what the two loops distinguish.  A tab is  *)
(* a "word" character: its case label falls through to the default one.    *)
(***************************************************************************)
EXTENDS Integers, Sequences, FiniteSets

CONSTANT Lines  \* the lines dsh_prompt may hand to parse_input

NUL  == "nul"
Char == {"word", "space", "quote"}

ASSUME LinesAssumption == Lines \subseteq Seq(Char)

VARIABLES
  line,    \* the line as it was read (never changed, for the properties)
  mem,     \* input[]: the same bytes plus the terminating NUL, overwritten
  pc,      \* "scan" | "check" | "store" | "done"
  pos,     \* iptin in the first loop, argin in the second
  found,   \* the flag both loops keep
  quotes,  \* number of '"' seen
  argc,    \* *argc
  args,    \* the positions stored in args[0..count-1]; <<>> while it is NULL
  ret      \* the value returned

vars == <<line, mem, pc, pos, found, quotes, argc, args, ret>>

Init ==
  /\ line \in Lines
  /\ mem = Append(line, NUL)
  /\ pc = "scan"
  /\ pos = 1
  /\ found = FALSE
  /\ quotes = 0
  /\ argc = 0
  /\ args = <<>>
  /\ ret = 0

(* A '"' always separates, a space only outside quotes. *)
Separates(c) == c = "quote" \/ (c = "space" /\ quotes % 2 = 0)

(* One iteration of the counting loop on a byte that is not the NUL. *)
ScanChar ==
  /\ pc = "scan"
  /\ mem[pos] # NUL
  /\ quotes' = IF mem[pos] = "quote" THEN quotes + 1 ELSE quotes
  /\ found' = ~Separates(mem[pos])
  /\ argc' = IF found' /\ ~found THEN argc + 1 ELSE argc
  /\ mem' = IF found' THEN mem ELSE [mem EXCEPT ![pos] = NUL]
  /\ pos' = pos + 1
  /\ UNCHANGED <<line, pc, args, ret>>

(* The iteration that meets the NUL: done = 1, and iptin still advances. *)
ScanEnd ==
  /\ pc = "scan"
  /\ mem[pos] = NUL
  /\ pos' = pos + 1
  /\ pc' = "check"
  /\ UNCHANGED <<line, mem, found, quotes, argc, args, ret>>

(* Mutation: an unmatched quote is reported only if an argument was found. *)
CheckEmptyFirst ==
  /\ pc = "check"
  /\ ret' = IF argc > 0 /\ quotes % 2 = 1 THEN -1 ELSE 0
  /\ pc' = IF argc = 0 \/ ret' = -1 THEN "done" ELSE "store"
  /\ pos' = 1
  /\ found' = FALSE
  /\ UNCHANGED <<line, mem, quotes, argc, args>>

(* Unmatched quotes and the empty list return early, *argv untouched. *)
Check ==
  /\ pc = "check"
  /\ IF quotes % 2 = 1 \/ argc = 0
     THEN /\ ret' = IF quotes % 2 = 1 THEN -1 ELSE 0
          /\ pc' = "done"
          /\ UNCHANGED <<pos, found>>
     ELSE /\ pos' = 1
          /\ found' = FALSE
          /\ pc' = "store"
          /\ UNCHANGED ret
  /\ UNCHANGED <<line, mem, quotes, argc, args>>

(* Mutation: the storing loop forgets to test its found flag. *)
StoreEveryByte ==
  /\ pc = "store"
  /\ pos <= Len(mem)
  /\ found' = (mem[pos] # NUL)
  /\ args' = IF found' THEN Append(args, pos) ELSE args
  /\ pos' = pos + 1
  /\ UNCHANGED <<line, mem, pc, quotes, argc, ret>>

(* One iteration of the storing loop; iptin is one past the NUL. *)
Store ==
  /\ pc = "store"
  /\ pos <= Len(mem)
  /\ found' = (mem[pos] # NUL)
  /\ args' = IF found' /\ ~found THEN Append(args, pos) ELSE args
  /\ pos' = pos + 1
  /\ UNCHANGED <<line, mem, pc, quotes, argc, ret>>

(* The loop ends: args[argc] = NULL, *argv = args, return 0. *)
Finish ==
  /\ pc = "store"
  /\ pos > Len(mem)
  /\ pc' = "done"
  /\ UNCHANGED <<line, mem, pos, found, quotes, argc, args, ret>>

Next == ScanChar \/ ScanEnd \/ Check \/ Store \/ Finish

Spec == Init /\ [][Next]_vars /\ WF_vars(Next)

-----------------------------------------------------------------------------
(* The language of the parser, defined on the line alone.                  *)

QuotesBefore(i) == Cardinality({j \in 1..(i - 1) : line[j] = "quote"})

Kept(i) ==
  \/ line[i] = "word"
  \/ line[i] = "space" /\ QuotesBefore(i) % 2 = 1

Starts == {i \in 1..Len(line) : Kept(i) /\ (i = 1 \/ ~Kept(i - 1))}

(***************************************************************************)
(* Every variable has its type (parse_input's locals and results).         *)
(***************************************************************************)
TypeOK ==
  /\ line \in Seq(Char)
  /\ mem \in Seq(Char \cup {NUL})
  /\ Len(mem) = Len(line) + 1
  /\ pc \in {"scan", "check", "store", "done"}
  /\ pos \in 1..(Len(mem) + 1)
  /\ found \in BOOLEAN
  /\ quotes \in Nat
  /\ argc \in Nat
  /\ args \in Seq(1..Len(mem))
  /\ ret \in {-1, 0}

(***************************************************************************)
(* The storing loop never stores more pointers than the counting loop      *)
(* counted, so the argc + 1 slots of the malloc at line 162 are never      *)
(* overrun, and a completed vector has no slot left unset before its NULL. *)
(***************************************************************************)
ExactlyEnough ==
  /\ Len(args) <= argc
  /\ pc = "done" /\ args # <<>> => Len(args) = argc

(***************************************************************************)
(* What the caller gets: the stored pointers are, in order, the first      *)
(* bytes of the maximal runs of kept bytes of the line, each run ended by  *)
(* a NUL; a vector is delivered exactly when the quotes match and there is *)
(* an argument.                                                            *)
(***************************************************************************)
ParsesTheLine ==
  pc = "done" =>
    /\ (ret = -1) <=> (QuotesBefore(Len(line) + 1) % 2 = 1)
    /\ args # <<>> <=> (ret = 0 /\ Starts # {})
    /\ args # <<>> =>
         /\ {args[k] : k \in 1..Len(args)} = Starts
         /\ \A k \in 1..(Len(args) - 1) : args[k] < args[k + 1]
         /\ \A i \in 1..Len(line) : mem[i] = IF Kept(i) THEN line[i] ELSE NUL

=============================================================================
