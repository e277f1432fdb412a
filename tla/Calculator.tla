------------------------------- MODULE Calculator -------------------------------
(***************************************************************************)
(* The postfix calculator of ALP-listings/appendix-a: main and the two     *)
(* apply functions of calculator.c, the unary numbers of number.c, the     *)
(* stack of stack.c.  A number is a list of cells, one for each unit; it   *)
(* is modelled by its length, and `live' counts the cells malloc has given *)
(* out and free has not got back.  malloc never fails here.                *)
(***************************************************************************)
EXTENDS Integers, Sequences

CONSTANTS Numerals,  \* what strtoul makes of the numerals typed
          UIntMax,   \* UINT_MAX, and a number's wrap when it is put in an int
          MaxTokens  \* bound: words in a line

(* A word of a line is a number, an operator or something else.            *)
Binary == {"+", "-", "*"}
Unary  == {"even", "odd"}

VARIABLES at,      \* "prompt", "line", "returned 0", "returned 1" or "aborted"
          line,    \* the words of the line so far
          stack,   \* number_stack, the top last
          live,    \* cells in use
          answer   \* the last number printed

calcVars == <<at, line, stack, live, answer>>

Init == at = "prompt" /\ line = <<>> /\ stack = <<>> /\ live = 0 /\ answer = 0

(* number.c: what each function returns, and the cells it takes on balance.*)
Number(n) == [n |-> n, cells |-> n]

CopyNumber(n) == Number(n)  \* a cell for each of n's

Add(n1, n2) == LET copy == CopyNumber(n2) IN [n |-> copy.n + n1, cells |-> copy.cells + n1]

(* n2 units are taken off a copy of n1, whose cells are freed; assert stops*)
(* at zero.                                                                *)
Subtract(n1, n2) == LET copy == CopyNumber(n1) IN [n |-> copy.n - n2, cells |-> copy.cells - n2]

Product(n1, n2) ==
  LET Round[k \in 0..n1] ==
        IF k = 0 THEN Number(0)
        ELSE LET sum == Add(Round[k - 1].n, n2)
             IN  [n |-> sum.n, cells |-> sum.cells + Round[k - 1].cells - Round[k - 1].n]
  IN  Round[n1]

(* even and odd call each other.                                           *)
Parity(function, operand) ==
  LET Of[call \in Unary \X (0..operand)] ==
        IF call[2] > 0 THEN Of[<<IF call[1] = "even" THEN "odd" ELSE "even", call[2] - 1>>]
        ELSE IF call[1] = "even" THEN Add(0, 1) ELSE Number(0)
  IN  Of[<<function, operand>>]

(* Mutation: the operands are swapped. *)
ApplySwapped(op, n1, n2) == CASE op = "+" -> Add(n2, n1) [] op = "-" -> Subtract(n2, n1) [] op = "*" -> Product(n2, n1)

Apply(op, n1, n2) == CASE op = "+" -> Add(n1, n2) [] op = "-" -> Subtract(n1, n2) [] op = "*" -> Product(n1, n2)

StringToNumber(v) == Number(v % (UIntMax + 1))
NumberToUnsigned(n) == n % (UIntMax + 1)

Top == stack[Len(stack)]
Popped(k) == SubSeq(stack, 1, Len(stack) - k)

-------------------------------------------------------------------------------
(* fgets, which at the end of the input ends the program.  A line of more  *)
(* than 999 characters comes as two.                                       *)
GetLine == /\ at = "prompt"
           /\ at' \in {"line", "returned 0"}
           /\ line' = <<>>
           /\ UNCHANGED <<stack, live, answer>>

Word(w) == at = "line" /\ Len(line) < MaxTokens /\ line' = Append(line, w)

PushNumber == \E v \in Numerals :
                /\ Word(<<"number", v>>)
                /\ LET number == StringToNumber(v)
                   IN  stack' = Append(stack, number.n) /\ live' = live + number.cells
                /\ UNCHANGED <<at, answer>>

(* operand2 is popped first.  An operator that finds one operand has lost  *)
(* it when it finds the stack empty, and ends the program.                 *)
ApplyBinary(op) ==
  /\ Word(<<"binary", op>>)
  /\ IF Len(stack) < 2 THEN at' = "returned 1" /\ stack' = <<>> /\ UNCHANGED <<live, answer>>
     ELSE LET operand2 == Top
              operand1 == stack[Len(stack) - 1]
              result   == Apply(op, operand1, operand2)
          IN  IF result.n < 0 THEN at' = "aborted" /\ UNCHANGED <<stack, live, answer>>
              ELSE /\ stack' = Append(Popped(2), result.n)
                   /\ live' = live + result.cells - operand1 - operand2
                   /\ UNCHANGED <<at, answer>>

ApplyUnary(op) ==
  /\ Word(<<"unary", op>>)
  /\ IF stack = <<>> THEN at' = "returned 1" /\ UNCHANGED <<stack, live, answer>>
     ELSE LET result == Parity(op, Top)
          IN  /\ stack' = Append(Popped(1), result.n)
              /\ live' = live + result.cells - Top
              /\ UNCHANGED <<at, answer>>

(* A word that is neither a number nor an operator changes nothing.        *)
SkipWord == Word(<<"other", "word">>) /\ UNCHANGED <<at, stack, live, answer>>

EndLine == /\ at = "line"
           /\ IF stack = <<>> THEN at' = "returned 1" /\ UNCHANGED <<stack, live, answer>>
              ELSE /\ answer' = NumberToUnsigned(Top)
                   /\ live' = live - Top
                   /\ stack' = Popped(1)
                   /\ at' = "clear"
           /\ UNCHANGED line

ClearStack == /\ at = "clear"
              /\ IF stack = <<>> THEN at' = "prompt" /\ UNCHANGED <<stack, live>>
                 ELSE live' = live - Top /\ stack' = Popped(1) /\ UNCHANGED at
              /\ UNCHANGED <<line, answer>>

Next == GetLine \/ PushNumber \/ (\E op \in Binary : ApplyBinary(op)) \/ (\E op \in Unary : ApplyUnary(op))
        \/ SkipWord \/ EndLine \/ ClearStack

Spec == Init /\ [][Next]_calcVars
-------------------------------------------------------------------------------
(* What a line means, read from its last word: an operator's right operand *)
(* ends just before it, its left one just before the right one begins.     *)
(* The words read so far have their values, and where they begin.          *)
Absent == [value |-> -1, from |-> 0]

Arithmetic(op, x, y) == IF x < 0 \/ y < 0 THEN -1
                        ELSE CASE op = "+" -> x + y [] op = "-" -> x - y [] op = "*" -> x * y

Holds(op, x) == IF x < 0 THEN -1 ELSE IF (x % 2 = 0) <=> (op = "even") THEN 1 ELSE 0

Sense(word, i, left, right) ==
  CASE word[1] = "other"  -> right
    [] word[1] = "number" -> [value |-> word[2] % (UIntMax + 1), from |-> i]
    [] word[1] = "unary"  -> [value |-> Holds(word[2], right.value), from |-> right.from]
    [] word[1] = "binary" -> [value |-> Arithmetic(word[2], left.value, right.value), from |-> left.from]

Left(read, right) == IF right.from = 0 THEN Absent ELSE read[right.from - 1]

Reading(words, read, i) ==
  IF i = 0 THEN Absent ELSE Sense(words[i], i, Left(read, read[i - 1]), read[i - 1])

Values(words) == LET E[i \in 0..Len(words)] == Reading(words, E, i) IN E

Meaning == Values(line)[Len(line)]

(* The number printed is the value of the expression the line ends with;   *)
(* the program gives up only on a line that ends in none, and aborts only  *)
(* on one whose last operator subtracts more than there is.                *)
RightAnswer == /\ at = "clear" => Meaning.from > 0 /\ answer = Meaning.value % (UIntMax + 1)
               /\ at = "returned 1" => Meaning.from = 0
               /\ at = "aborted" => Meaning.from > 0 /\ Meaning.value < 0

(* Between two lines no cell is in use, whatever was calculated: answers,  *)
(* operands, what the functions copied, and operands left over are freed.  *)
NothingLeaks == at = "prompt" => live = 0 /\ stack = <<>>
===============================================================================
