-------------------------- MODULE ParseInputProofs --------------------------
(***************************************************************************)
(* parse_input is correct for every set of lines, of any length: the       *)
(* invariant below says where the two loops stand, in terms of the         *)
(* language of the line alone (Kept and Starts of ParseInput).             *)
(***************************************************************************)
EXTENDS ParseInput, TLAPS, FiniteSetTheorems, SequenceTheorems

(* The argument beginnings among the first n bytes of the line. *)
StartsUpTo(n) == {i \in Starts : i <= n}

(* The byte at i once the counting loop has passed it. *)
Tokenized(i) == IF Kept(i) THEN line[i] ELSE NUL

(* The last byte either loop has looked at was part of an argument. *)
InsideArgument == pos > 1 /\ pos - 1 <= Len(line) /\ Kept(pos - 1)

ScanInv ==
  pc = "scan" =>
    /\ pos <= Len(mem)
    /\ quotes = QuotesBefore(pos)
    /\ found <=> InsideArgument
    /\ argc = Cardinality(StartsUpTo(pos - 1))
    /\ \A i \in 1..(pos - 1) : mem[i] = Tokenized(i)
    /\ \A i \in pos..Len(line) : mem[i] = line[i]

AfterInv ==
  pc # "scan" =>
    /\ quotes = QuotesBefore(Len(line) + 1)
    /\ argc = Cardinality(Starts)
    /\ \A i \in 1..Len(line) : mem[i] = Tokenized(i)

StoreInv ==
  pc = "store" =>
    /\ quotes % 2 = 0 /\ argc # 0 /\ ret = 0
    /\ found <=> InsideArgument
    /\ Len(args) = Cardinality(StartsUpTo(pos - 1))
    /\ {args[k] : k \in 1..Len(args)} = StartsUpTo(pos - 1)

DoneInv ==
  pc = "done" =>
    \/ /\ args = <<>>
       /\ ret = IF quotes % 2 = 1 THEN -1 ELSE 0
       /\ quotes % 2 = 1 \/ argc = 0
    \/ /\ quotes % 2 = 0 /\ ret = 0 /\ argc # 0
       /\ Len(args) = argc
       /\ {args[k] : k \in 1..Len(args)} = Starts

Ascending == \A k \in 1..(Len(args) - 1) : args[k] < args[k + 1]

IInv ==
  /\ TypeOK
  /\ mem[Len(mem)] = NUL
  /\ pc \in {"scan", "check"} => args = <<>> /\ ret = 0
  /\ Ascending
  /\ ScanInv
  /\ AfterInv
  /\ StoreInv
  /\ DoneInv

-----------------------------------------------------------------------------
(* Counting: what one more byte adds to the sets the loops count.          *)

(* The quotes up to i are finitely many, and byte i adds one iff it is one. *)
LEMMA QuoteStep ==
  ASSUME NEW i \in Nat \ {0}
  PROVE  /\ QuotesBefore(1) = 0
         /\ QuotesBefore(i) \in Nat
         /\ QuotesBefore(i + 1) =
              IF line[i] = "quote" THEN QuotesBefore(i) + 1 ELSE QuotesBefore(i)
<1> DEFINE Q(n) == {j \in 1..(n - 1) : line[j] = "quote"}
<1>1. \A n \in Nat : IsFiniteSet(Q(n))
  <2> SUFFICES ASSUME NEW n \in Nat PROVE IsFiniteSet(Q(n))
    OBVIOUS
  <2>1. IsFiniteSet(1..(n - 1))
    BY FS_Interval
  <2> QED
    BY <2>1, FS_Subset
<1>2. Q(1) = {}
  OBVIOUS
<1>3. Q(i + 1) = IF line[i] = "quote" THEN Q(i) \cup {i} ELSE Q(i)
  OBVIOUS
<1>4. i \notin Q(i)
  OBVIOUS
<1> HIDE DEF Q
<1>5. Cardinality(Q(i + 1)) =
        IF line[i] = "quote" THEN Cardinality(Q(i)) + 1 ELSE Cardinality(Q(i))
  BY <1>1, <1>3, <1>4, FS_AddElement
<1>6. Cardinality(Q(1)) = 0 /\ Cardinality(Q(i)) \in Nat
  BY <1>1, <1>2, FS_EmptySet, FS_CardinalityType
<1> QED
  BY <1>5, <1>6 DEF QuotesBefore, Q

(* The argument beginnings up to n are finitely many, and byte n adds one   *)
(* iff it is kept and the byte before it is not.                            *)
LEMMA StartStep ==
  ASSUME NEW n \in Nat \ {0}, Len(line) \in Nat
  PROVE  /\ StartsUpTo(0) = {}
         /\ StartsUpTo(Len(line)) = Starts
         /\ StartsUpTo(Len(line) + 1) = Starts
         /\ Cardinality(StartsUpTo(0)) = 0
         /\ Cardinality(StartsUpTo(n)) \in Nat
         /\ Cardinality(StartsUpTo(n - 1)) \in Nat
         /\ StartsUpTo(n) = IF n \in Starts THEN StartsUpTo(n - 1) \cup {n}
                                            ELSE StartsUpTo(n - 1)
         /\ Cardinality(StartsUpTo(n)) = IF n \in Starts
                                         THEN Cardinality(StartsUpTo(n - 1)) + 1
                                         ELSE Cardinality(StartsUpTo(n - 1))
<1>1. Starts \subseteq 1..Len(line)
  BY DEF Starts
<1>0. \A i \in Starts : i \in Nat /\ 1 <= i /\ i <= Len(line)
  BY <1>1
<1>2. \A m \in Nat : IsFiniteSet(StartsUpTo(m))
  <2>1. IsFiniteSet(1..Len(line))
    BY FS_Interval
  <2> QED
    BY <1>1, <2>1, FS_Subset DEF StartsUpTo
<1>3. /\ StartsUpTo(0) = {}
      /\ StartsUpTo(Len(line)) = Starts
      /\ StartsUpTo(Len(line) + 1) = Starts
  BY <1>0 DEF StartsUpTo
<1>4. StartsUpTo(n) = IF n \in Starts THEN StartsUpTo(n - 1) \cup {n}
                                      ELSE StartsUpTo(n - 1)
  BY <1>0 DEF StartsUpTo
<1>5. n \notin StartsUpTo(n - 1)
  BY DEF StartsUpTo
<1>6. IsFiniteSet(StartsUpTo(n - 1)) /\ IsFiniteSet(StartsUpTo(n))
  BY <1>2
<1>7. Cardinality(StartsUpTo(n)) = IF n \in Starts
                                  THEN Cardinality(StartsUpTo(n - 1)) + 1
                                  ELSE Cardinality(StartsUpTo(n - 1))
  BY <1>4, <1>5, <1>6, FS_AddElement
<1> QED
  BY <1>3, <1>4, <1>6, <1>7, FS_EmptySet, FS_CardinalityType

-----------------------------------------------------------------------------
(* The initial states. *)
LEMMA InitInv == Init => IInv
<1> SUFFICES ASSUME Init PROVE IInv
  OBVIOUS
<1>1. line \in Seq(Char)
  BY LinesAssumption DEF Init
<1>2. Len(line) \in Nat /\ mem = Append(line, NUL) /\ Len(mem) = Len(line) + 1
  BY <1>1 DEF Init
<1>3. TypeOK
  <2>1. mem \in Seq(Char \cup {NUL})
    BY <1>1, <1>2
  <2>2. pos \in 1..(Len(mem) + 1) /\ args \in Seq(1..Len(mem))
    BY <1>2 DEF Init
  <2> QED
    BY <1>1, <1>2, <2>1, <2>2, Zenon DEF Init, TypeOK
<1>4. QuotesBefore(1) = 0 /\ Cardinality(StartsUpTo(0)) = 0
  BY <1>2, QuoteStep, StartStep
<1>5. ScanInv
  BY <1>1, <1>2, <1>4 DEF Init, ScanInv, InsideArgument
<1> QED
  BY <1>1, <1>2, <1>3, <1>5
  DEF Init, IInv, Ascending, AfterInv, StoreInv, DoneInv

-----------------------------------------------------------------------------
(* The line never changes, so neither does its language. *)
LEMMA SameLanguage ==
  ASSUME line' = line
  PROVE  /\ \A i : QuotesBefore(i)' = QuotesBefore(i)
         /\ \A i : Kept(i)' = Kept(i)
         /\ \A i : Tokenized(i)' = Tokenized(i)
         /\ Starts' = Starts
         /\ \A n : StartsUpTo(n)' = StartsUpTo(n)
<1>1. \A i : QuotesBefore(i)' = QuotesBefore(i)
  BY DEF QuotesBefore
<1>2. \A i : Kept(i)' = Kept(i)
  BY <1>1 DEF Kept
<1>3. \A i : Tokenized(i)' = Tokenized(i)
  BY <1>2 DEF Tokenized
<1>4. Starts' = Starts
  BY <1>2 DEF Starts
<1>5. \A n : StartsUpTo(n)' = StartsUpTo(n)
  BY <1>4 DEF StartsUpTo
<1> QED
  BY <1>1, <1>2, <1>3, <1>4, <1>5

(* The counting loop's flag is the language's Kept, for the byte it reads. *)
LEMMA ScanKeeps ==
  ASSUME IInv, ScanChar
  PROVE  /\ pos \in 1..Len(line) /\ mem[pos] = line[pos]
         /\ mem[pos] \in Char
         /\ found' \in BOOLEAN
         /\ found' <=> Kept(pos)
<1>1. pos \in 1..Len(line) /\ mem[pos] = line[pos] /\ line[pos] \in Char
  <2>1. Len(line) \in Nat /\ pos \in Nat /\ pos >= 1 /\ pos <= Len(mem)
        /\ Len(mem) = Len(line) + 1 /\ line \in Seq(Char)
    BY DEF IInv, TypeOK, ScanInv, ScanChar
  <2>2. pos # Len(mem)
    BY DEF IInv, ScanChar
  <2>3. pos \in 1..Len(line)
    BY <2>1, <2>2
  <2>4. mem[pos] = line[pos]
    BY <2>1, <2>3 DEF IInv, ScanInv, ScanChar
  <2> QED
    BY <2>1, <2>3, <2>4, ElementOfSeq
<1>2. quotes = QuotesBefore(pos)
  BY DEF IInv, ScanInv, ScanChar
<1>3. Kept(pos) <=> ~(line[pos] = "quote" \/ (line[pos] = "space" /\ quotes % 2 = 0))
  <2>1. quotes % 2 = 0 \/ quotes % 2 = 1
    BY DEF IInv, TypeOK
  <2> QED
    BY <1>1, <1>2, <2>1 DEF Kept, Char
<1> QED
  BY <1>1, <1>3 DEF ScanChar, Separates

(* One iteration of the counting loop. *)
LEMMA ScanCharInv == IInv /\ ScanChar => IInv'
<1> SUFFICES ASSUME IInv, ScanChar PROVE IInv'
  OBVIOUS
<1>1. /\ pos \in 1..Len(line) /\ mem[pos] = line[pos] /\ mem[pos] \in Char
      /\ found' \in BOOLEAN /\ (found' <=> Kept(pos))
  BY ScanKeeps
<1>2. /\ line' = line /\ pc' = pc /\ pc = "scan" /\ args' = args /\ ret' = ret
      /\ pos' = pos + 1 /\ args = <<>> /\ ret = 0 /\ Len(line) \in Nat
      /\ mem \in Seq(Char \cup {NUL}) /\ Len(mem) = Len(line) + 1 /\ pos \in Nat
  BY DEF ScanChar, IInv, TypeOK
<1>3. /\ \A i : QuotesBefore(i)' = QuotesBefore(i)
      /\ \A i : Kept(i)' = Kept(i)
      /\ \A i : Tokenized(i)' = Tokenized(i)
      /\ \A n : StartsUpTo(n)' = StartsUpTo(n)
  BY <1>2, SameLanguage
<1>4. /\ mem' \in Seq(Char \cup {NUL})
      /\ Len(mem') = Len(mem)
      /\ \A i \in 1..Len(mem) : mem'[i] = IF i = pos /\ ~Kept(pos) THEN NUL ELSE mem[i]
  <2>1. CASE Kept(pos)
    BY <1>1, <1>2, <2>1 DEF ScanChar
  <2>2. CASE ~Kept(pos)
    <3>1. mem' = [mem EXCEPT ![pos] = NUL]
      BY <1>1, <2>2 DEF ScanChar
    <3> QED
      BY <1>1, <1>2, <2>2, <3>1, ExceptSeq
  <2> QED
    BY <2>1, <2>2
<1>5. quotes' = QuotesBefore(pos + 1) /\ quotes' \in Nat
  <2>1. quotes = QuotesBefore(pos)
    BY <1>2 DEF IInv, ScanInv
  <2>2. /\ QuotesBefore(pos) \in Nat
        /\ QuotesBefore(pos + 1) =
             IF line[pos] = "quote" THEN QuotesBefore(pos) + 1 ELSE QuotesBefore(pos)
    <3>1. pos \in Nat \ {0}
      BY <1>1, <1>2
    <3> QED
      BY <3>1, QuoteStep
  <2>3. quotes' = IF line[pos] = "quote" THEN quotes + 1 ELSE quotes
    BY <1>1 DEF ScanChar
  <2> QED
    BY <2>1, <2>2, <2>3
<1>6. argc' = Cardinality(StartsUpTo(pos)) /\ argc' \in Nat
  <2>1. argc = Cardinality(StartsUpTo(pos - 1)) /\ (found <=> InsideArgument)
    BY <1>2 DEF IInv, ScanInv
  <2>2. found' /\ ~found <=> pos \in Starts
    BY <1>1, <1>2, <2>1 DEF InsideArgument, Starts
  <2>3. argc' = IF found' /\ ~found THEN argc + 1 ELSE argc
    BY DEF ScanChar
  <2>4. argc' = IF pos \in Starts THEN argc + 1 ELSE argc
    BY <2>2, <2>3, Zenon
  <2>5. pos \in Nat \ {0}
    BY <1>1, <1>2
  <2>6. /\ Cardinality(StartsUpTo(pos)) \in Nat
        /\ Cardinality(StartsUpTo(pos)) = IF pos \in Starts
                                          THEN Cardinality(StartsUpTo(pos - 1)) + 1
                                          ELSE Cardinality(StartsUpTo(pos - 1))
    BY <1>2, <2>5, StartStep
  <2> QED
    BY <2>1, <2>4, <2>6
<1>7. TypeOK'
  <2>1. args' \in Seq(1..Len(mem'))
    BY <1>2
  <2>2. pos' \in 1..(Len(mem') + 1)
    BY <1>1, <1>2, <1>4
  <2> QED
    BY <1>1, <1>2, <1>4, <1>5, <1>6, <2>1, <2>2 DEF IInv, TypeOK
<1>8. ScanInv'
  <2>1. found' <=> InsideArgument'
    BY <1>1, <1>2, <1>3 DEF InsideArgument
  <2>2. \A i \in 1..(pos' - 1) : mem'[i] = Tokenized(i)'
    <3> SUFFICES ASSUME NEW i \in 1..pos PROVE mem'[i] = Tokenized(i)
      BY <1>2, <1>3
    <3>1. CASE i = pos
      BY <1>1, <1>2, <1>4, <3>1 DEF Tokenized
    <3>2. CASE i # pos
      BY <1>1, <1>2, <1>4, <3>2 DEF IInv, ScanInv
    <3> QED
      BY <3>1, <3>2
  <2>3. \A i \in pos'..Len(line') : mem'[i] = line'[i]
    BY <1>1, <1>2, <1>4 DEF IInv, ScanInv
  <2>4. pos' <= Len(mem') /\ pos' - 1 = pos
    BY <1>1, <1>2, <1>4
  <2> QED
    BY <1>2, <1>3, <1>5, <1>6, <2>1, <2>2, <2>3, <2>4 DEF ScanInv
<1>9. mem'[Len(mem')] = NUL
  BY <1>1, <1>2, <1>4 DEF IInv
<1> QED
  BY <1>2, <1>7, <1>8, <1>9
  DEF IInv, Ascending, AfterInv, StoreInv, DoneInv

(* The counting loop meets the terminating NUL. *)
LEMMA ScanEndInv == IInv /\ ScanEnd => IInv'
<1> SUFFICES ASSUME IInv, ScanEnd PROVE IInv'
  OBVIOUS
<1>1. /\ pc = "scan" /\ pc' = "check" /\ pos' = pos + 1 /\ mem[pos] = NUL
      /\ line' = line /\ mem' = mem /\ found' = found /\ quotes' = quotes
      /\ argc' = argc /\ args' = args /\ ret' = ret /\ args = <<>> /\ ret = 0
  BY DEF ScanEnd, IInv
<1>2. /\ Len(line) \in Nat /\ Len(mem) = Len(line) + 1
      /\ pos \in Nat /\ 1 <= pos /\ pos <= Len(mem)
  BY <1>1 DEF IInv, TypeOK, ScanInv
<1>3. pos = Len(line) + 1
  <2> SUFFICES ASSUME pos # Len(line) + 1 PROVE FALSE
    OBVIOUS
  <2>1. pos \in 1..Len(line) /\ line \in Seq(Char)
    BY <1>2 DEF IInv, TypeOK
  <2>2. mem[pos] = line[pos]
    BY <1>1, <2>1 DEF IInv, ScanInv
  <2>3. line[pos] \in Char
    BY <2>1, ElementOfSeq
  <2> QED
    BY <1>1, <2>2, <2>3 DEF Char, NUL
<1>4. /\ \A i : QuotesBefore(i)' = QuotesBefore(i)
      /\ \A i : Tokenized(i)' = Tokenized(i)
      /\ Starts' = Starts
  BY <1>1, SameLanguage
<1>5. argc = Cardinality(Starts) /\ quotes = QuotesBefore(Len(line) + 1)
  <2>1. pos - 1 = Len(line) /\ StartsUpTo(Len(line)) = Starts
    BY <1>2, <1>3, StartStep
  <2> QED
    BY <1>1, <1>3, <2>1 DEF IInv, ScanInv
<1>6. \A i \in 1..Len(line) : mem[i] = Tokenized(i)
  BY <1>1, <1>2, <1>3 DEF IInv, ScanInv
<1>7. TypeOK'
  <2>1. pos' \in 1..(Len(mem') + 1)
    BY <1>1, <1>2
  <2> QED
    BY <1>1, <2>1 DEF IInv, TypeOK
<1> QED
  BY <1>1, <1>4, <1>5, <1>6, <1>7
  DEF IInv, Ascending, ScanInv, AfterInv, StoreInv, DoneInv

(* The early returns, or the start of the storing loop. *)
LEMMA CheckInv == IInv /\ Check => IInv'
<1> SUFFICES ASSUME IInv, Check PROVE IInv'
  OBVIOUS
<1>1. /\ pc = "check" /\ line' = line /\ mem' = mem /\ quotes' = quotes
      /\ argc' = argc /\ args' = args /\ args = <<>> /\ ret = 0
      /\ quotes \in Nat /\ argc \in Nat /\ Len(line) \in Nat
      /\ Len(mem) = Len(line) + 1
  BY DEF Check, IInv, TypeOK
<1>2. /\ \A i : QuotesBefore(i)' = QuotesBefore(i)
      /\ \A i : Tokenized(i)' = Tokenized(i)
      /\ Starts' = Starts
      /\ \A n : StartsUpTo(n)' = StartsUpTo(n)
  BY <1>1, SameLanguage
<1>3. CASE quotes % 2 = 1 \/ argc = 0
  <2>1. /\ pc' = "done" /\ pos' = pos /\ found' = found
        /\ ret' = IF quotes % 2 = 1 THEN -1 ELSE 0
    BY <1>3 DEF Check
  <2>2. TypeOK'
    BY <1>1, <2>1 DEF IInv, TypeOK
  <2> QED
    BY <1>1, <1>2, <1>3, <2>1, <2>2
    DEF IInv, Ascending, ScanInv, AfterInv, StoreInv, DoneInv
<1>4. CASE ~(quotes % 2 = 1 \/ argc = 0)
  <2>1. /\ pc' = "store" /\ pos' = 1 /\ found' = FALSE /\ ret' = ret
    BY <1>4 DEF Check
  <2>2. TypeOK'
    <3>1. pos' \in 1..(Len(mem') + 1)
      BY <1>1, <2>1
    <3> QED
      BY <1>1, <2>1, <3>1 DEF IInv, TypeOK
  <2>3. Len(args') = 0 /\ {args'[k] : k \in 1..Len(args')} = {}
    BY <1>1
  <2>4. StartsUpTo(0)' = {} /\ Cardinality(StartsUpTo(0)') = 0
    BY <1>1, <1>2, StartStep
  <2>5. StoreInv'
    <3>1. ~InsideArgument'
      BY <2>1 DEF InsideArgument
    <3>2. quotes % 2 = 0
      BY <1>1, <1>4
    <3>3. pos' - 1 = 0
      BY <2>1
    <3> QED
      BY <1>1, <1>2, <1>4, <2>1, <2>3, <2>4, <3>1, <3>2, <3>3 DEF StoreInv
  <2> QED
    BY <1>1, <1>2, <2>1, <2>2, <2>5
    DEF IInv, Ascending, ScanInv, AfterInv, DoneInv
<1> QED
  BY <1>3, <1>4

(* The storing loop's flag is Kept too: the bytes left are the kept ones. *)
LEMMA StoreKeeps ==
  ASSUME IInv, Store
  PROVE  /\ pos \in 1..(Len(line) + 1)
         /\ mem[pos] # NUL <=> (pos <= Len(line) /\ Kept(pos))
         /\ found' /\ ~found <=> pos \in Starts
<1>1. /\ pc = "store" /\ Len(line) \in Nat /\ Len(mem) = Len(line) + 1
      /\ pos \in Nat /\ 1 <= pos /\ pos <= Len(mem) /\ mem[Len(mem)] = NUL
  BY DEF Store, IInv, TypeOK
<1>2. CASE pos = Len(line) + 1
  <2>1. mem[pos] = NUL /\ ~(pos <= Len(line))
    BY <1>1, <1>2
  <2>2. pos \notin Starts
    BY <1>1, <2>1 DEF Starts
  <2>3. ~found'
    BY <2>1 DEF Store
  <2> QED
    BY <1>1, <1>2, <2>1, <2>2, <2>3
<1>3. CASE pos # Len(line) + 1
  <2>1. pos \in 1..Len(line)
    BY <1>1, <1>3
  <2>2. mem[pos] = Tokenized(pos)
    BY <1>1, <2>1 DEF IInv, AfterInv
  <2>3. Kept(pos) => line[pos] # NUL
    BY DEF Kept, NUL
  <2>4. mem[pos] # NUL <=> Kept(pos)
    BY <2>2, <2>3 DEF Tokenized
  <2>5. found' <=> Kept(pos)
    BY <2>4 DEF Store
  <2>6. found <=> InsideArgument
    BY <1>1 DEF IInv, StoreInv
  <2>7. InsideArgument <=> (pos # 1 /\ Kept(pos - 1))
    BY <2>1 DEF InsideArgument
  <2>8. pos \in Starts <=> (Kept(pos) /\ (pos = 1 \/ ~Kept(pos - 1)))
    BY <2>1 DEF Starts
  <2> QED
    BY <1>1, <2>1, <2>4, <2>5, <2>6, <2>7, <2>8
<1> QED
  BY <1>2, <1>3

(* One iteration of the storing loop. *)
LEMMA StoreStep == IInv /\ Store => IInv'
<1> SUFFICES ASSUME IInv, Store PROVE IInv'
  OBVIOUS
<1>1. /\ pc = "store" /\ pc' = pc /\ line' = line /\ mem' = mem
      /\ quotes' = quotes /\ argc' = argc /\ ret' = ret /\ pos' = pos + 1
      /\ Len(line) \in Nat /\ Len(mem) = Len(line) + 1 /\ pos \in Nat
      /\ args \in Seq(1..Len(mem)) /\ Len(args) \in Nat
      /\ pos \in 1..Len(mem)
  BY DEF Store, IInv, TypeOK
<1>2. /\ \A i : QuotesBefore(i)' = QuotesBefore(i)
      /\ \A i : Kept(i)' = Kept(i)
      /\ \A i : Tokenized(i)' = Tokenized(i)
      /\ Starts' = Starts
      /\ \A n : StartsUpTo(n)' = StartsUpTo(n)
  BY <1>1, SameLanguage
<1>3. /\ mem[pos] # NUL <=> (pos <= Len(line) /\ Kept(pos))
      /\ found' /\ ~found <=> pos \in Starts
      /\ found' \in BOOLEAN
      /\ found' <=> mem[pos] # NUL
  BY StoreKeeps DEF Store
<1>4. args' = IF pos \in Starts THEN Append(args, pos) ELSE args
  <2>1. args' = IF found' /\ ~found THEN Append(args, pos) ELSE args
    BY DEF Store
  <2> QED
    BY <1>3, <2>1, Zenon
<1>5. /\ StartsUpTo(pos) = IF pos \in Starts THEN StartsUpTo(pos - 1) \cup {pos}
                                             ELSE StartsUpTo(pos - 1)
      /\ Cardinality(StartsUpTo(pos)) = IF pos \in Starts
                                        THEN Cardinality(StartsUpTo(pos - 1)) + 1
                                        ELSE Cardinality(StartsUpTo(pos - 1))
  <2>1. pos \in Nat \ {0}
    BY <1>1
  <2> QED
    BY <1>1, <2>1, StartStep
<1>6. /\ Len(args) = Cardinality(StartsUpTo(pos - 1))
      /\ {args[k] : k \in 1..Len(args)} = StartsUpTo(pos - 1)
      /\ \A k \in 1..(Len(args) - 1) : args[k] < args[k + 1]
  BY <1>1 DEF IInv, StoreInv, Ascending
<1>7. /\ args' \in Seq(1..Len(mem))
      /\ Len(args') = Cardinality(StartsUpTo(pos))
      /\ {args'[k] : k \in 1..Len(args')} = StartsUpTo(pos)
      /\ \A k \in 1..(Len(args') - 1) : args'[k] < args'[k + 1]
  <2>1. CASE pos \notin Starts
    BY <1>4, <1>5, <1>6, <1>1, <2>1
  <2>2. CASE pos \in Starts
    <3>1. /\ args' \in Seq(1..Len(mem)) /\ Len(args') = Len(args) + 1
          /\ \A k \in 1..Len(args) : args'[k] = args[k]
          /\ args'[Len(args) + 1] = pos
      BY <1>1, <1>4, <2>2
    <3>2. {args'[k] : k \in 1..Len(args')} =
            {args[k] : k \in 1..Len(args)} \cup {pos}
      <4>1. 1..Len(args') = 1..Len(args) \cup {Len(args) + 1}
        BY <1>1, <3>1
      <4>2. \A x : (\E k \in 1..Len(args') : x = args'[k]) <=>
                   (\E k \in 1..Len(args) : x = args[k]) \/ x = pos
        BY <3>1, <4>1, Zenon
      <4> QED
        BY <4>2, Zenon
    <3>3. \A k \in 1..Len(args) : args[k] < pos
      <4>1. \A i \in StartsUpTo(pos - 1) : i < pos
        BY <1>1 DEF StartsUpTo, Starts
      <4> QED
        BY <1>6, <4>1
    <3>4. \A k \in 1..(Len(args') - 1) : args'[k] < args'[k + 1]
      <4> SUFFICES ASSUME NEW k \in 1..Len(args) PROVE args'[k] < args'[k + 1]
        BY <1>1, <3>1
      <4>1. CASE k = Len(args)
        BY <1>1, <3>1, <3>3, <4>1
      <4>2. CASE k # Len(args)
        <5>1. k \in 1..(Len(args) - 1) /\ k + 1 \in 1..Len(args)
          BY <1>1, <4>2
        <5>2. args[k] < args[k + 1]
          BY <1>6, <5>1
        <5> QED
          BY <3>1, <5>1, <5>2
      <4> QED
        BY <4>1, <4>2
    <3> QED
      BY <1>5, <1>6, <2>2, <3>1, <3>2, <3>4
  <2> QED
    BY <2>1, <2>2
<1>8. TypeOK'
  <2>1. pos' \in 1..(Len(mem') + 1)
    BY <1>1
  <2> QED
    BY <1>1, <1>3, <1>7, <2>1 DEF IInv, TypeOK
<1>9. StoreInv'
  <2>1. found' <=> InsideArgument'
    BY <1>1, <1>2, <1>3 DEF InsideArgument
  <2>2. pos' - 1 = pos
    BY <1>1
  <2> QED
    BY <1>1, <1>2, <1>7, <2>1, <2>2 DEF IInv, StoreInv
<1>10. Ascending'
  BY <1>7 DEF Ascending
<1> QED
  BY <1>1, <1>2, <1>8, <1>9, <1>10 DEF IInv, ScanInv, AfterInv, DoneInv

(* The storing loop is over: every byte, the NUL included, has been seen. *)
LEMMA FinishInv == IInv /\ Finish => IInv'
<1> SUFFICES ASSUME IInv, Finish PROVE IInv'
  OBVIOUS
<1>1. /\ pc = "store" /\ pc' = "done" /\ line' = line /\ mem' = mem
      /\ quotes' = quotes /\ argc' = argc /\ ret' = ret /\ pos' = pos
      /\ found' = found /\ args' = args
      /\ Len(line) \in Nat /\ pos = Len(line) + 2
  BY DEF Finish, IInv, TypeOK
<1>2. /\ \A i : QuotesBefore(i)' = QuotesBefore(i)
      /\ \A i : Tokenized(i)' = Tokenized(i)
      /\ Starts' = Starts
  BY <1>1, SameLanguage
<1>3. StartsUpTo(pos - 1) = Starts
  <2>1. pos - 1 = Len(line) + 1
    BY <1>1
  <2> QED
    BY <1>1, <2>1, StartStep
<1>4. TypeOK'
  BY <1>1 DEF IInv, TypeOK
<1>5. DoneInv'
  BY <1>1, <1>2, <1>3 DEF IInv, StoreInv, AfterInv, DoneInv
<1> QED
  BY <1>1, <1>2, <1>4, <1>5 DEF IInv, Ascending, ScanInv, AfterInv, StoreInv

-----------------------------------------------------------------------------
(***************************************************************************)
(* The inductive invariant holds throughout every run of parse_input.      *)
(***************************************************************************)
THEOREM Invariance == Spec => []IInv
<1>1. IInv /\ [Next]_vars => IInv'
  <2> SUFFICES ASSUME IInv, [Next]_vars PROVE IInv'
    OBVIOUS
  <2>1. CASE ScanChar
    BY <2>1, ScanCharInv
  <2>2. CASE ScanEnd
    BY <2>2, ScanEndInv
  <2>3. CASE Check
    BY <2>3, CheckInv
  <2>4. CASE Store
    BY <2>4, StoreStep
  <2>5. CASE Finish
    BY <2>5, FinishInv
  <2>6. CASE UNCHANGED vars
    <3>1. /\ line' = line /\ mem' = mem /\ pc' = pc /\ pos' = pos
          /\ found' = found /\ quotes' = quotes /\ argc' = argc
          /\ args' = args /\ ret' = ret
      BY <2>6 DEF vars
    <3>2. /\ \A i : QuotesBefore(i)' = QuotesBefore(i)
          /\ \A i : Kept(i)' = Kept(i)
          /\ \A i : Tokenized(i)' = Tokenized(i)
          /\ Starts' = Starts
          /\ \A n : StartsUpTo(n)' = StartsUpTo(n)
      BY <3>1, SameLanguage
    <3>3. (InsideArgument' <=> InsideArgument) /\ (TypeOK' <=> TypeOK)
      BY <3>1, <3>2 DEF InsideArgument, TypeOK
    <3> QED
      BY <3>1, <3>2, <3>3
      DEF IInv, Ascending, ScanInv, AfterInv, StoreInv, DoneInv
  <2> QED
    BY <2>1, <2>2, <2>3, <2>4, <2>5, <2>6 DEF Next
<1> QED
  BY InitInv, <1>1, PTL DEF Spec

(***************************************************************************)
(* Every local and every result of parse_input keeps its type, in          *)
(* particular both loops stay inside the line and its NUL.                 *)
(***************************************************************************)
THEOREM TypeCorrect == Spec => []TypeOK
<1>1. IInv => TypeOK
  BY DEF IInv
<1> QED
  BY Invariance, <1>1, PTL

(***************************************************************************)
(* The vector allocated for the counted arguments is never overrun by the  *)
(* storing loop, and is full when it is handed to the caller.              *)
(***************************************************************************)
THEOREM NoOverrun == Spec => []ExactlyEnough
<1>1. IInv => ExactlyEnough
  <2> SUFFICES ASSUME IInv PROVE ExactlyEnough
    OBVIOUS
  <2>1. argc \in Nat /\ pos \in Nat /\ pos >= 1 /\ Len(line) \in Nat
    BY DEF IInv, TypeOK
  <2>2. CASE pc \in {"scan", "check"}
    BY <2>1, <2>2 DEF IInv, ExactlyEnough
  <2>3. CASE pc = "store"
    <3>1. Len(args) = Cardinality(StartsUpTo(pos - 1)) /\ argc = Cardinality(Starts)
      BY <2>3 DEF IInv, StoreInv, AfterInv
    <3>2. IsFiniteSet(Starts)
      <4>1. IsFiniteSet(1..Len(line)) /\ Starts \subseteq 1..Len(line)
        BY <2>1, FS_Interval DEF Starts
      <4> QED
        BY <4>1, FS_Subset
    <3>3. StartsUpTo(pos - 1) \in SUBSET Starts
      BY DEF StartsUpTo
    <3>4. Cardinality(StartsUpTo(pos - 1)) <= Cardinality(Starts)
      BY <3>2, <3>3, FS_Subset
    <3> QED
      BY <2>3, <3>1, <3>4 DEF ExactlyEnough
  <2>4. CASE pc = "done"
    <3>1. args = <<>> \/ Len(args) = argc
      BY <2>4 DEF IInv, DoneInv
    <3> QED
      BY <2>1, <2>4, <3>1 DEF ExactlyEnough
  <2> QED
    BY <2>2, <2>3, <2>4 DEF IInv, TypeOK
<1> QED
  BY Invariance, <1>1, PTL

(***************************************************************************)
(* For a line of any length, the two loops together compute the language   *)
(* of the line: the arguments are its maximal runs of kept bytes, in order.*)
(***************************************************************************)
THEOREM ParsesCorrectly == Spec => []ParsesTheLine
<1>1. IInv => ParsesTheLine
  <2> SUFFICES ASSUME IInv, pc = "done" PROVE ParsesTheLine
    BY DEF ParsesTheLine
  <2>1. /\ quotes = QuotesBefore(Len(line) + 1) /\ argc = Cardinality(Starts)
        /\ \A i \in 1..Len(line) : mem[i] = Tokenized(i)
        /\ quotes \in Nat /\ argc \in Nat /\ Len(line) \in Nat
        /\ args \in Seq(1..Len(mem))
        /\ \A k \in 1..(Len(args) - 1) : args[k] < args[k + 1]
    BY DEF IInv, TypeOK, AfterInv, Ascending
  <2>2. argc = 0 <=> Starts = {}
    <3>1. IsFiniteSet(Starts)
      <4>1. IsFiniteSet(1..Len(line)) /\ Starts \subseteq 1..Len(line)
        BY <2>1, FS_Interval DEF Starts
      <4> QED
        BY <4>1, FS_Subset
    <3> QED
      BY <2>1, <3>1, FS_EmptySet
  <2>3. CASE /\ args = <<>>
             /\ ret = IF quotes % 2 = 1 THEN -1 ELSE 0
             /\ quotes % 2 = 1 \/ argc = 0
    BY <2>1, <2>2, <2>3 DEF ParsesTheLine
  <2>4. CASE /\ quotes % 2 = 0 /\ ret = 0 /\ argc # 0
             /\ Len(args) = argc
             /\ {args[k] : k \in 1..Len(args)} = Starts
    <3>1. args # <<>>
      BY <2>1, <2>4
    <3> QED
      BY <2>1, <2>2, <2>4, <3>1 DEF ParsesTheLine, Tokenized
  <2> QED
    BY <2>3, <2>4 DEF IInv, DoneInv
<1> QED
  BY Invariance, <1>1, PTL
=============================================================================
