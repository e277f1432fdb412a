------------------------- MODULE ParseSpecialProofs -------------------------
(***************************************************************************)
(* For argument vectors of any length: pipeBuilder never walks past the    *)
(* NULL although it never looks for it, and run_special finds the structs  *)
(* the mode promises.  The heart of the argument is that cutting a command *)
(* uses up exactly one separator, and that the scan counted no command     *)
(* without having seen one.  A line in the documented form is then parsed  *)
(* as the documentation says.                                              *)
(***************************************************************************)
EXTENDS ParseSpecial, TLAPS, FiniteSetTheorems, SequenceTheorems

(* The pipes of a vector before a position, its separators from one on. *)
Bars(a, n)      == {i \in 1..(n - 1) : a[i] = "|"}
StopsFrom(a, n) == {i \in n..Len(a) : a[i] \in {NULL, "|", "|word"}}

Scanning == pc \in {"alloc", "scan"}

Ahead ==
  Scanning =>
    /\ pos \in 1..Len(arr)
    /\ lists = <<>>
    /\ \A i \in pos..Len(line) : arr[i] = line[i]
    /\ count - 1 <= Cardinality(Bars(arr, pos))

StopsLeft ==
  pc = "build" =>
    /\ pos \in Nat \ {0}
    /\ Len(lists) <= count
    /\ count - Len(lists) <= Cardinality(StopsFrom(arr, pos))

(* The struct of a mode bit, filled from behind an operator of that bit. *)
Filled(flag) ==
  LET f == set[FieldOf(flag)]
  IN  f > 1 /\ line[f - 1] \in Operator /\ FlagOf[line[f - 1]] = flag

Recorded ==
  err = 0 =>
    /\ \A flag \in mode \ {"PIPE_BUILDER"} : Filled(flag)
    /\ ~(Stdin \subseteq mode)
    /\ ~(Stdout \subseteq mode)

IInv ==
  /\ TypeOK
  /\ arr[Len(arr)] = NULL
  /\ err = 0 <=> pc \in {"alloc", "scan", "build"} \/ Succeeded
  /\ pc = "alloc" => mode = {}
  /\ Succeeded /\ mode # {} => set.pbargs > 0
  /\ Ahead
  /\ StopsLeft
  /\ Recorded

-----------------------------------------------------------------------------
(* Counting pipes and separators.                                          *)

(* The scan moves on over bytes it leaves alone: no pipe behind it is lost, *)
(* and one it has just stepped over is gained.                              *)
LEMMA BarsGrow ==
  ASSUME NEW a, NEW b, NEW m \in Nat, NEW n \in Nat, m <= n,
         \A i \in 1..(m - 1) : b[i] = a[i]
  PROVE  /\ Cardinality(Bars(a, m)) \in Nat
         /\ Cardinality(Bars(b, n)) \in Nat
         /\ Cardinality(Bars(a, m)) <= Cardinality(Bars(b, n))
         /\ m > 0 /\ m < n /\ b[m] = "|" =>
              Cardinality(Bars(a, m)) + 1 <= Cardinality(Bars(b, n))
<1>1. IsFiniteSet(Bars(a, m)) /\ IsFiniteSet(Bars(b, n))
  <2>1. IsFiniteSet(1..(m - 1)) /\ IsFiniteSet(1..(n - 1))
    BY FS_Interval
  <2> QED
    BY <2>1, FS_Subset DEF Bars
<1>2. Bars(a, m) \in SUBSET Bars(b, n)
  BY DEF Bars
<1>3. ASSUME m > 0, m < n, b[m] = "|"
      PROVE  Cardinality(Bars(a, m)) + 1 <= Cardinality(Bars(b, n))
  <2>1. m \notin Bars(a, m) /\ Bars(a, m) \cup {m} \in SUBSET Bars(b, n)
    BY <1>3 DEF Bars
  <2>2. Cardinality(Bars(a, m) \cup {m}) = Cardinality(Bars(a, m)) + 1
    BY <1>1, <2>1, FS_AddElement
  <2>3. Cardinality(Bars(a, m) \cup {m}) <= Cardinality(Bars(b, n))
    BY <1>1, <2>1, FS_Subset
  <2> QED
    BY <2>2, <2>3
<1> QED
  BY <1>1, <1>2, <1>3, FS_CardinalityType, FS_Subset

(* Cutting at the first separator uses up that one and no other. *)
LEMMA StopsStep ==
  ASSUME NEW a, NEW b, NEW m \in Nat \ {0}, NEW i \in m..Len(a),
         Len(a) \in Nat, Len(b) = Len(a),
         a[i] \in {NULL, "|", "|word"},
         \A j \in m..(i - 1) : a[j] \notin {NULL, "|", "|word"},
         \A j \in (i + 1)..Len(a) : b[j] = a[j]
  PROVE  /\ Cardinality(StopsFrom(a, m)) \in Nat
         /\ Cardinality(StopsFrom(b, i + 1)) = Cardinality(StopsFrom(a, m)) - 1
<1>1. IsFiniteSet(StopsFrom(a, m))
  <2>1. IsFiniteSet(m..Len(a))
    BY FS_Interval
  <2> QED
    BY <2>1, FS_Subset DEF StopsFrom
<1>2. StopsFrom(b, i + 1) = StopsFrom(a, m) \ {i}
  <2>1. \A j : j \in StopsFrom(b, i + 1) => j \in StopsFrom(a, m) /\ j # i
    BY DEF StopsFrom
  <2>2. \A j : j \in StopsFrom(a, m) /\ j # i => j \in StopsFrom(b, i + 1)
    <3> SUFFICES ASSUME NEW j \in StopsFrom(a, m), j # i
                 PROVE  j \in StopsFrom(b, i + 1)
      OBVIOUS
    <3>1. j \in m..Len(a) /\ a[j] \in {NULL, "|", "|word"}
      BY DEF StopsFrom
    <3>2. j > i
      BY <3>1
    <3> QED
      BY <3>1, <3>2 DEF StopsFrom
  <2> QED
    BY <2>1, <2>2
<1>3. i \in StopsFrom(a, m)
  BY DEF StopsFrom
<1> QED
  BY <1>1, <1>2, <1>3, FS_RemoveElement, FS_CardinalityType

(* The NULL is one separator more than the pipes of the whole vector. *)
LEMMA StopsAtLeast ==
  ASSUME NEW a, NEW n \in 1..Len(a), Len(a) \in Nat, a[Len(a)] = NULL
  PROVE  Cardinality(Bars(a, n)) + 1 <= Cardinality(StopsFrom(a, 1))
<1>1. IsFiniteSet(Bars(a, n)) /\ IsFiniteSet(StopsFrom(a, 1))
  <2>1. IsFiniteSet(1..(n - 1)) /\ IsFiniteSet(1..Len(a))
    BY FS_Interval
  <2> QED
    BY <2>1, FS_Subset DEF Bars, StopsFrom
<1>2. Bars(a, n) \cup {Len(a)} \in SUBSET StopsFrom(a, 1)
  BY DEF Bars, StopsFrom
<1>3. Len(a) \notin Bars(a, n)
  BY DEF Bars, NULL
<1>4. Cardinality(Bars(a, n) \cup {Len(a)}) = Cardinality(Bars(a, n)) + 1
  BY <1>1, <1>3, FS_AddElement
<1>5. Cardinality(Bars(a, n) \cup {Len(a)}) <= Cardinality(StopsFrom(a, 1))
  BY <1>1, <1>2, FS_Subset
<1> QED
  BY <1>4, <1>5

-----------------------------------------------------------------------------
(* The initial states. *)
LEMMA InitInv == Init => IInv
<1> SUFFICES ASSUME Init PROVE IInv
  OBVIOUS
<1>1. line \in Seq(Token) /\ line # <<>> /\ Len(line) \in Nat /\ Len(line) > 0
  <2>1. line \in Seq(Token) /\ line # <<>>
    BY LinesAssumption DEF Init
  <2> QED
    BY <2>1, EmptySeq
<1>2. /\ arr = Append(line, NULL) /\ Len(arr) = Len(line) + 1
      /\ arr \in Seq(Token \cup {NULL})
      /\ arr[Len(arr)] = NULL
      /\ \A i \in 1..Len(line) : arr[i] = line[i]
  <2>1. line \in Seq(Token \cup {NULL}) /\ NULL \in Token \cup {NULL}
    BY <1>1
  <2>2. arr = Append(line, NULL)
    BY DEF Init
  <2> QED
    BY <1>1, <2>1, <2>2
<1>3. TypeOK
  <2>1. set \in [Fields -> Junk..Len(line)]
    BY <1>1 DEF Init, Junk
  <2>2. lists \in Seq(1..Len(arr)) /\ pos \in Nat /\ count \in Nat
    BY DEF Init
  <2> QED
    BY <1>1, <1>2, <2>1, <2>2 DEF Init, TypeOK
<1>4. Cardinality(Bars(arr, 1)) = 0
  <2>1. Bars(arr, 1) = {}
    BY DEF Bars
  <2> QED
    BY <2>1, FS_EmptySet
<1>5. Ahead
  BY <1>1, <1>2, <1>4 DEF Init, Ahead, Scanning
<1>6. Recorded
  BY DEF Init, Recorded, Stdin, Stdout
<1> QED
  BY <1>1, <1>2, <1>3, <1>5, <1>6
  DEF Init, IInv, StopsLeft, Succeeded

(* What every handler of an operator starts from. *)
LEMMA AtOperator ==
  ASSUME IInv, pc = "scan", arr[pos] # NULL
  PROVE  /\ pos \in 1..Len(line) /\ Len(line) \in Nat
         /\ Len(arr) = Len(line) + 1 /\ arr \in Seq(Token \cup {NULL})
         /\ line[pos] = arr[pos]
         /\ err = 0 /\ lists = <<>> /\ count \in Nat
         /\ set \in [Fields -> Junk..Len(line)]
         /\ mode \subseteq Flags
         /\ (arr[pos + 1] # NULL => pos + 1 <= Len(line))
         /\ (arr[pos + 1] # NULL /\ arr[pos + 2] # NULL => pos + 2 <= Len(line))
<1>1. /\ pos \in 1..Len(arr) /\ Len(arr) = Len(line) + 1 /\ Len(line) \in Nat
      /\ arr[Len(arr)] = NULL
  BY DEF IInv, TypeOK, Ahead, Scanning
<1>2. pos \in 1..Len(line)
  BY <1>1
<1>3. line[pos] = arr[pos]
  BY <1>2 DEF IInv, Ahead, Scanning
<1>4. arr[pos + 1] # NULL => pos + 1 <= Len(line)
  <2>1. arr[pos + 1] # NULL => pos + 1 # Len(arr)
    BY <1>1
  <2> QED
    BY <1>1, <1>2, <2>1
<1>5. arr[pos + 1] # NULL /\ arr[pos + 2] # NULL => pos + 2 <= Len(line)
  <2>1. arr[pos + 2] # NULL => pos + 2 # Len(arr)
    BY <1>1
  <2> QED
    BY <1>1, <1>2, <1>4, <2>1
<1> QED
  BY <1>1, <1>2, <1>3, <1>4, <1>5 DEF IInv, TypeOK, Ahead, Scanning

(* Cutting at the cursor touches no other slot, and not the last. *)
LEMMA CutFacts ==
  ASSUME IInv, pc = "scan", arr[pos] # NULL, Cut
  PROVE  /\ arr' \in Seq(Token \cup {NULL}) /\ Len(arr') = Len(arr)
         /\ \A i \in 1..Len(arr) : i # pos => arr'[i] = arr[i]
         /\ arr'[Len(arr')] = NULL
<1>1. /\ pos \in 1..Len(arr) /\ arr \in Seq(Token \cup {NULL})
      /\ Len(arr) = Len(line) + 1 /\ pos # Len(arr) /\ arr[Len(arr)] = NULL
      /\ Len(line) \in Nat
  BY AtOperator DEF IInv
<1>2. arr' = [arr EXCEPT ![pos] = NULL]
  BY DEF Cut
<1>3. NULL \in Token \cup {NULL}
  OBVIOUS
<1> QED
  BY <1>1, <1>2, <1>3, ExceptSeq

(* A handler that breaks out of the loop leaves only the types to show. *)
LEMMA FailedInv ==
  ASSUME pc' = "free", err' \in {-1, -2}, TypeOK', arr'[Len(arr')] = NULL
  PROVE  IInv'
BY DEF IInv, Succeeded, Ahead, Scanning, StopsLeft, Recorded

(* A handler that goes on has moved the cursor past what it consumed, and  *)
(* has counted a command only for a pipe it leaves behind.                 *)
LEMMA AdvancedInv ==
  ASSUME IInv, pc = "scan", arr[pos] # NULL,
         pc' = pc, err' = err, line' = line, lists' = lists,
         TypeOK', Recorded',
         Len(arr') = Len(arr), arr'[Len(arr')] = NULL,
         \A i \in 1..Len(arr) : i # pos => arr'[i] = arr[i],
         pos' \in (pos + 1)..Len(arr),
         count' = count \/ (count' = count + 1 /\ arr'[pos] = "|")
  PROVE  IInv'
<1>1. /\ pos \in 1..Len(line) /\ Len(line) \in Nat /\ Len(arr) = Len(line) + 1
      /\ err = 0 /\ lists = <<>> /\ count \in Nat
  BY AtOperator
<1>2. \A i \in pos'..Len(line') : arr'[i] = line'[i]
  BY <1>1 DEF IInv, Ahead, Scanning
<1>3. count' - 1 <= Cardinality(Bars(arr', pos'))
  <2>1. count - 1 <= Cardinality(Bars(arr, pos))
    BY DEF IInv, Ahead, Scanning
  <2>2. /\ pos \in Nat /\ pos' \in Nat /\ pos <= pos' /\ pos < pos' /\ pos > 0
        /\ \A i \in 1..(pos - 1) : arr'[i] = arr[i]
    BY <1>1
  <2>3. /\ Cardinality(Bars(arr, pos)) \in Nat
        /\ Cardinality(Bars(arr', pos')) \in Nat
        /\ Cardinality(Bars(arr, pos)) <= Cardinality(Bars(arr', pos'))
        /\ arr'[pos] = "|" =>
             Cardinality(Bars(arr, pos)) + 1 <= Cardinality(Bars(arr', pos'))
    BY <2>2, BarsGrow, ZenonT(30)
  <2> QED
    BY <1>1, <2>1, <2>3
<1>4. pos' \in 1..Len(arr')
  BY <1>1
<1>5. Ahead'
  BY <1>1, <1>2, <1>3, <1>4 DEF Ahead
<1> QED
  BY <1>1, <1>5 DEF IInv, Succeeded, StopsLeft

(* A handler that records its operands keeps what the others recorded: no  *)
(* other mode bit that is set uses the same field.                         *)
LEMMA RecordedStep ==
  ASSUME IInv, err = 0, err' = err, line' = line, pos \in Nat \ {0},
         NEW flag \in Flags \ {"PIPE_BUILDER"}, NEW field \in Fields,
         FieldOf(flag) = field, mode \subseteq Flags,
         \A other \in mode \ {flag, "PIPE_BUILDER"} : FieldOf(other) # field,
         line[pos] \in Operator, FlagOf[line[pos]] = flag,
         mode' = mode \cup {flag},
         set'[field] = pos + 1,
         \A f \in Fields : f # field => set'[f] = set[f],
         ~(Stdin \subseteq mode'), ~(Stdout \subseteq mode')
  PROVE  Recorded'
<1>1. ASSUME NEW other \in mode' \ {"PIPE_BUILDER"} PROVE Filled(other)'
  <2>1. CASE other = flag
    <3>1. set'[FieldOf(other)] = pos + 1 /\ (pos + 1) - 1 = pos /\ pos + 1 > 1
      BY <2>1
    <3>2. line'[pos] \in Operator /\ FlagOf[line'[pos]] = other
      BY <2>1
    <3> QED
      BY <3>1, <3>2 DEF Filled
  <2>2. CASE other # flag
    <3>1. other \in mode /\ other \in Flags \ {"PIPE_BUILDER"}
      BY <2>2
    <3>2. FieldOf(other) # field /\ FieldOf(other) \in Fields
      BY <2>2, <3>1 DEF FieldOf, Flags, Fields
    <3>3. set'[FieldOf(other)] = set[FieldOf(other)] /\ Filled(other)
      BY <3>1, <3>2 DEF IInv, Recorded
    <3> QED
      BY <3>3 DEF Filled
  <2> QED
    BY <2>1, <2>2
<1> QED
  BY <1>1 DEF Recorded

(* "<", ">" and ">>", for the arguments the three handlers give. *)
LEMMA RedirectInv ==
  ASSUME NEW token \in Operator, NEW clash \in {Stdin, Stdout},
         NEW flag \in clash, NEW field \in Fields,
         FlagOf[token] = flag, FieldOf(flag) = field,
         \A other \in Flags \ (clash \cup {"PIPE_BUILDER"}) : FieldOf(other) # field,
         IInv, Redirect(token, clash, flag, field)
  PROVE  IInv'
<1>1. pc = "scan" /\ arr[pos] = token /\ token # NULL /\ Cut
  BY DEF Redirect, At, Operator, NULL
<1>2. /\ arr' \in Seq(Token \cup {NULL}) /\ Len(arr') = Len(arr)
      /\ \A i \in 1..Len(arr) : i # pos => arr'[i] = arr[i]
      /\ arr'[Len(arr')] = NULL
  BY <1>1, CutFacts
<1>3. /\ pos \in 1..Len(line) /\ Len(line) \in Nat /\ Len(arr) = Len(line) + 1
      /\ line[pos] = token /\ set \in [Fields -> Junk..Len(line)]
      /\ mode \subseteq Flags /\ err = 0
      /\ (arr[pos + 1] # NULL => pos + 1 <= Len(line))
  BY <1>1, AtOperator
<1>4. /\ line' = line /\ count' = count /\ lists' = lists /\ spec' = spec
  BY DEF Redirect
<1>5. flag \in Flags /\ mode \cup {flag} \subseteq Flags
  BY <1>3 DEF Flags, Stdin, Stdout
<1>6. CASE /\ pc' = "free" /\ err' \in {-1, -2}
           /\ pos' \in {pos, pos + 1}
           /\ mode' \in {mode, mode \cup {flag}}
           /\ set' = set \/ set' = [set EXCEPT ![field] = Null]
  <2>1. set' \in [Fields -> Junk..Len(line)]
    BY <1>3, <1>6 DEF Junk, Null
  <2>2. pos' \in Nat
    BY <1>3, <1>6
  <2>3. TypeOK'
    BY <1>2, <1>3, <1>4, <1>5, <1>6, <2>1, <2>2 DEF IInv, TypeOK
  <2> QED
    BY <1>2, <1>6, <2>3, FailedInv
<1>7. CASE /\ ~Refused(clash) /\ ~Missing(1)
           /\ mode' = mode \cup {flag}
           /\ set' = [set EXCEPT ![field] = pos + 1]
           /\ pos' = pos + 2
           /\ pc' = pc /\ err' = err
  <2>1. arr[pos + 1] # NULL /\ pos + 1 <= Len(line)
    BY <1>3, <1>7 DEF Missing
  <2>2. /\ set' \in [Fields -> Junk..Len(line)]
        /\ set'[field] = pos + 1
        /\ \A f \in Fields : f # field => set'[f] = set[f]
    BY <1>3, <1>7, <2>1 DEF Junk
  <2>3. TypeOK'
    <3>1. pos' \in Nat
      BY <1>3, <1>7
    <3> QED
      BY <1>2, <1>3, <1>4, <1>5, <1>7, <2>2, <3>1 DEF IInv, TypeOK
  <2>4. mode \cap clash = {}
    BY <1>7 DEF Refused
  <2>5. Recorded'
    <3>1. ~(Stdin \subseteq mode') /\ ~(Stdout \subseteq mode')
      <4>1. ~(Stdin \subseteq mode) /\ ~(Stdout \subseteq mode)
        BY <1>3 DEF IInv, Recorded
      <4> QED
        BY <1>7, <2>4, <4>1 DEF Stdin, Stdout
    <3>2. \A other \in mode \ {flag, "PIPE_BUILDER"} : FieldOf(other) # field
      BY <1>3, <2>4
    <3>3. line[pos] \in Operator /\ FlagOf[line[pos]] = flag /\ pos \in Nat \ {0}
      BY <1>3
    <3>4. flag \in Flags \ {"PIPE_BUILDER"}
      BY DEF Flags, Stdin, Stdout
    <3> QED
      BY <1>3, <1>4, <1>7, <2>2, <3>1, <3>2, <3>3, <3>4, RecordedStep
  <2>6. pos' \in (pos + 1)..Len(arr)
    BY <1>3, <1>7, <2>1
  <2> QED
    BY <1>1, <1>2, <1>4, <1>7, <2>3, <2>5, <2>6, AdvancedInv
<1> QED
  BY <1>6, <1>7 DEF Redirect, Fail

(* "|": the only handler that counts a command, and it leaves the bar.     *)
LEMMA PipeInv == IInv /\ Pipe => IInv'
<1> SUFFICES ASSUME IInv, Pipe PROVE IInv'
  OBVIOUS
<1>1. pc = "scan" /\ arr[pos] = "|" /\ "|" # NULL
  BY DEF Pipe, At, NULL
<1>2. /\ line' = line /\ arr' = arr /\ set' = set /\ lists' = lists /\ spec' = spec
      /\ arr[Len(arr)] = NULL
  BY DEF Pipe, IInv
<1>3. /\ pos \in 1..Len(line) /\ Len(line) \in Nat /\ Len(arr) = Len(line) + 1
      /\ mode \subseteq Flags /\ err = 0 /\ count \in Nat
      /\ (arr[pos + 1] # NULL => pos + 1 <= Len(line))
  BY <1>1, AtOperator
<1>4. CASE /\ pc' = "free" /\ err' = -1 /\ pos' \in {pos, pos + 1}
           /\ mode' = mode /\ count' = count
  <2>1. pos' \in Nat
    BY <1>3, <1>4
  <2>2. TypeOK'
    BY <1>2, <1>4, <2>1 DEF IInv, TypeOK
  <2> QED
    BY <1>2, <1>4, <2>2, FailedInv
<1>5. CASE /\ ~Missing(1) /\ count' = count + 1 /\ mode' = mode \cup {"PIPE_BUILDER"}
           /\ pos' = pos + 2 /\ pc' = pc /\ err' = err
  <2>1. pos' \in (pos + 1)..Len(arr) /\ pos' \in Nat /\ count' \in Nat
    BY <1>3, <1>5 DEF Missing
  <2>2. mode' \subseteq Flags
    BY <1>3, <1>5 DEF Flags
  <2>3. TypeOK'
    BY <1>2, <1>5, <2>1, <2>2 DEF IInv, TypeOK
  <2>4. \A flag : Filled(flag)' <=> Filled(flag)
    BY <1>2 DEF Filled
  <2>5. Recorded'
    BY <1>3, <1>5, <2>4 DEF IInv, Recorded, Stdin, Stdout
  <2> QED
    BY <1>1, <1>2, <1>5, <2>1, <2>3, <2>5, AdvancedInv
<1> QED
  BY <1>4, <1>5 DEF Pipe, Fail

(* "))": may be met again, its port then replaces the one before.          *)
LEMMA LocalHostInv == IInv /\ LocalHost => IInv'
<1> SUFFICES ASSUME IInv, LocalHost PROVE IInv'
  OBVIOUS
<1>1. pc = "scan" /\ arr[pos] = "))" /\ "))" # NULL /\ Cut
  BY DEF LocalHost, At, NULL
<1>2. /\ arr' \in Seq(Token \cup {NULL}) /\ Len(arr') = Len(arr)
      /\ \A i \in 1..Len(arr) : i # pos => arr'[i] = arr[i]
      /\ arr'[Len(arr')] = NULL
  BY <1>1, CutFacts
<1>3. /\ pos \in 1..Len(line) /\ Len(line) \in Nat /\ Len(arr) = Len(line) + 1
      /\ line[pos] = "))" /\ set \in [Fields -> Junk..Len(line)]
      /\ mode \subseteq Flags /\ err = 0
      /\ (arr[pos + 1] # NULL => pos + 1 <= Len(line))
  BY <1>1, AtOperator
<1>4. /\ line' = line /\ count' = count /\ lists' = lists /\ spec' = spec
  BY DEF LocalHost
<1>5. CASE /\ pc' = "free" /\ err' \in {-1, -2} /\ pos' \in {pos, pos + 1}
           /\ mode' = mode
           /\ \/ set' = set
              \/ set' = [set EXCEPT !.lhost = Null]
              \/ set' = [set EXCEPT !.lhost = Blank]
  <2>1. set' \in [Fields -> Junk..Len(line)]
    BY <1>3, <1>5 DEF Junk, Null, Blank
  <2>2. pos' \in Nat
    BY <1>3, <1>5
  <2>3. TypeOK'
    BY <1>2, <1>3, <1>4, <1>5, <2>1, <2>2 DEF IInv, TypeOK
  <2> QED
    BY <1>2, <1>5, <2>3, FailedInv
<1>6. CASE /\ ~Missing(1) /\ set' = [set EXCEPT !.lhost = pos + 1]
           /\ mode' = mode \cup {"LOCAL_HOST"}
           /\ pos' = pos + 2 /\ pc' = pc /\ err' = err
  <2>1. arr[pos + 1] # NULL /\ pos + 1 <= Len(line)
    BY <1>3, <1>6 DEF Missing
  <2>2. /\ set' \in [Fields -> Junk..Len(line)]
        /\ set'["lhost"] = pos + 1
        /\ \A f \in Fields : f # "lhost" => set'[f] = set[f]
    <3>1. "lhost" \in Fields
      BY DEF Fields
    <3>2. pos + 1 \in Junk..Len(line)
      BY <1>3, <2>1 DEF Junk
    <3> QED
      BY <1>3, <1>6, <3>1, <3>2
  <2>3. pos' \in (pos + 1)..Len(arr) /\ pos' \in Nat /\ mode' \subseteq Flags
    BY <1>3, <1>6, <2>1 DEF Flags
  <2>4. TypeOK'
    BY <1>2, <1>3, <1>4, <1>6, <2>2, <2>3 DEF IInv, TypeOK
  <2>5. Recorded'
    <3>1. ~(Stdin \subseteq mode') /\ ~(Stdout \subseteq mode')
      BY <1>3, <1>6 DEF IInv, Recorded, Stdin, Stdout
    <3>2. \A other \in mode \ {"LOCAL_HOST", "PIPE_BUILDER"} : FieldOf(other) # "lhost"
      BY <1>3 DEF FieldOf, Flags
    <3>3. FieldOf("LOCAL_HOST") = "lhost" /\ FlagOf["))"] = "LOCAL_HOST"
      BY DEF FieldOf, FlagOf, Operator
    <3>4. /\ line[pos] \in Operator /\ "lhost" \in Fields /\ pos \in Nat \ {0}
          /\ "LOCAL_HOST" \in Flags \ {"PIPE_BUILDER"}
      BY <1>3 DEF Fields, Flags, Operator
    <3> QED
      BY <1>3, <1>4, <1>6, <2>2, <3>1, <3>2, <3>3, <3>4, RecordedStep
  <2> QED
    BY <1>1, <1>2, <1>4, <1>6, <2>3, <2>4, <2>5, AdvancedInv
<1> QED
  BY <1>5, <1>6 DEF LocalHost, Fail

(* "((": two operands, refused after any other redirection of stdin.       *)
LEMMA RemoteHostInv == IInv /\ RemoteHost => IInv'
<1> SUFFICES ASSUME IInv, RemoteHost PROVE IInv'
  OBVIOUS
<1>1. pc = "scan" /\ arr[pos] = "((" /\ "((" # NULL /\ Cut
  BY DEF RemoteHost, At, NULL
<1>2. /\ arr' \in Seq(Token \cup {NULL}) /\ Len(arr') = Len(arr)
      /\ \A i \in 1..Len(arr) : i # pos => arr'[i] = arr[i]
      /\ arr'[Len(arr')] = NULL
  BY <1>1, CutFacts
<1>3. /\ pos \in 1..Len(line) /\ Len(line) \in Nat /\ Len(arr) = Len(line) + 1
      /\ line[pos] = "((" /\ set \in [Fields -> Junk..Len(line)]
      /\ mode \subseteq Flags /\ err = 0
      /\ (arr[pos + 1] # NULL /\ arr[pos + 2] # NULL => pos + 2 <= Len(line))
  BY <1>1, AtOperator
<1>4. /\ line' = line /\ count' = count /\ lists' = lists /\ spec' = spec
      /\ mode \cup {"REMOTE_HOST"} \subseteq Flags
  BY <1>3 DEF RemoteHost, Flags
<1>5. CASE /\ pc' = "free" /\ err' \in {-1, -2} /\ pos' \in {pos, pos + 1, pos + 2}
           /\ mode' \in {mode, mode \cup {"REMOTE_HOST"}}
           /\ \/ set' = set
              \/ set' = [set EXCEPT !.rhost = Null]
              \/ set' = [set EXCEPT !.rhost = Blank]
  <2>1. set' \in [Fields -> Junk..Len(line)]
    BY <1>3, <1>5 DEF Junk, Null, Blank
  <2>2. pos' \in Nat
    BY <1>3, <1>5
  <2>3. TypeOK'
    BY <1>2, <1>3, <1>4, <1>5, <2>1, <2>2 DEF IInv, TypeOK
  <2> QED
    BY <1>2, <1>5, <2>3, FailedInv
<1>6. CASE /\ ~Refused(Stdin) /\ ~Missing(1) /\ ~Missing(2)
           /\ set' = [set EXCEPT !.rhost = pos + 1]
           /\ mode' = mode \cup {"REMOTE_HOST"}
           /\ pos' = pos + 3 /\ pc' = pc /\ err' = err
  <2>1. pos + 2 <= Len(line)
    BY <1>3, <1>6 DEF Missing
  <2>2. /\ set' \in [Fields -> Junk..Len(line)]
        /\ set'["rhost"] = pos + 1
        /\ \A f \in Fields : f # "rhost" => set'[f] = set[f]
    <3>1. "rhost" \in Fields
      BY DEF Fields
    <3>2. pos + 1 \in Junk..Len(line)
      BY <1>3, <2>1 DEF Junk
    <3> QED
      BY <1>3, <1>6, <3>1, <3>2
  <2>3. pos' \in (pos + 1)..Len(arr) /\ pos' \in Nat
    BY <1>3, <1>6, <2>1
  <2>4. TypeOK'
    BY <1>2, <1>3, <1>4, <1>6, <2>2, <2>3 DEF IInv, TypeOK
  <2>5. Recorded'
    <3>1. ~(Stdin \subseteq mode') /\ ~(Stdout \subseteq mode')
      BY <1>3, <1>6 DEF IInv, Recorded, Stdin, Stdout, Refused
    <3>2. \A other \in mode \ {"REMOTE_HOST", "PIPE_BUILDER"} : FieldOf(other) # "rhost"
      BY <1>3 DEF FieldOf, Flags
    <3>3. FieldOf("REMOTE_HOST") = "rhost" /\ FlagOf["(("] = "REMOTE_HOST"
      BY DEF FieldOf, FlagOf, Operator
    <3>4. /\ line[pos] \in Operator /\ "rhost" \in Fields /\ pos \in Nat \ {0}
          /\ "REMOTE_HOST" \in Flags \ {"PIPE_BUILDER"}
      BY <1>3 DEF Fields, Flags, Operator
    <3> QED
      BY <1>3, <1>4, <1>6, <2>2, <3>1, <3>2, <3>3, <3>4, RecordedStep
  <2> QED
    BY <1>1, <1>2, <1>4, <1>6, <2>3, <2>4, <2>5, AdvancedInv
<1> QED
  BY <1>5, <1>6 DEF RemoteHost, Fail

(* The steps of parse_special that meet no operator. *)
LEMMA PlainInv ==
  IInv /\ (Alloc \/ Word \/ EndScan \/ ParseSetFree) => IInv'
<1> SUFFICES ASSUME IInv, Alloc \/ Word \/ EndScan \/ ParseSetFree PROVE IInv'
  OBVIOUS
<1> USE DEF Scanning
<1>1. /\ line' = line /\ arr' = arr /\ mode' = mode /\ count' = count
      /\ lists' = lists
      /\ Len(line) \in Nat /\ Len(arr) = Len(line) + 1 /\ count \in Nat
      /\ arr[Len(arr)] = NULL /\ pos \in Nat
  BY DEF Alloc, Word, EndScan, ParseSetFree, IInv, TypeOK
<1>2. ASSUME set' = set PROVE \A flag : Filled(flag)' <=> Filled(flag)
  BY <1>1, <1>2 DEF Filled
<1>3. CASE Alloc
  <2>1. [f \in Fields |-> Null] \in [Fields -> Junk..Len(line)]
    BY <1>1 DEF Junk, Null
  <2>2. CASE pc' = "scan"
    <3>1. spec' = TRUE /\ err' = err /\ set' = set /\ pos' = pos /\ pc = "alloc"
      BY <1>3, <2>2 DEF Alloc
    <3>2. TypeOK'
      BY <1>1, <2>2, <3>1 DEF IInv, TypeOK
    <3> QED
      BY <1>1, <1>2, <2>2, <3>1, <3>2
      DEF IInv, Succeeded, Ahead, StopsLeft, Recorded
  <2>3. CASE pc' = "free"
    <3>1. err' = -2 /\ set' = [f \in Fields |-> Null] /\ pos' = pos /\ spec' = spec
      BY <1>3, <2>3 DEF Alloc
    <3>2. TypeOK'
      BY <1>1, <2>1, <2>3, <3>1 DEF IInv, TypeOK
    <3> QED
      BY <1>1, <2>3, <3>1, <3>2, FailedInv
  <2> QED
    BY <1>3, <2>2, <2>3 DEF Alloc
<1>4. CASE Word
  <2>1. /\ pc = "scan" /\ arr[pos] \in Token \ Operator /\ pos' = pos + 1
        /\ pc' = pc /\ err' = err /\ set' = set /\ spec' = spec
    BY <1>4 DEF Word
  <2>2. arr[pos] # NULL
    BY <2>1 DEF Token, Operator, NULL
  <2>3. pos \in 1..Len(line)
    BY <2>1, <2>2, AtOperator
  <2>4. TypeOK'
    BY <1>1, <2>1 DEF IInv, TypeOK
  <2>5. Recorded'
    BY <1>1, <1>2, <2>1 DEF IInv, Recorded
  <2>6. pos' \in (pos + 1)..Len(arr)
    BY <1>1, <2>1, <2>3
  <2> QED
    BY <1>1, <2>1, <2>2, <2>4, <2>5, <2>6, AdvancedInv
<1>5. CASE EndScan
  <2>1. pc = "scan" /\ err' = err /\ set' = set /\ spec' = spec /\ err = 0
    BY <1>5 DEF EndScan, At, IInv
  <2>2. /\ pos \in 1..Len(arr) /\ lists = <<>>
        /\ count - 1 <= Cardinality(Bars(arr, pos))
    BY <2>1 DEF IInv, Ahead
  <2>3. CASE mode = {}
    <3>1. pc' = "done" /\ pos' = pos
      BY <1>5, <2>3 DEF EndScan
    <3>2. TypeOK'
      BY <1>1, <2>1, <3>1 DEF IInv, TypeOK
    <3> QED
      BY <1>1, <1>2, <2>1, <2>3, <3>1, <3>2
      DEF IInv, Succeeded, Ahead, StopsLeft, Recorded
  <2>4. CASE mode # {}
    <3>1. pc' = "build" /\ pos' = 1
      BY <1>5, <2>4 DEF EndScan
    <3>2. TypeOK'
      BY <1>1, <2>1, <3>1 DEF IInv, TypeOK
    <3>3. Cardinality(Bars(arr, pos)) + 1 <= Cardinality(StopsFrom(arr, 1))
      BY <1>1, <2>2, StopsAtLeast
    <3>4. /\ Cardinality(Bars(arr, pos)) \in Nat
          /\ Cardinality(StopsFrom(arr, 1)) \in Nat
      <4>1. IsFiniteSet(1..(pos - 1)) /\ IsFiniteSet(1..Len(arr))
        BY <1>1, FS_Interval
      <4>2. IsFiniteSet(Bars(arr, pos)) /\ IsFiniteSet(StopsFrom(arr, 1))
        BY <4>1, FS_Subset DEF Bars, StopsFrom
      <4> QED
        BY <4>2, FS_CardinalityType
    <3>5. count >= 1 => StopsLeft'
      BY <1>1, <2>2, <3>1, <3>3, <3>4 DEF StopsLeft
    <3>6. count < 1 => StopsLeft'
      BY <1>1, <2>2, <3>1, <3>3, <3>4 DEF StopsLeft
    <3>7. StopsLeft'
      BY <1>1, <3>5, <3>6
    <3> QED
      BY <1>1, <1>2, <2>1, <3>1, <3>2, <3>7
      DEF IInv, Succeeded, Ahead, Recorded
  <2> QED
    BY <2>3, <2>4
<1>6. CASE ParseSetFree
  <2>1. /\ pc = "free" /\ pc' \in {"done", "crashed"}
        /\ pos' = pos /\ err' = err /\ set' = set /\ spec' = spec
    BY <1>6 DEF ParseSetFree
  <2>2. err # 0
    BY <2>1 DEF IInv, Succeeded
  <2>3. TypeOK'
    BY <1>1, <2>1 DEF IInv, TypeOK
  <2> QED
    BY <1>1, <2>1, <2>2, <2>3
    DEF IInv, Succeeded, Ahead, StopsLeft, Recorded
<1> QED
  BY <1>3, <1>4, <1>5, <1>6

(* pipeBuilder. *)
LEMMA BuildInv ==
  IInv /\ (BuildFails \/ BuildCommand \/ BuildEnd) => IInv'
<1> SUFFICES ASSUME IInv, BuildFails \/ BuildCommand \/ BuildEnd PROVE IInv'
  OBVIOUS
<1> USE DEF Scanning
<1>1. /\ line' = line /\ mode' = mode /\ count' = count /\ pc = "build"
      /\ Len(line) \in Nat /\ Len(arr) = Len(line) + 1 /\ count \in Nat
      /\ arr \in Seq(Token \cup {NULL}) /\ arr[Len(arr)] = NULL
      /\ lists \in Seq(1..Len(arr)) /\ Len(lists) \in Nat
      /\ set \in [Fields -> Junk..Len(line)] /\ err = 0
      /\ pos \in Nat \ {0} /\ Len(lists) <= count
      /\ count - Len(lists) <= Cardinality(StopsFrom(arr, pos))
      /\ Len(line) > 0
  <2>1. Len(line) > 0 /\ Len(line) \in Nat
    BY EmptySeq DEF IInv, TypeOK
  <2> QED
    BY <2>1 DEF BuildFails, BuildCommand, BuildEnd, IInv, TypeOK, StopsLeft
<1>2. CASE BuildFails
  <2>1. /\ pc' = "free" /\ err' = -2 /\ set' = [set EXCEPT !.pbargs = Null]
        /\ arr' = arr /\ pos' = pos /\ lists' = lists /\ spec' = FALSE
    BY <1>2 DEF BuildFails, Fail
  <2>2. set' \in [Fields -> Junk..Len(line)]
    BY <1>1, <2>1 DEF Junk, Null
  <2>3. TypeOK'
    BY <1>1, <2>1, <2>2 DEF IInv, TypeOK
  <2> QED
    BY <1>1, <2>1, <2>3, FailedInv
<1>3. CASE BuildCommand
  <2>1. PICK i \in pos..Len(arr) :
          /\ Stops(i) /\ \A j \in pos..(i - 1) : ~Stops(j)
          /\ arr' = [arr EXCEPT ![i] = NULL]
          /\ pos' = i + 1
    BY <1>3 DEF BuildCommand
  <2>2. /\ Len(lists) < count /\ lists' = Append(lists, pos)
        /\ pc' = pc /\ err' = err /\ set' = set /\ spec' = spec
    BY <1>3 DEF BuildCommand
  <2>3. i \in 1..Len(arr) /\ pos \in 1..Len(arr)
    BY <1>1, <2>1
  <2>4. /\ arr' \in Seq(Token \cup {NULL}) /\ Len(arr') = Len(arr)
        /\ \A j \in 1..Len(arr) : arr'[j] = IF j = i THEN NULL ELSE arr[j]
    BY <1>1, <2>1, <2>3, ExceptSeq
  <2>5. lists' \in Seq(1..Len(arr)) /\ Len(lists') = Len(lists) + 1
    BY <1>1, <2>2, <2>3
  <2>6. TypeOK'
    <3>1. pos' \in Nat
      BY <1>1, <2>1, <2>3
    <3> QED
      BY <1>1, <2>2, <2>4, <2>5, <3>1 DEF IInv, TypeOK
  <2>7. arr'[Len(arr')] = NULL
    BY <1>1, <2>4
  <2>8. /\ Cardinality(StopsFrom(arr, pos)) \in Nat
        /\ Cardinality(StopsFrom(arr', i + 1)) =
             Cardinality(StopsFrom(arr, pos)) - 1
    <3>1. \A j \in (i + 1)..Len(arr) : arr'[j] = arr[j]
      BY <1>1, <2>3, <2>4
    <3>2. /\ arr[i] \in {NULL, "|", "|word"}
          /\ \A j \in pos..(i - 1) : arr[j] \notin {NULL, "|", "|word"}
      BY <2>1 DEF Stops
    <3>3. Len(arr) \in Nat /\ Len(arr') = Len(arr) /\ pos \in Nat \ {0}
      BY <1>1, <2>4
    <3> QED
      BY <3>1, <3>2, <3>3, StopsStep, ZenonT(30)
  <2>9. StopsLeft'
    <3>1. pos' \in Nat \ {0} /\ Len(lists') <= count'
      BY <1>1, <2>1, <2>2, <2>3, <2>5
    <3>2. count' - Len(lists') <= Cardinality(StopsFrom(arr', pos'))
      BY <1>1, <2>1, <2>5, <2>8
    <3> QED
      BY <3>1, <3>2 DEF StopsLeft
  <2>10. Recorded'
    <3>1. \A flag : Filled(flag)' <=> Filled(flag)
      BY <1>1, <2>2 DEF Filled
    <3> QED
      BY <1>1, <2>2, <3>1 DEF IInv, Recorded
  <2> QED
    BY <1>1, <2>2, <2>6, <2>7, <2>9, <2>10 DEF IInv, Succeeded, Ahead
<1>4. CASE BuildEnd
  <2>1. /\ pc' = "done" /\ set' = [set EXCEPT !.pbargs = 1] /\ arr' = arr
        /\ pos' = pos /\ err' = err /\ lists' = lists /\ spec' = spec
    BY <1>4 DEF BuildEnd
  <2>2. /\ set' \in [Fields -> Junk..Len(line)] /\ set'.pbargs = 1
        /\ \A f \in Fields : f # "pbargs" => set'[f] = set[f]
    <3>1. "pbargs" \in Fields
      BY DEF Fields
    <3>2. 1 \in Junk..Len(line)
      BY <1>1 DEF Junk
    <3> QED
      BY <1>1, <2>1, <3>1, <3>2
  <2>3. TypeOK'
    BY <1>1, <2>1, <2>2 DEF IInv, TypeOK
  <2>4. \A flag \in mode \ {"PIPE_BUILDER"} : Filled(flag)'
    <3> SUFFICES ASSUME NEW flag \in mode \ {"PIPE_BUILDER"} PROVE Filled(flag)'
      OBVIOUS
    <3>1. FieldOf(flag) \in Fields /\ FieldOf(flag) # "pbargs"
      BY DEF IInv, TypeOK, Flags, FieldOf, Fields
    <3>2. set'[FieldOf(flag)] = set[FieldOf(flag)] /\ Filled(flag)
      BY <1>1, <2>2, <3>1 DEF IInv, Recorded
    <3> QED
      BY <1>1, <3>2 DEF Filled
  <2>5. Recorded'
    BY <1>1, <2>1, <2>4 DEF IInv, Recorded
  <2> QED
    BY <1>1, <2>1, <2>2, <2>3, <2>5 DEF IInv, Succeeded, Ahead, StopsLeft
<1> QED
  BY <1>2, <1>3, <1>4 DEF BuildFails, BuildCommand, BuildEnd

-----------------------------------------------------------------------------
(***************************************************************************)
(* The inductive invariant holds throughout every call.                    *)
(***************************************************************************)
THEOREM Invariance == Spec => []IInv
<1>1. IInv /\ [Next]_vars => IInv'
  <2> SUFFICES ASSUME IInv, [Next]_vars PROVE IInv'
    OBVIOUS
  <2> USE DEF Flags, Stdin, Stdout, FieldOf, FlagOf, Operator, Fields
  <2>1. CASE RedirectIn
    <3>1. /\ "<" \in Operator /\ Stdin \in {Stdin, Stdout} /\ "REDIR_STDIN" \in Stdin
          /\ "rdin" \in Fields /\ FlagOf["<"] = "REDIR_STDIN"
          /\ FieldOf("REDIR_STDIN") = "rdin"
          /\ \A other \in Flags \ (Stdin \cup {"PIPE_BUILDER"}) : FieldOf(other) # "rdin"
      OBVIOUS
    <3>2. Redirect("<", Stdin, "REDIR_STDIN", "rdin")
      BY <2>1 DEF RedirectIn
    <3> HIDE DEF Flags, Stdin, Stdout, FieldOf, FlagOf, Operator, Fields
    <3> QED
      BY <3>1, <3>2, RedirectInv
  <2>2. CASE RedirectOut
    <3>1. /\ ">" \in Operator /\ Stdout \in {Stdin, Stdout} /\ "REDIR_STDOUT_W" \in Stdout
          /\ "rdout" \in Fields /\ FlagOf[">"] = "REDIR_STDOUT_W"
          /\ FieldOf("REDIR_STDOUT_W") = "rdout"
          /\ \A other \in Flags \ (Stdout \cup {"PIPE_BUILDER"}) : FieldOf(other) # "rdout"
      OBVIOUS
    <3>2. Redirect(">", Stdout, "REDIR_STDOUT_W", "rdout")
      BY <2>2 DEF RedirectOut
    <3> HIDE DEF Flags, Stdin, Stdout, FieldOf, FlagOf, Operator, Fields
    <3> QED
      BY <3>1, <3>2, RedirectInv
  <2>3. CASE RedirectAppend
    <3>1. /\ ">>" \in Operator /\ Stdout \in {Stdin, Stdout} /\ "REDIR_STDOUT_A" \in Stdout
          /\ "rdout" \in Fields /\ FlagOf[">>"] = "REDIR_STDOUT_A"
          /\ FieldOf("REDIR_STDOUT_A") = "rdout"
          /\ \A other \in Flags \ (Stdout \cup {"PIPE_BUILDER"}) : FieldOf(other) # "rdout"
      OBVIOUS
    <3>2. Redirect(">>", Stdout, "REDIR_STDOUT_A", "rdout")
      BY <2>3 DEF RedirectAppend
    <3> HIDE DEF Flags, Stdin, Stdout, FieldOf, FlagOf, Operator, Fields
    <3> QED
      BY <3>1, <3>2, RedirectInv
  <2> HIDE DEF Flags, Stdin, Stdout, FieldOf, FlagOf, Operator, Fields
  <2>4. CASE Pipe
    BY <2>4, PipeInv
  <2>5. CASE LocalHost
    BY <2>5, LocalHostInv
  <2>6. CASE RemoteHost
    BY <2>6, RemoteHostInv
  <2>7. CASE Alloc \/ Word \/ EndScan \/ ParseSetFree
    BY <2>7, PlainInv
  <2>8. CASE BuildFails \/ BuildCommand \/ BuildEnd
    BY <2>8, BuildInv
  <2>9. CASE UNCHANGED vars
    <3>1. /\ line' = line /\ arr' = arr /\ pc' = pc /\ pos' = pos /\ mode' = mode
          /\ err' = err /\ count' = count /\ set' = set /\ lists' = lists
          /\ spec' = spec
      BY <2>9 DEF vars
    <3>2. TypeOK' <=> TypeOK
      BY <3>1 DEF TypeOK
    <3>3. \A flag : Filled(flag)' <=> Filled(flag)
      BY <3>1 DEF Filled
    <3> QED
      BY <3>1, <3>2, <3>3
      DEF IInv, Succeeded, Ahead, Scanning, StopsLeft, Recorded
  <2> QED
    BY <2>1, <2>2, <2>3, <2>4, <2>5, <2>6, <2>7, <2>8, <2>9 DEF Next
<1> QED
  BY InitInv, <1>1, PTL DEF Spec

(***************************************************************************)
(* The locals of both functions and the parse_set keep their types.        *)
(***************************************************************************)
THEOREM TypeCorrect == Spec => []TypeOK
<1>1. IInv => TypeOK
  BY DEF IInv
<1> QED
  BY Invariance, <1>1, PTL

(***************************************************************************)
(* Whatever the line, the scan and pipeBuilder stay inside the vector.     *)
(***************************************************************************)
THEOREM StaysInBounds == Spec => []InBounds
<1>1. IInv => InBounds
  <2> SUFFICES ASSUME IInv PROVE InBounds
    OBVIOUS
  <2>1. pc = "scan" => pos \in 1..Len(arr)
    BY DEF IInv, Ahead, Scanning
  <2>2. ASSUME pc = "build", Len(lists) < count PROVE pos \in 1..Len(arr)
    <3>1. /\ pos \in Nat \ {0} /\ Len(arr) \in Nat /\ count \in Nat
          /\ Len(lists) \in Nat
          /\ count - Len(lists) <= Cardinality(StopsFrom(arr, pos))
      BY <2>2 DEF IInv, TypeOK, StopsLeft
    <3>2. SUFFICES ASSUME pos > Len(arr) PROVE FALSE
      BY <3>1
    <3>3. StopsFrom(arr, pos) = {}
      BY <3>1, <3>2 DEF StopsFrom
    <3>4. Cardinality(StopsFrom(arr, pos)) = 0
      BY <3>3, FS_EmptySet
    <3> QED
      BY <2>2, <3>1, <3>4
  <2> QED
    BY <2>1, <2>2 DEF InBounds
<1> QED
  BY Invariance, <1>1, PTL

(***************************************************************************)
(* run_special dereferences no struct that the scan did not fill, whatever *)
(* operators the line held and in whatever order.                          *)
(***************************************************************************)
THEOREM ModeIsTruthful == Spec => []FieldsMatchMode
<1>1. IInv => FieldsMatchMode
  <2> SUFFICES ASSUME IInv, Succeeded, mode # {} PROVE FieldsMatchMode
    BY DEF FieldsMatchMode
  <2>1. err = 0 /\ set.pbargs > 0
    BY DEF IInv, Succeeded
  <2> QED
    BY <2>1 DEF IInv, Recorded, Filled, FieldsMatchMode
<1> QED
  BY Invariance, <1>1, PTL

-----------------------------------------------------------------------------
(* A documented line: what the scan and pipeBuilder make of it.            *)

(* The bits of the operators before a position, and the commands' starts.  *)
FlagsBefore(p) == {FlagOf[line[i]] : i \in {j \in 1..(p - 1) : line[j] \in Operator}}
Starts         == {i + 1 : i \in {0} \cup {j \in 1..Len(line) : line[j] = "|"}}

(* The scan is inside the pipeline, or at an operator, or at the end; it    *)
(* has cut nothing before t, and the operator at t.                         *)
Scanned(t) ==
  Scanning =>
    /\ pos >= t => pos = Len(line) + 1 \/ line[pos] \in Redirects
    /\ mode = FlagsBefore(pos)
    /\ count = Cardinality({s \in Starts : s <= pos})
    /\ \A i \in 1..(t - 1) : arr[i] = line[i]
    /\ pos > t => arr[t] = NULL

(* pipeBuilder is at the start of a command or behind the last one, and has *)
(* listed the starts behind it and cut the bars behind it.                  *)
Listed(t) ==
  pc = "build" \/ (Succeeded /\ mode # {}) =>
    /\ mode = FlagsBefore(Len(line) + 1)
    /\ count = Cardinality(Starts)
    /\ pos \in Starts \cup {t + 1}
    /\ Succeeded => pos = t + 1
    /\ {lists[k] : k \in 1..Len(lists)} = {s \in Starts : s < pos}
    /\ Len(lists) = Cardinality({s \in Starts : s < pos})
    /\ arr[t] = NULL
    /\ \A i \in 1..(t - 1) :
         arr[i] = IF line[i] = "|" /\ i < pos THEN NULL ELSE line[i]

AsDocumented(t) ==
  /\ err # -1
  /\ Scanned(t)
  /\ Listed(t)
  /\ Succeeded /\ mode = {} => FlagsBefore(Len(line) + 1) = {}

DInv == \A t \in 1..(Len(line) + 1) : Documented(t) => AsDocumented(t)

(* What the words of a documented line can be, and where.                  *)
LEMMA DocumentedWords ==
  ASSUME line \in Seq(Token), NEW t \in 1..(Len(line) + 1), Documented(t)
  PROVE  /\ t > 1 /\ line[1] = "word"
         /\ t <= Len(line) => line[t] \in Redirects
         /\ \A i \in 1..(t - 1) : line[i] \in {"word", "|"}
         /\ \A i \in t..Len(line) : line[i] \in {"word"} \cup Redirects
         /\ \A i \in 1..Len(line) : line[i] = "|" =>
              i + 1 < t /\ line[i + 1] = "word"
<1>1. \A i \in 1..Len(line) : line[i] \in Token /\ line[i] # "|word"
  BY DEF Documented
<1>2. Len(line) \in Nat
  OBVIOUS
<1>3. \A i \in 1..(t - 1) : line[i] \in {"word", "|"}
  <2>1. \A i \in 1..(t - 1) : i \in 1..Len(line) /\ line[i] \notin Redirects
    BY <1>2 DEF Documented, TailStarts
  <2> QED
    BY <1>1, <2>1 DEF Token, Operator, Redirects
<1>4. \A i \in 1..Len(line) : line[i] = "|" => i + 1 < t /\ line[i + 1] = "word"
  BY DEF Documented
<1>5. \A i \in t..Len(line) : line[i] \in {"word"} \cup Redirects
  <2>1. \A i \in t..Len(line) : i \in 1..Len(line) /\ line[i] # "|"
    BY <1>2, <1>4
  <2> QED
    BY <1>1, <2>1 DEF Token, Operator, Redirects
<1> QED
  BY <1>2, <1>3, <1>4, <1>5 DEF Documented, TailStarts

(* A stream is redirected once: two operators of one stream are the same.  *)
LEMMA OncePerStream ==
  ASSUME line \in Seq(Token), NEW t \in 1..(Len(line) + 1), Documented(t),
         NEW i \in 1..Len(line), NEW j \in 1..Len(line),
         \/ {line[i], line[j]} \subseteq {"<", "(("}
         \/ {line[i], line[j]} \subseteq {">", ">>", "))"}
  PROVE  i = j
<1>1. i \in t..Len(line) /\ j \in t..Len(line)
  <2>1. line[i] \notin {"word", "|"} /\ line[j] \notin {"word", "|"}
    OBVIOUS
  <2> QED
    BY <2>1, DocumentedWords
<1>0. Len(line) \in Nat /\ t \in Int /\ IsFiniteSet(t..Len(line))
  <2>1. Len(line) \in Int /\ t \in Int /\ Len(line) \in Nat
    OBVIOUS
  <2> QED
    BY <2>1, FS_Interval
<1>2. \A S \in SUBSET (t..Len(line)) :
        Cardinality(S) <= 1 /\ i \in S /\ j \in S => i = j
  <2> SUFFICES ASSUME NEW S \in SUBSET (t..Len(line)),
                      Cardinality(S) <= 1, i \in S, j \in S, i # j
               PROVE  FALSE
    OBVIOUS
  <2>1. IsFiniteSet(S)
    BY <1>0, FS_Subset
  <2>2. {i, j} \in SUBSET S /\ IsFiniteSet({i})
    BY FS_Singleton
  <2>3. Cardinality({i} \cup {j}) = Cardinality({i}) + 1 /\ Cardinality({i}) = 1
    BY <2>2, FS_AddElement, FS_Singleton
  <2>4. Cardinality({i, j}) = 2
    <3>1. {i} \cup {j} = {i, j}
      OBVIOUS
    <3>2. Cardinality({i, j}) = Cardinality({i}) + 1
      BY <2>3, <3>1, Zenon
    <3> QED
      BY <2>3, <3>2
  <2>5. Cardinality({i, j}) <= Cardinality(S)
    BY <2>1, <2>2, FS_Subset
  <2>6. Cardinality(S) \in Nat
    BY <2>1, FS_CardinalityType
  <2> QED
    BY <2>4, <2>5, <2>6
<1> DEFINE In  == {k \in t..Len(line) : line[k] \in {"<", "(("}}
           Out == {k \in t..Len(line) : line[k] \in {">", ">>", "))"}}
<1>3. Cardinality(In) <= 1 /\ Cardinality(Out) <= 1
  BY DEF Documented
<1>4. In \in SUBSET (t..Len(line)) /\ Out \in SUBSET (t..Len(line))
  OBVIOUS
<1>5. CASE {line[i], line[j]} \subseteq {"<", "(("}
  BY <1>1, <1>2, <1>3, <1>4, <1>5
<1>6. CASE {line[i], line[j]} \subseteq {">", ">>", "))"}
  BY <1>1, <1>2, <1>3, <1>4, <1>6
<1> QED
  BY <1>5, <1>6

(* An operator's bit is set when it is behind the cursor, and no sooner.   *)
LEMMA FlagsSeen ==
  ASSUME NEW p, NEW flag \in FlagsBefore(p)
  PROVE  \E i \in 1..(p - 1) : line[i] \in Operator /\ FlagOf[line[i]] = flag
BY DEF FlagsBefore

(* Stepping over an operator and its operands adds its bit, stepping over  *)
(* a plain word adds none.                                                 *)
LEMMA FlagsGrow ==
  ASSUME NEW p \in Nat \ {0}, NEW q \in Nat, p < q,
         \A i \in (p + 1)..(q - 1) : line[i] \notin Operator
  PROVE  FlagsBefore(q) = IF line[p] \in Operator
                          THEN FlagsBefore(p) \cup {FlagOf[line[p]]}
                          ELSE FlagsBefore(p)
<1>1. {j \in 1..(q - 1) : line[j] \in Operator} =
        IF line[p] \in Operator
        THEN {j \in 1..(p - 1) : line[j] \in Operator} \cup {p}
        ELSE {j \in 1..(p - 1) : line[j] \in Operator}
  <2>1. \A j \in 1..(q - 1) : j \in 1..(p - 1) \/ j = p \/ j \in (p + 1)..(q - 1)
    OBVIOUS
  <2>2. p \in 1..(q - 1) /\ p \notin 1..(p - 1) /\ 1..(p - 1) \subseteq 1..(q - 1)
    OBVIOUS
  <2> QED
    BY <2>1, <2>2
<1> QED
  BY <1>1 DEF FlagsBefore

(* A bar and the word behind it start one more command, a word none.       *)
LEMMA StartsGrow ==
  ASSUME line \in Seq(Token), NEW p \in 1..Len(line), NEW q \in 1..(Len(line) + 1), p < q,
         \A i \in (p + 1)..(q - 1) : line[i] # "|"
  PROVE  /\ Cardinality({s \in Starts : s <= p}) \in Nat
         /\ Cardinality({s \in Starts : s <= q}) =
              IF line[p] = "|"
              THEN Cardinality({s \in Starts : s <= p}) + 1
              ELSE Cardinality({s \in Starts : s <= p})
<1>1. Len(line) \in Nat
  OBVIOUS
<1>2. Starts \subseteq 1..(Len(line) + 1)
  BY <1>1 DEF Starts
<1>3. IsFiniteSet({s \in Starts : s <= p})
  <2>1. IsFiniteSet(1..(Len(line) + 1))
    BY <1>1, FS_Interval
  <2> QED
    BY <1>2, <2>1, FS_Subset
<1>4. \A s \in Nat : s \in Starts <=> s = 1 \/ (s - 1 \in 1..Len(line) /\ line[s - 1] = "|")
  BY <1>1 DEF Starts
<1>5. p + 1 \notin {s \in Starts : s <= p}
  OBVIOUS
<1>6. CASE line[p] = "|"
  <2>1. {s \in Starts : s <= q} = {s \in Starts : s <= p} \cup {p + 1}
    <3>1. \A s \in Starts : s <= q => s <= p \/ s = p + 1 \/ s - 1 \in (p + 1)..(q - 1)
      BY <1>2
    <3>2. \A s \in Starts : s <= q => s <= p \/ s = p + 1
      BY <1>2, <1>4, <3>1
    <3>3. p + 1 \in Starts /\ p + 1 <= q
      BY <1>4, <1>6
    <3>4. \A s \in Starts : s <= p => s <= q
      BY <1>2
    <3> QED
      BY <3>2, <3>3, <3>4
  <2> QED
    BY <1>3, <1>5, <1>6, <2>1, FS_AddElement, FS_CardinalityType
<1>7. CASE line[p] # "|"
  <2>1. {s \in Starts : s <= q} = {s \in Starts : s <= p}
    <3>1. \A s \in Starts : s <= q => s <= p \/ s = p + 1 \/ s - 1 \in (p + 1)..(q - 1)
      BY <1>2
    <3>2. \A s \in Starts : s <= q => s <= p
      BY <1>2, <1>4, <1>7, <3>1
    <3>3. \A s \in Starts : s <= p => s <= q
      BY <1>2
    <3> QED
      BY <3>2, <3>3
  <2> QED
    BY <1>3, <1>7, <2>1, FS_CardinalityType
<1> QED
  BY <1>6, <1>7

(* What the scan finds at an operator: no stream it redirects is already   *)
(* redirected, and its operands are there.                                 *)
LEMMA NeverRefuses ==
  ASSUME line \in Seq(Token), NEW t \in 1..(Len(line) + 1), Documented(t),
         pos \in 1..Len(line), mode = FlagsBefore(pos)
  PROVE  /\ line[pos] \in {"<", "(("} => mode \cap Stdin = {}
         /\ line[pos] \in {">", ">>", "))"} => mode \cap Stdout = {}
         /\ line[pos] = "|" => mode \cap (Stdout \cup {"REDIR_STDIN"}) = {}
<1>1. \A flag \in mode : \E i \in 1..(pos - 1) :
        line[i] \in Operator /\ FlagOf[line[i]] = flag
  BY FlagsSeen
<1>2. \A op \in Operator : /\ FlagOf[op] \in Stdin => op \in {"<", "(("}
                           /\ FlagOf[op] \in Stdout => op \in {">", ">>"}
  BY DEF FlagOf, Operator, Stdin, Stdout
<1>3. \A i \in 1..(pos - 1) : i \in 1..Len(line) /\ i # pos /\ i < pos
  OBVIOUS
<1>4. ASSUME line[pos] \in {"<", "(("} PROVE mode \cap Stdin = {}
  <2> SUFFICES ASSUME NEW flag \in mode, flag \in Stdin PROVE FALSE
    OBVIOUS
  <2>1. PICK i \in 1..(pos - 1) : line[i] \in Operator /\ FlagOf[line[i]] = flag
    BY <1>1
  <2>2. line[i] \in {"<", "(("} /\ i \in 1..Len(line) /\ i # pos
    BY <1>2, <1>3, <2>1
  <2>3. {line[i], line[pos]} \subseteq {"<", "(("}
    BY <1>4, <2>2
  <2> QED
    BY <2>2, <2>3, OncePerStream
<1>5. ASSUME line[pos] \in {">", ">>", "))"} PROVE mode \cap Stdout = {}
  <2> SUFFICES ASSUME NEW flag \in mode, flag \in Stdout PROVE FALSE
    OBVIOUS
  <2>1. PICK i \in 1..(pos - 1) : line[i] \in Operator /\ FlagOf[line[i]] = flag
    BY <1>1
  <2>2. line[i] \in {">", ">>"} /\ i \in 1..Len(line) /\ i # pos
    BY <1>2, <1>3, <2>1
  <2>3. {line[i], line[pos]} \subseteq {">", ">>", "))"}
    BY <1>5, <2>2
  <2> QED
    BY <2>2, <2>3, OncePerStream
<1>6. ASSUME line[pos] = "|" PROVE mode \cap (Stdout \cup {"REDIR_STDIN"}) = {}
  <2> SUFFICES ASSUME NEW flag \in mode, flag \in Stdout \cup Stdin PROVE FALSE
    BY DEF Stdin
  <2>1. PICK i \in 1..(pos - 1) : line[i] \in Operator /\ FlagOf[line[i]] = flag
    BY <1>1
  <2>2. line[i] \in {"<", "((", ">", ">>"}
    BY <1>2, <2>1
  <2>3. pos + 1 < t
    BY <1>6, DocumentedWords
  <2>4. i \in 1..(t - 1)
    BY <2>1, <2>3
  <2>5. line[i] \in {"word", "|"}
    BY <2>4, DocumentedWords
  <2> QED
    BY <2>2, <2>5
<1> QED
  BY <1>4, <1>5, <1>6

LEMMA OperandsFollow ==
  ASSUME line \in Seq(Token), NEW t \in 1..(Len(line) + 1), Documented(t),
         pos \in 1..Len(line), line[pos] \in Redirects,
         NEW next, next = pos + Arity(line[pos]) + 1
  PROVE  /\ pos >= t
         /\ next \in (pos + 2)..(Len(line) + 1)
         /\ \A i \in (pos + 1)..(next - 1) : line[i] = "word"
         /\ next <= Len(line) => line[next] \in Redirects
<1>1. pos \in t..Len(line)
  <2>1. line[pos] \notin {"word", "|"}
    BY DEF Redirects
  <2> QED
    BY <2>1, DocumentedWords
<1>2. Arity(line[pos]) \in {1, 2}
  BY DEF Arity
<1>3. /\ next <= Len(line) + 1
      /\ \A i \in (pos + 1)..(next - 1) : line[i] = "word"
      /\ next <= Len(line) => line[next] \in Redirects
  BY <1>1 DEF Documented
<1>4. Len(line) \in Nat
  OBVIOUS
<1> QED
  BY <1>1, <1>2, <1>3, <1>4

(* A step of the scan that goes on, to behind the operands it consumed.    *)
LEMMA ScanGoesOn ==
  ASSUME IInv, pc = "scan", NEW t \in 1..(Len(line) + 1),
         Documented(t), AsDocumented(t), pos \in 1..Len(line),
         line' = line, pc' = pc, err' = err,
         pos' \in (pos + 1)..(Len(line) + 1),
         \A i \in (pos + 1)..(pos' - 1) : line[i] = "word",
         pos < t => pos' <= t,
         pos' >= t => pos' = Len(line) + 1 \/ line[pos'] \in Redirects,
         line[pos] = "|" => pos' > pos + 1,
         mode' = IF line[pos] \in Operator THEN mode \cup {FlagOf[line[pos]]} ELSE mode,
         count' = IF line[pos] = "|" THEN count + 1 ELSE count,
         arr' = IF line[pos] \in Redirects THEN [arr EXCEPT ![pos] = NULL] ELSE arr
  PROVE  AsDocumented(t)'
<1>1. /\ line \in Seq(Token) /\ Len(line) \in Nat /\ err = 0
      /\ arr \in Seq(Token \cup {NULL}) /\ Len(arr) = Len(line) + 1
  BY DEF IInv, TypeOK
<1>2. /\ mode = FlagsBefore(pos)
      /\ count = Cardinality({s \in Starts : s <= pos})
      /\ \A i \in 1..(t - 1) : arr[i] = line[i]
      /\ pos > t => arr[t] = NULL
      /\ pos >= t => line[pos] \in Redirects
  BY <1>1 DEF AsDocumented, Scanned, Scanning
<1>3. mode' = FlagsBefore(pos')
  <2>1. \A i \in (pos + 1)..(pos' - 1) : line[i] \notin Operator
    BY DEF Operator
  <2>2. pos \in Nat \ {0} /\ pos' \in Nat /\ pos < pos'
    BY <1>1
  <2>3. FlagsBefore(pos') = IF line[pos] \in Operator
                            THEN FlagsBefore(pos) \cup {FlagOf[line[pos]]}
                            ELSE FlagsBefore(pos)
    BY <2>1, <2>2, FlagsGrow
  <2> QED
    BY <1>2, <2>3
<1>4. count' = Cardinality({s \in Starts : s <= pos'})
  <2>1. \A i \in (pos + 1)..(pos' - 1) : line[i] # "|"
    OBVIOUS
  <2>2. pos' \in 1..(Len(line) + 1) /\ pos < pos'
    BY <1>1
  <2>3. Cardinality({s \in Starts : s <= pos'}) =
          IF line[pos] = "|" THEN Cardinality({s \in Starts : s <= pos}) + 1
                             ELSE Cardinality({s \in Starts : s <= pos})
    BY <1>1, <2>1, <2>2, StartsGrow
  <2> QED
    BY <1>2, <2>3
<1>5. /\ \A i \in 1..(t - 1) : arr'[i] = line[i]
      /\ pos' > t => arr'[t] = NULL
  <2>1. CASE line[pos] \in Redirects
    <3>1. pos >= t
      <4>1. line[pos] \notin {"word", "|"}
        BY <2>1 DEF Redirects
      <4> QED
        BY <1>1, <4>1, DocumentedWords
    <3>2. arr' = [arr EXCEPT ![pos] = NULL] /\ pos \in 1..Len(arr)
      BY <1>1, <2>1
    <3>3. \A i \in 1..Len(arr) : arr'[i] = IF i = pos THEN NULL ELSE arr[i]
      BY <1>1, <3>2, ExceptSeq
    <3>4. t \in 1..Len(arr) /\ \A i \in 1..(t - 1) : i \in 1..Len(arr) /\ i # pos
      BY <1>1, <3>1
    <3> QED
      BY <1>1, <1>2, <3>1, <3>3, <3>4
  <2>2. CASE line[pos] \notin Redirects
    <3>1. pos < t /\ arr' = arr
      BY <1>1, <1>2, <2>2
    <3> QED
      BY <1>1, <1>2, <3>1
  <2> QED
    BY <2>1, <2>2
<1>6. Starts' = Starts /\ \A p : FlagsBefore(p)' = FlagsBefore(p)
  BY DEF Starts, FlagsBefore
<1>7. Scanned(t)'
  <2>1. FlagsBefore(pos)' = FlagsBefore(pos')
    BY DEF FlagsBefore
  <2> QED
    BY <1>3, <1>4, <1>5, <1>6, <2>1 DEF Scanned, Scanning
<1>8. ~Succeeded' /\ pc' # "build" /\ err' # -1
  BY <1>1 DEF Succeeded
<1> QED
  BY <1>7, <1>8 DEF AsDocumented, Listed

(* A step that ends in an allocation error promises nothing more.          *)
LEMMA GivesUpInv ==
  ASSUME NEW t, pc' = "free", err' = -2
  PROVE  AsDocumented(t)'
BY DEF AsDocumented, Scanned, Scanning, Listed, Succeeded

(* "<", ">" and ">>" in a documented line. *)
LEMMA RedirectDocumented ==
  ASSUME IInv, NEW t \in 1..(Len(line) + 1), Documented(t), AsDocumented(t),
         RedirectIn \/ RedirectOut \/ RedirectAppend
  PROVE  AsDocumented(t)'
<1>1. PICK token \in {"<", ">", ">>"}, clash \in {Stdin, Stdout}, flag \in Flags, field \in Fields :
        /\ Redirect(token, clash, flag, field)
        /\ FlagOf[token] = flag
        /\ token = "<" => clash = Stdin
        /\ token # "<" => clash = Stdout
  <2>1. /\ {"REDIR_STDIN", "REDIR_STDOUT_W", "REDIR_STDOUT_A"} \subseteq Flags
        /\ {"rdin", "rdout"} \subseteq Fields
        /\ FlagOf["<"] = "REDIR_STDIN" /\ FlagOf[">"] = "REDIR_STDOUT_W"
        /\ FlagOf[">>"] = "REDIR_STDOUT_A"
    BY DEF Flags, Fields, FlagOf, Operator
  <2>2. CASE RedirectIn
    BY <2>1, <2>2 DEF RedirectIn
  <2>3. CASE RedirectOut
    BY <2>1, <2>3 DEF RedirectOut
  <2>4. CASE RedirectAppend
    BY <2>1, <2>4 DEF RedirectAppend
  <2> QED
    BY <2>2, <2>3, <2>4
<1>2. pc = "scan" /\ arr[pos] = token /\ token # NULL /\ arr' = [arr EXCEPT ![pos] = NULL]
  BY <1>1 DEF Redirect, At, Cut, NULL
<1>3. /\ line \in Seq(Token) /\ Len(line) \in Nat /\ pos \in 1..Len(line) /\ line[pos] = token
      /\ \A i \in pos..Len(line) : arr[i] = line[i]
  BY <1>2, AtOperator DEF IInv, TypeOK, Ahead, Scanning
<1>4. token \in Redirects /\ token \in Operator /\ token # "|" /\ Arity(token) = 1
  BY DEF Redirects, Operator, Arity
<1>5. /\ pos >= t /\ pos + 2 \in (pos + 2)..(Len(line) + 1)
      /\ \A i \in (pos + 1)..(pos + 2 - 1) : line[i] = "word"
      /\ pos + 2 <= Len(line) => line[pos + 2] \in Redirects
  <2>1. pos + 2 = pos + Arity(line[pos]) + 1
    BY <1>3, <1>4
  <2> QED
    BY <1>3, <1>4, <2>1, OperandsFollow
<1>6. ~Refused(clash)
  <2>1. mode = FlagsBefore(pos)
    BY <1>2 DEF AsDocumented, Scanned, Scanning
  <2> QED
    BY <1>1, <1>3, <2>1, NeverRefuses DEF Refused
<1>7. ~Missing(1)
  <2>1. pos + 1 \in pos..Len(line) /\ pos + 1 \in (pos + 1)..(pos + 2 - 1)
    BY <1>3, <1>5
  <2>2. arr[pos + 1] = "word"
    BY <1>3, <1>5, <2>1
  <2> QED
    BY <2>2 DEF Missing, NULL
<1>8. CASE pc' = "free" /\ err' = -2
  BY <1>8, GivesUpInv
<1>9. CASE /\ mode' = mode \cup {flag} /\ pos' = pos + 2
           /\ pc' = pc /\ err' = err
  <2>1. line' = line /\ count' = count
    BY <1>1 DEF Redirect
  <2>2. /\ pos' \in (pos + 1)..(Len(line) + 1)
        /\ \A i \in (pos + 1)..(pos' - 1) : line[i] = "word"
        /\ pos' = Len(line) + 1 \/ line[pos'] \in Redirects
        /\ ~(pos < t)
    BY <1>3, <1>5, <1>9
  <2> QED
    BY <1>1, <1>2, <1>3, <1>4, <1>9, <2>1, <2>2, ScanGoesOn
<1> QED
  BY <1>1, <1>6, <1>7, <1>8, <1>9 DEF Redirect, Fail

(* "|" in a documented line. *)
LEMMA PipeDocumented ==
  ASSUME IInv, NEW t \in 1..(Len(line) + 1), Documented(t), AsDocumented(t), Pipe
  PROVE  AsDocumented(t)'
<1>1. pc = "scan" /\ arr[pos] = "|" /\ "|" # NULL
  BY DEF Pipe, At, NULL
<1>2. /\ line \in Seq(Token) /\ Len(line) \in Nat /\ pos \in 1..Len(line) /\ line[pos] = "|"
      /\ \A i \in pos..Len(line) : arr[i] = line[i]
  BY <1>1, AtOperator DEF IInv, TypeOK, Ahead, Scanning
<1>3. pos + 1 < t /\ line[pos + 1] = "word"
  BY <1>2, DocumentedWords
<1>4. ~Refused(Stdout \cup {"REDIR_STDIN"}) /\ ~Missing(1)
  <2>1. mode = FlagsBefore(pos)
    BY <1>1 DEF AsDocumented, Scanned, Scanning
  <2>2. pos + 1 \in pos..Len(line)
    BY <1>2, <1>3
  <2>3. arr[pos + 1] = "word"
    BY <1>2, <1>3, <2>2
  <2> QED
    BY <1>2, <2>1, <2>3, NeverRefuses DEF Refused, Missing, NULL
<1>5. /\ count' = count + 1 /\ mode' = mode \cup {"PIPE_BUILDER"}
      /\ pos' = pos + 2 /\ pc' = pc /\ err' = err /\ line' = line /\ arr' = arr
  BY <1>4 DEF Pipe
<1>6. "|" \in Operator /\ "|" \notin Redirects /\ FlagOf["|"] = "PIPE_BUILDER"
  BY DEF Operator, Redirects, FlagOf
<1>7. /\ pos' \in (pos + 1)..(Len(line) + 1) /\ pos' > pos + 1 /\ pos' <= t
      /\ \A i \in (pos + 1)..(pos' - 1) : i = pos + 1
      /\ pos' >= t => pos' = t
  BY <1>2, <1>3, <1>5
<1>8. pos' >= t => pos' = Len(line) + 1 \/ line[pos'] \in Redirects
  <2>1. t <= Len(line) => line[t] \in Redirects
    BY <1>2, DocumentedWords
  <2> QED
    BY <1>2, <1>7, <2>1
<1>9. \A i \in (pos + 1)..(pos' - 1) : line[i] = "word"
  BY <1>3, <1>7
<1> QED
  BY <1>1, <1>2, <1>5, <1>6, <1>7, <1>8, <1>9, ScanGoesOn

(* "))" and "((" in a documented line. *)
LEMMA HostDocumented ==
  ASSUME IInv, NEW t \in 1..(Len(line) + 1), Documented(t), AsDocumented(t),
         LocalHost \/ RemoteHost
  PROVE  AsDocumented(t)'
<1>1. /\ pc = "scan" /\ arr[pos] \in {"))", "(("} /\ arr[pos] # NULL
      /\ arr' = [arr EXCEPT ![pos] = NULL] /\ line' = line /\ count' = count
  BY DEF LocalHost, RemoteHost, At, Cut, NULL
<1>2. /\ line \in Seq(Token) /\ Len(line) \in Nat /\ pos \in 1..Len(line)
      /\ line[pos] = arr[pos]
      /\ \A i \in pos..Len(line) : arr[i] = line[i]
  BY <1>1, AtOperator DEF IInv, TypeOK, Ahead, Scanning
<1>3. line[pos] \in Redirects /\ line[pos] \in Operator /\ line[pos] # "|"
  BY <1>1, <1>2 DEF Redirects, Operator
<1>4. Arity(line[pos]) = IF line[pos] = "((" THEN 2 ELSE 1
  BY DEF Arity
<1>5. PICK next : next = pos + Arity(line[pos]) + 1
  OBVIOUS
<1>6. /\ pos >= t /\ next \in (pos + 2)..(Len(line) + 1)
      /\ \A i \in (pos + 1)..(next - 1) : line[i] = "word"
      /\ next <= Len(line) => line[next] \in Redirects
  BY <1>2, <1>3, <1>5, OperandsFollow
<1>7. \A i \in (pos + 1)..(next - 1) : arr[i] # NULL
  <2>1. \A i \in (pos + 1)..(next - 1) : i \in pos..Len(line)
    BY <1>2, <1>6
  <2> QED
    BY <1>2, <1>6, <2>1 DEF NULL
<1>8. mode = FlagsBefore(pos)
  BY <1>1 DEF AsDocumented, Scanned, Scanning
<1>9. CASE pc' = "free" /\ err' = -2
  BY <1>9, GivesUpInv
<1>10. CASE /\ mode' = mode \cup {FlagOf[line[pos]]} /\ pos' = next
            /\ pc' = pc /\ err' = err
  <2>1. /\ pos' \in (pos + 1)..(Len(line) + 1)
        /\ \A i \in (pos + 1)..(pos' - 1) : line[i] = "word"
        /\ pos' = Len(line) + 1 \/ line[pos'] \in Redirects
        /\ ~(pos < t)
    BY <1>2, <1>6, <1>10
  <2> QED
    BY <1>1, <1>2, <1>3, <1>10, <2>1, ScanGoesOn
<1>11. CASE LocalHost
  <2>1. line[pos] = "))" /\ FlagOf["))"] = "LOCAL_HOST"
    BY <1>2, <1>11 DEF LocalHost, At, FlagOf, Operator
  <2>2. next = pos + 2 /\ pos + 1 \in (pos + 1)..(next - 1)
    BY <1>2, <1>4, <1>5, <2>1
  <2>3. ~Refused(Stdout) /\ ~Missing(1)
    BY <1>2, <1>7, <1>8, <2>1, <2>2, NeverRefuses DEF Refused, Missing
  <2> QED
    BY <1>9, <1>10, <1>11, <2>1, <2>2, <2>3 DEF LocalHost, Fail
<1>12. CASE RemoteHost
  <2>1. line[pos] = "((" /\ FlagOf["(("] = "REMOTE_HOST"
    BY <1>2, <1>12 DEF RemoteHost, At, FlagOf, Operator
  <2>2. /\ next = pos + 3 /\ pos + 1 \in (pos + 1)..(next - 1)
        /\ pos + 2 \in (pos + 1)..(next - 1)
    BY <1>2, <1>4, <1>5, <2>1
  <2>3. ~Refused(Stdin) /\ ~Missing(1) /\ ~Missing(2)
    BY <1>2, <1>7, <1>8, <2>1, <2>2, NeverRefuses DEF Refused, Missing
  <2> QED
    BY <1>9, <1>10, <1>12, <2>1, <2>2, <2>3 DEF RemoteHost, Fail
<1> QED
  BY <1>11, <1>12

(* The steps of a documented line's scan that meet no operator. *)
LEMMA PlainDocumented ==
  ASSUME IInv, NEW t \in 1..(Len(line) + 1), Documented(t), AsDocumented(t),
         Alloc \/ Word \/ EndScan \/ ParseSetFree
  PROVE  AsDocumented(t)'
<1>1. /\ line \in Seq(Token) /\ Len(line) \in Nat /\ Len(arr) = Len(line) + 1
      /\ line' = line /\ arr' = arr /\ mode' = mode /\ count' = count /\ lists' = lists
      /\ arr[Len(arr)] = NULL /\ err # -1
  BY DEF IInv, TypeOK, Alloc, Word, EndScan, ParseSetFree, AsDocumented
<1>2. \A p : FlagsBefore(p)' = FlagsBefore(p')
  BY <1>1 DEF FlagsBefore
<1>3. Starts' = Starts
  BY <1>1 DEF Starts
<1>4. CASE Alloc
  <2>1. CASE pc' = "free" /\ err' = -2
    BY <2>1, GivesUpInv
  <2>2. CASE pc' = "scan" /\ err' = err
    <3>1. pc = "alloc" /\ pos' = pos /\ err = 0
      BY <1>4 DEF Alloc, IInv
    <3>2. Scanned(t)
      BY DEF AsDocumented
    <3>3. Scanned(t)'
      BY <1>1, <1>2, <1>3, <2>2, <3>1, <3>2 DEF Scanned, Scanning
    <3> QED
      BY <1>1, <2>2, <3>3 DEF AsDocumented, Listed, Succeeded
  <2> QED
    BY <1>4, <2>1, <2>2 DEF Alloc
<1>5. CASE Word
  <2>1. /\ pc = "scan" /\ arr[pos] \in Token \ Operator /\ pos' = pos + 1
        /\ pc' = pc /\ err' = err
    BY <1>5 DEF Word
  <2>2. arr[pos] # NULL
    BY <2>1 DEF Token, Operator, NULL
  <2>3. pos \in 1..Len(line) /\ line[pos] = arr[pos]
    BY <2>1, <2>2, AtOperator
  <2>4. line[pos] \notin Operator /\ line[pos] \notin Redirects /\ line[pos] # "|"
    BY <2>1, <2>3 DEF Operator, Redirects
  <2>5. pos < t
    BY <1>1, <2>1, <2>3, <2>4 DEF AsDocumented, Scanned, Scanning
  <2>6. pos' >= t => pos' = Len(line) + 1 \/ line[pos'] \in Redirects
    <3>1. t <= Len(line) => line[t] \in Redirects
      BY <1>1, DocumentedWords
    <3>2. pos' >= t => pos' = t
      BY <1>1, <2>1, <2>3, <2>5
    <3> QED
      BY <1>1, <3>1, <3>2
  <2>7. /\ pos' \in (pos + 1)..(Len(line) + 1) /\ pos' <= t
        /\ \A i \in (pos + 1)..(pos' - 1) : FALSE
    BY <1>1, <2>1, <2>3, <2>5
  <2> QED
    BY <1>1, <2>1, <2>3, <2>4, <2>5, <2>6, <2>7, ScanGoesOn
<1>6. CASE EndScan
  <2>1. /\ pc = "scan" /\ arr[pos] = NULL /\ err' = err /\ err = 0
        /\ IF mode = {} THEN pc' = "done" /\ pos' = pos ELSE pc' = "build" /\ pos' = 1
    BY <1>6 DEF EndScan, At, IInv
  <2>2. /\ pos \in 1..Len(arr) /\ lists = <<>> /\ \A i \in pos..Len(line) : arr[i] = line[i]
    BY <2>1 DEF IInv, Ahead, Scanning
  <2>3. pos = Len(line) + 1
    <3>1. NULL \notin Token
      BY DEF NULL, Token, Operator
    <3>2. pos \in 1..Len(line) => arr[pos] \in Token
      BY <1>1, <2>2
    <3> QED
      BY <1>1, <2>1, <2>2, <3>1, <3>2
  <2>4. /\ mode = FlagsBefore(Len(line) + 1)
        /\ count = Cardinality({s \in Starts : s <= Len(line) + 1})
        /\ \A i \in 1..(t - 1) : arr[i] = line[i]
        /\ Len(line) + 1 > t => arr[t] = NULL
    BY <2>1, <2>3 DEF AsDocumented, Scanned, Scanning
  <2>5. \A s \in Starts : s \in 1..(Len(line) + 1)
    BY <1>1 DEF Starts
  <2>6. count = Cardinality(Starts)
    <3>1. {s \in Starts : s <= Len(line) + 1} = Starts
      BY <1>1, <2>5
    <3> QED
      BY <2>4, <3>1
  <2>7. {s \in Starts : s < 1} = {} /\ 1 \in Starts
    <3>1. \A s \in Starts : ~(s < 1)
      BY <1>1, <2>5
    <3> QED
      BY <3>1 DEF Starts
  <2>8. arr[t] = NULL
    BY <1>1, <2>4
  <2>9. mode' = FlagsBefore(Len(line) + 1)'
    BY <1>1, <2>4 DEF FlagsBefore
  <2>10. CASE mode = {}
    BY <1>1, <2>1, <2>9, <2>10 DEF AsDocumented, Scanned, Scanning, Listed
  <2>11. CASE mode # {}
    <3>1. pc' = "build" /\ pos' = 1
      BY <2>1, <2>11
    <3>2. /\ {lists[k] : k \in 1..Len(lists)} = {s \in Starts : s < 1}
          /\ Len(lists) = Cardinality({s \in Starts : s < 1})
      BY <2>2, <2>7, FS_EmptySet
    <3>3. \A i \in 1..(t - 1) : arr[i] = IF line[i] = "|" /\ i < 1 THEN NULL ELSE line[i]
      BY <2>4
    <3>4. Listed(t)'
      BY <1>1, <1>3, <2>6, <2>7, <2>8, <2>9, <3>1, <3>2, <3>3 DEF Listed, Succeeded
    <3> QED
      BY <1>1, <2>1, <3>1, <3>4 DEF AsDocumented, Scanned, Scanning, Succeeded
  <2> QED
    BY <2>10, <2>11
<1>7. CASE ParseSetFree
  <2>1. pc = "free" /\ pc' \in {"done", "crashed"} /\ err' = err
    BY <1>7 DEF ParseSetFree
  <2>2. err # 0
    BY <2>1 DEF IInv, Succeeded
  <2> QED
    BY <1>1, <2>1, <2>2 DEF AsDocumented, Scanned, Scanning, Listed, Succeeded
<1> QED
  BY <1>4, <1>5, <1>6, <1>7

(* pipeBuilder cuts a documented line where its commands end.              *)
LEMMA BuildDocumented ==
  ASSUME IInv, NEW t \in 1..(Len(line) + 1), Documented(t), AsDocumented(t),
         BuildFails \/ BuildCommand \/ BuildEnd
  PROVE  AsDocumented(t)'
<1>1. /\ line \in Seq(Token) /\ Len(line) \in Nat /\ Len(arr) = Len(line) + 1
      /\ arr \in Seq(Token \cup {NULL}) /\ lists \in Seq(1..Len(arr)) /\ Len(lists) \in Nat
      /\ line' = line /\ mode' = mode /\ count' = count
      /\ pc = "build" /\ err = 0
  BY DEF IInv, TypeOK, BuildFails, BuildCommand, BuildEnd
<1>2. /\ mode = FlagsBefore(Len(line) + 1)
      /\ count = Cardinality(Starts)
      /\ pos \in Starts \cup {t + 1}
      /\ {lists[k] : k \in 1..Len(lists)} = {s \in Starts : s < pos}
      /\ Len(lists) = Cardinality({s \in Starts : s < pos})
      /\ arr[t] = NULL
      /\ \A i \in 1..(t - 1) :
           arr[i] = IF line[i] = "|" /\ i < pos THEN NULL ELSE line[i]
  BY <1>1 DEF AsDocumented, Listed
<1>3. /\ mode' = FlagsBefore(Len(line) + 1)' /\ Starts' = Starts
  BY <1>1, <1>2 DEF FlagsBefore, Starts
<1>4. \A s \in Starts : /\ s \in 1..t
                        /\ s = 1 \/ (s - 1 \in 1..(t - 1) /\ line[s - 1] = "|")
  <2>1. t > 1 /\ \A i \in 1..Len(line) : line[i] = "|" => i + 1 < t
    BY <1>1, DocumentedWords
  <2> QED
    BY <1>1, <2>1 DEF Starts
<1>5. IsFiniteSet(Starts)
  <2>1. IsFiniteSet(1..t)
    BY <1>1, FS_Interval
  <2> QED
    BY <1>4, <2>1, FS_Subset
<1>6. CASE BuildFails
  BY <1>6, GivesUpInv DEF BuildFails, Fail
<1>7. CASE BuildEnd
  <2>1. /\ Len(lists) = count /\ pc' = "done" /\ arr' = arr /\ pos' = pos
        /\ err' = err /\ lists' = lists
    BY <1>7 DEF BuildEnd
  <2>2. pos = t + 1
    <3>1. SUFFICES ASSUME pos \in Starts PROVE FALSE
      BY <1>2
    <3>2. {s \in Starts : s < pos} \in SUBSET (Starts \ {pos})
      BY <1>4
    <3>3. /\ IsFiniteSet(Starts \ {pos}) /\ Cardinality(Starts) \in Nat
          /\ Cardinality(Starts \ {pos}) = Cardinality(Starts) - 1
      BY <1>5, <3>1, FS_RemoveElement, FS_CardinalityType
    <3>4. Cardinality({s \in Starts : s < pos}) <= Cardinality(Starts \ {pos})
      BY <3>2, <3>3, FS_Subset
    <3> QED
      BY <1>2, <2>1, <3>3, <3>4
  <2>3. Listed(t)'
    <3>1. /\ {lists'[k] : k \in 1..Len(lists')} = {s \in Starts : s < pos'}
          /\ Len(lists') = Cardinality({s \in Starts : s < pos'})
      BY <1>2, <2>1
    <3>2. /\ arr'[t] = NULL
          /\ \A i \in 1..(t - 1) :
               arr'[i] = IF line[i] = "|" /\ i < pos' THEN NULL ELSE line[i]
      BY <1>2, <2>1
    <3> QED
      BY <1>1, <1>2, <1>3, <2>1, <2>2, <3>1, <3>2 DEF Listed
  <2>4. FlagsBefore(Len(line) + 1)' = mode'
    BY <1>3
  <2> QED
    BY <1>1, <2>1, <2>3, <2>4 DEF AsDocumented, Scanned, Scanning
<1>8. CASE BuildCommand
  <2>1. /\ Len(lists) < count /\ lists' = Append(lists, pos)
        /\ pc' = pc /\ err' = err
    BY <1>8 DEF BuildCommand
  <2>2. PICK i \in pos..Len(arr) :
          /\ Stops(i) /\ \A j \in pos..(i - 1) : ~Stops(j)
          /\ arr' = [arr EXCEPT ![i] = NULL]
          /\ pos' = i + 1
    BY <1>8 DEF BuildCommand
  <2>3. pos \in Starts
    <3>1. SUFFICES ASSUME pos = t + 1 PROVE FALSE
      BY <1>2
    <3>2. {s \in Starts : s < pos} = Starts
      BY <1>4, <3>1
    <3>3. Len(lists) = count
      BY <1>2, <3>2
    <3> QED
      BY <1>1, <2>1, <3>3
  <2>4. pos \in 1..t
    BY <1>4, <2>3
  <2>5. i \in pos..t
    <3>1. Stops(t)
      BY <1>2 DEF Stops
    <3>2. t \in pos..(i - 1) => FALSE
      BY <2>2, <3>1
    <3> QED
      BY <1>1, <2>2, <2>4, <3>2
  <2>6. \A j \in pos..(t - 1) : arr[j] = line[j] /\ line[j] \in {"word", "|"}
    <3>1. \A j \in pos..(t - 1) : j \in 1..(t - 1) /\ ~(j < pos)
      BY <2>4
    <3>2. \A j \in 1..(t - 1) : line[j] \in {"word", "|"}
      BY <1>1, DocumentedWords
    <3> QED
      BY <1>2, <3>1, <3>2
  <2>7. \A j \in pos..(i - 1) : line[j] # "|"
    <3>1. \A j \in pos..(i - 1) : j \in pos..(t - 1)
      BY <1>1, <2>4, <2>5
    <3> QED
      BY <2>2, <2>6, <3>1 DEF Stops
  <2>8. i < t => line[i] = "|" /\ i \in 1..Len(line)
    <3>1. i < t => i \in pos..(t - 1) /\ i \in 1..Len(line)
      BY <1>1, <2>4, <2>5
    <3>2. "word" # NULL
      BY DEF NULL
    <3> QED
      BY <2>2, <2>6, <3>1, <3>2 DEF Stops
  <2>9. pos' \in Starts \cup {t + 1}
    BY <2>2, <2>5, <2>8 DEF Starts
  <2>10. {s \in Starts : s < pos'} = {s \in Starts : s < pos} \cup {pos}
    <3>1. \A s \in Starts : s < pos' => s < pos \/ s = pos \/ s - 1 \in pos..(i - 1)
      BY <1>4, <2>2, <2>4, <2>5
    <3>2. \A s \in Starts : s < pos' => s < pos \/ s = pos
      BY <1>4, <2>4, <2>7, <3>1
    <3>3. pos < pos' /\ \A s \in Starts : s < pos => s < pos'
      BY <1>4, <2>2, <2>4, <2>5
    <3> QED
      BY <2>3, <3>2, <3>3
  <2>11. Cardinality({s \in Starts : s < pos'}) = Cardinality({s \in Starts : s < pos}) + 1
    <3>1. IsFiniteSet({s \in Starts : s < pos}) /\ pos \notin {s \in Starts : s < pos}
      <4>1. {s \in Starts : s < pos} \in SUBSET Starts /\ ~(pos < pos)
        BY <2>4
      <4> QED
        BY <1>5, <4>1, FS_Subset
    <3> QED
      BY <2>10, <3>1, FS_AddElement
  <2>12. /\ Len(lists') = Len(lists) + 1
         /\ {lists'[k] : k \in 1..Len(lists')} = {lists[k] : k \in 1..Len(lists)} \cup {pos}
    <3>1. pos \in 1..Len(arr)
      BY <1>1, <2>4
    <3>2. Len(lists') = Len(lists) + 1 /\ lists'[Len(lists) + 1] = pos
      BY <1>1, <2>1, <3>1
    <3>3. \A k \in 1..Len(lists) : lists'[k] = lists[k]
      BY <1>1, <2>1, <3>1
    <3>4. \A k : k \in 1..Len(lists') <=> k \in 1..Len(lists) \/ k = Len(lists) + 1
      BY <1>1, <3>2
    <3> QED
      BY <3>2, <3>3, <3>4
  <2>13. \A j \in 1..Len(arr) : arr'[j] = IF j = i THEN NULL ELSE arr[j]
    <3>1. i \in 1..Len(arr)
      BY <1>1, <2>4, <2>5
    <3> QED
      BY <1>1, <2>2, <3>1, ExceptSeq
  <2>14. arr'[t] = NULL
    BY <1>1, <1>2, <2>13
  <2>15. \A j \in 1..(t - 1) : arr'[j] = IF line[j] = "|" /\ j < pos' THEN NULL ELSE line[j]
    <3> SUFFICES ASSUME NEW j \in 1..(t - 1)
                 PROVE  arr'[j] = IF line[j] = "|" /\ j < pos' THEN NULL ELSE line[j]
      OBVIOUS
    <3>1. j \in 1..Len(arr)
      BY <1>1
    <3>2. CASE j = i
      BY <1>1, <2>2, <2>8, <2>13, <3>1, <3>2
    <3>3. CASE j # i
      <4>1. arr'[j] = IF line[j] = "|" /\ j < pos THEN NULL ELSE line[j]
        BY <1>2, <2>13, <3>1, <3>3
      <4>2. j < pos \/ j \in pos..(i - 1) \/ ~(j < pos')
        BY <2>2, <2>4, <2>5, <3>3
      <4>3. j < pos => j < pos'
        BY <2>2, <2>4, <2>5
      <4> QED
        BY <2>7, <4>1, <4>2, <4>3
    <3> QED
      BY <3>2, <3>3
  <2>16. /\ {lists'[k] : k \in 1..Len(lists')} = {s \in Starts : s < pos'}
         /\ Len(lists') = Cardinality({s \in Starts : s < pos'})
    BY <1>2, <2>10, <2>11, <2>12
  <2>17. Listed(t)'
    BY <1>1, <1>2, <1>3, <2>1, <2>9, <2>14, <2>15, <2>16 DEF Listed, Succeeded
  <2> QED
    BY <1>1, <2>1, <2>17 DEF AsDocumented, Scanned, Scanning, Succeeded
<1> QED
  BY <1>6, <1>7, <1>8

(* At the start the scan is before the first word, and one command counts. *)
LEMMA InitDocumented == Init => DInv
<1> SUFFICES ASSUME Init, NEW t \in 1..(Len(line) + 1), Documented(t)
             PROVE  AsDocumented(t)
  BY DEF DInv
<1>1. line \in Seq(Token) /\ Len(line) \in Nat
  BY LinesAssumption DEF Init
<1>2. t > 1 /\ FlagsBefore(1) = {}
  BY <1>1, DocumentedWords DEF FlagsBefore
<1>3. {s \in Starts : s <= 1} = {1}
  BY <1>1 DEF Starts
<1>4. Cardinality({1}) = 1
  BY FS_Singleton
<1>5. \A i \in 1..(t - 1) : arr[i] = line[i]
  <2>1. arr = Append(line, NULL) /\ \A i \in 1..(t - 1) : i \in 1..Len(line)
    BY <1>1 DEF Init
  <2>2. line \in Seq(Token \cup {NULL}) /\ NULL \in Token \cup {NULL}
    BY <1>1
  <2>3. \A i \in 1..Len(line) : arr[i] = line[i]
    BY <2>1, <2>2
  <2> QED
    BY <2>1, <2>3
<1>6. Scanned(t)
  <2>1. pos = 1 /\ mode = FlagsBefore(pos) /\ ~(pos >= t) /\ ~(pos > t)
    BY <1>1, <1>2 DEF Init
  <2>2. count = Cardinality({s \in Starts : s <= pos})
    BY <1>3, <1>4, <2>1 DEF Init
  <2> QED
    BY <1>5, <2>1, <2>2 DEF Scanned
<1> QED
  BY <1>6 DEF Init, AsDocumented, Listed, Succeeded

(* The run of words from i is cut where the next bar or the redirects are. *)
LEMMA ListedImplies == IInv /\ DInv => DocumentedLinesParse
<1> SUFFICES ASSUME IInv, NEW t \in 1..(Len(line) + 1), Documented(t), AsDocumented(t)
             PROVE  /\ err # -1
                    /\ Succeeded =>
                        LET ops  == {i \in 1..Len(line) : line[i] \in Operator}
                            bars == {0} \cup {i \in ops : line[i] = "|"}
                        IN  /\ mode = {FlagOf[line[i]] : i \in ops}
                            /\ ops # {} =>
                                 /\ {lists[k] : k \in 1..Len(lists)} = {i + 1 : i \in bars}
                                 /\ \A k \in 1..Len(lists) : ArgsFrom(lists[k]) =
                                      {i \in lists[k]..(t - 1) :
                                         \A j \in lists[k]..i : line[j] = "word"}
  BY DEF DInv, DocumentedLinesParse
<1> SUFFICES ASSUME Succeeded
             PROVE  LET ops  == {i \in 1..Len(line) : line[i] \in Operator}
                        bars == {0} \cup {i \in ops : line[i] = "|"}
                    IN  /\ mode = {FlagOf[line[i]] : i \in ops}
                        /\ ops # {} =>
                             /\ {lists[k] : k \in 1..Len(lists)} = {i + 1 : i \in bars}
                             /\ \A k \in 1..Len(lists) : ArgsFrom(lists[k]) =
                                  {i \in lists[k]..(t - 1) :
                                     \A j \in lists[k]..i : line[j] = "word"}
  BY DEF AsDocumented
<1> DEFINE ops  == {i \in 1..Len(line) : line[i] \in Operator}
           bars == {0} \cup {i \in ops : line[i] = "|"}
<1>1. /\ line \in Seq(Token) /\ Len(line) \in Nat /\ Len(arr) = Len(line) + 1
      /\ lists \in Seq(1..Len(arr)) /\ Len(lists) \in Nat
  BY DEF IInv, TypeOK
<1>2. FlagsBefore(Len(line) + 1) = {FlagOf[line[i]] : i \in ops}
  <2>1. 1..(Len(line) + 1 - 1) = 1..Len(line)
    BY <1>1
  <2> QED
    BY <2>1 DEF FlagsBefore
<1>3. mode = {FlagOf[line[i]] : i \in ops}
  BY <1>2 DEF AsDocumented, Listed
<1>4. ASSUME ops # {}
      PROVE  /\ {lists[k] : k \in 1..Len(lists)} = {i + 1 : i \in bars}
             /\ \A k \in 1..Len(lists) : ArgsFrom(lists[k]) =
                  {i \in lists[k]..(t - 1) :
                     \A j \in lists[k]..i : line[j] = "word"}
  <2>1. mode # {}
    BY <1>3, <1>4
  <2>2. /\ pos = t + 1 /\ arr[t] = NULL
        /\ {lists[k] : k \in 1..Len(lists)} = {s \in Starts : s < pos}
        /\ \A i \in 1..(t - 1) :
             arr[i] = IF line[i] = "|" /\ i < pos THEN NULL ELSE line[i]
    BY <2>1 DEF AsDocumented, Listed
  <2>3. Starts = {i + 1 : i \in bars}
    BY DEF Starts, Operator
  <2>4. \A s \in Starts : s \in 1..t
    <3>1. t > 1 /\ \A i \in 1..Len(line) : line[i] = "|" => i + 1 < t
      BY <1>1, DocumentedWords
    <3> QED
      BY <1>1, <3>1 DEF Starts
  <2>5. {s \in Starts : s < pos} = Starts
    BY <2>2, <2>4
  <2>6. ASSUME NEW k \in 1..Len(lists)
        PROVE  ArgsFrom(lists[k]) = {i \in lists[k]..(t - 1) :
                                       \A j \in lists[k]..i : line[j] = "word"}
    <3>1. PICK s \in 1..t : s = lists[k]
      BY <2>2, <2>4
    <3>2. \A i \in 1..(t - 1) : arr[i] # NULL <=> line[i] = "word"
      <4>1. \A i \in 1..(t - 1) : line[i] \in {"word", "|"} /\ i < pos
        BY <1>1, <2>2, DocumentedWords
      <4> QED
        BY <2>2, <4>1 DEF NULL
    <3>3. ASSUME NEW i \in s..Len(line)
          PROVE  (\A j \in s..i : arr[j] # NULL) <=>
                 i <= t - 1 /\ \A j \in s..i : line[j] = "word"
      <4>1. CASE i <= t - 1
        <5>1. \A j \in s..i : j \in 1..(t - 1)
          BY <1>1, <4>1
        <5> QED
          BY <3>2, <4>1, <5>1
      <4>2. CASE ~(i <= t - 1)
        <5>1. t \in s..i
          BY <1>1, <4>2
        <5> QED
          BY <2>2, <4>2, <5>1
      <4> QED
        BY <4>1, <4>2
    <3>4. \A i \in s..(t - 1) : i \in s..Len(line) /\ i <= t - 1
      BY <1>1
    <3>5. \A i \in s..Len(line) : i <= t - 1 => i \in s..(t - 1)
      BY <1>1
    <3>6. {i \in s..Len(line) : \A j \in s..i : arr[j] # NULL} =
            {i \in s..(t - 1) : \A j \in s..i : line[j] = "word"}
      BY <3>3, <3>4, <3>5
    <3> QED
      BY <3>1, <3>6 DEF ArgsFrom
  <2> QED
    BY <2>2, <2>3, <2>5, <2>6
<1> QED
  BY <1>3, <1>4

(***************************************************************************)
(* Whatever the line, one that has the documented form is not refused, its *)
(* mode is the set of its operators and its argument lists are its         *)
(* commands, unless an allocation fails.                                   *)
(***************************************************************************)
THEOREM DocumentedLinesAccepted == Spec => []DocumentedLinesParse
<1>1. IInv /\ DInv /\ [Next]_vars => DInv'
  <2> SUFFICES ASSUME IInv, DInv, [Next]_vars,
                      NEW t \in 1..(Len(line') + 1), Documented(t)'
               PROVE  AsDocumented(t)'
    BY DEF DInv
  <2>1. line' = line
    BY DEF Next, vars, Alloc, RedirectIn, RedirectOut, RedirectAppend, Redirect, Pipe,
           LocalHost, RemoteHost, Word, EndScan, ParseSetFree, BuildFails,
           BuildCommand, BuildEnd
  <2>2. t \in 1..(Len(line) + 1) /\ Documented(t)
    BY <2>1 DEF Documented, TailStarts
  <2>3. AsDocumented(t)
    BY <2>2 DEF DInv
  <2>4. CASE RedirectIn \/ RedirectOut \/ RedirectAppend
    BY <2>2, <2>3, <2>4, RedirectDocumented
  <2>5. CASE Pipe
    BY <2>2, <2>3, <2>5, PipeDocumented
  <2>6. CASE LocalHost \/ RemoteHost
    BY <2>2, <2>3, <2>6, HostDocumented
  <2>7. CASE Alloc \/ Word \/ EndScan \/ ParseSetFree
    BY <2>2, <2>3, <2>7, PlainDocumented
  <2>8. CASE BuildFails \/ BuildCommand \/ BuildEnd
    BY <2>2, <2>3, <2>8, BuildDocumented
  <2>9. CASE UNCHANGED vars
    <3>1. /\ line' = line /\ arr' = arr /\ pc' = pc /\ pos' = pos /\ mode' = mode
          /\ err' = err /\ count' = count /\ lists' = lists
      BY <2>9 DEF vars
    <3>2. Starts' = Starts /\ Succeeded' = Succeeded /\ Scanning' = Scanning
      BY <3>1 DEF Starts, Succeeded, Scanning
    <3>3. /\ FlagsBefore(pos)' = FlagsBefore(pos)
          /\ FlagsBefore(Len(line) + 1)' = FlagsBefore(Len(line) + 1)
      BY <3>1 DEF FlagsBefore
    <3>4. Scanned(t)'
      BY <2>3, <3>1, <3>2, <3>3 DEF AsDocumented, Scanned
    <3>5. Listed(t)'
      BY <2>3, <3>1, <3>2, <3>3 DEF AsDocumented, Listed
    <3> QED
      BY <2>3, <3>1, <3>2, <3>3, <3>4, <3>5 DEF AsDocumented
  <2> QED
    BY <2>4, <2>5, <2>6, <2>7, <2>8, <2>9 DEF Next
<1>2. IInv /\ DInv => DocumentedLinesParse
  BY ListedImplies
<1> QED
  BY Invariance, InitDocumented, <1>1, <1>2, PTL DEF Spec
=============================================================================
