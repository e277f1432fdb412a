------------------------------ MODULE CommandsProofs ------------------------------
(***************************************************************************)
(* The commands of dsh, for any values of the constants.  hb: the lines    *)
(* printed are the first ticks, in order, whole and each once, unless the  *)
(* ticker lapped the reader or the reader went by a buffer_pos that was    *)
(* not set yet; and the ticks keep the schedule.  systat and cmdnm print   *)
(* finished buffers; cd and signal do as they say.                         *)
(***************************************************************************)
EXTENDS MCCommands, TLAPS


Stored == Len(ticks)

(* The ticks buffer_pos tells the reader of, and what it then is: past the *)
(* largest int it goes on from the smallest.                               *)
Published == IF tk.at = "count" THEN Stored - 1 ELSE Stored
Position(n) == IF n < IntLimit THEN n ELSE n - 2 * IntLimit

Running  == tk.at \notin {"none", "start"}
Fetching == rd.at \in {"sec", "nsec"}

TickerPlaces == {"none", "start", "begin", "sec", "nsec", "count", "spin", "end", "exited", "wild"}
ReaderPlaces == {"enter", "refused", "create", "aborted", "outer", "inner", "sec", "nsec",
                 "join", "returned"}

TickerTypes ==
  /\ tk \in [at : TickerPlaces, elapsed : Int, next : Int, time : Int]
  /\ ring \in [0..(Size - 1) -> Int \X Int]
  /\ bufferPos \in Int
  /\ ticks \in Seq(Int)
ReaderTypes ==
  /\ rd \in [at : ReaderPlaces, pos : Nat, sec : Int]
  /\ shown \in Seq(Int \X Int)
  /\ rd.pos = Len(shown)
SharedTypes ==
  /\ tinc \in Int
  /\ clock \in Int
  /\ clean \in BOOLEAN
Types == TickerTypes /\ ReaderTypes /\ SharedTypes

(* The ticker lives from pthread_create on, and has stored nothing, and    *)
(* given the reader nothing to fetch, before it set buffer_pos.            *)
Created == tk.at = "none" <=> rd.at \in {"enter", "refused", "create", "aborted"}
Fresh   == ~Running => Stored = 0 /\ (clean => rd.pos = 0 /\ ~Fetching)

(* buffer_pos says what was stored, and the reader is within a ring of it. *)
Counted  == clean /\ Running => bufferPos = Position(Published)
Distance == clean => rd.pos <= Stored /\ Stored - rd.pos <= Size
Behind   == clean => rd.pos < IntLimit
Ahead    == clean /\ Fetching => rd.pos < Stored /\ rd.pos < IntLimit - 1

(* What the ring holds of the ticks not printed yet, and of the one being  *)
(* stored; what the reader has of the one it is fetching.                  *)
Half    == clean /\ tk.at = "nsec" => Stored - rd.pos < Size /\ ring[Stored % Size][1] = tk.time
Handed  == clean => \A j \in rd.pos..(Stored - 1) : ring[j % Size] = <<ticks[j + 1], ticks[j + 1]>>
Fetched == clean /\ rd.at = "nsec" => rd.sec = ticks[rd.pos + 1]
Printed == clean => \A i \in 1..rd.pos : shown[i] = <<ticks[i], ticks[i]>>

RingInv ==
  /\ Types
  /\ Created
  /\ Fresh
  /\ Counted
  /\ Distance
  /\ Behind
  /\ Ahead
  /\ Half
  /\ Handed
  /\ Fetched
  /\ Printed

-----------------------------------------------------------------------------
(* Remainders: a slot belongs to one of Size ticks in a row.               *)

LEMMA DivMod ==
  ASSUME NEW a \in Int, NEW m \in Nat, m > 0
  PROVE  /\ a % m \in 0..(m - 1)
         /\ a \div m \in Int
         /\ a = m * (a \div m) + (a % m)
  OBVIOUS

LEMMA ModOf ==
  ASSUME NEW a \in Int, NEW m \in Nat, m > 0, NEW q \in Int, NEW r \in 0..(m - 1), a = m * q + r
  PROVE  a % m = r
  OBVIOUS

LEMMA Multiples ==
  ASSUME NEW m \in Nat, m > 0, NEW k \in Int
  PROVE  /\ k >= 1 => m * k >= m
         /\ k <= 0 => m * k <= 0
         /\ m * k \in Int
  OBVIOUS

LEMMA Distributes ==
  ASSUME NEW m \in Int, NEW k \in Int, NEW l \in Int
  PROVE  /\ m * k - m * l = m * (k - l)
         /\ m * k + m * l = m * (k + l)
  OBVIOUS

(* Two ticks less than a ring apart are in different slots. *)
LEMMA SlotsDiffer ==
  ASSUME NEW a \in Int, NEW b \in Int, NEW m \in Nat, m > 0, a < b, b - a < m
  PROVE  a % m # b % m
<1> SUFFICES ASSUME a % m = b % m PROVE FALSE
  OBVIOUS
<1> DEFINE qa == a \div m
           qb == b \div m
           k  == qb - qa
<1>1. qa \in Int /\ a = m * qa + (a % m) /\ a % m \in 0..(m - 1)
  BY DivMod
<1>2. qb \in Int /\ b = m * qb + (b % m)
  BY DivMod
<1> HIDE DEF qa, qb
<1>3. k \in Int
  BY <1>1, <1>2
<1>4. m * qb - m * qa = m * k
  BY <1>1, <1>2, Distributes
<1>5. m * qb \in Int /\ m * qa \in Int /\ m * k \in Int
  BY <1>1, <1>2, <1>3, Multiples
<1>6. b - a = m * k
  <2> HIDE DEF k
  <2> QED
    BY <1>1, <1>2, <1>4, <1>5
<1>7. /\ k >= 1 => m * k >= m
      /\ k <= 0 => m * k <= 0
  <2> HIDE DEF k
  <2> QED
    BY <1>3, Multiples
<1> HIDE DEF k
<1> QED
  BY <1>3, <1>5, <1>6, <1>7

(* buffer_pos % HB_BUFFER_SIZE is the tick's slot, overflown or not. *)
LEMMA SlotOf ==
  ASSUME NEW n \in Nat
  PROVE  Position(n) % Size = n % Size
<1> USE SizesAssumption, WidthAssumption
<1>1. CASE n < IntLimit
  BY <1>1 DEF Position
<1>2. CASE ~(n < IntLimit)
  <2> DEFINE q == n \div Size
             r == n % Size
             w == IntLimit \div Size
  <2>1. q \in Int /\ n = Size * q + r /\ r \in 0..(Size - 1)
    BY DivMod
  <2>2. w \in Int /\ IntLimit = Size * w + (IntLimit % Size)
    BY DivMod
  <2> HIDE DEF q, r, w
  <2>3. IntLimit = Size * w
    <3>1. Size * w \in Int
      BY <2>2, Multiples
    <3> QED
      BY <2>2, <3>1
  <2>4. 2 * IntLimit = Size * (w + w)
    BY <2>2, <2>3, Distributes
  <2>5. Size * q - Size * (w + w) = Size * (q - (w + w))
    BY <2>1, <2>2, Distributes
  <2>6. Size * q \in Int /\ Size * (w + w) \in Int /\ q - (w + w) \in Int
    BY <2>1, <2>2, Multiples
  <2>7. n - 2 * IntLimit = Size * (q - (w + w)) + r
    BY <2>1, <2>4, <2>5, <2>6
  <2>8. (n - 2 * IntLimit) % Size = r
    <3> DEFINE c == q - (w + w)
    <3>1. c \in Int
      BY <2>6
    <3> HIDE DEF c
    <3>2. n - 2 * IntLimit = Size * c + r
      BY <2>7 DEF c
    <3> QED
      BY <2>1, <3>1, <3>2, ModOf
  <2> QED
    BY <1>2, <2>8 DEF Position, r
<1> QED
  BY <1>1, <1>2

(* Counting one on from a position is the position of one more. *)
LEMMA CountsOn ==
  ASSUME NEW n \in Nat, n < 2 * IntLimit
  PROVE  Wrap(Position(n - 1) + 1) = Position(n)
<1> USE SizesAssumption
<1>1. CASE n < IntLimit
  <2>1. Position(n - 1) + 1 = n /\ Position(n) = n
    BY <1>1 DEF Position
  <2>2. (n + IntLimit) % (2 * IntLimit) = n + IntLimit
    BY <1>1
  <2> QED
    BY <2>1, <2>2 DEF Wrap
<1>2. CASE n = IntLimit
  <2>1. Position(n - 1) + 1 = n /\ Position(n) = -IntLimit
    BY <1>2 DEF Position
  <2>2. (n + IntLimit) % (2 * IntLimit) = 0
    BY <1>2
  <2> QED
    BY <2>1, <2>2 DEF Wrap
<1>3. CASE n > IntLimit
  <2>1. Position(n - 1) + 1 = n - 2 * IntLimit /\ Position(n) = n - 2 * IntLimit
    BY <1>3 DEF Position
  <2>2. ((n - 2 * IntLimit) + IntLimit) % (2 * IntLimit) = (n - 2 * IntLimit) + IntLimit
    BY <1>3
  <2> QED
    BY <2>1, <2>2 DEF Wrap
<1> QED
  BY <1>1, <1>2, <1>3

-----------------------------------------------------------------------------
(* One lemma per action of the two threads.                                *)

LEMMA Places ==
  /\ \A p \in {"none", "start", "begin", "sec", "nsec", "count", "spin", "end", "exited", "wild"} :
       p \in TickerPlaces
  /\ \A p \in {"enter", "refused", "create", "aborted", "outer", "inner", "sec", "nsec", "join",
              "returned"} : p \in ReaderPlaces
  BY DEF TickerPlaces, ReaderPlaces

LEMMA RingInit == Init => RingInv
<1> USE SizesAssumption, RequestsAssumption DEF Ints
<1> SUFFICES ASSUME Init PROVE RingInv
  OBVIOUS
<1>1. TickerTypes
  <2>1. tk \in [at : TickerPlaces, elapsed : Int, next : Int, time : Int]
    BY DEF Init, TickerPlaces
  <2>2. ring \in [0..(Size - 1) -> Int \X Int]
    BY DEF Init, Unset
  <2>3. bufferPos \in Int /\ ticks \in Seq(Int)
    BY DEF Init
  <2> QED
    BY <2>1, <2>2, <2>3 DEF TickerTypes
<1>2. ReaderTypes
  BY DEF Init, ReaderTypes, ReaderPlaces, Unset
<1>3. SharedTypes
  BY DEF Init, SharedTypes
<1> QED
  BY <1>1, <1>2, <1>3
  DEF Init, RingInv, Types, Created, Fresh, Counted, Distance, Behind, Ahead, Half,
      Handed, Fetched, Printed, Running, Fetching, Stored

(* A step of hb that fetches nothing, before or after it. *)
LEMMA ReaderMoves ==
  ASSUME RingInv, ~Fetching, ~Fetching',
         Types', Created',
         UNCHANGED <<bufferPos, ring, ticks, shown, clean>>, rd'.pos = rd.pos,
         tk' = tk \/ (tk.at = "none" /\ tk'.at = "start")
  PROVE  RingInv'
<1>1. UNCHANGED <<Stored, bufferPos, ring, ticks, shown, clean>>
  BY DEF Stored
<1>2. Running' <=> Running
  BY DEF Running
<1>3. Running => tk' = tk
  BY DEF Running
<1>4. tk'.at = "nsec" => tk' = tk
  OBVIOUS
<1>5. Fresh'
  BY <1>1, <1>2 DEF RingInv, Fresh
<1>6. Counted'
  BY <1>1, <1>2, <1>3 DEF RingInv, Counted, Published
<1>7. Distance' /\ Behind' /\ Ahead'
  BY <1>1 DEF RingInv, Distance, Behind, Ahead
<1>8. Half'
  BY <1>1, <1>4 DEF RingInv, Half
<1>9. Fetched'
  BY DEF Fetched, Fetching
<1>10. Handed' /\ Printed'
  BY <1>1 DEF RingInv, Handed, Printed
<1> QED
  BY <1>5, <1>6, <1>7, <1>8, <1>9, <1>10 DEF RingInv

LEMMA UnitsKeeps == RingInv /\ Units => RingInv'
<1> SUFFICES ASSUME RingInv, Units PROVE RingInv'
  OBVIOUS
<1> USE Places
<1>1. /\ rd.at = "enter" /\ rd'.at \in {"refused", "create"} /\ rd'.pos = rd.pos
      /\ UNCHANGED <<ticker, shown, clock, clean>>
      /\ tinc' \in {tinc, Wrap(tinc * Second)}
  BY DEF RingInv, Types, ReaderTypes, Units
<1>2. ReaderTypes'
  BY DEF RingInv, Types, ReaderTypes, Units
<1>3. TickerTypes'
  BY <1>1 DEF RingInv, Types, TickerTypes, ticker
<1>4. SharedTypes'
  <2>1. tinc' \in Int
    BY <1>1, SizesAssumption DEF RingInv, Types, SharedTypes, Wrap
  <2> QED
    BY <1>1, <2>1 DEF RingInv, Types, SharedTypes
<1>5. Created'
  BY <1>1 DEF RingInv, Created, ticker
<1> QED
  BY <1>1, <1>2, <1>3, <1>4, <1>5, ReaderMoves DEF Fetching, Types, ticker

LEMMA CreateKeeps == RingInv /\ Create => RingInv'
<1> SUFFICES ASSUME RingInv, Create PROVE RingInv'
  OBVIOUS
<1> USE Places
<1>1. tk.at = "none"
  BY DEF RingInv, Created, Create
<1>2. /\ rd.at = "create" /\ rd'.at \in {"outer", "aborted"} /\ rd'.pos = rd.pos
      /\ UNCHANGED <<tinc, bufferPos, ring, clock, ticks, shown, clean>>
      /\ IF rd'.at = "outer" THEN tk'.at = "start" ELSE tk' = tk
  BY DEF RingInv, Types, ReaderTypes, TickerTypes, Create
<1>3. ReaderTypes'
  BY DEF RingInv, Types, ReaderTypes, Create
<1>4. TickerTypes'
  BY DEF RingInv, Types, TickerTypes, SharedTypes, Create
<1>5. SharedTypes'
  BY <1>2 DEF RingInv, Types, SharedTypes
<1>6. Created'
  BY <1>1, <1>2 DEF Created
<1> QED
  BY <1>1, <1>2, <1>3, <1>4, <1>5, <1>6, ReaderMoves DEF Fetching, Types

LEMMA OuterKeeps == RingInv /\ Outer => RingInv'
<1> SUFFICES ASSUME RingInv, Outer PROVE RingInv'
  OBVIOUS
<1> USE Places
<1>1. /\ rd.at = "outer" /\ rd'.at \in {"join", "inner"} /\ rd'.pos = rd.pos
      /\ UNCHANGED <<tinc, shown, ticker, clock, clean>>
  BY DEF RingInv, Types, ReaderTypes, Outer
<1>2. ReaderTypes'
  BY DEF RingInv, Types, ReaderTypes, Outer
<1>3. TickerTypes' /\ SharedTypes'
  BY <1>1 DEF RingInv, Types, TickerTypes, SharedTypes, ticker
<1>4. Created'
  BY <1>1 DEF RingInv, Created, ticker
<1> QED
  BY <1>1, <1>2, <1>3, <1>4, ReaderMoves DEF Fetching, Types, ticker

LEMMA JoinKeeps == RingInv /\ Join => RingInv'
<1> SUFFICES ASSUME RingInv, Join PROVE RingInv'
  OBVIOUS
<1> USE Places
<1>1. /\ rd.at = "join" /\ rd'.at = "returned" /\ rd'.pos = rd.pos
      /\ UNCHANGED <<tinc, shown, ticker, clock, clean>>
  BY DEF RingInv, Types, ReaderTypes, Join
<1>2. ReaderTypes'
  BY DEF RingInv, Types, ReaderTypes, Join
<1>3. TickerTypes' /\ SharedTypes'
  BY <1>1 DEF RingInv, Types, TickerTypes, SharedTypes, ticker
<1>4. Created'
  BY <1>1 DEF RingInv, Created, ticker
<1> QED
  BY <1>1, <1>2, <1>3, <1>4, ReaderMoves DEF Fetching, Types, ticker

(* buffer_pos is above the reader's count: so it has not overflown, and    *)
(* the slot the reader goes for holds a tick.                              *)
LEMMA InnerKeeps == RingInv /\ Inner => RingInv'
<1> SUFFICES ASSUME RingInv, Inner PROVE RingInv'
  OBVIOUS
<1> USE Places
<1>1. /\ rd.at = "inner" /\ rd'.at = IF rd.pos < bufferPos THEN "sec" ELSE "outer"
      /\ rd'.pos = rd.pos /\ rd'.sec = rd.sec
      /\ UNCHANGED <<tk, ring, bufferPos, ticks, shown, tinc, clock, Stored>>
  BY DEF RingInv, Types, ReaderTypes, Inner, ticker, Stored
<1>2. /\ clean' \in BOOLEAN
      /\ clean' => clean
      /\ clean' /\ rd.pos < bufferPos => tk.at # "start"
  BY DEF Inner
<1>3. tk.at # "none"
  BY <1>1 DEF RingInv, Created
<1>4. Types'
  <2>1. ReaderTypes'
    BY DEF RingInv, Types, ReaderTypes, Inner
  <2>2. TickerTypes' /\ SharedTypes'
    BY <1>1, <1>2 DEF RingInv, Types, TickerTypes, SharedTypes
  <2> QED
    BY <2>1, <2>2 DEF Types
<1>5. Created'
  BY <1>1, <1>3 DEF Created
<1>6. Fresh'
  <2>1. clean' /\ ~Running' => ~(rd.pos < bufferPos)
    BY <1>1, <1>2, <1>3 DEF Running
  <2>2. clean' /\ ~Running' => ~Fetching'
    BY <1>1, <2>1 DEF Fetching
  <2>3. Running' <=> Running
    BY <1>1 DEF Running
  <2> QED
    BY <1>1, <1>2, <2>2, <2>3 DEF RingInv, Fresh
<1>7. Counted' /\ Distance' /\ Behind'
  BY <1>1, <1>2 DEF RingInv, Counted, Distance, Behind, Running, Published
<1>8. Ahead'
  <2> SUFFICES ASSUME clean', Fetching' PROVE rd.pos < Stored /\ rd.pos < IntLimit - 1
    BY <1>1 DEF Ahead
  <2>1. rd.pos < bufferPos /\ clean
    BY <1>1, <1>2 DEF Fetching
  <2>2. Running
    BY <1>2, <1>3, <2>1 DEF Running
  <2>3. bufferPos = Position(Published) /\ Stored \in Nat /\ rd.pos \in Nat
    BY <2>1, <2>2 DEF RingInv, Counted, Types, TickerTypes, ReaderTypes, Stored
  <2>4. rd.pos < IntLimit /\ Stored - rd.pos <= Size
    BY <2>1 DEF RingInv, Behind, Distance
  <2> QED
    BY <2>1, <2>3, <2>4, SizesAssumption DEF Position, Published
<1>9. Half'
  BY <1>1, <1>2 DEF RingInv, Half
<1>10. Fetched'
  BY <1>1 DEF Fetched
<1>11. Handed' /\ Printed'
  BY <1>1, <1>2 DEF RingInv, Handed, Printed
<1> QED
  BY <1>4, <1>5, <1>6, <1>7, <1>8, <1>9, <1>10, <1>11 DEF RingInv

LEMMA FetchSecKeeps == RingInv /\ FetchSec => RingInv'
<1> SUFFICES ASSUME RingInv, FetchSec PROVE RingInv'
  OBVIOUS
<1> USE Places
<1> DEFINE word == ring[rd.pos % Size][1]
<1>1. /\ rd.at = "sec" /\ rd'.at = "nsec" /\ rd'.pos = rd.pos /\ rd'.sec = word
      /\ UNCHANGED <<tk, ring, bufferPos, ticks, shown, tinc, clock, clean, Stored>>
  BY DEF RingInv, Types, ReaderTypes, FetchSec, ticker, Stored
<1>2. word \in Int
  <2>1. rd.pos % Size \in 0..(Size - 1)
    BY SizesAssumption, DivMod DEF RingInv, Types, ReaderTypes
  <2>2. ring[rd.pos % Size] \in Int \X Int
    BY <2>1 DEF RingInv, Types, TickerTypes
  <2> QED
    BY <2>2
<1>3. Types'
  <2>1. ReaderTypes'
    BY <1>2 DEF RingInv, Types, ReaderTypes, FetchSec
  <2>2. TickerTypes' /\ SharedTypes'
    BY <1>1 DEF RingInv, Types, TickerTypes, SharedTypes
  <2> QED
    BY <2>1, <2>2 DEF Types
<1>4. Created' /\ Counted' /\ Distance' /\ Behind' /\ Half' /\ (Running' <=> Running)
  BY <1>1 DEF RingInv, Created, Counted, Distance, Behind, Half, Running, Published
<1>5. Fetching /\ Fetching'
  BY <1>1 DEF Fetching
<1>6. Fresh' /\ Ahead'
  BY <1>1, <1>4, <1>5 DEF RingInv, Fresh, Ahead
<1>7. Fetched'
  <2> SUFFICES ASSUME clean PROVE word = ticks[rd.pos + 1]
    BY <1>1 DEF Fetched
  <2>1. rd.pos \in Nat /\ Stored \in Nat /\ rd.pos < Stored
    BY <1>5 DEF RingInv, Types, TickerTypes, ReaderTypes, Ahead, Stored
  <2>2. rd.pos \in rd.pos..(Stored - 1)
    BY <2>1
  <2>3. ring[rd.pos % Size] = <<ticks[rd.pos + 1], ticks[rd.pos + 1]>>
    BY <2>2 DEF RingInv, Handed
  <2> QED
    BY <2>3
<1>8. Handed' /\ Printed'
  BY <1>1 DEF RingInv, Handed, Printed
<1> QED
  BY <1>3, <1>4, <1>6, <1>7, <1>8 DEF RingInv

LEMMA FetchNsecKeeps == RingInv /\ FetchNsec => RingInv'
<1> SUFFICES ASSUME RingInv, FetchNsec PROVE RingInv'
  OBVIOUS
<1> USE Places
<1> DEFINE word == ring[rd.pos % Size][2]
<1>1. /\ rd.at = "nsec" /\ rd'.at = "inner" /\ rd'.pos = rd.pos + 1
      /\ shown' = Append(shown, <<rd.sec, word>>)
      /\ UNCHANGED <<tk, ring, bufferPos, ticks, tinc, clock, clean, Stored>>
  BY DEF FetchNsec, ticker, Stored
<1>2. /\ rd.pos \in Nat /\ rd.pos = Len(shown)
      /\ shown \in Seq(Int \X Int)
      /\ <<rd.sec, word>> \in Int \X Int
  <2>1. rd.pos % Size \in 0..(Size - 1)
    BY SizesAssumption, DivMod DEF RingInv, Types, ReaderTypes
  <2>2. ring[rd.pos % Size] \in Int \X Int
    BY <2>1 DEF RingInv, Types, TickerTypes
  <2> QED
    BY <2>2 DEF RingInv, Types, ReaderTypes
<1> HIDE DEF word
<1>3. Types'
  <2>1. rd' \in [at : ReaderPlaces, pos : Nat, sec : Int]
    BY <1>2 DEF FetchNsec, Unset
  <2>2. shown' \in Seq(Int \X Int) /\ Len(shown') = Len(shown) + 1
    BY <1>1, <1>2
  <2>3. TickerTypes' /\ SharedTypes'
    BY <1>1 DEF RingInv, Types, TickerTypes, SharedTypes
  <2> QED
    BY <1>1, <1>2, <2>1, <2>2, <2>3 DEF Types, ReaderTypes
<1>4. Created' /\ Counted' /\ (Running' <=> Running)
  BY <1>1 DEF RingInv, Created, Counted, Running, Published
<1>5. Fetching /\ ~Fetching'
  BY <1>1 DEF Fetching
<1>6. clean => /\ rd.pos < Stored /\ rd.pos < IntLimit - 1 /\ Stored \in Nat
               /\ Stored - rd.pos <= Size
  BY <1>5 DEF RingInv, Types, TickerTypes, Ahead, Distance, Stored
<1>7. Fresh'
  BY <1>1, <1>4, <1>5 DEF RingInv, Fresh
<1>8. Distance' /\ Behind' /\ Ahead'
  BY <1>1, <1>2, <1>5, <1>6, SizesAssumption DEF Distance, Behind, Ahead
<1>9. Half'
  <2>1. clean /\ tk.at = "nsec" => Stored - rd.pos < Size /\ ring[Stored % Size][1] = tk.time
    BY DEF RingInv, Half
  <2>2. clean => (Stored - rd.pos < Size => Stored - (rd.pos + 1) < Size)
    BY <1>2, <1>6, SizesAssumption
  <2> QED
    BY <1>1, <2>1, <2>2 DEF Half
<1>10. Handed'
  <2> SUFFICES ASSUME clean, NEW j \in (rd.pos + 1)..(Stored - 1)
               PROVE  ring[j % Size] = <<ticks[j + 1], ticks[j + 1]>>
    BY <1>1 DEF Handed
  <2>1. j \in rd.pos..(Stored - 1)
    BY <1>2, <1>6
  <2> QED
    BY <2>1 DEF RingInv, Handed
<1>11. Fetched'
  BY <1>1 DEF Fetched
<1>12. Printed'
  <2>1. ASSUME clean PROVE shown'[rd.pos + 1] = <<ticks[rd.pos + 1], ticks[rd.pos + 1]>>
    <3>1. rd.pos \in rd.pos..(Stored - 1)
      BY <1>2, <1>6, <2>1
    <3>2. ring[rd.pos % Size] = <<ticks[rd.pos + 1], ticks[rd.pos + 1]>>
      BY <2>1, <3>1 DEF RingInv, Handed
    <3>3. word = ticks[rd.pos + 1]
      BY <3>2 DEF word
    <3>4. rd.sec = ticks[rd.pos + 1]
      BY <1>1, <2>1 DEF RingInv, Fetched
    <3>5. shown'[rd.pos + 1] = <<rd.sec, word>>
      BY <1>1, <1>2
    <3> QED
      BY <3>3, <3>4, <3>5
  <2>2. ASSUME clean, NEW i \in 1..rd.pos PROVE shown'[i] = <<ticks[i], ticks[i]>>
    <3>1. shown'[i] = shown[i]
      BY <1>1, <1>2
    <3> QED
      BY <2>2, <3>1 DEF RingInv, Printed
  <2>3. \A i \in 1..(rd.pos + 1) : i \in 1..rd.pos \/ i = rd.pos + 1
    BY <1>2
  <2> QED
    BY <1>1, <2>1, <2>2, <2>3 DEF Printed
<1> QED
  BY <1>3, <1>4, <1>7, <1>8, <1>9, <1>10, <1>11, <1>12 DEF RingInv

(* A step of the ticker that touches neither the ring nor buffer_pos. *)
LEMMA TickerMoves ==
  ASSUME RingInv, UNCHANGED <<bufferPos, ring, ticks, clean, reader, clock>>,
         tk' \in [at : TickerPlaces, elapsed : Int, next : Int, time : Int],
         tk.at \in {"begin", "sec", "spin", "end"},
         tk'.at \in {"sec", "spin", "exited", "wild"}
  PROVE  RingInv'
<1>1. UNCHANGED <<Stored, bufferPos, ring, ticks, clean, clock, rd, shown, tinc>>
  BY DEF Stored, reader
<1>2. Running /\ Running'
  BY DEF Running
<1>3. Types'
  BY <1>1 DEF RingInv, Types, TickerTypes, ReaderTypes, SharedTypes
<1>4. Created'
  BY <1>1 DEF RingInv, Created
<1>5. Fresh'
  BY <1>2 DEF Fresh
<1>6. Published' = Stored /\ Published = Stored
  BY <1>1 DEF Published
<1>7. Counted'
  BY <1>1, <1>2, <1>6 DEF RingInv, Counted
<1>8. Distance' /\ Behind' /\ Ahead' /\ Fetched'
  BY <1>1 DEF RingInv, Distance, Behind, Ahead, Fetching, Fetched
<1>9. Half'
  BY DEF Half
<1>10. Handed' /\ Printed'
  BY <1>1 DEF RingInv, Handed, Printed
<1> QED
  BY <1>3, <1>4, <1>5, <1>7, <1>8, <1>9, <1>10 DEF RingInv

LEMMA BeginKeeps == RingInv /\ Begin => RingInv'
<1> SUFFICES ASSUME RingInv, Begin PROVE RingInv'
  OBVIOUS
<1> USE Places
<1>1. /\ tk.at = "begin" /\ tk'.at = "sec"
      /\ UNCHANGED <<bufferPos, ring, ticks, clean, reader, clock>>
  BY DEF RingInv, Types, TickerTypes, Begin
<1>2. tk' \in [at : TickerPlaces, elapsed : Int, next : Int, time : Int]
  BY DEF RingInv, Types, TickerTypes, SharedTypes, Begin
<1> QED
  BY <1>1, <1>2, TickerMoves

LEMMA SpinKeeps == RingInv /\ Spin => RingInv'
<1> SUFFICES ASSUME RingInv, Spin PROVE RingInv'
  OBVIOUS
<1> USE Places
<1>1. /\ tk.at = "spin" /\ tk'.at = "spin"
      /\ UNCHANGED <<bufferPos, ring, ticks, clean, reader, clock>>
  BY DEF RingInv, Types, TickerTypes, Spin
<1>2. tk' \in [at : TickerPlaces, elapsed : Int, next : Int, time : Int]
  BY DEF RingInv, Types, TickerTypes, SharedTypes, Spin
<1> QED
  BY <1>1, <1>2, TickerMoves

LEMMA LeaveKeeps == RingInv /\ Leave => RingInv'
<1> SUFFICES ASSUME RingInv, Leave PROVE RingInv'
  OBVIOUS
<1> USE Places
<1>1. /\ tk.at = "spin" /\ tk'.at = "sec"
      /\ UNCHANGED <<bufferPos, ring, ticks, clean, reader, clock>>
  BY DEF RingInv, Types, TickerTypes, Leave
<1>2. tk' \in [at : TickerPlaces, elapsed : Int, next : Int, time : Int]
  <2>1. tk.next + tinc \in Int /\ "sec" \in TickerPlaces
    BY DEF RingInv, Types, TickerTypes, SharedTypes
  <2>2. tk' = [tk EXCEPT !.at = "sec", !.next = tk.next + tinc]
    BY DEF Leave
  <2> QED
    BY <2>1, <2>2 DEF RingInv, Types, TickerTypes
<1> QED
  BY <1>1, <1>2, TickerMoves

LEMMA CompleteKeeps == RingInv /\ Complete => RingInv'
<1> SUFFICES ASSUME RingInv, Complete PROVE RingInv'
  OBVIOUS
<1> USE Places
<1>1. /\ tk.at = "end" /\ tk'.at = "exited"
      /\ UNCHANGED <<bufferPos, ring, ticks, clean, reader, clock>>
  BY DEF RingInv, Types, TickerTypes, Complete
<1>2. tk' \in [at : TickerPlaces, elapsed : Int, next : Int, time : Int]
  BY DEF RingInv, Types, TickerTypes, SharedTypes, Complete
<1> QED
  BY <1>1, <1>2, TickerMoves

LEMMA StartKeeps == RingInv /\ Start => RingInv'
<1> SUFFICES ASSUME RingInv, Start PROVE RingInv'
  OBVIOUS
<1> USE Places
<1>1. /\ tk.at = "start" /\ tk'.at = "begin" /\ bufferPos' = 0
      /\ UNCHANGED <<ring, ticks, clean, clock, rd, shown, tinc, Stored>>
  BY DEF RingInv, Types, TickerTypes, Start, Stored, reader
<1>2. ~Running /\ Running'
  BY <1>1 DEF Running
<1>3. Types'
  <2>1. tk' \in [at : TickerPlaces, elapsed : Int, next : Int, time : Int]
    BY DEF RingInv, Types, TickerTypes, Start
  <2> QED
    BY <1>1, <2>1 DEF RingInv, Types, TickerTypes, ReaderTypes, SharedTypes
<1>4. Created'
  BY <1>1 DEF RingInv, Created
<1>5. Fresh'
  BY <1>2 DEF Fresh
<1>6. Stored = 0
  BY <1>2 DEF RingInv, Fresh
<1>7. Counted'
  BY <1>1, <1>6, SizesAssumption DEF Counted, Published, Position
<1>8. Distance' /\ Behind' /\ Ahead' /\ Fetched'
  BY <1>1 DEF RingInv, Distance, Behind, Ahead, Fetching, Fetched
<1>9. Half'
  BY <1>1 DEF Half
<1>10. Handed' /\ Printed'
  BY <1>1 DEF RingInv, Handed, Printed
<1> QED
  BY <1>3, <1>4, <1>5, <1>7, <1>8, <1>9, <1>10 DEF RingInv

LEMMA TimeKeeps == RingInv /\ TimePasses => RingInv'
<1> SUFFICES ASSUME RingInv, TimePasses PROVE RingInv'
  OBVIOUS
<1>1. UNCHANGED <<bufferPos, ring, tk, ticks, rd, shown, tinc, clean, Stored>> /\ clock' = clock + 1
  BY DEF TimePasses, ticker, reader, Stored
<1>2. Types'
  BY <1>1 DEF RingInv, Types, TickerTypes, ReaderTypes, SharedTypes
<1>3. Created' /\ Fresh' /\ Counted' /\ Distance' /\ Behind' /\ Ahead' /\ Half'
  BY <1>1 DEF RingInv, Created, Fresh, Counted, Distance, Behind, Ahead, Half, Running, Fetching,
              Published
<1>4. Fetched' /\ Handed' /\ Printed'
  BY <1>1 DEF RingInv, Fetched, Handed, Printed
<1> QED
  BY <1>2, <1>3, <1>4 DEF RingInv

(* The slot stored to belongs to none of the ticks not printed yet. *)
LEMMA StoreSecKeeps == RingInv /\ StoreSec => RingInv'
<1> SUFFICES ASSUME RingInv, StoreSec PROVE RingInv'
  OBVIOUS
<1> USE Places
<1>1. tk.at = "sec" /\ UNCHANGED <<bufferPos, ticks, reader, clock>>
  BY DEF StoreSec
<1>2. CASE bufferPos < 0 /\ bufferPos % Size # 0
  <2>1. tk'.at = "wild" /\ UNCHANGED <<ring, clean>>
    BY <1>2 DEF RingInv, Types, TickerTypes, StoreSec
  <2>2. tk' \in [at : TickerPlaces, elapsed : Int, next : Int, time : Int]
    BY <1>2 DEF RingInv, Types, TickerTypes, StoreSec
  <2> QED
    BY <1>1, <2>1, <2>2, TickerMoves
<1>3. CASE ~(bufferPos < 0 /\ bufferPos % Size # 0)
  <2> DEFINE slot == bufferPos % Size
  <2>1. /\ tk' = [tk EXCEPT !.at = "nsec"]
        /\ ring' = [ring EXCEPT ![slot][1] = tk.time]
        /\ clean' = (clean /\ Stored - rd.pos < Size)
    BY <1>3 DEF StoreSec, Stored
  <2>2. /\ tk'.at = "nsec" /\ tk'.time = tk.time /\ tk.time \in Int
        /\ tk' \in [at : TickerPlaces, elapsed : Int, next : Int, time : Int]
    BY <2>1 DEF RingInv, Types, TickerTypes
  <2>3. UNCHANGED <<bufferPos, ticks, clock, rd, shown, tinc, Stored>>
    BY <1>1 DEF reader, Stored
  <2>4. /\ Size \in Nat /\ Size > 0 /\ bufferPos \in Int /\ Stored \in Nat /\ rd.pos \in Nat
        /\ ring \in [0..(Size - 1) -> Int \X Int]
    BY SizesAssumption DEF RingInv, Types, TickerTypes, ReaderTypes, Stored
  <2>5. slot \in 0..(Size - 1)
    BY <2>4, DivMod
  <2> HIDE DEF slot
  <2>6. ring' \in [0..(Size - 1) -> Int \X Int] /\ ring'[slot][1] = tk.time
    BY <2>1, <2>2, <2>4, <2>5
  <2>7. \A s \in 0..(Size - 1) : s # slot => ring'[s] = ring[s]
    BY <2>1, <2>4
  <2>8. clean' => clean /\ Stored - rd.pos < Size
    BY <2>1
  <2>9. clean' \in BOOLEAN
    BY <2>1
  <2>10. Running /\ Running'
    BY <1>1, <2>2 DEF Running
  <2>11. Published = Stored /\ Published' = Stored
    BY <1>1, <2>2, <2>3 DEF Published
  <2>12. clean' => slot = Stored % Size
    <3>1. clean' => bufferPos = Position(Stored)
      BY <2>8, <2>10, <2>11 DEF RingInv, Counted
    <3>2. Position(Stored) % Size = Stored % Size
      BY <2>4, SlotOf
    <3> QED
      BY <3>1, <3>2 DEF slot
  <2>13. Types'
    <3>1. TickerTypes' /\ ReaderTypes'
      BY <2>2, <2>3, <2>6 DEF RingInv, Types, TickerTypes, ReaderTypes
    <3>2. SharedTypes'
      BY <2>3, <2>9 DEF RingInv, Types, SharedTypes
    <3> QED
      BY <3>1, <3>2 DEF Types
  <2>14. Created'
    BY <1>1, <2>2, <2>3 DEF RingInv, Created
  <2>15. Fresh'
    BY <2>10 DEF Fresh
  <2>16. Counted'
    BY <2>3, <2>8, <2>10, <2>11 DEF RingInv, Counted
  <2>17. Distance' /\ Behind' /\ Ahead' /\ Fetched'
    BY <2>3, <2>8 DEF RingInv, Distance, Behind, Ahead, Fetching, Fetched
  <2>18. Half'
    BY <2>2, <2>3, <2>6, <2>8, <2>12 DEF Half
  <2>19. Handed'
    <3> SUFFICES ASSUME clean', NEW j \in rd.pos..(Stored - 1)
                 PROVE  ring'[j % Size] = <<ticks[j + 1], ticks[j + 1]>>
      BY <2>3 DEF Handed
    <3>1. j \in Int /\ j < Stored /\ Stored - j < Size
      BY <2>4, <2>8
    <3>2. j % Size # Stored % Size
      BY <2>4, <3>1, SlotsDiffer
    <3>3. j % Size \in 0..(Size - 1)
      BY <2>4, <3>1, DivMod
    <3>4. ring'[j % Size] = ring[j % Size]
      BY <2>7, <2>12, <3>2, <3>3
    <3> QED
      BY <2>8, <3>4 DEF RingInv, Handed
  <2>20. Printed'
    BY <2>3, <2>8 DEF RingInv, Printed
  <2> QED
    BY <2>13, <2>14, <2>15, <2>16, <2>17, <2>18, <2>19, <2>20 DEF RingInv
<1> QED
  BY <1>2, <1>3

(* The slot is whole, and one tick more is there to print. *)
LEMMA StoreNsecKeeps == RingInv /\ StoreNsec => RingInv'
<1> SUFFICES ASSUME RingInv, StoreNsec PROVE RingInv'
  OBVIOUS
<1> USE Places
<1> DEFINE slot == bufferPos % Size
<1>1. /\ tk.at = "nsec" /\ tk' = [tk EXCEPT !.at = "count"]
      /\ ring' = [ring EXCEPT ![slot][2] = tk.time]
      /\ ticks' = Append(ticks, tk.time)
      /\ UNCHANGED <<bufferPos, clean, clock, rd, shown, tinc>>
  BY DEF StoreNsec, reader
<1>2. /\ tk'.at = "count" /\ tk.time \in Int
      /\ tk' \in [at : TickerPlaces, elapsed : Int, next : Int, time : Int]
  BY <1>1 DEF RingInv, Types, TickerTypes
<1>3. /\ Size \in Nat /\ Size > 0 /\ bufferPos \in Int /\ Stored \in Nat /\ rd.pos \in Nat
      /\ ring \in [0..(Size - 1) -> Int \X Int] /\ ticks \in Seq(Int)
  BY SizesAssumption DEF RingInv, Types, TickerTypes, ReaderTypes, Stored
<1>4. slot \in 0..(Size - 1)
  BY <1>3, DivMod
<1> HIDE DEF slot
<1>5. /\ ring' \in [0..(Size - 1) -> Int \X Int]
      /\ ring'[slot] = <<ring[slot][1], tk.time>>
  <2>1. ring[slot] \in Int \X Int
    BY <1>3, <1>4
  <2>2. PICK x \in Int, y \in Int : ring[slot] = <<x, y>>
    BY ONLY <2>1
  <2>3. [ring[slot] EXCEPT ![2] = tk.time] = <<x, tk.time>>
    BY ONLY <2>2
  <2>4. ring' = [ring EXCEPT ![slot] = <<x, tk.time>>]
    BY <1>1, <2>3
  <2>5. ring \in [0..(Size - 1) -> Int \X Int] /\ <<x, tk.time>> \in Int \X Int
    BY <1>2, <1>3
  <2>6. ring[slot][1] = x
    BY <2>2
  <2> QED
    BY ONLY <1>4, <2>4, <2>5, <2>6
<1>6. \A s \in 0..(Size - 1) : s # slot => ring'[s] = ring[s]
  BY <1>1, <1>3
<1>7. /\ ticks' \in Seq(Int) /\ Stored' = Stored + 1 /\ ticks'[Stored + 1] = tk.time
      /\ \A i \in 1..Stored : ticks'[i] = ticks[i]
  BY <1>1, <1>2, <1>3 DEF Stored
<1>8. Running /\ Running'
  BY <1>1, <1>2 DEF Running
<1>9. Published = Stored /\ Published' = Stored
  BY <1>1, <1>2, <1>3, <1>7 DEF Published
<1>10. clean => slot = Stored % Size
  <2>1. clean => bufferPos = Position(Stored)
    BY <1>8, <1>9 DEF RingInv, Counted
  <2>2. Position(Stored) % Size = Stored % Size
    BY <1>3, SlotOf
  <2> QED
    BY <2>1, <2>2 DEF slot
<1>11. clean => /\ Stored - rd.pos < Size /\ rd.pos <= Stored
                /\ ring[Stored % Size][1] = tk.time
  BY <1>1 DEF RingInv, Half, Distance
<1>12. Types'
  <2>1. TickerTypes' /\ ReaderTypes'
    BY <1>1, <1>2, <1>3, <1>5, <1>7 DEF RingInv, Types, TickerTypes, ReaderTypes
  <2>2. SharedTypes'
    BY <1>1 DEF RingInv, Types, SharedTypes
  <2> QED
    BY <2>1, <2>2 DEF Types
<1>13. Created'
  BY <1>1, <1>2 DEF RingInv, Created
<1>14. Fresh'
  BY <1>8 DEF Fresh
<1>15. Counted'
  BY <1>1, <1>8, <1>9 DEF RingInv, Counted
<1>16. Distance' /\ Behind' /\ Half'
  <2>1. ASSUME clean PROVE rd.pos <= Stored + 1 /\ (Stored + 1) - rd.pos <= Size
    <3>1. rd.pos <= Stored /\ Stored - rd.pos < Size
      BY <1>11, <2>1
    <3>2. rd.pos \in Nat /\ Stored \in Nat /\ Size \in Nat
      BY <1>3
    <3> QED
      BY <3>1, <3>2
  <2>2. Distance'
    BY <1>1, <1>7, <2>1 DEF Distance
  <2> QED
    BY <1>1, <1>2, <2>2 DEF RingInv, Behind, Half
<1>17. Ahead'
  BY <1>1, <1>3, <1>7 DEF RingInv, Ahead, Fetching
<1>18. Handed'
  <2> SUFFICES ASSUME clean, NEW j \in rd.pos..Stored
               PROVE  ring'[j % Size] = <<ticks'[j + 1], ticks'[j + 1]>>
    <3>1. rd'.pos = rd.pos /\ Stored' - 1 = Stored /\ clean' = clean
      BY <1>1, <1>3, <1>7
    <3> QED
      BY <3>1 DEF Handed
  <2>1. CASE j = Stored
    BY <1>5, <1>7, <1>10, <1>11, <2>1
  <2>2. CASE j # Stored
    <3>1. j \in rd.pos..(Stored - 1) /\ j + 1 \in 1..Stored
      BY <1>3, <2>2
    <3>2. j \in Int /\ j >= rd.pos /\ j < Stored
      BY <1>3, <3>1
    <3>3. Stored - j < Size
      <4>1. Stored - rd.pos < Size
        BY <1>11
      <4>2. Stored \in Nat /\ rd.pos \in Nat /\ Size \in Nat
        BY <1>3
      <4> QED
        BY <3>2, <4>1, <4>2
    <3>4. j % Size # Stored % Size
      BY <1>3, <3>2, <3>3, SlotsDiffer
    <3>5. j % Size \in 0..(Size - 1)
      BY <1>3, <3>2, DivMod
    <3>6. ring'[j % Size] = ring[j % Size]
      BY <1>6, <1>10, <3>4, <3>5
    <3>7. ticks'[j + 1] = ticks[j + 1]
      BY <1>7, <3>1
    <3> QED
      BY <3>1, <3>6, <3>7 DEF RingInv, Handed
  <2> QED
    BY <2>1, <2>2
<1>19. Fetched'
  <2> SUFFICES ASSUME clean, rd.at = "nsec" PROVE rd.sec = ticks'[rd.pos + 1]
    BY <1>1 DEF Fetched
  <2>1. rd.pos < Stored
    BY DEF RingInv, Ahead, Fetching
  <2>2. rd.pos + 1 \in 1..Stored
    BY <1>3, <2>1
  <2> QED
    BY <1>7, <2>2 DEF RingInv, Fetched
<1>20. Printed'
  <2> SUFFICES ASSUME clean, NEW i \in 1..rd.pos
               PROVE  shown[i] = <<ticks'[i], ticks'[i]>>
    BY <1>1 DEF Printed
  <2>1. rd.pos <= Stored
    BY <1>11
  <2>2. i \in 1..Stored
    BY <1>3, <2>1
  <2> QED
    BY <1>7, <2>2 DEF RingInv, Printed
<1> QED
  BY <1>12, <1>13, <1>14, <1>15, <1>16, <1>17, <1>18, <1>19, <1>20 DEF RingInv

(* The reader is at most a ring behind, and never past the largest int: so *)
(* there are fewer ticks than an int has values.                           *)
LEMMA CountKeeps == RingInv /\ Count => RingInv'
<1> SUFFICES ASSUME RingInv, Count PROVE RingInv'
  OBVIOUS
<1> USE Places
<1>1. /\ tk.at = "count" /\ tk'.at \in {"spin", "end"}
      /\ bufferPos' = Wrap(bufferPos + 1)
      /\ UNCHANGED <<ring, ticks, clean, clock, rd, shown, tinc, Stored>>
  BY DEF RingInv, Types, TickerTypes, Count, reader, Stored
<1>2. Types'
  <2>1. tk' \in [at : TickerPlaces, elapsed : Int, next : Int, time : Int]
    BY DEF RingInv, Types, TickerTypes, Count
  <2>2. bufferPos' \in Int
    BY <1>1, SizesAssumption DEF RingInv, Types, TickerTypes, Wrap
  <2> QED
    BY <1>1, <2>1, <2>2 DEF RingInv, Types, TickerTypes, ReaderTypes, SharedTypes
<1>3. Created'
  BY <1>1 DEF RingInv, Created
<1>4. Running /\ Running'
  BY <1>1 DEF Running
<1>5. Fresh'
  BY <1>4 DEF Fresh
<1>6. Counted'
  <2> SUFFICES ASSUME clean PROVE bufferPos' = Position(Stored)
    BY <1>1 DEF Counted, Published
  <2>1. bufferPos = Position(Stored - 1)
    BY <1>1, <1>4 DEF RingInv, Counted, Published
  <2>2. rd.pos < IntLimit /\ Stored - rd.pos <= Size /\ Stored \in Nat /\ rd.pos \in Nat
    BY DEF RingInv, Behind, Distance, Types, TickerTypes, ReaderTypes, Stored
  <2>3. Stored < 2 * IntLimit
    BY <2>2, SizesAssumption
  <2> QED
    BY <1>1, <2>1, <2>2, <2>3, CountsOn
<1>7. Distance' /\ Behind' /\ Ahead' /\ Fetched'
  BY <1>1 DEF RingInv, Distance, Behind, Ahead, Fetching, Fetched
<1>8. Half'
  BY <1>1 DEF Half
<1>9. Handed' /\ Printed'
  BY <1>1 DEF RingInv, Handed, Printed
<1> QED
  BY <1>2, <1>3, <1>5, <1>6, <1>7, <1>8, <1>9 DEF RingInv

-----------------------------------------------------------------------------
LEMMA StutterKeeps == RingInv /\ UNCHANGED vars => RingInv'
<1> SUFFICES ASSUME RingInv, UNCHANGED vars PROVE RingInv'
  OBVIOUS
<1> USE DEF vars, ticker, reader
<1>1. Types'
  BY DEF RingInv, Types, TickerTypes, ReaderTypes, SharedTypes
<1>2. Created' /\ Fresh' /\ Counted' /\ Distance' /\ Behind' /\ Ahead' /\ Half'
  BY DEF RingInv, Created, Fresh, Counted, Distance, Behind, Ahead, Half, Running, Fetching,
         Published, Stored
<1>3. Fetched' /\ Handed' /\ Printed'
  BY DEF RingInv, Fetched, Handed, Printed, Stored
<1> QED
  BY <1>1, <1>2, <1>3 DEF RingInv

LEMMA RingNext == RingInv /\ [Next]_vars => RingInv'
  BY UnitsKeeps, CreateKeeps, OuterKeeps, InnerKeeps, FetchSecKeeps, FetchNsecKeeps, JoinKeeps,
     StartKeeps, BeginKeeps, StoreSecKeeps, StoreNsecKeeps, CountKeeps, SpinKeeps, LeaveKeeps,
     CompleteKeeps, TimeKeeps, StutterKeeps
  DEF Next, Ticker, Reader

LEMMA InvPrints == RingInv => PrintsTheTicks
<1> SUFFICES ASSUME RingInv, clean
             PROVE  /\ Len(shown) <= Len(ticks)
                    /\ \A i \in 1..Len(shown) : shown[i] = <<ticks[i], ticks[i]>>
  BY DEF PrintsTheTicks
<1>1. rd.pos = Len(shown)
  BY DEF RingInv, Types, ReaderTypes
<1> QED
  BY <1>1 DEF RingInv, Distance, Printed, Stored

-----------------------------------------------------------------------------
(* The ticker's schedule.  While it makes ready for a tick or stores it,   *)
(* next is the time of the one after, and the clock read last is not       *)
(* before the tick's own; afterwards next is the time of the next tick.    *)
Clocks ==
  /\ tend \in Int
  /\ tk.time = tk.elapsed /\ 0 <= tk.elapsed /\ tk.elapsed <= clock
Awaited ==
  /\ tk.at \in {"start", "begin"} => Stored = 0
  /\ tk.at \in {"start", "begin", "sec", "nsec"} =>
       tk.next = tinc * (Stored + 1) /\ tk.elapsed >= tinc * Stored
  /\ tk.at \in {"count", "spin"} => tk.next = tinc * Stored
Latest ==
  Stored > 0 => /\ ticks[Stored] <= tk.elapsed
                /\ tk.at = "count" => tk.elapsed = ticks[Stored]
                /\ tk.at \in {"sec", "nsec", "spin"} => ticks[Stored] < tend
InTime ==
  \A i \in 1..Stored :
    /\ ticks[i] >= (i - 1) * tinc
    /\ i > 1 => ticks[i - 1] <= ticks[i] /\ ticks[i - 1] < tend

Scheduled == tinc > 0 /\ tk.at # "none" => Awaited /\ Latest /\ InTime

ScheduleInv == Types /\ Created /\ Fresh /\ Clocks /\ Scheduled

LEMMA TypesFacts ==
  ASSUME Types
  PROVE  /\ tk \in [at : TickerPlaces, elapsed : Int, next : Int, time : Int]
         /\ tk.at \in TickerPlaces /\ tk.elapsed \in Int /\ tk.next \in Int /\ tk.time \in Int
         /\ tinc \in Int /\ clock \in Int /\ Stored \in Nat /\ ticks \in Seq(Int)
         /\ \A i \in 1..Stored : ticks[i] \in Int
BY DEF Types, TickerTypes, SharedTypes, Stored

(* A step that leaves the ticker where it is leaves it on schedule.        *)
LEMMA ScheduleStays ==
  ASSUME ScheduleInv, UNCHANGED <<tk, ticks, tinc, tend>>, Types', clock' >= clock
  PROVE  Clocks' /\ Scheduled'
<1>1. Clocks'
  BY TypesFacts DEF ScheduleInv, Clocks, Types, SharedTypes
<1>2. Scheduled'
  BY DEF ScheduleInv, Scheduled, Awaited, Latest, InTime, Stored
<1> QED
  BY <1>1, <1>2

LEMMA UnitsSchedule == ScheduleInv /\ Units => Clocks' /\ Scheduled'
<1> SUFFICES ASSUME ScheduleInv, Units PROVE Clocks' /\ Scheduled'
  OBVIOUS
<1>1. tk.at = "none" /\ UNCHANGED <<tk, clock>>
  BY DEF ScheduleInv, Created, Units, ticker
<1>2. tend' \in Int
  BY SizesAssumption DEF Units, Wrap, ScheduleInv, Clocks
<1> QED
  BY <1>1, <1>2 DEF ScheduleInv, Clocks, Scheduled

LEMMA CreateSchedule == ScheduleInv /\ Create => Clocks' /\ Scheduled'
<1> SUFFICES ASSUME ScheduleInv, Create PROVE Clocks' /\ Scheduled'
  OBVIOUS
<1>1. tk.at = "none" /\ UNCHANGED <<tinc, tend, ticks, clock>>
  BY DEF ScheduleInv, Created, Create
<1>2. Stored = 0 /\ UNCHANGED Stored
  BY <1>1 DEF ScheduleInv, Fresh, Running, Stored
<1>3. \/ tk' = tk
      \/ tk'.at = "start" /\ tk'.next = tinc /\ tk'.elapsed = tk.elapsed /\ tk'.time = tk.time
  BY DEF Create, ScheduleInv, Types, TickerTypes
<1>4. Clocks'
  BY <1>1, <1>3 DEF ScheduleInv, Clocks
<1>5. ASSUME tk'.at # "none" PROVE Awaited'
  <2>1. tinc * (0 + 1) = tinc /\ tinc * 0 = 0
    BY TypesFacts DEF ScheduleInv
  <2>2. tk.elapsed >= 0
    BY TypesFacts DEF ScheduleInv, Clocks
  <2> QED
    BY <1>1, <1>2, <1>3, <1>5, <2>1, <2>2 DEF Awaited
<1>6. Latest' /\ InTime'
  BY <1>2 DEF Latest, InTime
<1> QED
  BY <1>4, <1>5, <1>6 DEF Scheduled

(* A step of the ticker between two ticks: what it has read and awaits is  *)
(* as before.                                                              *)
LEMMA TickerSchedule ==
  ASSUME ScheduleInv, UNCHANGED <<ticks, tinc, tend, clock>>,
         UNCHANGED <<tk.elapsed, tk.next, tk.time>>,
         \/ tk.at = "start" /\ tk'.at = "begin"
         \/ tk.at = "begin" /\ tk'.at = "sec"
         \/ tk.at = "sec" /\ tk'.at \in {"nsec", "wild"}
         \/ tk.at = "end" /\ tk'.at = "exited"
         \/ tk.at = "count" /\ tk'.at = IF tk.elapsed < tend THEN "spin" ELSE "end"
  PROVE  Clocks' /\ Scheduled'
<1>1. UNCHANGED Stored
  BY DEF Stored
<1>2. Clocks'
  BY DEF ScheduleInv, Clocks
<1>3. ASSUME tinc > 0 PROVE Awaited' /\ Latest' /\ InTime'
  <2>1. Awaited /\ Latest /\ InTime
    BY <1>3 DEF ScheduleInv, Scheduled
  <2>2. Awaited'
    BY <1>1, <2>1 DEF Awaited
  <2>3. Latest'
    <3>1. tk.at = "begin" => Stored = 0
      BY <2>1 DEF Awaited
    <3> QED
      BY <1>1, <2>1, <3>1, TypesFacts DEF Latest, ScheduleInv, Clocks
  <2>4. InTime'
    BY <1>1, <2>1 DEF InTime
  <2> QED
    BY <2>2, <2>3, <2>4
<1> QED
  BY <1>2, <1>3 DEF Scheduled

LEMMA StoreNsecSchedule == ScheduleInv /\ StoreNsec => Clocks' /\ Scheduled'
<1> SUFFICES ASSUME ScheduleInv, StoreNsec PROVE Clocks' /\ Scheduled'
  OBVIOUS
<1>1. /\ tk.at = "nsec" /\ tk'.at = "count"
      /\ UNCHANGED <<tinc, tend, clock, tk.elapsed, tk.next, tk.time>>
      /\ ticks' = Append(ticks, tk.time)
  BY DEF StoreNsec, reader, ScheduleInv, Types, TickerTypes
<1>2. /\ Stored \in Nat /\ Stored' = Stored + 1 /\ ticks'[Stored + 1] = tk.elapsed
      /\ \A i \in 1..Stored : ticks'[i] = ticks[i]
  BY <1>1, TypesFacts DEF ScheduleInv, Clocks, Stored
<1>3. Clocks'
  BY <1>1 DEF ScheduleInv, Clocks
<1>4. ASSUME tinc > 0 PROVE Awaited' /\ Latest' /\ InTime'
  <2>1. Awaited /\ Latest /\ InTime
    BY <1>1, <1>4 DEF ScheduleInv, Scheduled
  <2>2. Awaited'
    BY <1>1, <1>2, <2>1 DEF Awaited
  <2>3. Latest'
    BY <1>1, <1>2, TypesFacts DEF Latest, ScheduleInv
  <2>4. InTime'
    <3> SUFFICES ASSUME NEW i \in 1..(Stored + 1)
                 PROVE  /\ ticks'[i] >= (i - 1) * tinc
                        /\ i > 1 => ticks'[i - 1] <= ticks'[i] /\ ticks'[i - 1] < tend
      BY <1>1, <1>2 DEF InTime
    <3>1. CASE i = Stored + 1
      <4>1. tk.elapsed >= (i - 1) * tinc
        <5>1. tk.elapsed >= tinc * Stored
          BY <1>1, <2>1 DEF Awaited
        <5>2. (i - 1) * tinc = tinc * Stored
          BY <1>2, <3>1, TypesFacts DEF ScheduleInv
        <5> QED
          BY <5>1, <5>2
      <4>2. i > 1 => ticks[Stored] <= tk.elapsed /\ ticks[Stored] < tend /\ ticks'[i - 1] = ticks[Stored]
        <5> SUFFICES ASSUME i > 1
                     PROVE  ticks[Stored] <= tk.elapsed /\ ticks[Stored] < tend /\ ticks'[i - 1] = ticks[Stored]
          OBVIOUS
        <5>1. Stored > 0 /\ Stored \in 1..Stored /\ i - 1 = Stored
          BY <1>2, <3>1
        <5>2. ticks[Stored] <= tk.elapsed /\ ticks[Stored] < tend
          BY <1>1, <2>1, <5>1 DEF Latest
        <5> QED
          BY <1>2, <5>1, <5>2
      <4> QED
        BY <1>2, <3>1, <4>1, <4>2
    <3>2. CASE i # Stored + 1
      <4>1. i \in 1..Stored /\ (i > 1 => i - 1 \in 1..Stored)
        BY <1>2, <3>2
      <4> QED
        BY <1>2, <2>1, <4>1 DEF InTime
    <3> QED
      BY <3>1, <3>2
  <2> QED
    BY <2>2, <2>3, <2>4
<1> QED
  BY <1>1, <1>3, <1>4 DEF Scheduled

LEMMA SpinSchedule == ScheduleInv /\ Spin => Clocks' /\ Scheduled'
<1> SUFFICES ASSUME ScheduleInv, Spin PROVE Clocks' /\ Scheduled'
  OBVIOUS
<1>1. /\ tk.at = "spin" /\ tk'.at = "spin" /\ tk'.next = tk.next
      /\ tk'.elapsed = clock /\ tk'.time = clock
      /\ UNCHANGED <<ticks, tinc, tend, clock, Stored>>
  BY DEF Spin, reader, Stored, ScheduleInv, Types, TickerTypes
<1>2. Clocks'
  BY <1>1, TypesFacts DEF ScheduleInv, Clocks
<1>3. ASSUME tinc > 0 PROVE Awaited' /\ Latest' /\ InTime'
  <2>1. Awaited /\ Latest /\ InTime
    BY <1>1, <1>3 DEF ScheduleInv, Scheduled
  <2>2. Awaited'
    BY <1>1, <2>1 DEF Awaited
  <2>3. Latest'
    BY <1>1, <2>1, TypesFacts DEF Latest, ScheduleInv, Clocks
  <2>4. InTime'
    BY <1>1, <2>1 DEF InTime
  <2> QED
    BY <2>2, <2>3, <2>4
<1> QED
  BY <1>1, <1>2, <1>3 DEF Scheduled

LEMMA LeaveSchedule == ScheduleInv /\ Leave => Clocks' /\ Scheduled'
<1> SUFFICES ASSUME ScheduleInv, Leave PROVE Clocks' /\ Scheduled'
  OBVIOUS
<1>1. /\ tk.at = "spin" /\ tk'.at = "sec" /\ tk'.next = tk.next + tinc
      /\ ~(tk.elapsed < tk.next)
      /\ UNCHANGED <<ticks, tinc, tend, clock, Stored, tk.elapsed, tk.time>>
  BY DEF Leave, reader, Stored, ScheduleInv, Types, TickerTypes
<1>2. Clocks'
  BY <1>1, TypesFacts DEF ScheduleInv, Clocks
<1>3. ASSUME tinc > 0 PROVE Awaited' /\ Latest' /\ InTime'
  <2>1. Awaited /\ Latest /\ InTime
    BY <1>1, <1>3 DEF ScheduleInv, Scheduled
  <2>2. Awaited'
    <3>1. tk.next = tinc * Stored
      BY <1>1, <2>1 DEF Awaited
    <3>2. tinc * (Stored + 1) = tinc * Stored + tinc
      BY TypesFacts DEF ScheduleInv
    <3>3. tk.elapsed >= tinc * Stored
      BY <1>1, <3>1, TypesFacts DEF ScheduleInv
    <3> QED
      BY <1>1, <3>1, <3>2, <3>3 DEF Awaited
  <2>3. Latest'
    BY <1>1, <2>1 DEF Latest
  <2>4. InTime'
    BY <1>1, <2>1 DEF InTime
  <2> QED
    BY <2>2, <2>3, <2>4
<1> QED
  BY <1>1, <1>2, <1>3 DEF Scheduled

(* The steps of hb once its thread runs, and of the clock.                 *)
LEMMA OthersSchedule ==
  ASSUME ScheduleInv, Types', Outer \/ Inner \/ FetchSec \/ FetchNsec \/ Join \/ TimePasses
  PROVE  Clocks' /\ Scheduled'
<1>1. UNCHANGED <<tk, ticks, tinc, tend>>
  BY DEF Outer, Inner, FetchSec, FetchNsec, Join, TimePasses, ticker, reader
<1>2. clock' = clock \/ clock' = clock + 1
  BY DEF Outer, Inner, FetchSec, FetchNsec, Join, TimePasses
<1> QED
  BY <1>1, <1>2, TypesFacts, ScheduleStays DEF ScheduleInv

LEMMA StepSchedule == ScheduleInv /\ Types' /\ Next => Clocks' /\ Scheduled'
<1> SUFFICES ASSUME ScheduleInv, Types', Next PROVE Clocks' /\ Scheduled'
  OBVIOUS
<1>1. CASE Start \/ Begin \/ Complete \/ Count \/ StoreSec
  <2>1. UNCHANGED <<ticks, tinc, tend, clock>>
    BY <1>1 DEF Start, Begin, Complete, Count, StoreSec, reader
  <2>2. UNCHANGED <<tk.elapsed, tk.next, tk.time>>
    BY <1>1 DEF Start, Begin, Complete, Count, StoreSec, ScheduleInv, Types, TickerTypes
  <2>3. \/ tk.at = "start" /\ tk'.at = "begin"
        \/ tk.at = "begin" /\ tk'.at = "sec"
        \/ tk.at = "sec" /\ tk'.at \in {"nsec", "wild"}
        \/ tk.at = "end" /\ tk'.at = "exited"
        \/ tk.at = "count" /\ tk'.at = IF tk.elapsed < tend THEN "spin" ELSE "end"
    BY <1>1 DEF Start, Begin, Complete, Count, StoreSec, ScheduleInv, Types, TickerTypes
  <2> QED
    BY <2>1, <2>2, <2>3, TickerSchedule
<1> QED
  BY <1>1, UnitsSchedule, CreateSchedule, OthersSchedule, StoreNsecSchedule, SpinSchedule, LeaveSchedule
  DEF Next, Ticker, Reader

LEMMA ScheduleInit == Init => Clocks /\ Scheduled
BY RequestsAssumption DEF Init, Clocks, Scheduled, Ints

(* What the ring needs and what the schedule needs, together.              *)
HeartbeatInv == RingInv /\ Clocks /\ Scheduled

LEMMA HeartbeatSteps == HeartbeatInv /\ [Next]_vars => HeartbeatInv'
<1> SUFFICES ASSUME HeartbeatInv, [Next]_vars PROVE HeartbeatInv'
  OBVIOUS
<1>1. RingInv'
  BY RingNext DEF HeartbeatInv
<1>2. ScheduleInv /\ Types'
  BY <1>1 DEF HeartbeatInv, RingInv, ScheduleInv
<1>3. Clocks' /\ Scheduled'
  <2>1. CASE UNCHANGED vars
    BY <2>1, <1>2, ScheduleStays, TypesFacts DEF vars, ticker, reader, ScheduleInv
  <2> QED
    BY <1>2, <2>1, StepSchedule
<1> QED
  BY <1>1, <1>3 DEF HeartbeatInv

LEMMA InvOnTime == HeartbeatInv => TicksOnTime
BY DEF HeartbeatInv, Scheduled, InTime, TicksOnTime, Stored

-----------------------------------------------------------------------------
(* systat: the calling thread's progress, what a thread that has ended     *)
(* left, and that none is running that was not created.                    *)
Progress ==
  /\ caller \in {"create", "join", "print", "returned", "aborted", "crashed"}
  /\ caller = "create" => printed = <<>>
  /\ caller \in {"join", "print"} => Len(printed) = index - 1
  /\ caller = "returned" => Len(printed) = S!N
  /\ Len(printed) <= S!N
Finished ==
  /\ caller = "print" => thread[index] = "exited"
  /\ \A i \in 1..Len(printed) : thread[i] = "exited" /\ printed[i] = buffer[i]
Uncreated ==
  /\ caller = "create" => \A i \in index..Sections : thread[i] = "none"
  /\ \A i \in S!Threads : i > S!N => thread[i] = "none"
Whole == \A i \in S!Threads : buffer[i] = "part" => thread[i] = "more"

SystatTypes ==
  /\ job \in {"systat", "cmdnm"}
  /\ index \in 1..S!N
  /\ thread \in [S!Threads -> {"none", "open", "header", "lines", "more", "close", "exited"}]
  /\ buffer \in [S!Threads -> {"empty", "path", "header", "part", "whole"}]
  /\ printed \in Seq({"empty", "path", "header", "part", "whole"})

SystatInv == SystatTypes /\ Progress /\ Finished /\ Uncreated /\ Whole

LEMMA Sizes == ASSUME SystatTypes PROVE S!N \in 1..Sections /\ Sections \in Nat /\ index \in S!Threads
<1>1. job \in {"systat", "cmdnm"} /\ index \in 1..S!N
  BY DEF SystatTypes
<1>2. Sections \in Nat /\ Sections >= 1
  BY SystatAssumption
<1>3. S!N \in {1, Sections}
  BY DEF S!N
<1> QED
  BY <1>1, <1>2, <1>3 DEF S!Threads

LEMMA SystatInit == S!Init => SystatInv
<1> SUFFICES ASSUME S!Init PROVE SystatInv
  OBVIOUS
<1>1. SystatTypes
  <2>1. S!N \in {1, Sections} /\ Sections \in Nat /\ Sections >= 1
    BY SystatAssumption DEF S!N
  <2>2. index \in 1..S!N
    BY <2>1 DEF S!Init
  <2> QED
    BY <2>2 DEF S!Init, SystatTypes
<1>2. Len(printed) = 0 /\ S!N \in Nat
  BY <1>1, Sizes DEF S!Init
<1>3. Progress /\ Finished
  BY <1>2 DEF S!Init, Progress, Finished
<1>4. Uncreated /\ Whole
  BY <1>1, Sizes DEF S!Init, Uncreated, Whole, S!Threads
<1> QED
  BY <1>1, <1>3, <1>4 DEF SystatInv

LEMMA SystatCreate == SystatInv /\ S!Create => SystatInv'
<1> SUFFICES ASSUME SystatInv, S!Create PROVE SystatInv'
  OBVIOUS
<1> USE DEF SystatInv
<1>1. caller = "create" /\ printed = <<>> /\ UNCHANGED <<job, buffer, printed, S!N>>
  BY DEF S!Create, Progress, S!N
<1>2. \/ caller' = "create" /\ index # S!N /\ index' = index + 1
      \/ caller' = "join" /\ index = S!N /\ index' = 1
      \/ caller' = "aborted" /\ index' = index
  BY DEF S!Create
<1>3. thread' = thread \/ (caller' # "aborted" /\ thread' = [thread EXCEPT ![index] = "open"])
  BY DEF S!Create
<1>4. SystatTypes'
  BY <1>1, <1>2, <1>3, Sizes DEF SystatTypes, S!Threads
<1>5. Progress' /\ Finished'
  BY <1>1, <1>2, Sizes DEF Progress, Finished
<1>6. Uncreated'
  BY <1>1, <1>2, <1>3, Sizes DEF Uncreated, SystatTypes, S!Threads
<1>7. Whole'
  <2>1. thread[index] = "none"
    BY <1>1, Sizes DEF Uncreated, SystatTypes
  <2> QED
    BY <1>1, <1>3, <2>1, Sizes DEF Whole, SystatTypes
<1> QED
  BY <1>4, <1>5, <1>6, <1>7

LEMMA SystatJoin == SystatInv /\ S!Join => SystatInv'
<1> SUFFICES ASSUME SystatInv, S!Join PROVE SystatInv'
  OBVIOUS
<1> USE DEF SystatInv
<1>1. UNCHANGED <<job, index, thread, buffer, printed, S!N>> /\ caller = "join" /\ caller' = "print"
  BY DEF S!Join, S!N
<1>2. thread[index] = "exited"
  BY DEF S!Join
<1> QED
  BY <1>1, <1>2 DEF SystatTypes, Progress, Finished, Uncreated, Whole

LEMMA SystatPrint == SystatInv /\ S!PrintBuffer => SystatInv'
<1> SUFFICES ASSUME SystatInv, S!PrintBuffer PROVE SystatInv'
  OBVIOUS
<1> USE DEF SystatInv
<1>1. /\ UNCHANGED <<job, thread, buffer, S!N>> /\ caller = "print"
      /\ \/ index = S!N /\ caller' = "returned" /\ index' = index
         \/ index # S!N /\ caller' = "join" /\ index' = index + 1
      /\ printed' = Append(printed, buffer[index])
  BY DEF S!PrintBuffer, S!N
<1>2. Len(printed) = index - 1 /\ thread[index] = "exited"
  BY <1>1 DEF Progress, Finished
<1>3. buffer[index] \in {"empty", "path", "header", "part", "whole"}
  BY Sizes DEF SystatTypes
<1>4. /\ printed' \in Seq({"empty", "path", "header", "part", "whole"}) /\ Len(printed') = index
      /\ printed'[index] = buffer[index] /\ \A i \in 1..(index - 1) : printed'[i] = printed[i]
  BY <1>1, <1>2, <1>3, Sizes DEF SystatTypes
<1>5. SystatTypes' /\ Progress'
  BY <1>1, <1>4, Sizes DEF SystatTypes, Progress
<1>6. Finished'
  <2>1. \A i \in 1..index : i = index \/ i \in 1..(index - 1)
    BY Sizes DEF SystatTypes
  <2> QED
    BY <1>1, <1>2, <1>4, <2>1 DEF Finished
<1>7. Uncreated' /\ Whole'
  BY <1>1 DEF Uncreated, Whole
<1> QED
  BY <1>5, <1>6, <1>7

(* A thread that takes a step has not exited, and was created.             *)
LEMMA SystatWork == ASSUME SystatInv, NEW i \in S!Threads, S!Work(i) PROVE SystatInv'
<1> USE DEF SystatInv
<1> DEFINE to == thread'[i]
<1>1. /\ thread[i] \in {"open", "header", "lines", "more", "close"}
      /\ thread' = [thread EXCEPT ![i] = to] /\ to \in {"header", "lines", "more", "close", "exited"}
  BY DEF S!Work, S!Open, S!Header, S!Lines, S!More, S!CloseFile, S!Step, SystatTypes
<1>2. UNCHANGED <<job, index, printed, S!N>> /\ (caller' = caller \/ caller' = "crashed")
  BY DEF S!Work, S!Open, S!Header, S!Lines, S!More, S!CloseFile, S!N
<1>3. \/ buffer' = buffer /\ (to = "more" => FALSE) /\ (thread[i] # "more")
      \/ buffer' = [buffer EXCEPT ![i] = "header"] /\ to # "more"
      \/ buffer' = [buffer EXCEPT ![i] = "part"] /\ to = "more"
      \/ buffer' = [buffer EXCEPT ![i] = "whole"]
  BY DEF S!Work, S!Open, S!Header, S!Lines, S!More, S!CloseFile, S!Step, SystatTypes
<1> HIDE DEF to
<1>4. SystatTypes'
  BY <1>1, <1>2, <1>3 DEF SystatTypes, S!Threads
<1>5. Progress'
  BY <1>2 DEF Progress
<1>6. \A k \in S!Threads : k # i => thread'[k] = thread[k] /\ buffer'[k] = buffer[k]
  BY <1>1, <1>3 DEF SystatTypes
<1>7. Finished'
  <2>1. \A k \in 1..Len(printed) : k \in S!Threads /\ k # i
    BY <1>1, Sizes DEF Finished, Progress, SystatTypes, S!Threads
  <2>2. caller = "print" => index # i
    BY <1>1 DEF Finished
  <2> QED
    BY <1>2, <1>6, <2>1, <2>2, Sizes DEF Finished
<1>8. Uncreated'
  BY <1>1, <1>2, <1>6, Sizes DEF Uncreated, SystatTypes, S!Threads
<1>9. Whole'
  <2>1. buffer'[i] = "part" => thread'[i] = "more"
    BY <1>1, <1>3 DEF Whole, SystatTypes
  <2> QED
    BY <1>6, <2>1 DEF Whole
<1> QED
  BY <1>4, <1>5, <1>7, <1>8, <1>9

LEMMA SystatSteps == SystatInv /\ S!Next => SystatInv'
BY SystatCreate, SystatJoin, SystatPrint, SystatWork DEF S!Next, S!Caller

LEMMA SystatStays == SystatInv /\ UNCHANGED systatVars => SystatInv'
BY DEF systatVars, SystatInv, SystatTypes, Progress, Finished, Uncreated, Whole, S!N

LEMMA InvFinished == SystatInv => S!TypeOK /\ S!PrintsFinishedBuffers /\ S!NoThreadOutlives
<1> SUFFICES ASSUME SystatInv PROVE S!TypeOK /\ S!PrintsFinishedBuffers /\ S!NoThreadOutlives
  OBVIOUS
<1> USE DEF SystatInv
<1>1. S!TypeOK
  BY DEF S!TypeOK, SystatTypes, Progress
<1>2. S!PrintsFinishedBuffers
  <2>1. \A i \in 1..Len(printed) : i \in S!Threads
    BY Sizes DEF Progress, SystatTypes, S!Threads
  <2> QED
    BY <2>1 DEF S!PrintsFinishedBuffers, Finished, Whole
<1>3. S!NoThreadOutlives
  BY Sizes DEF S!NoThreadOutlives, Finished, Progress, Uncreated, S!Threads
<1> QED
  BY <1>1, <1>2, <1>3

-----------------------------------------------------------------------------
(* cd and signal.  Of the last kill: it is what signal makes of its two    *)
(* arguments.                                                              *)
LastKill ==
  /\ kill = [args |-> kill.args, pid |-> kill.pid, sig |-> kill.sig, ok |-> kill.ok]
  /\ kill.args[1] \in Numbers \cup {0} /\ kill.args[2] \in Numbers \cup {0}
  /\ kill.args = <<kill.args[1], kill.args[2]>>
  /\ <<kill.pid, kill.sig>> = I!Target(kill.args[1], kill.args[2])
  /\ kill.args # <<0, 0>> => (kill.ok <=> I!Reachable(kill.pid) /\ kill.sig \in 0..64)
CdTypes ==
  /\ files \in [Paths -> I!FileKind]
  /\ doing \in {"idle", "chdir"}
  /\ path \in Paths
  /\ cwd \in [path : Paths \cup {I!Nowhere}, removed : BOOLEAN]
  /\ ret \in {0, -1, -2}
  /\ said \in Paths \cup {I!Nowhere, "blank"}

IntrinsicInv == LastKill /\ CdTypes /\ cwd.path = moved

LEMMA IntrinsicInit == I!Init => IntrinsicInv
<1> SUFFICES ASSUME I!Init PROVE IntrinsicInv
  OBVIOUS
<1>1. LastKill
  BY DEF I!Init, LastKill, I!Target
<1>2. CdTypes /\ cwd.path = moved
  BY DEF I!Init, CdTypes, I!Nowhere
<1> QED
  BY <1>1, <1>2 DEF IntrinsicInv

LEMMA IntrinsicSteps == IntrinsicInv /\ I!Next => IntrinsicInv'
<1> SUFFICES ASSUME IntrinsicInv, I!Next PROVE IntrinsicInv'
  OBVIOUS
<1> USE DEF IntrinsicInv
<1>1. CASE I!SendSignal
  <2>1. UNCHANGED <<files, doing, path, cwd, said, moved>> /\ ret' = 0
    BY <1>1 DEF I!SendSignal
  <2>2. PICK a1 \in Numbers, a2 \in Numbers :
          kill' = [args |-> <<a1, a2>>, pid |-> I!Target(a1, a2)[1], sig |-> I!Target(a1, a2)[2],
                   ok |-> I!Reachable(I!Target(a1, a2)[1]) /\ I!Target(a1, a2)[2] \in 0..64]
    BY <1>1 DEF I!SendSignal
  <2>3. PICK pid, sig : I!Target(a1, a2) = <<pid, sig>>
    BY DEF I!Target
  <2>4. kill' = [args |-> <<a1, a2>>, pid |-> pid, sig |-> sig, ok |-> I!Reachable(pid) /\ sig \in 0..64]
    BY <2>2, <2>3
  <2>5. /\ kill'.args = <<a1, a2>> /\ kill'.pid = pid /\ kill'.sig = sig
        /\ kill'.ok <=> I!Reachable(pid) /\ sig \in 0..64
        /\ kill' = [args |-> kill'.args, pid |-> kill'.pid, sig |-> kill'.sig, ok |-> kill'.ok]
    BY <2>4
  <2>6. LastKill'
    BY <2>3, <2>5 DEF LastKill
  <2> QED
    BY <2>1, <2>6 DEF CdTypes
<1>2. CASE I!CdStat
  BY <1>2 DEF I!CdStat, LastKill, CdTypes
<1>3. CASE I!CdChdir
  <2>1. UNCHANGED <<files, path, kill, said>> /\ doing' = "idle" /\ ret' \in {0, -1, -2}
    BY <1>3 DEF I!CdChdir
  <2>2. \/ cwd' = [path |-> path, removed |-> FALSE] /\ moved' = path
        \/ cwd' = cwd /\ moved' = moved
    BY <1>3 DEF I!CdChdir
  <2>3. LastKill'
    BY <2>1 DEF LastKill
  <2>4. cwd' \in [path : Paths \cup {I!Nowhere}, removed : BOOLEAN] /\ cwd'.path = moved'
    <3>1. path \in Paths /\ cwd \in [path : Paths \cup {I!Nowhere}, removed : BOOLEAN] /\ cwd.path = moved
      BY DEF CdTypes
    <3>2. CASE cwd' = [path |-> path, removed |-> FALSE] /\ moved' = path
      BY <3>1, <3>2
    <3>3. CASE cwd' = cwd /\ moved' = moved
      BY <3>1, <3>3
    <3> QED
      BY <2>2, <3>2, <3>3
  <2> QED
    BY <2>1, <2>3, <2>4 DEF CdTypes
<1>4. CASE I!Pwd
  BY <1>4 DEF I!Pwd, LastKill, CdTypes
<1>5. CASE I!FilesChange
  <2>1. UNCHANGED <<doing, path, ret, kill, said, moved>>
    BY <1>5 DEF I!FilesChange
  <2>2. cwd' = cwd \/ cwd' = [cwd EXCEPT !.removed = TRUE]
    BY <1>5 DEF I!FilesChange
  <2>3. files' \in [Paths -> I!FileKind]
    BY <1>5 DEF I!FilesChange, CdTypes
  <2> QED
    BY <2>1, <2>2, <2>3 DEF LastKill, CdTypes
<1> QED
  BY <1>1, <1>2, <1>3, <1>4, <1>5 DEF I!Next

LEMMA IntrinsicStays == IntrinsicInv /\ UNCHANGED intrinsicVars => IntrinsicInv'
BY DEF intrinsicVars, IntrinsicInv, LastKill, CdTypes

LEMMA InvSignals == IntrinsicInv => I!TypeOK /\ I!CdMovesOrSaysSo /\ I!SignalsTheProcess
<1> SUFFICES ASSUME IntrinsicInv PROVE I!TypeOK /\ I!CdMovesOrSaysSo /\ I!SignalsTheProcess
  OBVIOUS
<1> USE DEF IntrinsicInv
<1>1. I!TypeOK
  <2>1. <<kill.pid, kill.sig>> \in {<<kill.args[1], kill.args[2]>>, <<kill.args[2], kill.args[1]>>}
    BY DEF LastKill, I!Target
  <2> QED
    BY <2>1 DEF LastKill, CdTypes, I!TypeOK
<1>2. I!SignalsTheProcess
  <2> SUFFICES ASSUME NEW pid \in Live, NEW sig \in 1..32, pid > 32,
                      kill.args = <<sig, pid>> \/ kill.args = <<pid, sig>>
               PROVE  kill.pid = pid /\ kill.sig = sig /\ kill.ok
    BY DEF I!SignalsTheProcess
  <2>1. pid \in Nat /\ sig \in Nat /\ ~(sig > 32) /\ sig \in 0..64 /\ pid # 0
    BY NumbersAssumption
  <2>2. <<kill.pid, kill.sig>> = <<pid, sig>>
    BY <2>1 DEF LastKill, I!Target
  <2>3. kill.ok
    BY <2>1, <2>2 DEF LastKill, I!Reachable
  <2> QED
    BY <2>2, <2>3
<1> QED
  BY <1>1, <1>2 DEF I!CdMovesOrSaysSo

-----------------------------------------------------------------------------
(* The composition: whichever command runs, the others rest.               *)
CommandInv ==
  /\ program = "hb" => HeartbeatInv
  /\ program # "hb" => tk.at = "none" /\ shown = <<>> /\ ticks = <<>>
  /\ program = "systat" => SystatInv
  /\ program = "intrinsic" => IntrinsicInv

LEMMA CommandInit == MCInit => CommandInv
BY RingInit, ScheduleInit, SystatInit, IntrinsicInit
DEF MCInit, CommandInv, HeartbeatInv, HeartbeatRests

LEMMA CommandSteps == CommandInv /\ [MCNext]_allVars => CommandInv'
<1> SUFFICES ASSUME CommandInv, [MCNext]_allVars PROVE CommandInv'
  OBVIOUS
<1>1. UNCHANGED program
  BY DEF MCNext, allVars
<1>2. ASSUME program = "hb" PROVE HeartbeatInv'
  BY <1>2, HeartbeatSteps DEF MCNext, allVars, CommandInv
<1>3. ASSUME program # "hb" PROVE UNCHANGED vars
  BY <1>3 DEF MCNext, allVars
<1>4. ASSUME program = "systat" PROVE SystatInv'
  BY <1>4, SystatSteps, SystatStays DEF MCNext, allVars, CommandInv
<1>5. ASSUME program = "intrinsic" PROVE IntrinsicInv'
  BY <1>5, IntrinsicSteps, IntrinsicStays DEF MCNext, allVars, CommandInv
<1> QED
  BY <1>1, <1>2, <1>3, <1>4, <1>5 DEF CommandInv, vars, ticker, reader

(***************************************************************************)
(* Whatever the sizes of the ring and of int, the request and the way the  *)
(* threads interleave: hb prints the ticks in order, whole and each once,  *)
(* as long as the reader was neither lapped nor misled by a buffer_pos it  *)
(* found on the stack.                                                     *)
(***************************************************************************)
THEOREM PrintsInOrder == MCSpec => []PrintsTheTicks
<1>1. CommandInv => PrintsTheTicks
  BY InvPrints DEF CommandInv, HeartbeatInv, PrintsTheTicks
<1> QED
  BY <1>1, CommandInit, CommandSteps, PTL DEF MCSpec

(***************************************************************************)
(* With a positive increment no tick comes before its time, however long   *)
(* the thread or the clock is held up, and only the last is past tend.     *)
(***************************************************************************)
THEOREM KeepsTheSchedule == MCSpec => []TicksOnTime
<1>1. CommandInv => TicksOnTime
  BY InvOnTime DEF CommandInv, TicksOnTime
<1> QED
  BY <1>1, CommandInit, CommandSteps, PTL DEF MCSpec

(***************************************************************************)
(* For any number of files: what systat and cmdnm print is never written   *)
(* again, and no thread is left when their buffers go.                     *)
(***************************************************************************)
THEOREM BuffersFinal == MCSpec => []PrintsFinishedBuffers
<1>1. CommandInv => PrintsFinishedBuffers
  BY InvFinished DEF CommandInv, PrintsFinishedBuffers
<1> QED
  BY <1>1, CommandInit, CommandSteps, PTL DEF MCSpec

(***************************************************************************)
(* For any paths, numbers and processes: cd has moved the shell when it    *)
(* says so, and signal finds out which number is the process.              *)
(***************************************************************************)
THEOREM MovesAsSaid == MCSpec => []MovesAndSignals
<1>1. CommandInv => MovesAndSignals
  BY InvSignals DEF CommandInv, MovesAndSignals
<1> QED
  BY <1>1, CommandInit, CommandSteps, PTL DEF MCSpec
===============================================================================
