------------------------------- MODULE Heartbeat -------------------------------
(***************************************************************************)
(* hb of dsh (prog2/run.c): the calling thread prints what a ticker thread *)
(* leaves in a ring of times.  The threads share buffer_pos, complete and  *)
(* the ring without a lock, so each access to one of them is a step; a     *)
(* time is two words, stored and fetched one after the other.              *)
(*                                                                         *)
(* Times are milliseconds since the ticker first read the clock.           *)
(***************************************************************************)
EXTENDS Integers, Sequences

CONSTANTS
  Requests,      \* the arguments, as <<tinc, tend, tval>>
  Second,        \* milliseconds in a second
  IntLimit,      \* an int is in -IntLimit .. IntLimit - 1
  Size,          \* HB_BUFFER_SIZE
  Leftovers,     \* what the stack may hold where hb_block.buffer_pos will be
  MaxClock,      \* bound: the clock stops there
  ThreadMayFail  \* whether pthread_create may fail

Ints == (-IntLimit)..(IntLimit - 1)

ASSUME RequestsAssumption == Requests \subseteq Ints \X Ints \X {"s", "ms", "min"}
ASSUME SizesAssumption ==
  /\ Second \in Nat \ {0} /\ IntLimit \in Nat \ {0} /\ Size \in Nat \ {0}
  /\ Size <= IntLimit /\ MaxClock \in Nat /\ Leftovers \subseteq Ints /\ ThreadMayFail \in BOOLEAN
(* 1024 divides 2^31: buffer_pos goes round the ring evenly even when it overflows. *)
ASSUME WidthAssumption == IntLimit % Size = 0

VARIABLES
  tinc, tend, tval,  \* hb's arguments
  bufferPos,         \* hb_block.buffer_pos
  complete,          \* hb_block.complete
  ring,              \* hb_block.time_buffer, each slot as <<tv_sec, tv_nsec>>
  clock,             \* CLOCK_REALTIME
  tk,                \* the ticker: where it is, elapsed, next and Time
  rd,                \* hb: where it is, buffer_read_pos and its half of Time
  ticks,             \* history: the times the ticker stored
  shown,             \* history: the times printed
  clean              \* history: no slot was fetched before the ticker had set
                     \* buffer_pos, none overwritten before it was fetched

ticker == <<bufferPos, complete, ring, tk, ticks>>
reader == <<tinc, tend, tval, rd, shown>>
vars   == <<ticker, reader, clock, clean>>

Unset == -1  \* a word of the ring nobody has written

(* The conversion an int arithmetic result undergoes in the build. *)
Wrap(x) == ((x + IntLimit) % (2 * IntLimit)) - IntLimit

Init ==
  /\ \E r \in Requests : tinc = r[1] /\ tend = r[2] /\ tval = r[3]
  /\ bufferPos \in Leftovers
  /\ complete = FALSE
  /\ ring = [i \in 0..(Size - 1) |-> <<Unset, Unset>>]
  /\ clock = 0
  /\ tk = [at |-> "none", elapsed |-> 0, next |-> 0, time |-> 0]
  /\ rd = [at |-> "enter", pos |-> 0, sec |-> Unset]
  /\ ticks = <<>>
  /\ shown = <<>>
  /\ clean = TRUE

-----------------------------------------------------------------------------
(* The calling thread.                                                     *)

(* An unknown unit is refused; seconds become milliseconds. *)
Units ==
  /\ rd.at = "enter"
  /\ IF tval = "min"
     THEN rd' = [rd EXCEPT !.at = "refused"] /\ UNCHANGED <<tinc, tend>>
     ELSE /\ rd' = [rd EXCEPT !.at = "create"]
          /\ tinc' = IF tval = "s" THEN Wrap(tinc * Second) ELSE tinc
          /\ tend' = IF tval = "s" THEN Wrap(tend * Second) ELSE tend
  /\ UNCHANGED <<tval, shown, ticker, clock, clean>>

(* pthread_create, and the assert on its result. *)
Create ==
  /\ rd.at = "create"
  /\ \/ /\ rd' = [rd EXCEPT !.at = "outer"]
        /\ tk' = [tk EXCEPT !.at = "start", !.next = tinc]
     \/ /\ ThreadMayFail
        /\ rd' = [rd EXCEPT !.at = "aborted"]
        /\ UNCHANGED tk
  /\ UNCHANGED <<tinc, tend, tval, bufferPos, complete, ring, clock, ticks, shown, clean>>

(* while( !hb_block.complete ) *)
Outer ==
  /\ rd.at = "outer"
  /\ rd' = [rd EXCEPT !.at = IF complete THEN "join" ELSE "inner"]
  /\ UNCHANGED <<tinc, tend, tval, shown, ticker, clock, clean>>

(* Mutation: the reader looks one slot too far. *)
InnerReadsAhead ==
  /\ rd.at = "inner"
  /\ rd' = [rd EXCEPT !.at = IF rd.pos <= bufferPos THEN "sec" ELSE "outer"]
  /\ clean' = (clean /\ (rd.pos <= bufferPos => tk.at # "start"))
  /\ UNCHANGED <<tinc, tend, tval, shown, ticker, clock>>

(* while( buffer_read_pos < hb_block.buffer_pos ) *)
Inner ==
  /\ rd.at = "inner"
  /\ rd' = [rd EXCEPT !.at = IF rd.pos < bufferPos THEN "sec" ELSE "outer"]
  /\ clean' = (clean /\ (rd.pos < bufferPos => tk.at # "start"))
  /\ UNCHANGED <<tinc, tend, tval, shown, ticker, clock>>

(* The first word of the slot. *)
FetchSec ==
  /\ rd.at = "sec"
  /\ rd' = [rd EXCEPT !.at = "nsec", !.sec = ring[rd.pos % Size][1]]
  /\ UNCHANGED <<tinc, tend, tval, shown, ticker, clock, clean>>

(* The second word; then buffer_read_pos++ and the line is printed. *)
FetchNsec ==
  /\ rd.at = "nsec"
  /\ rd' = [at |-> "inner", pos |-> rd.pos + 1, sec |-> Unset]
  /\ shown' = Append(shown, <<rd.sec, ring[rd.pos % Size][2]>>)
  /\ UNCHANGED <<tinc, tend, tval, ticker, clock, clean>>

(* pthread_join, and hb returns 0. *)
Join ==
  /\ rd.at = "join"
  /\ tk.at = "exited"
  /\ rd' = [rd EXCEPT !.at = "returned"]
  /\ UNCHANGED <<tinc, tend, tval, shown, ticker, clock, clean>>

-----------------------------------------------------------------------------
(* The ticker thread.                                                      *)

(* buffer_pos = 0, the first look at the clock, complete = 0. *)
Start ==
  /\ tk.at = "start"
  /\ bufferPos' = 0
  /\ tk' = [tk EXCEPT !.at = "begin"]
  /\ UNCHANGED <<complete, ring, ticks, clean, reader, clock>>

Begin ==
  /\ tk.at = "begin"
  /\ complete' = FALSE
  /\ tk' = [tk EXCEPT !.at = "sec"]
  /\ UNCHANGED <<bufferPos, ring, ticks, clean, reader, clock>>

(* The slot at buffer_pos % HB_BUFFER_SIZE; C's remainder of a negative    *)
(* int is not in the ring, and what the store then hits is anybody's.      *)
StoreSec ==
  /\ tk.at = "sec"
  /\ IF bufferPos < 0 /\ bufferPos % Size # 0
     THEN tk' = [tk EXCEPT !.at = "wild"] /\ UNCHANGED <<ring, clean>>
     ELSE /\ ring' = [ring EXCEPT ![bufferPos % Size][1] = tk.time]
          /\ tk' = [tk EXCEPT !.at = "nsec"]
          /\ clean' = (clean /\ Len(ticks) - rd.pos < Size)
  /\ UNCHANGED <<bufferPos, complete, ticks, reader, clock>>

StoreNsec ==
  /\ tk.at = "nsec"
  /\ ring' = [ring EXCEPT ![bufferPos % Size][2] = tk.time]
  /\ ticks' = Append(ticks, tk.time)
  /\ tk' = [tk EXCEPT !.at = "count"]
  /\ UNCHANGED <<bufferPos, complete, clean, reader, clock>>

(* buffer_pos++, then the test of elapsed against tend. *)
Count ==
  /\ tk.at = "count"
  /\ bufferPos' = Wrap(bufferPos + 1)
  /\ tk' = [tk EXCEPT !.at = IF tk.elapsed < tend THEN "spin" ELSE "end"]
  /\ UNCHANGED <<complete, ring, ticks, clean, reader, clock>>

(* while( elapsed < next ): look at the clock once more. *)
Spin ==
  /\ tk.at = "spin"
  /\ tk.elapsed < tk.next
  /\ tk' = [tk EXCEPT !.elapsed = clock, !.time = clock]
  /\ UNCHANGED <<bufferPos, complete, ring, ticks, clean, reader, clock>>

(* Mutation: next is not moved on. *)
LeaveKeepsNext ==
  /\ tk.at = "spin"
  /\ ~(tk.elapsed < tk.next)
  /\ tk' = [tk EXCEPT !.at = "sec"]
  /\ UNCHANGED <<bufferPos, complete, ring, ticks, clean, reader, clock>>

(* The loop is left, next += tinc, and on to the next tick. *)
Leave ==
  /\ tk.at = "spin"
  /\ ~(tk.elapsed < tk.next)
  /\ tk' = [tk EXCEPT !.at = "sec", !.next = @ + tinc]
  /\ UNCHANGED <<bufferPos, complete, ring, ticks, clean, reader, clock>>

(* complete = 1, pthread_exit. *)
Complete ==
  /\ tk.at = "end"
  /\ complete' = TRUE
  /\ tk' = [tk EXCEPT !.at = "exited"]
  /\ UNCHANGED <<bufferPos, ring, ticks, clean, reader, clock>>

(* Milliseconds pass while hb runs. *)
TimePasses ==
  /\ tk.at \notin {"none", "start", "begin", "exited"}
  /\ clock < MaxClock
  /\ clock' = clock + 1
  /\ UNCHANGED <<ticker, reader, clean>>

-----------------------------------------------------------------------------
Ticker == Start \/ Begin \/ StoreSec \/ StoreNsec \/ Count \/ Spin \/ Leave \/ Complete
Reader == Units \/ Create \/ Outer \/ Inner \/ FetchSec \/ FetchNsec \/ Join

Next == Ticker \/ Reader \/ TimePasses

(* Two threads the scheduler runs, neither of which blocks except in the   *)
(* join, and a clock that advances.                                        *)
Fairness == WF_vars(Ticker) /\ WF_vars(Reader) /\ WF_vars(TimePasses)

Spec == Init /\ [][Next]_vars /\ Fairness

-----------------------------------------------------------------------------
(***************************************************************************)
(* Every variable has its type (hb's arguments, struct hb_elapsed_t and    *)
(* the locals of the two threads).                                         *)
(***************************************************************************)
TypeOK ==
  /\ {tinc, tend, bufferPos} \subseteq Ints
  /\ tval \in {"s", "ms", "min"}
  /\ complete \in BOOLEAN /\ clean \in BOOLEAN
  /\ clock \in 0..MaxClock
  /\ ring \in [0..(Size - 1) -> (0..MaxClock \cup {Unset}) \X (0..MaxClock \cup {Unset})]
  /\ tk.at \in {"none", "start", "begin", "sec", "nsec", "count", "spin",
                "end", "exited", "wild"}
  /\ tk.elapsed \in 0..clock /\ tk.time = tk.elapsed
  /\ rd.at \in {"enter", "refused", "create", "aborted", "outer", "inner",
                "sec", "nsec", "join", "returned"}
  /\ rd.pos = Len(shown)

(***************************************************************************)
(* The ring hands the times over although nothing guards it: unless the    *)
(* ticker overtook the reader by the whole ring, or the reader went by a   *)
(* buffer_pos the ticker had not set yet, the lines printed are the first  *)
(* times stored, in order, each once and none of them torn.                *)
(***************************************************************************)
PrintsTheTicks ==
  clean => /\ Len(shown) <= Len(ticks)
           /\ \A i \in 1..Len(shown) : shown[i] = <<ticks[i], ticks[i]>>

(***************************************************************************)
(* The ticker keeps its schedule: with a positive increment no tick comes  *)
(* before its time, however late the thread was with the ones before, and  *)
(* only the last of them is at or past tend.                               *)
(***************************************************************************)
TicksOnTime ==
  tinc > 0 /\ tk.at # "none" =>
    \A i \in 1..Len(ticks) :
      /\ ticks[i] >= (i - 1) * tinc
      /\ i > 1 => ticks[i - 1] <= ticks[i] /\ ticks[i - 1] < tend

(***************************************************************************)
(* hb returns once its thread runs: the ticker reaches tend and the reader *)
(* sees complete, whichever of the two is ahead.                           *)
(***************************************************************************)
Returns == rd.at = "outer" ~> rd.at = "returned"

-----------------------------------------------------------------------------
(* What the documentation says, and the code does not do.                  *)

(***************************************************************************)
(* "Prints the current time every <tinc> s/ms until <tend>." (prog2.tex:   *)
(* 295): when hb returns, every tick has been printed.                     *)
(***************************************************************************)
EveryTickPrinted == rd.at = "returned" => Len(shown) = Len(ticks)
=============================================================================
