------------------------------ MODULE WholeLoops ------------------------------
(***************************************************************************)
(* Loops of the ALP listings around a system call that may do only a part  *)
(* of what it is asked for: write_all (appendix-b/write-all.c),            *)
(* better_sleep (chapter-8/better_sleep.c) and random_number               *)
(* (chapter-6/random_number.c).  What is to be done is Count bytes, or     *)
(* units of time.                                                          *)
(***************************************************************************)
EXTENDS Integers, Sequences

CONSTANTS Count,
          Width,    \* size_t holds 0 .. Width - 1
          MaxCalls  \* bound: system calls made

VARIABLES loop,   \* "write_all", "better_sleep" or "random_number"
          left,   \* left_to_write, tv or bytes_to_read
          next,   \* index of the byte next_random_byte points to
          done,   \* the bytes written or filled, in order; the time slept
          calls,  \* system calls made
          smooth, \* no call has done a part or been interrupted
          result  \* "none", "whole" or "error"

loopVars == <<loop, left, next, done, calls, smooth, result>>

Init == /\ loop \in {"write_all", "better_sleep", "random_number"}
        /\ left = Count /\ next = 1 /\ done = <<>> /\ calls = 0 /\ smooth = TRUE /\ result = "none"

Bytes(from, n) == [i \in 1 .. n |-> from + i - 1]

Call(name) == loop = name /\ result = "none" /\ calls < MaxCalls /\ calls' = calls + 1

(* write is always given the whole buffer, and left_to_write is unsigned.  *)
Write == /\ Call("write_all") /\ left > 0
         /\ \E n \in 1 .. Count : /\ done' = done \o Bytes(1, n)
                                  /\ left' = (left - n) % Width
                                  /\ smooth' = (smooth /\ n = Count)
         /\ UNCHANGED <<loop, next, result>>

Fails == /\ Call(loop) /\ loop # "random_number" /\ result' = "error"
         /\ UNCHANGED <<loop, left, next, done, smooth>>

(* Mutation: a single nanosleep, whatever it says.                         *)
SleepOnce == /\ Call("better_sleep") /\ result' = "whole"
             /\ \E n \in 0 .. left : done' = done \o Bytes(1, n) /\ left' = left - n /\ smooth' = (smooth /\ n = left)
             /\ UNCHANGED <<loop, next>>

(* nanosleep, which a signal may interrupt: the rest goes back into tv.    *)
Sleep == /\ Call("better_sleep")
         /\ \E n \in 0 .. left : /\ done' = done \o Bytes(Count - left + 1, n)
                                 /\ left' = left - n
                                 /\ result' = IF left' = 0 THEN "whole" ELSE "none"
                                 /\ smooth' = (smooth /\ n = left)
         /\ UNCHANGED <<loop, next>>

(* read from /dev/random gives a byte or more.                             *)
ReadRandom == /\ Call("random_number") /\ left > 0
              /\ \E n \in 1 .. left : /\ done' = done \o Bytes(next, n)
                                      /\ left' = left - n /\ next' = next + n
              /\ UNCHANGED <<loop, smooth, result>>

(* Interrupted, it gives -1, and the loop steps back a byte.               *)
ReadInterrupted == /\ Call("random_number") /\ left > 0
                   /\ left' = left + 1 /\ next' = next - 1 /\ smooth' = FALSE
                   /\ UNCHANGED <<loop, done, result>>

Return == /\ loop # "better_sleep" /\ result = "none" /\ left = 0 /\ result' = "whole"
          /\ UNCHANGED <<loop, left, next, done, calls, smooth>>

Next == Write \/ Fails \/ Sleep \/ ReadRandom \/ ReadInterrupted \/ Return

Spec == Init /\ [][Next]_loopVars
-------------------------------------------------------------------------------
(* A loop that reports no error has done all of it, once and in order:     *)
(* better_sleep however often it was interrupted, random_number however    *)
(* few bytes a read gives, if no read was interrupted (random_number.c:47  *)
(* steps back over -1), and write_all if no write was short.               *)
WholeOrError == result = "whole" /\ (loop = "better_sleep" \/ smooth) => done = Bytes(1, Count)

(* "Write all of COUNT bytes from BUFFER" (write-all.c:10): the bytes are  *)
(* written whatever writes are short.                                      *)
WritesAll == loop = "write_all" /\ result = "whole" => done = Bytes(1, Count)
===============================================================================
