------------------------------- MODULE MCListings -------------------------------
(***************************************************************************)
(* Programs of the ALP listings that stand alone: threads that are         *)
(* cancelled and threads that end (chapter 4), the socket server, the      *)
(* semaphore and the pipes of chapter 5, loops of chapters 6 and 8 and     *)
(* appendix B, the calculator of appendix A, and the command lines of      *)
(* chapters 2 and 11.  `program' says which of them runs; the variables of *)
(* the others rest.                                                        *)
(***************************************************************************)
EXTENDS Integers, Sequences, FiniteSets

CONSTANTS Numerals, UIntMax, MaxTokens,  \* of Calculator
          Clients, Quitters, Slow,       \* of SocketServer
          Procs,                         \* of Semaphore
          Lines, Capacity,               \* of ForkedPipe
          Count, Width, MaxCalls,        \* of WholeLoops
          Accounts, Tellers, Money, Balances, Amounts, Precision,  \* of Transfer
          MaxThreads,                    \* of ThreadEnds
          Ports, PortRange, MaxWords     \* of Options

(* Nothing keeps a transfer from asking for less than nothing. *)
SomeAmounts == {-1, 3}

(* strtoul returns an unsigned number, a call can do one unit of what a    *)
(* loop asks for, the accounts can be summed up, two threads can be        *)
(* created, and a port has a width.                                        *)
ASSUME CalcAssumption == Numerals \subseteq Nat /\ UIntMax \in Nat
ASSUME LoopAssumption == Count \in Nat /\ Width \in Nat \ {0}
ASSUME BankAssumption == /\ IsFiniteSet(Accounts) /\ Money \in Int /\ Precision \in Nat
                         /\ Balances \subseteq Int /\ Amounts \subseteq Int
ASSUME EndAssumption  == MaxThreads \in Nat /\ MaxThreads >= 2
ASSUME PortAssumption == PortRange \in Nat \ {0}

VARIABLES program,
          at, line, stack, live, answer,
          server, serving, quit, backlog, client, wire, printed,
          where, exists, ready, value, adj,
          sorts, parent, child, unprinted, held, inPipe, writers, readers, shown,
          loop, left, next, done, calls, smooth, result,
          balance, teller, loaded, overlapped, exact, books,
          listing, main, created, thread, how, freed,
          tool, argv, optind, moved, settings, stage, outcome, echoed

C == INSTANCE Calculator
S == INSTANCE SocketServer
M == INSTANCE Semaphore
P == INSTANCE ForkedPipe WITH left <- unprinted, printed <- shown
W == INSTANCE WholeLoops
T == INSTANCE Transfer
E == INSTANCE ThreadEnds WITH next <- created
O == INSTANCE Options WITH at <- stage, printed <- echoed

calcVars == <<at, line, stack, live, answer>>
sockVars == <<server, serving, quit, backlog, client, wire, printed>>
semVars  == <<where, exists, ready, value, adj>>
pipeVars == <<sorts, parent, child, unprinted, held, inPipe, writers, readers, shown>>
loopVars == <<loop, left, next, done, calls, smooth, result>>
bankVars == <<balance, teller, loaded, overlapped, exact, books>>
endVars  == <<listing, main, created, thread, how, freed>>
optVars  == <<tool, argv, optind, moved, settings, stage, outcome, echoed>>
allVars  == <<program, calcVars, sockVars, semVars, pipeVars, loopVars, bankVars, endVars, optVars>>

CalcRests == at = "rests" /\ line = <<>> /\ stack = <<>> /\ live = 0 /\ answer = 0
SockRests == /\ server = "returned" /\ serving = (CHOOSE c \in Clients : TRUE) /\ quit = FALSE /\ backlog = <<>>
             /\ client = [c \in Clients |-> "closed"] /\ wire = [c \in Clients |-> <<>>] /\ printed = <<>>
SemRests  == /\ where = [p \in Procs |-> "away"] /\ exists = FALSE /\ ready = FALSE /\ value = 0
             /\ adj = [p \in Procs |-> 0]
PipeRests == /\ sorts = FALSE /\ parent = "ended" /\ child = "none" /\ unprinted = 0 /\ held = 0 /\ inPipe = 0
             /\ writers = {} /\ readers = {} /\ shown = 0
LoopRests == /\ loop = "write_all" /\ left = 0 /\ next = 1 /\ done = <<>> /\ calls = 0 /\ smooth = TRUE
             /\ result = "error"

BankRests == /\ balance = [a \in Accounts |-> 0] /\ books = balance /\ teller = <<>> /\ loaded = <<>>
             /\ overlapped = FALSE /\ exact = TRUE
EndRests  == /\ listing = "tsd" /\ main = "returned" /\ created = 1
             /\ thread = [i \in 1..MaxThreads |-> "none"] /\ how = [i \in 1..MaxThreads |-> "runs"]
             /\ freed = [i \in 1..MaxThreads |-> 0]
OptRests  == /\ tool = "server" /\ argv = <<>> /\ optind = 1 /\ moved = <<>> /\ settings = O!Defaults
             /\ stage = "ended" /\ outcome = "aborted" /\ echoed = <<>>

MCInit ==
  \/ program = "calculator" /\ C!Init /\ SockRests /\ SemRests /\ PipeRests /\ LoopRests /\ BankRests /\ EndRests /\ OptRests
  \/ program = "socket" /\ S!Init /\ CalcRests /\ SemRests /\ PipeRests /\ LoopRests /\ BankRests /\ EndRests /\ OptRests
  \/ program = "semaphore" /\ M!Init /\ CalcRests /\ SockRests /\ PipeRests /\ LoopRests /\ BankRests /\ EndRests /\ OptRests
  \/ program = "pipe" /\ P!Init /\ CalcRests /\ SockRests /\ SemRests /\ LoopRests /\ BankRests /\ EndRests /\ OptRests
  \/ program = "loop" /\ W!Init /\ CalcRests /\ SockRests /\ SemRests /\ PipeRests /\ BankRests /\ EndRests /\ OptRests
  \/ program = "bank" /\ T!Init /\ CalcRests /\ SockRests /\ SemRests /\ PipeRests /\ LoopRests /\ EndRests /\ OptRests
  \/ program = "end" /\ E!Init /\ CalcRests /\ SockRests /\ SemRests /\ PipeRests /\ LoopRests /\ BankRests /\ OptRests
  \/ /\ program = "options" /\ O!Init /\ CalcRests /\ SockRests /\ SemRests /\ PipeRests /\ LoopRests /\ BankRests
     /\ EndRests

MCNext ==
  /\ UNCHANGED program
  /\ \/ program = "calculator" /\ C!Next /\ UNCHANGED <<sockVars, semVars, pipeVars, loopVars, bankVars, endVars, optVars>>
     \/ program = "socket" /\ S!Next /\ UNCHANGED <<calcVars, semVars, pipeVars, loopVars, bankVars, endVars, optVars>>
     \/ program = "semaphore" /\ M!Next /\ UNCHANGED <<calcVars, sockVars, pipeVars, loopVars, bankVars, endVars, optVars>>
     \/ program = "pipe" /\ P!Next /\ UNCHANGED <<calcVars, sockVars, semVars, loopVars, bankVars, endVars, optVars>>
     \/ program = "loop" /\ W!Next /\ UNCHANGED <<calcVars, sockVars, semVars, pipeVars, bankVars, endVars, optVars>>
     \/ program = "bank" /\ T!Next /\ UNCHANGED <<calcVars, sockVars, semVars, pipeVars, loopVars, endVars, optVars>>
     \/ program = "end" /\ E!Next /\ UNCHANGED <<calcVars, sockVars, semVars, pipeVars, loopVars, bankVars, optVars>>
     \/ program = "options" /\ O!Next /\ UNCHANGED <<calcVars, sockVars, semVars, pipeVars, loopVars, bankVars, endVars>>

MCSpec == MCInit /\ [][MCNext]_allVars /\ S!Fairness /\ M!Fairness /\ P!Fairness

-------------------------------------------------------------------------------
(* Calculator: the answer is the value of the line, and every cell malloc  *)
(* gave is freed by the next prompt (calculator.c:58-100).                 *)
RightAnswer == program = "calculator" => C!RightAnswer /\ C!NothingLeaks

(* SocketServer: what a client has written is printed, whoever dies        *)
(* (socket-server.c:18-78).                                                *)
TextsPrinted == S!TextsPrinted

(* Semaphore: two are never inside (sem_pv.c:14-41).                       *)
MutualExclusion == program = "semaphore" => M!MutualExclusion

(* Semaphore: whoever waits gets in, though others are killed inside       *)
(* (sem_pv.c:21-22).                                                       *)
WaitersGetIn == M!WaitersGetIn

(* ForkedPipe: every line is printed and both ends end (pipe.c, dup2.c).   *)
EveryLinePrinted == P!EveryLinePrinted

(* WholeLoops: a loop that reports no error has done all of it.            *)
WholeOrError == program = "loop" => W!WholeOrError

(* Transfer: a cancelled thread leaves the balances alone or has changed   *)
(* both (critical-section.c:19-36).                                        *)
MoneyConserved == program = "bank" => T!MoneyConserved

(* ThreadEnds: what a thread held is released once, however it ends.       *)
LeavesNothing == program = "end" => E!LeavesNothing

(* Options: the settings are those of the last options given, and the      *)
(* first word that cannot be obeyed decides the exit (main.c:75-152).      *)
DoesAsTold == program = "options" => O!DoesAsTold
===============================================================================
