------------------------------ MODULE MCCommands ------------------------------
(***************************************************************************)
(* The commands of dsh that meet other threads, processes or shells: hb    *)
(* (Heartbeat), systat and cmdnm (Systat), signal, cd and pwd (Intrinsics) *)
(* and the remote pipes (RemotePipe).  `program' says which of them runs;  *)
(* the variables of the others rest.                                       *)
(***************************************************************************)
EXTENDS MCHeartbeat

CONSTANTS Sections, Memfo,       \* of Systat
          Numbers, Live, Paths,  \* of Intrinsics
          Shells, Chunks, MaxLines

ASSUME SystatAssumption  == Sections \in Nat \ {0} /\ Memfo \in 1..Sections
ASSUME NumbersAssumption == Numbers \subseteq Int /\ Live \subseteq Nat \ {0}

VARIABLES program,
          job, caller, index, thread, buffer, printed,
          files, doing, path, cwd, ret, kill, said, moved,
          at, typed, port, queue, peer, conn, sent, got

S == INSTANCE Systat WITH pc <- caller
I == INSTANCE Intrinsics WITH pc <- doing, shown <- said
R == INSTANCE RemotePipe

systatVars    == <<job, caller, index, thread, buffer, printed>>
intrinsicVars == <<files, doing, path, cwd, ret, kill, said, moved>>
remoteVars    == <<at, typed, port, queue, peer, conn, sent, got>>
allVars       == <<program, vars, systatVars, intrinsicVars, remoteVars>>

(* Signals and processes on both sides of 32, a group, nonsense.           *)
MCNumbers == {-400, 9, 33, 400}
MCLive    == {33, 400}

HeartbeatRests ==
  /\ tinc = 1 /\ tend = 0 /\ tval = "min" /\ bufferPos = 0 /\ complete = FALSE /\ clock = 0
  /\ ring = [i \in 0..(Size - 1) |-> <<Unset, Unset>>] /\ ticks = <<>> /\ shown = <<>> /\ clean = TRUE
  /\ tk = [at |-> "none", elapsed |-> 0, next |-> 0, time |-> 0]
  /\ rd = [at |-> "refused", pos |-> 0, sec |-> Unset]
SystatRests ==
  /\ job = "systat" /\ caller = "returned" /\ index = 1 /\ printed = <<>>
  /\ thread = [i \in 1..Sections |-> "none"] /\ buffer = [i \in 1..Sections |-> "empty"]
IntrinsicsRest ==
  /\ files = [p \in Paths |-> "none"] /\ doing = "rests" /\ path = "a" /\ ret = 0 /\ said = "nowhere"
  /\ cwd = [path |-> "nowhere", removed |-> FALSE] /\ moved = "nowhere"
  /\ kill = [args |-> <<0, 0>>, pid |-> 0, sig |-> 0, ok |-> TRUE]
RemoteRests ==
  /\ at = [s \in Shells |-> "prompt"] /\ typed = [s \in Shells |-> MaxLines] /\ port = "free"
  /\ queue = <<>> /\ peer = [s \in Shells |-> "nobody"] /\ conn = [s \in Shells |-> "none"]
  /\ sent = [s \in Shells |-> 0] /\ got = [s \in Shells |-> 0]

MCInit ==
  \/ program = "hb" /\ Init /\ SystatRests /\ IntrinsicsRest /\ RemoteRests
  \/ program = "systat" /\ S!Init /\ HeartbeatRests /\ IntrinsicsRest /\ RemoteRests
  \/ program = "intrinsic" /\ I!Init /\ HeartbeatRests /\ SystatRests /\ RemoteRests
  \/ program = "remote" /\ R!Init /\ HeartbeatRests /\ SystatRests /\ IntrinsicsRest

MCNext ==
  /\ UNCHANGED program
  /\ \/ program = "hb" /\ Next /\ UNCHANGED <<systatVars, intrinsicVars, remoteVars>>
     \/ program = "systat" /\ S!Next /\ UNCHANGED <<vars, intrinsicVars, remoteVars>>
     \/ program = "intrinsic" /\ I!Next /\ UNCHANGED <<vars, systatVars, remoteVars>>
     \/ program = "remote" /\ R!Next /\ UNCHANGED <<vars, systatVars, intrinsicVars>>

MCSpec == MCInit /\ [][MCNext]_allVars /\ Fairness /\ S!Fairness /\ R!Fairness

-------------------------------------------------------------------------------
(* Systat: only finished buffers are printed, in the order of the files    *)
(* (run.c:213-230), and no thread outlives the frame that holds them.      *)
PrintsFinishedBuffers == program = "systat" => S!TypeOK /\ S!PrintsFinishedBuffers /\ S!NoThreadOutlives

(* Systat: the threads that are joined exist and end (run.c:213-227).      *)
SystatReturns == S!ComesBack

(* Intrinsics: cd returns 0 if and only if it moved (run.c:242-257), and   *)
(* signal finds out which number is the process (run.c:78-86).             *)
MovesAndSignals == program = "intrinsic" => I!TypeOK /\ I!CdMovesOrSaysSo /\ I!SignalsTheProcess

(* RemotePipe: the two ends of a connection let go (special.c:405-485).    *)
BothReturn == R!BothReturn
===============================================================================
