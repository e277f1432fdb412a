----------------------------- MODULE ShellProofs -----------------------------
(***************************************************************************)
(* For any set of lines, any number of rounds and any faults: main owns    *)
(* what it frees, no output is duplicated, and the shell ends or dies only *)
(* where it should; the first version of the shell takes the lines of any  *)
(* input in turn; and dsh_prompt passes its lines on whole.                *)
(***************************************************************************)
EXTENDS MCShell, SequenceTheorems, TLAPS

(* An object of this round is alive only while main points to it, but for  *)
(* a line whose realloc failed.                                            *)
Owned ==
  /\ "line" \in heap => input = "line" \/ MemoryMayFail
  /\ "vector" \in heap => argList = "vector"
  /\ pc = "prompt" => heap = {}

(* From main's fflush to the fork stdio holds nothing. *)
Flushed == pc \in {"dispatch", "fork"} => ~unflushed

(* status is 2 on the way out of the loop only. *)
LeavesAtExit == status = 2 => pc \in {"loop", "ended"} /\ IsExit

(* Why there may be no vector, or no parse_set. *)
NoVectorExplained ==
  pc = "special" /\ argList = "NULL" => line.kind \in {"spaces", "unmatched"}
NoSetExplained == pc = "dispatch" /\ mode = -2 => MemoryMayFail

(* Which lines get as far as run_special, and which stay where they are. *)
KindsKept ==
  /\ pc = "dispatch" /\ mode > 0 => line.kind = "operators"
  /\ pc = "pipeline" => line.kind = "operators"
  /\ pc = "stays" => line.kind = "intrinsic" /\ line.name \in {"hb", "signal"} /\ line.effect # "returns"

IInv ==
  /\ TypeOK
  /\ FreesItsOwn
  /\ KindsKept
  /\ NoOutputTwice
  /\ OnlyExitEnds
  /\ OnlyBadLinesCrash
  /\ Owned
  /\ Flushed
  /\ LeavesAtExit
  /\ NoVectorExplained
  /\ NoSetExplained

(* The status word of an exit code. *)
LEMMA StatusWords == \A c \in 0..255 : 256 * c \in StatusWord
  BY DEF StatusWord

LEMMA InitInv == Init => IInv
<1> SUFFICES ASSUME Init PROVE IInv
  OBVIOUS
<1>1. MainTypes
  BY DEF Init, MainTypes
<1>2. ChildTypes
  <2>1. 0 \in 0..255 /\ 256 * 0 = 0
    OBVIOUS
  <2>2. 0 \in StatusWord
    BY <2>1, StatusWords
  <2> QED
    BY <2>2 DEF Init, ChildTypes, NoChild
<1> QED
  BY <1>1, <1>2
  DEF Init, IInv, TypeOK, FreesItsOwn, KindsKept, NoOutputTwice, OnlyExitEnds,
      OnlyBadLinesCrash, Owned, Flushed, LeavesAtExit, NoVectorExplained, NoSetExplained, NoChild

(* What parse_special may return. *)
LEMMA ResultsOfSpecial ==
  ASSUME NEW r \in SpecialResults
  PROVE  /\ r[1] \in -2..1
         /\ r[2] \in {"NULL", "set"}
         /\ r[3] \subseteq {"set", "fields"}
         /\ r[1] > 0 => line.kind = "operators"
         /\ r[1] = -1 => line.kind = "mistake"
         /\ r[1] = -2 => MemoryMayFail
  BY DEF SpecialResults

(* What a step of each action leaves of the invariant. *)
LEMMA StepInv == IInv /\ [Next]_vars => IInv'
<1> SUFFICES ASSUME IInv, [Next]_vars PROVE IInv'
  OBVIOUS
<1> USE DEF IInv
<1>1. CASE Prompt
  <2>1. MainTypes'
    <3>1. line' \in Lines /\ argList' = "NULL" /\ UNCHANGED <<faults, mode, specRes, lost>>
      BY <1>1, Zenon DEF Prompt
    <3>2. /\ status' \in {-1, 0, 1, 2} /\ pc' \in {"loop", "parse"}
          /\ input' \in {"NULL", "line"} /\ heap' \in {heap, heap \cup {"line"}}
      BY <1>1, Zenon DEF Prompt
    <3> QED
      BY <3>1, <3>2 DEF MainTypes, TypeOK, Objects
  <2>2. ChildTypes'
    BY <1>1 DEF Prompt, ChildTypes, TypeOK
  <2>3. (FreesItsOwn /\ Owned)'
    BY <1>1 DEF Prompt, FreesItsOwn, Owned, MemoryMayFail, TypeOK, MainTypes, Objects
  <2>4. (KindsKept /\ NoSetExplained /\ NoVectorExplained)'
    BY <1>1 DEF Prompt, KindsKept, NoSetExplained, NoVectorExplained, MemoryMayFail
  <2>5. (NoOutputTwice /\ Flushed)'
    BY <1>1 DEF Prompt, NoOutputTwice, Flushed, TypeOK, ChildTypes
  <2>6. (OnlyExitEnds /\ LeavesAtExit)'
    <3>1. pc' \in {"loop", "parse"}
      BY <1>1, Zenon DEF Prompt
    <3>2. status' = 2 => line'.kind = "exit" /\ pc' = "loop"
      BY <1>1 DEF Prompt
    <3> QED
      BY <3>1, <3>2 DEF OnlyExitEnds, LeavesAtExit, IsExit
  <2>7. OnlyBadLinesCrash'
    BY <1>1 DEF Prompt, OnlyBadLinesCrash, NoSetExplained, MemoryMayFail, ForkMayFail, ThreadMayFail, LacksThread, DiesAlone
  <2> QED
    BY <2>1, <2>2, <2>3, <2>4, <2>5, <2>6, <2>7 DEF TypeOK
<1>2. CASE ParseInput
  <2>1. MainTypes'
    <3>1. UNCHANGED <<faults, line, mode, input, specRes, lost>>
      BY <1>2, Zenon DEF ParseInput
    <3>2. /\ status' \in {-1, 0, status} /\ pc' \in {"special", "crashed"}
          /\ argList' \in {argList, "vector"} /\ heap' \in {heap, heap \cup {"vector"}}
      BY <1>2, Zenon DEF ParseInput
    <3> QED
      BY <3>1, <3>2 DEF MainTypes, TypeOK, Objects
  <2>2. ChildTypes'
    BY <1>2 DEF ParseInput, ChildTypes, TypeOK
  <2>3. (FreesItsOwn /\ Owned)'
    BY <1>2 DEF ParseInput, FreesItsOwn, Owned, MemoryMayFail, TypeOK, MainTypes, Objects
  <2>4. (KindsKept /\ NoSetExplained /\ NoVectorExplained)'
    BY <1>2
    DEF ParseInput, KindsKept, NoSetExplained, NoVectorExplained,
        MemoryMayFail
  <2>5. (NoOutputTwice /\ Flushed)'
    BY <1>2 DEF ParseInput, NoOutputTwice, Flushed, TypeOK, ChildTypes
  <2>6. (OnlyExitEnds /\ LeavesAtExit)'
    BY <1>2 DEF ParseInput, OnlyExitEnds, LeavesAtExit, TypeOK, MainTypes, IsExit
  <2>7. OnlyBadLinesCrash'
    BY <1>2 DEF ParseInput, OnlyBadLinesCrash, NoSetExplained, MemoryMayFail, ForkMayFail, ThreadMayFail, LacksThread, DiesAlone
  <2> QED
    BY <2>1, <2>2, <2>3, <2>4, <2>5, <2>6, <2>7 DEF TypeOK
<1>3. CASE ParseSpecial
  <2>1. MainTypes'
    BY <1>3, ResultsOfSpecial DEF ParseSpecial, MainTypes, TypeOK, Objects
  <2>2. ChildTypes'
    BY <1>3 DEF ParseSpecial, ChildTypes, TypeOK
  <2>3. (FreesItsOwn /\ Owned)'
    BY <1>3, ResultsOfSpecial
    DEF ParseSpecial, FreesItsOwn, Owned, MemoryMayFail, TypeOK, MainTypes, Objects
  <2>4. (KindsKept /\ NoSetExplained /\ NoVectorExplained)'
    BY <1>3, ResultsOfSpecial
    DEF ParseSpecial, KindsKept, NoSetExplained, NoVectorExplained,
        MemoryMayFail
  <2>5. (NoOutputTwice /\ Flushed)'
    BY <1>3 DEF ParseSpecial, NoOutputTwice, Flushed, TypeOK, ChildTypes
  <2>6. (OnlyExitEnds /\ LeavesAtExit)'
    BY <1>3 DEF ParseSpecial, OnlyExitEnds, LeavesAtExit, TypeOK, MainTypes, IsExit
  <2>7. OnlyBadLinesCrash'
    <3>1. pc' # "killed" /\ UNCHANGED <<faults, line>>
      BY <1>3, ZenonT(30) DEF ParseSpecial
    <3>2. CASE argList # "NULL"
      <4>1. PICK r \in SpecialResults :
              pc' \in {"dispatch"} \cup (IF FreesJunk(r) THEN {"crashed"} ELSE {})
        BY <1>3, <3>2, Zenon DEF ParseSpecial
      <4>2. pc' = "crashed" => MemoryMayFail \/ line.kind = "mistake"
        BY <4>1, ResultsOfSpecial DEF FreesJunk
      <4> QED
        BY <3>1, <4>2 DEF OnlyBadLinesCrash, MemoryMayFail, ForkMayFail, ThreadMayFail, LacksThread, DiesAlone
    <3>3. CASE argList = "NULL"
      <4>1. line.kind \in {"spaces", "unmatched"}
        BY <1>3, <3>3 DEF ParseSpecial, NoVectorExplained
      <4> QED
        BY <3>1, <4>1 DEF OnlyBadLinesCrash, MemoryMayFail, ForkMayFail, ThreadMayFail, LacksThread, DiesAlone
    <3> QED
      BY <3>2, <3>3
  <2> QED
    BY <2>1, <2>2, <2>3, <2>4, <2>5, <2>6, <2>7 DEF TypeOK
<1>4. CASE SyntaxError
  <2>1. MainTypes'
    BY <1>4 DEF SyntaxError, MainTypes, TypeOK
  <2>2. ChildTypes'
    BY <1>4 DEF SyntaxError, ChildTypes, TypeOK
  <2>3. (FreesItsOwn /\ Owned)'
    BY <1>4 DEF SyntaxError, FreesItsOwn, Owned, MemoryMayFail
  <2>4. (KindsKept /\ NoSetExplained /\ NoVectorExplained)'
    BY <1>4
    DEF SyntaxError, KindsKept, NoSetExplained, NoVectorExplained,
        MemoryMayFail
  <2>5. (NoOutputTwice /\ Flushed)'
    BY <1>4 DEF SyntaxError, NoOutputTwice, Flushed, TypeOK, ChildTypes
  <2>6. (OnlyExitEnds /\ LeavesAtExit)'
    BY <1>4 DEF SyntaxError, OnlyExitEnds, LeavesAtExit, TypeOK, MainTypes, IsExit
  <2>7. OnlyBadLinesCrash'
    BY <1>4 DEF SyntaxError, OnlyBadLinesCrash, NoSetExplained, MemoryMayFail, ForkMayFail, ThreadMayFail, LacksThread, DiesAlone
  <2> QED
    BY <2>1, <2>2, <2>3, <2>4, <2>5, <2>6, <2>7 DEF TypeOK
<1>5. CASE RunIntrinsic
  <2>1. MainTypes'
    BY <1>5 DEF RunIntrinsic, MainTypes, TypeOK, RunResults, Acts
  <2>2. ChildTypes'
    BY <1>5 DEF RunIntrinsic, ChildTypes, TypeOK
  <2>3. (FreesItsOwn /\ Owned)'
    BY <1>5 DEF RunIntrinsic, FreesItsOwn, Owned, MemoryMayFail
  <2>4. (KindsKept /\ NoSetExplained /\ NoVectorExplained)'
    BY <1>5
    DEF RunIntrinsic, KindsKept, NoSetExplained, NoVectorExplained,
        MemoryMayFail, Acts
  <2>5. (NoOutputTwice /\ Flushed)'
    BY <1>5 DEF RunIntrinsic, NoOutputTwice, Flushed, TypeOK, ChildTypes
  <2>6. (OnlyExitEnds /\ LeavesAtExit)'
    BY <1>5
    DEF RunIntrinsic, OnlyExitEnds, LeavesAtExit, TypeOK, MainTypes, IsExit,
        RunResults, Acts
  <2>7. OnlyBadLinesCrash'
    BY <1>5
    DEF RunIntrinsic, MayDie, Asserts, Acts, OnlyBadLinesCrash, NoSetExplained, MemoryMayFail,
        ForkMayFail, ThreadMayFail, LacksThread, DiesAlone
  <2> QED
    BY <2>1, <2>2, <2>3, <2>4, <2>5, <2>6, <2>7 DEF TypeOK
<1>6. CASE RunProgram
  <2>1. MainTypes'
    BY <1>6 DEF RunProgram, MainTypes, TypeOK
  <2>2. ChildTypes'
    BY <1>6 DEF RunProgram, ChildTypes, TypeOK
  <2>3. (FreesItsOwn /\ Owned)'
    BY <1>6 DEF RunProgram, FreesItsOwn, Owned, MemoryMayFail
  <2>4. (KindsKept /\ NoSetExplained /\ NoVectorExplained)'
    BY <1>6
    DEF RunProgram, KindsKept, NoSetExplained, NoVectorExplained,
        MemoryMayFail
  <2>5. (NoOutputTwice /\ Flushed)'
    BY <1>6 DEF RunProgram, NoOutputTwice, Flushed, TypeOK, ChildTypes
  <2>6. (OnlyExitEnds /\ LeavesAtExit)'
    BY <1>6 DEF RunProgram, OnlyExitEnds, LeavesAtExit, TypeOK, MainTypes, IsExit
  <2>7. OnlyBadLinesCrash'
    BY <1>6 DEF RunProgram, OnlyBadLinesCrash, NoSetExplained, MemoryMayFail, ForkMayFail, ThreadMayFail, LacksThread, DiesAlone
  <2> QED
    BY <2>1, <2>2, <2>3, <2>4, <2>5, <2>6, <2>7 DEF TypeOK
<1>7. CASE RunSpecial
  <2>1. MainTypes'
    BY <1>7 DEF RunSpecial, MainTypes, TypeOK
  <2>2. ChildTypes'
    BY <1>7 DEF RunSpecial, ChildTypes, TypeOK
  <2>3. (FreesItsOwn /\ Owned)'
    BY <1>7 DEF RunSpecial, FreesItsOwn, Owned, MemoryMayFail, TypeOK, MainTypes, Objects
  <2>4. (KindsKept /\ NoSetExplained /\ NoVectorExplained)'
    BY <1>7 DEF RunSpecial, KindsKept, NoSetExplained, NoVectorExplained, MemoryMayFail, TypeOK, MainTypes
  <2>5. (NoOutputTwice /\ Flushed)'
    BY <1>7 DEF RunSpecial, NoOutputTwice, Flushed, TypeOK, ChildTypes
  <2>6. (OnlyExitEnds /\ LeavesAtExit)'
    BY <1>7 DEF RunSpecial, OnlyExitEnds, LeavesAtExit, TypeOK, MainTypes, IsExit
  <2>7. OnlyBadLinesCrash'
    BY <1>7 DEF RunSpecial, OnlyBadLinesCrash, KindsKept, NoSetExplained, MemoryMayFail, ForkMayFail, ThreadMayFail, LacksThread, DiesAlone
  <2> QED
    BY <2>1, <2>2, <2>3, <2>4, <2>5, <2>6, <2>7 DEF TypeOK
<1>8. CASE Fork
  <2>1. MainTypes'
    BY <1>8 DEF Fork, MainTypes, TypeOK
  <2>2. ChildTypes'
    BY <1>8 DEF Fork, ChildTypes, TypeOK
  <2>3. (FreesItsOwn /\ Owned)'
    BY <1>8 DEF Fork, FreesItsOwn, Owned, MemoryMayFail
  <2>4. (KindsKept /\ NoSetExplained /\ NoVectorExplained)'
    BY <1>8 DEF Fork, KindsKept, NoSetExplained, NoVectorExplained, MemoryMayFail
  <2>5. (NoOutputTwice /\ Flushed)'
    BY <1>8 DEF Fork, NoOutputTwice, Flushed, TypeOK, ChildTypes
  <2>6. (OnlyExitEnds /\ LeavesAtExit)'
    BY <1>8 DEF Fork, OnlyExitEnds, LeavesAtExit, TypeOK, MainTypes, IsExit
  <2>7. OnlyBadLinesCrash'
    BY <1>8 DEF Fork, OnlyBadLinesCrash, NoSetExplained, MemoryMayFail, ForkMayFail, ThreadMayFail, LacksThread, DiesAlone
  <2> QED
    BY <2>1, <2>2, <2>3, <2>4, <2>5, <2>6, <2>7 DEF TypeOK
<1>9. CASE ForkFails
  <2>1. MainTypes'
    BY <1>9 DEF ForkFails, MainTypes, TypeOK
  <2>2. ChildTypes'
    <3>1. /\ 0 \in 0..255 /\ 256 * 0 = 0
          /\ 255 \in 0..255 /\ 256 * 255 = 65280
      OBVIOUS
    <3>2. 0 \in StatusWord /\ 65280 \in StatusWord
      BY <3>1, StatusWords
    <3> QED
      BY <1>9, <3>2 DEF ForkFails, TypeOK, ChildTypes
  <2>3. (FreesItsOwn /\ Owned)'
    BY <1>9 DEF ForkFails, FreesItsOwn, Owned, MemoryMayFail
  <2>4. (KindsKept /\ NoSetExplained /\ NoVectorExplained)'
    BY <1>9
    DEF ForkFails, KindsKept, NoSetExplained, NoVectorExplained,
        MemoryMayFail
  <2>5. (NoOutputTwice /\ Flushed)'
    BY <1>9 DEF ForkFails, NoOutputTwice, Flushed, TypeOK, ChildTypes
  <2>6. (OnlyExitEnds /\ LeavesAtExit)'
    BY <1>9 DEF ForkFails, OnlyExitEnds, LeavesAtExit, TypeOK, MainTypes, IsExit
  <2>7. OnlyBadLinesCrash'
    BY <1>9 DEF ForkFails, OnlyBadLinesCrash, NoSetExplained, MemoryMayFail, ForkMayFail, ThreadMayFail, LacksThread, DiesAlone
  <2> QED
    BY <2>1, <2>2, <2>3, <2>4, <2>5, <2>6, <2>7 DEF TypeOK
<1>10. CASE Exec
  <2>1. MainTypes'
    BY <1>10 DEF Exec, MainTypes, TypeOK
  <2>2. ChildTypes'
    <3>1. 255 \in 0..255
      OBVIOUS
    <3>2. 256 * 255 \in StatusWord
      BY <3>1, StatusWords
    <3> QED
      BY <1>10, <3>2 DEF Exec, TypeOK, ChildTypes
  <2>3. (FreesItsOwn /\ Owned)'
    BY <1>10 DEF Exec, FreesItsOwn, Owned, MemoryMayFail
  <2>4. (KindsKept /\ NoSetExplained /\ NoVectorExplained)'
    BY <1>10 DEF Exec, KindsKept, NoSetExplained, NoVectorExplained, MemoryMayFail
  <2>5. (NoOutputTwice /\ Flushed)'
    BY <1>10 DEF Exec, NoOutputTwice, Flushed, TypeOK, ChildTypes
  <2>6. (OnlyExitEnds /\ LeavesAtExit)'
    BY <1>10 DEF Exec, OnlyExitEnds, LeavesAtExit, TypeOK, MainTypes, IsExit
  <2>7. OnlyBadLinesCrash'
    BY <1>10 DEF Exec, OnlyBadLinesCrash, NoSetExplained, MemoryMayFail, ForkMayFail, ThreadMayFail, LacksThread, DiesAlone
  <2> QED
    BY <2>1, <2>2, <2>3, <2>4, <2>5, <2>6, <2>7 DEF TypeOK
<1>11. CASE ProgramEnds
  <2>1. MainTypes'
    BY <1>11 DEF ProgramEnds, MainTypes, TypeOK
  <2>2. ChildTypes'
    <3>1. line.code \in 0..255
      BY LinesAssumption DEF TypeOK, MainTypes, Line
    <3>2. 256 * line.code \in StatusWord
      BY <3>1, StatusWords
    <3> QED
      BY <1>11, <3>2 DEF ProgramEnds, TypeOK, ChildTypes
  <2>3. (FreesItsOwn /\ Owned)'
    BY <1>11 DEF ProgramEnds, FreesItsOwn, Owned, MemoryMayFail
  <2>4. (KindsKept /\ NoSetExplained /\ NoVectorExplained)'
    BY <1>11
    DEF ProgramEnds, KindsKept, NoSetExplained, NoVectorExplained,
        MemoryMayFail
  <2>5. (NoOutputTwice /\ Flushed)'
    BY <1>11 DEF ProgramEnds, NoOutputTwice, Flushed, TypeOK, ChildTypes
  <2>6. (OnlyExitEnds /\ LeavesAtExit)'
    BY <1>11 DEF ProgramEnds, OnlyExitEnds, LeavesAtExit, TypeOK, MainTypes, IsExit
  <2>7. OnlyBadLinesCrash'
    BY <1>11
    DEF ProgramEnds, OnlyBadLinesCrash, NoSetExplained, MemoryMayFail,
        ForkMayFail, ThreadMayFail, LacksThread, DiesAlone
  <2> QED
    BY <2>1, <2>2, <2>3, <2>4, <2>5, <2>6, <2>7 DEF TypeOK
<1>12. CASE Wait3
  <2>1. MainTypes'
    BY <1>12 DEF Wait3, MainTypes, TypeOK
  <2>2. ChildTypes'
    BY <1>12 DEF Wait3, ChildTypes, TypeOK
  <2>3. (FreesItsOwn /\ Owned)'
    BY <1>12 DEF Wait3, FreesItsOwn, Owned, MemoryMayFail
  <2>4. (KindsKept /\ NoSetExplained /\ NoVectorExplained)'
    BY <1>12 DEF Wait3, KindsKept, NoSetExplained, NoVectorExplained, MemoryMayFail
  <2>5. (NoOutputTwice /\ Flushed)'
    BY <1>12 DEF Wait3, NoOutputTwice, Flushed, TypeOK, ChildTypes
  <2>6. (OnlyExitEnds /\ LeavesAtExit)'
    BY <1>12 DEF Wait3, OnlyExitEnds, LeavesAtExit, TypeOK, MainTypes, IsExit
  <2>7. OnlyBadLinesCrash'
    BY <1>12 DEF Wait3, OnlyBadLinesCrash, NoSetExplained, MemoryMayFail, ForkMayFail, ThreadMayFail, LacksThread, DiesAlone
  <2> QED
    BY <2>1, <2>2, <2>3, <2>4, <2>5, <2>6, <2>7 DEF TypeOK
<1>13. CASE Reap
  <2>1. MainTypes'
    BY <1>13 DEF Reap, MainTypes, TypeOK
  <2>2. ChildTypes'
    <3>1. unflushed' = unflushed \/ unflushed' = TRUE
      BY <1>13, SMT DEF Reap
    <3>2. pc = "reap" /\ pc' = "loop" /\ UNCHANGED <<child, word>>
      BY <1>13, SMT DEF Reap
    <3> QED
      BY <3>1, <3>2 DEF TypeOK, ChildTypes
  <2>3. (FreesItsOwn /\ Owned)'
    BY <1>13 DEF Reap, FreesItsOwn, Owned, MemoryMayFail
  <2>4. (KindsKept /\ NoSetExplained /\ NoVectorExplained)'
    BY <1>13 DEF Reap, KindsKept, NoSetExplained, NoVectorExplained, MemoryMayFail
  <2>5. (NoOutputTwice /\ Flushed)'
    BY <1>13 DEF Reap, NoOutputTwice, Flushed, TypeOK, ChildTypes
  <2>6. (OnlyExitEnds /\ LeavesAtExit)'
    BY <1>13 DEF Reap, OnlyExitEnds, LeavesAtExit, TypeOK, MainTypes, IsExit
  <2>7. OnlyBadLinesCrash'
    BY <1>13 DEF Reap, OnlyBadLinesCrash, NoSetExplained, MemoryMayFail, ForkMayFail, ThreadMayFail, LacksThread, DiesAlone
  <2> QED
    BY <2>1, <2>2, <2>3, <2>4, <2>5, <2>6, <2>7 DEF TypeOK
<1>14. CASE Loop
  <2>1. MainTypes'
    BY <1>14 DEF Loop, MainTypes, TypeOK, Objects
  <2>2. ChildTypes'
    BY <1>14 DEF Loop, ChildTypes, TypeOK, NoChild
  <2>3. (FreesItsOwn /\ Owned)'
    BY <1>14 DEF Loop, FreesItsOwn, Owned, MemoryMayFail, TypeOK, MainTypes, Objects
  <2>4. (KindsKept /\ NoSetExplained /\ NoVectorExplained)'
    BY <1>14 DEF Loop, KindsKept, NoSetExplained, NoVectorExplained, MemoryMayFail
  <2>5. (NoOutputTwice /\ Flushed)'
    BY <1>14 DEF Loop, NoOutputTwice, Flushed, TypeOK, ChildTypes, NoChild
  <2>6. (OnlyExitEnds /\ LeavesAtExit)'
    BY <1>14 DEF Loop, OnlyExitEnds, LeavesAtExit, TypeOK, MainTypes, IsExit
  <2>7. OnlyBadLinesCrash'
    BY <1>14 DEF Loop, OnlyBadLinesCrash, NoSetExplained, MemoryMayFail, ForkMayFail, ThreadMayFail, LacksThread, DiesAlone
  <2> QED
    BY <2>1, <2>2, <2>3, <2>4, <2>5, <2>6, <2>7 DEF TypeOK
<1>15. CASE SpecialReturns
  <2>1. MainTypes'
    <3>1. UNCHANGED <<faults, line, mode, input, argList, specRes, lost>>
      BY <1>15, Zenon DEF SpecialReturns
    <3>2. /\ status' \in {status, 0, -1, -3} /\ pc' \in {"loop", "killed"}
          /\ heap' \in {heap, heap \ {"set"}}
      BY <1>15 DEF SpecialReturns
    <3> QED
      BY <3>1, <3>2 DEF MainTypes, TypeOK
  <2>2. ChildTypes'
    BY <1>15 DEF SpecialReturns, ChildTypes, TypeOK
  <2>3. (FreesItsOwn /\ Owned)'
    BY <1>15 DEF SpecialReturns, FreesItsOwn, Owned, MemoryMayFail, TypeOK, MainTypes, Objects
  <2>4. (KindsKept /\ NoSetExplained /\ NoVectorExplained)'
    BY <1>15 DEF SpecialReturns, KindsKept, NoSetExplained, NoVectorExplained, MemoryMayFail, TypeOK, MainTypes
  <2>5. (NoOutputTwice /\ Flushed)'
    BY <1>15 DEF SpecialReturns, NoOutputTwice, Flushed, TypeOK, ChildTypes
  <2>6. (OnlyExitEnds /\ LeavesAtExit)'
    BY <1>15 DEF SpecialReturns, OnlyExitEnds, LeavesAtExit, TypeOK, MainTypes, IsExit
  <2>7. OnlyBadLinesCrash'
    BY <1>15 DEF SpecialReturns, OnlyBadLinesCrash, KindsKept, NoSetExplained, MemoryMayFail, ForkMayFail, ThreadMayFail, LacksThread, DiesAlone
  <2> QED
    BY <2>1, <2>2, <2>3, <2>4, <2>5, <2>6, <2>7 DEF TypeOK
<1>16. CASE Overruns
  <2>1. MainTypes'
    BY <1>16 DEF Overruns, MainTypes, TypeOK
  <2>2. ChildTypes'
    BY <1>16 DEF Overruns, ChildTypes, TypeOK
  <2>3. (FreesItsOwn /\ Owned)'
    BY <1>16 DEF Overruns, FreesItsOwn, Owned, MemoryMayFail, TypeOK, MainTypes, Objects
  <2>4. (KindsKept /\ NoSetExplained /\ NoVectorExplained)'
    BY <1>16 DEF Overruns, KindsKept, NoSetExplained, NoVectorExplained, MemoryMayFail, TypeOK, MainTypes
  <2>5. (NoOutputTwice /\ Flushed)'
    BY <1>16 DEF Overruns, NoOutputTwice, Flushed, TypeOK, ChildTypes
  <2>6. (OnlyExitEnds /\ LeavesAtExit)'
    BY <1>16 DEF Overruns, OnlyExitEnds, LeavesAtExit, TypeOK, MainTypes, IsExit
  <2>7. OnlyBadLinesCrash'
    BY <1>16 DEF Overruns, OnlyBadLinesCrash, KindsKept, NoSetExplained, MemoryMayFail, ForkMayFail, ThreadMayFail, LacksThread, DiesAlone
  <2> QED
    BY <2>1, <2>2, <2>3, <2>4, <2>5, <2>6, <2>7 DEF TypeOK
<1>17. CASE UNCHANGED vars
  BY <1>17
  DEF vars, TypeOK, MainTypes, ChildTypes, FreesItsOwn, KindsKept, NoOutputTwice, OnlyExitEnds, IsExit,
      OnlyBadLinesCrash, Owned, Flushed, LeavesAtExit, NoSetExplained, NoVectorExplained,
      MemoryMayFail, ForkMayFail, ThreadMayFail, LacksThread, DiesAlone
<1> QED
  BY <1>1, <1>2, <1>3, <1>4, <1>5, <1>6, <1>7, <1>8, <1>9, <1>10, <1>11, <1>12,
     <1>13, <1>14, <1>15, <1>16, <1>17
  DEF Next, Parent, Child

(***************************************************************************)
(* IInv holds in every state of every session.                             *)
(***************************************************************************)
THEOREM Invariance == Spec => []IInv
  BY InitInv, StepInv, PTL DEF Spec

(***************************************************************************)
(* main's variables, its heap and New_Process's child keep their types.    *)
(***************************************************************************)
THEOREM TypeCorrect == Spec => []TypeOK
<1>1. IInv => TypeOK
  BY DEF IInv
<1> QED
  BY Invariance, <1>1, PTL

(***************************************************************************)
(* main's two calls of free at the end of a round (dsh.c:280-283) release  *)
(* what this round allocated, none of it twice, and nothing of it is kept  *)
(* but a line whose realloc failed (dsh.c:62-64).                          *)
(***************************************************************************)
THEOREM OwnershipHolds == Spec => []FreesItsOwn
<1>1. IInv => FreesItsOwn
  BY DEF IInv
<1> QED
  BY Invariance, <1>1, PTL

(***************************************************************************)
(* A child of New_Process that may still call exit (run.c:491) has nothing *)
(* of the shell's to write.                                                *)
(***************************************************************************)
THEOREM PrintsOnce == Spec => []NoOutputTwice
<1>1. IInv => NoOutputTwice
  BY DEF IInv
<1> QED
  BY Invariance, <1>1, PTL

(***************************************************************************)
(* main leaves its loop (dsh.c:284) at an exit and nowhere else.           *)
(***************************************************************************)
THEOREM ExitOnly == Spec => []OnlyExitEnds
<1>1. IInv => OnlyExitEnds
  BY DEF IInv
<1> QED
  BY Invariance, <1>1, PTL

(***************************************************************************)
(* The shell dies for no other reason than a vector that was never made, a *)
(* field that was never set, memory, a process or a thread that was not to *)
(* be had (run.c:57, 218, 384), systat's closed streams, an hb that never  *)
(* ends and a signal it sends itself.                                      *)
(***************************************************************************)
THEOREM CrashesExplained == Spec => []OnlyBadLinesCrash
<1>1. IInv => OnlyBadLinesCrash
  BY DEF IInv
<1> QED
  BY Invariance, <1>1, PTL

-------------------------------------------------------------------------------
(***************************************************************************)
(* prog1 reads its lines in turn.  A line is passed when the shell or a    *)
(* program has read it.  What stdio holds is a stretch of lines, those     *)
(* before it are passed, and so are those before the offset that it does   *)
(* not hold.                                                               *)
(***************************************************************************)
Passed(n) == n \in taken \/ \E j \in DOMAIN read : read[j] = n

TurnTyped == /\ lineCount \in Nat /\ offset \in Nat /\ rewound \in BOOLEAN
             /\ ahead \in Seq(Nat) /\ read \in Seq(Nat)

Stretch == /\ \A k \in DOMAIN ahead : ahead[k] = ahead[1] + k - 1
           /\ ahead # <<>> => \A n \in 1..(ahead[1] - 1) : Passed(n)

NoneSkipped == \A n \in 1..offset : Passed(n) \/ \E k \in DOMAIN ahead : ahead[k] = n

InOrder == ~rewound => /\ \A k \in DOMAIN ahead : ahead[k] <= offset
                       /\ \A j \in DOMAIN read : read[j] <= offset
                       /\ ahead # <<>> => \A j \in DOMAIN read : read[j] < ahead[1]

TurnInv == TurnTyped /\ Stretch /\ NoneSkipped /\ InOrder /\ F!LinesInTurn

LEMMA TurnStarts == ASSUME F!Init PROVE TurnInv
<1>1. /\ lineCount \in Inputs /\ rewound = FALSE /\ read = <<>> /\ ahead = <<>> /\ offset = 0
      /\ taken = {}
  BY DEF F!Init
<1>2. <<>> \in Seq(Nat) /\ DOMAIN <<>> = {} /\ 1..0 = {}
  OBVIOUS
<1>3. TurnTyped
  BY <1>1, <1>2, InputsAssumption DEF TurnTyped
<1> QED
  BY <1>1, <1>2, <1>3 DEF TurnInv, Stretch, NoneSkipped, InOrder, F!LinesInTurn

LEMMA EmptyWhenNone == ASSUME NEW n \in Int, [i \in 1..n |-> offset + i] # <<>> PROVE n > 0
<1> SUFFICES ASSUME n <= 0 PROVE FALSE
  OBVIOUS
<1>1. 1..n = {}
  OBVIOUS
<1>2. [i \in 1..n |-> offset + i] = <<>>
  BY <1>1
<1> QED
  BY <1>2

LEMMA PairMin == ASSUME NEW a \in Int, NEW b \in Int PROVE F!Min({a, b}) \in Int
<1>1. \E x \in {a, b} : \A y \in {a, b} : x <= y
  OBVIOUS
<1> QED
  BY <1>1 DEF F!Min

(* What a read of the buffer finds: a stretch, all before it passed, and   *)
(* all before the offset passed or in it.                                  *)
LEMMA BufferStretch ==
  ASSUME TurnInv, F!Buffer # <<>>, F!Fill
  PROVE  /\ F!Buffer \in Seq(Nat) /\ offset' \in Nat
         /\ \A k \in DOMAIN F!Buffer : F!Buffer[k] = F!Buffer[1] + k - 1
         /\ \A n \in 1..(F!Buffer[1] - 1) : Passed(n)
         /\ \A n \in 1..offset' : Passed(n) \/ \E k \in DOMAIN F!Buffer : F!Buffer[k] = n
         /\ ~rewound => /\ \A k \in DOMAIN F!Buffer : F!Buffer[k] <= offset'
                        /\ \A j \in DOMAIN read : read[j] <= offset' /\ read[j] < F!Buffer[1]
<1>1. CASE ahead # <<>>
  <2>1. F!Buffer = ahead /\ offset' = offset
    BY <1>1 DEF F!Buffer, F!Fill
  <2> QED
    BY <1>1, <2>1 DEF TurnInv, TurnTyped, Stretch, NoneSkipped, InOrder
<1>2. CASE ahead = <<>>
  <2> DEFINE most == LET upto == IF terminal THEN offset + 1 ELSE offset + ReadAhead
                     IN  F!Min({upto, lineCount})
             n == most - offset
  <2>1. F!Buffer = [i \in 1..n |-> offset + i] /\ offset' = offset + Len(F!Buffer)
    BY <1>2 DEF F!Buffer, F!Fill, F!Filled
  <2>2. n \in Int
    <3>1. offset + 1 \in Int /\ offset + ReadAhead \in Int /\ lineCount \in Int /\ offset \in Int
      BY InputsAssumption DEF TurnInv, TurnTyped
    <3>2. most \in Int
      BY <3>1, PairMin
    <3> QED
      BY <3>1, <3>2
  <2> HIDE DEF n
  <2>3. n > 0 /\ DOMAIN F!Buffer = 1..n /\ F!Buffer \in Seq(Nat) /\ Len(F!Buffer) = n
    <3>1. n > 0
      BY <2>1, <2>2, EmptyWhenNone
    <3>2. offset \in Nat
      BY DEF TurnInv, TurnTyped
    <3>3. [i \in 1..n |-> offset + i] \in Seq(Nat)
      BY <2>2, <3>1, <3>2
    <3> QED
      BY <2>1, <2>2, <3>1, <3>3
  <2>4. F!Buffer[1] = offset + 1 /\ \A k \in DOMAIN F!Buffer : F!Buffer[k] = offset + k
    BY <2>1, <2>2, <2>3
  <2>5. /\ offset \in Nat /\ \A m \in 1..offset : Passed(m)
        /\ ~rewound => \A j \in DOMAIN read : read[j] <= offset
        /\ \A j \in DOMAIN read : read[j] \in Nat
    BY <1>2 DEF TurnInv, TurnTyped, NoneSkipped, InOrder
  <2>6. offset' = offset + n
    BY <2>1, <2>3
  <2>7. ASSUME NEW m \in 1..(offset + n), m \notin 1..offset PROVE \E k \in DOMAIN F!Buffer : F!Buffer[k] = m
    <3>1. m - offset \in 1..n /\ offset + (m - offset) = m
      BY <2>2, <2>3, <2>5, <2>7
    <3> QED
      BY <2>3, <2>4, <3>1
  <2>8. offset + 1 - 1 = offset
    BY <2>5
  <2>9. \A k \in DOMAIN F!Buffer : F!Buffer[k] = F!Buffer[1] + k - 1 /\ F!Buffer[k] <= offset'
    BY <2>2, <2>3, <2>4, <2>5, <2>6
  <2>10. \A m \in 1..offset' : Passed(m) \/ \E k \in DOMAIN F!Buffer : F!Buffer[k] = m
    BY <2>5, <2>6, <2>7
  <2>11. \A m \in 1..(F!Buffer[1] - 1) : Passed(m)
    BY <2>4, <2>5, <2>8
  <2>12. ~rewound => \A j \in DOMAIN read : read[j] <= offset' /\ read[j] < F!Buffer[1]
    BY <2>2, <2>3, <2>4, <2>5, <2>6
  <2>13. offset' \in Nat
    BY <2>2, <2>3, <2>5, <2>6
  <2> QED
    BY <2>3, <2>9, <2>10, <2>11, <2>12, <2>13
<1> QED
  BY <1>1, <1>2

LEMMA TailFacts ==
  ASSUME NEW seq \in Seq(Nat), seq # <<>>
  PROVE  /\ Head(seq) = seq[1] /\ seq[1] \in Nat /\ Len(seq) \in Nat \ {0}
         /\ Tail(seq) \in Seq(Nat) /\ Len(Tail(seq)) = Len(seq) - 1
         /\ \A k \in DOMAIN Tail(seq) : Tail(seq)[k] = seq[k + 1] /\ k + 1 \in DOMAIN seq
<1>1. Head(seq) = seq[1] /\ seq[1] \in Nat /\ Len(seq) \in Nat \ {0}
  OBVIOUS
<1>2. Tail(seq) \in Seq(Nat) /\ Len(Tail(seq)) = Len(seq) - 1
  OBVIOUS
<1>3. ASSUME NEW k \in DOMAIN Tail(seq) PROVE Tail(seq)[k] = seq[k + 1]
  BY <1>2
<1>4. ASSUME NEW k \in DOMAIN Tail(seq) PROVE k + 1 \in DOMAIN seq
  BY <1>2
<1> QED
  BY <1>1, <1>2, <1>3, <1>4

LEMMA AppendFacts ==
  ASSUME NEW seq \in Seq(Nat), NEW n \in Nat
  PROVE  /\ Append(seq, n) \in Seq(Nat) /\ Len(Append(seq, n)) = Len(seq) + 1
         /\ \A j \in DOMAIN seq : Append(seq, n)[j] = seq[j] /\ j \in DOMAIN Append(seq, n)
         /\ Append(seq, n)[Len(seq) + 1] = n /\ Len(seq) + 1 \in DOMAIN Append(seq, n)
<1>1. Append(seq, n) \in Seq(Nat) /\ Len(Append(seq, n)) = Len(seq) + 1
  OBVIOUS
<1>2. \A j \in DOMAIN seq : Append(seq, n)[j] = seq[j]
  OBVIOUS
<1>3. Append(seq, n)[Len(seq) + 1] = n
  OBVIOUS
<1>4. \A j \in DOMAIN seq : j \in DOMAIN Append(seq, n)
  OBVIOUS
<1>5. Len(seq) + 1 \in DOMAIN Append(seq, n)
  OBVIOUS
<1> QED
  BY <1>1, <1>2, <1>3, <1>4, <1>5

(* The first line of the buffer is read, or dropped.                       *)
LEMMA TakesNext ==
  ASSUME TurnInv, F!Buffer # <<>>, F!Fill, UNCHANGED <<lineCount, rewound, taken>>,
         ahead' = Tail(F!Buffer), read' = Append(read, Head(F!Buffer))
  PROVE  TurnInv'
<1> DEFINE buf == F!Buffer
           b   == buf[1]
           r   == Len(read)
<1>1. /\ buf \in Seq(Nat) /\ buf # <<>> /\ offset' \in Nat
      /\ \A k \in DOMAIN buf : buf[k] = b + k - 1
      /\ \A n \in 1..(b - 1) : Passed(n)
      /\ \A n \in 1..offset' : Passed(n) \/ \E k \in DOMAIN buf : buf[k] = n
      /\ ~rewound => /\ \A k \in DOMAIN buf : buf[k] <= offset'
                     /\ \A j \in DOMAIN read : read[j] <= offset' /\ read[j] < b
  BY BufferStretch
<1> HIDE DEF buf
<1>2. /\ Head(buf) = b /\ b \in Nat /\ Len(buf) \in Nat \ {0}
      /\ Tail(buf) \in Seq(Nat) /\ Len(Tail(buf)) = Len(buf) - 1
      /\ \A k \in DOMAIN Tail(buf) : Tail(buf)[k] = buf[k + 1] /\ k + 1 \in DOMAIN buf
  BY <1>1, TailFacts
<1>3. /\ read \in Seq(Nat) /\ r \in Nat /\ DOMAIN read = 1..r /\ lineCount \in Nat /\ rewound \in BOOLEAN
      /\ \A j \in DOMAIN read : read[j] \in Nat
  BY DEF TurnInv, TurnTyped
<1>4. read' = Append(read, b) /\ ahead' = Tail(buf) /\ UNCHANGED <<lineCount, rewound, taken>>
  BY <1>2 DEF buf
<1>5. /\ read' \in Seq(Nat) /\ Len(read') = r + 1 /\ DOMAIN read' = 1..(r + 1)
      /\ \A j \in DOMAIN read : read'[j] = read[j]
      /\ read'[r + 1] = b
  <2>1. read' \in Seq(Nat) /\ Len(read') = r + 1
    BY <1>2, <1>3, <1>4, AppendFacts
  <2>2. \A j \in DOMAIN read : read'[j] = read[j]
    BY <1>2, <1>3, <1>4, AppendFacts
  <2>3. read'[r + 1] = b
    BY <1>2, <1>3, <1>4, AppendFacts
  <2> QED
    BY <2>1, <2>2, <2>3
<1>6. ahead' \in Seq(Nat) /\ \A k \in DOMAIN ahead' : ahead'[k] = b + k /\ ahead'[k] = buf[k + 1] /\ k + 1 \in DOMAIN buf
  <2>1. ahead' \in Seq(Nat)
    BY <1>2, <1>4
  <2>2. \A k \in DOMAIN ahead' : k \in Nat /\ ahead'[k] = buf[k + 1] /\ k + 1 \in DOMAIN buf
    <3>1. PICK l : l = Tail(buf) /\ ahead' = l
      BY <1>4
    <3>2. \A k \in DOMAIN l : l[k] = buf[k + 1] /\ k + 1 \in DOMAIN buf
      BY <1>2, <3>1, Zenon
    <3>3. \A k \in DOMAIN l : k \in Nat
      BY <2>1, <3>1
    <3> QED
      BY <3>1, <3>2, <3>3, Zenon
  <2>3. \A k \in DOMAIN ahead' : ahead'[k] = b + (k + 1) - 1
    BY <1>1, <2>2
  <2> HIDE DEF b
  <2>4. b \in Nat
    BY <1>2
  <2>5. \A k \in Nat : b + (k + 1) - 1 = b + k
    BY <2>4
  <2>6. \A k \in DOMAIN ahead' : ahead'[k] = b + k
    BY <2>2, <2>3, <2>5
  <2> QED
    BY <2>1, <2>2, <2>6
<1>7. \A j \in 1..(r + 1) : j \in DOMAIN read \/ j = r + 1
  BY <1>3
<1> HIDE DEF b, r
<1>8. \A n : Passed(n) => Passed(n)'
  <2> TAKE n
  <2>1. ASSUME NEW j \in DOMAIN read, read[j] = n PROVE Passed(n)'
    <3>1. j \in DOMAIN read' /\ read'[j] = n
      BY <1>3, <1>5, <2>1
    <3> QED
      BY <3>1 DEF Passed
  <2> QED
    BY <1>4, <2>1 DEF Passed
<1>9. TurnTyped'
  BY <1>1, <1>3, <1>4, <1>5, <1>6 DEF TurnTyped
<1>10. Stretch'
  <2>1. ahead' # <<>> => 1 \in DOMAIN ahead'
    BY <1>6
  <2>2. ahead' # <<>> => ahead'[1] = b + 1
    BY <1>6, <2>1
  <2>3. \A k \in DOMAIN ahead' : ahead'[k] = ahead'[1] + k - 1
    <3> TAKE k \in DOMAIN ahead'
    <3>1. ahead' # <<>> /\ k \in Nat
      BY <1>6
    <3> QED
      BY <1>2, <1>6, <2>2, <3>1
  <2>4. \A n \in 1..b : n \in 1..(b - 1) \/ n = b
    BY <1>2
  <2>5. \A n \in 1..b : Passed(n)'
    <3> TAKE n \in 1..b
    <3>1. CASE n \in 1..(b - 1)
      BY <1>1, <1>8, <3>1
    <3>2. CASE n = b
      BY <1>4, <1>5, <3>2, <1>3 DEF Passed
    <3> QED
      BY <2>4, <3>1, <3>2
  <2>6. ahead' # <<>> => ahead'[1] - 1 = b
    <3>1. b \in Nat /\ (b + 1) - 1 = b
      BY <1>2
    <3> QED
      BY <2>2, <3>1
  <2> QED
    BY <2>3, <2>5, <2>6 DEF Stretch
<1>11. NoneSkipped'
  <2> SUFFICES ASSUME NEW n \in 1..offset' PROVE Passed(n)' \/ \E k \in DOMAIN ahead' : ahead'[k] = n
    BY DEF NoneSkipped
  <2>1. CASE Passed(n)
    BY <1>8, <2>1
  <2>2. ASSUME NEW k \in DOMAIN buf, buf[k] = n PROVE Passed(n)' \/ \E i \in DOMAIN ahead' : ahead'[i] = n
    <3>1. CASE k = 1
      <4>1. n = b
        BY <2>2, <3>1 DEF b
      <4> QED
        BY <1>3, <1>5, <4>1 DEF Passed
    <3>2. CASE k # 1
      <4>1. k - 1 \in DOMAIN ahead' /\ (k - 1) + 1 = k
        BY <1>1, <1>2, <1>4, <3>2
      <4> QED
        BY <1>6, <2>2, <4>1
    <3> QED
      BY <3>1, <3>2
  <2> QED
    BY <1>1, <2>1, <2>2
<1>12. InOrder'
  <2> SUFFICES ASSUME ~rewound
               PROVE  /\ \A k \in DOMAIN ahead' : ahead'[k] <= offset'
                      /\ \A j \in DOMAIN read' : read'[j] <= offset'
                      /\ ahead' # <<>> => \A j \in DOMAIN read' : read'[j] < ahead'[1]
    BY <1>4 DEF InOrder
  <2>1. \A k \in DOMAIN ahead' : ahead'[k] <= offset'
    BY <1>1, <1>6
  <2>2. b <= offset'
    <3>1. 1 \in DOMAIN buf
      BY <1>1, <1>2
    <3> QED
      BY <1>1, <3>1 DEF b
  <2>3. \A j \in DOMAIN read' : read'[j] <= offset' /\ read'[j] < b + 1
    <3> TAKE j \in DOMAIN read'
    <3>1. CASE j \in DOMAIN read
      BY <1>1, <1>2, <1>3, <1>5, <3>1
    <3>2. CASE j = r + 1
      BY <1>2, <1>5, <2>2, <3>2
    <3> QED
      BY <1>5, <1>7, <3>1, <3>2
  <2>4. ahead' # <<>> => ahead'[1] = b + 1
    <3>1. ahead' # <<>> => 1 \in DOMAIN ahead'
      BY <1>6
    <3> QED
      BY <1>6, <3>1
  <2> QED
    BY <2>1, <2>3, <2>4
<1>13. F!LinesInTurn'
  <2>1. ASSUME NEW i \in DOMAIN read PROVE /\ \A n \in 1..(read'[i] - 1) : F!Seen(n, i)'
                                           /\ ~rewound => \A j \in 1..(i - 1) : read'[j] < read'[i]
    <3>1. read'[i] = read[i] /\ \A j \in 1..(i - 1) : read'[j] = read[j]
      BY <1>3, <1>5
    <3>2. /\ \A n \in 1..(read[i] - 1) : F!Seen(n, i)
          /\ ~rewound => \A j \in 1..(i - 1) : read[j] < read[i]
      BY DEF TurnInv, F!LinesInTurn
    <3>3. \A n : F!Seen(n, i) => F!Seen(n, i)'
      BY <1>4, <3>1 DEF F!Seen
    <3> QED
      BY <3>1, <3>2, <3>3
  <2>2. ASSUME NEW i \in DOMAIN read', i = r + 1
        PROVE  /\ \A n \in 1..(read'[i] - 1) : F!Seen(n, i)'
               /\ ~rewound => \A j \in 1..(i - 1) : read'[j] < read'[i]
    <3>1. read'[i] = b /\ 1..(i - 1) = DOMAIN read
      BY <1>3, <1>5, <2>2
    <3>2. \A n \in 1..(b - 1) : F!Seen(n, i)'
      BY <1>1, <1>4, <1>5, <3>1 DEF F!Seen, Passed
    <3> QED
      BY <1>1, <1>5, <3>1, <3>2
  <2>3. \A i \in DOMAIN read' : i \in DOMAIN read \/ i = r + 1
    BY <1>5, <1>7
  <2> QED
    BY <1>4, <2>1, <2>2, <2>3 DEF F!LinesInTurn
<1> QED
  BY <1>9, <1>10, <1>11, <1>12, <1>13 DEF TurnInv

LEMMA FillsOnly ==
  ASSUME TurnInv, F!Buffer # <<>>, F!Fill, UNCHANGED <<lineCount, rewound, taken>>,
         ahead' = F!Buffer, read' = read
  PROVE  TurnInv'
<1>1. \A n : Passed(n)' <=> Passed(n)
  BY DEF Passed
<1>2. TurnTyped' /\ Stretch' /\ NoneSkipped'
  BY <1>1, BufferStretch DEF TurnInv, TurnTyped, Stretch, NoneSkipped
<1>3. InOrder'
  BY BufferStretch DEF InOrder
<1>4. F!LinesInTurn'
  BY DEF TurnInv, F!LinesInTurn, F!Seen
<1> QED
  BY <1>2, <1>3, <1>4 DEF TurnInv

LEMMA TurnStays ==
  ASSUME TurnInv, UNCHANGED <<lineCount, offset, ahead, read, taken, rewound>>
  PROVE  TurnInv'
BY DEF TurnInv, TurnTyped, Stretch, NoneSkipped, InOrder, Passed, F!LinesInTurn, F!Seen

(* An empty buffer stays empty, and the offset where it is.                *)
LEMMA NothingLeft ==
  ASSUME TurnInv, F!Buffer = <<>>, F!Fill PROVE ahead = <<>> /\ offset' = offset
<1>1. ahead = <<>>
  BY DEF F!Buffer
<1>2. F!Filled = <<>> /\ offset' = offset + Len(F!Filled)
  BY <1>1 DEF F!Buffer, F!Fill
<1> QED
  BY <1>1, <1>2 DEF TurnInv, TurnTyped

LEMMA DshPromptKeeps == ASSUME TurnInv, F!DshPrompt PROVE TurnInv'
<1>1. F!Fill /\ UNCHANGED <<lineCount, rewound, taken>>
  BY DEF F!DshPrompt
<1>2. CASE F!Buffer = <<>>
  <2>1. ahead' = ahead /\ read' = read
    BY <1>2 DEF F!DshPrompt
  <2> QED
    BY <1>1, <1>2, <2>1, NothingLeft, TurnStays
<1>3. CASE F!Buffer # <<>>
  BY <1>1, <1>3, TakesNext DEF F!DshPrompt
<1> QED
  BY <1>2, <1>3

LEMMA PromptFailsKeeps == ASSUME TurnInv, F!PromptFails PROVE TurnInv'
<1>1. F!Fill /\ UNCHANGED <<lineCount, rewound, taken>>
  BY DEF F!PromptFails
<1>2. CASE F!Buffer # <<>> /\ ahead' = Tail(F!Buffer) /\ read' = Append(read, Head(F!Buffer))
  BY <1>1, <1>2, TakesNext
<1>3. CASE F!Buffer # <<>> /\ ahead' = F!Buffer /\ read' = read
  BY <1>1, <1>3, FillsOnly
<1>4. CASE F!Buffer = <<>> /\ ahead' = F!Buffer /\ read' = read
  BY <1>1, <1>4, NothingLeft, TurnStays
<1> QED
  BY <1>2, <1>3, <1>4 DEF F!PromptFails

(* The offset goes back behind what is still ahead of the shell.           *)
LEMMA ChildExitsKeeps == ASSUME TurnInv, F!ChildExits PROVE TurnInv'
<1>1. UNCHANGED <<lineCount, ahead, read, taken>>
  BY DEF F!ChildExits
<1>2. CASE UNCHANGED <<offset, rewound>>
  BY <1>1, <1>2, TurnStays
<1>3. CASE offset' \in 0..offset /\ rewound' = TRUE
  <2>1. offset' \in Nat /\ \A n \in 1..offset' : n \in 1..offset
    BY <1>3 DEF TurnInv, TurnTyped
  <2>2. \A n : Passed(n)' <=> Passed(n)
    BY <1>1 DEF Passed
  <2>3. TurnTyped' /\ Stretch' /\ NoneSkipped' /\ InOrder'
    BY <1>1, <1>3, <2>1, <2>2 DEF TurnInv, TurnTyped, Stretch, NoneSkipped, InOrder
  <2>4. F!LinesInTurn'
    BY <1>1, <1>3 DEF TurnInv, F!LinesInTurn, F!Seen
  <2> QED
    BY <2>3, <2>4 DEF TurnInv
<1> QED
  BY <1>2, <1>3 DEF F!ChildExits

(* A program passes the lines it reads.                                    *)
LEMMA ProgramReadsKeeps == ASSUME TurnInv, F!ProgramReads PROVE TurnInv'
<1>1. /\ UNCHANGED <<lineCount, ahead, read>> /\ taken' = taken \cup ((offset + 1)..offset')
      /\ rewound' = (rewound \/ offset' < offset) /\ offset' \in 0..lineCount \cup offset..lineCount
  BY DEF F!ProgramReads
<1>2. offset \in Nat /\ offset' \in Nat /\ ahead \in Seq(Nat) /\ read \in Seq(Nat)
  BY <1>1 DEF TurnInv, TurnTyped
<1>3. \A n : Passed(n) => Passed(n)'
  BY <1>1 DEF Passed
<1>4. TurnTyped' /\ Stretch'
  BY <1>1, <1>2, <1>3 DEF TurnInv, TurnTyped, Stretch
<1>5. NoneSkipped'
  <2> SUFFICES ASSUME NEW n \in 1..offset' PROVE Passed(n)' \/ \E k \in DOMAIN ahead' : ahead'[k] = n
    BY DEF NoneSkipped
  <2>1. CASE n \in 1..offset
    BY <1>1, <1>3, <2>1 DEF TurnInv, NoneSkipped
  <2>2. CASE n \notin 1..offset
    <3>1. n \in (offset + 1)..offset'
      BY <1>2, <2>2
    <3> QED
      BY <1>1, <3>1 DEF Passed
  <2> QED
    BY <2>1, <2>2
<1>6. InOrder'
  <2> SUFFICES ASSUME ~rewound, ~(offset' < offset)
               PROVE  /\ \A k \in DOMAIN ahead : ahead[k] <= offset'
                      /\ \A j \in DOMAIN read : read[j] <= offset'
                      /\ ahead # <<>> => \A j \in DOMAIN read : read[j] < ahead[1]
    BY <1>1 DEF InOrder
  <2>1. /\ \A k \in DOMAIN ahead : ahead[k] <= offset /\ ahead[k] \in Nat
        /\ \A j \in DOMAIN read : read[j] <= offset /\ read[j] \in Nat
        /\ ahead # <<>> => \A j \in DOMAIN read : read[j] < ahead[1]
    BY <1>2 DEF TurnInv, InOrder
  <2> QED
    BY <1>2, <2>1
<1>7. F!LinesInTurn'
  <2>1. \A n, i : F!Seen(n, i) => F!Seen(n, i)'
    BY <1>1 DEF F!Seen
  <2> QED
    BY <1>1, <2>1 DEF TurnInv, F!LinesInTurn
<1> QED
  BY <1>4, <1>5, <1>6, <1>7 DEF TurnInv

LEMMA TurnNext == ASSUME TurnInv, [F!Next]_firstVars PROVE TurnInv'
<1>1. CASE F!DshPrompt
  BY <1>1, DshPromptKeeps
<1>2. CASE F!PromptFails
  BY <1>2, PromptFailsKeeps
<1>3. CASE F!ChildExits
  BY <1>3, ChildExitsKeeps
<1>4. CASE F!ProgramReads
  BY <1>4, ProgramReadsKeeps
<1>5. CASE F!Parse \/ F!Run \/ F!Fork \/ F!Exec \/ F!ProgramEnds \/ F!Wait3 \/ F!FreeAndLoop \/ UNCHANGED firstVars
  BY <1>5, TurnStays DEF F!Parse, F!Run, F!Fork, F!Exec, F!ProgramEnds, F!Wait3, F!FreeAndLoop, F!stdin, firstVars
<1> QED
  BY <1>1, <1>2, <1>3, <1>4, <1>5 DEF F!Next

(***************************************************************************)
(* For any input, of any number of lines and read ahead in blocks of any   *)
(* size, and whatever of it the programs read: prog1 skips no other line   *)
(* and takes none before its turn, whatever fails, and none twice unless   *)
(* a child has moved the offset of its file back (prog1/dsh.c:32-83,       *)
(* run.c:282).                                                             *)
(***************************************************************************)
THEOREM TakesLinesInTurn == MCSpec => []LinesInTurn
<1> DEFINE Holds == program = "prog1" => TurnInv
<1>1. MCInit => Holds
  BY TurnStarts DEF MCInit
<1>2. Holds /\ [MCNext]_allVars => Holds'
  BY TurnNext DEF MCNext, allVars
<1>3. Holds => LinesInTurn
  BY DEF LinesInTurn, TurnInv
<1> QED
  BY <1>1, <1>2, <1>3, PTL DEF MCSpec

-------------------------------------------------------------------------------
(***************************************************************************)
(* dsh_prompt passes its lines on.  What is in the buffer runs from where  *)
(* the call began, at the start of its line unless memory ran out in that  *)
(* line, up to the place of the next character, and behind everything      *)
(* delivered; and every line read past was delivered, unless it is one of  *)
(* those that cannot be.                                                   *)
(***************************************************************************)
Chars == Seq(Nat \X Nat)

LineTyped == /\ typed \in Sessions
             /\ reading \in {"prompt", "grow", "eat", "ended"}
             /\ blocks \in 1..MaxBlocks /\ numRead \in 0..Block
             /\ promptStatus \in {-1, 0, 1, 2}
             /\ text \in Chars /\ delivered \in Seq(Chars)
             /\ stdin \in (Nat \ {0}) \X (Nat \ {0})
             /\ stdin[1] \in 1..P!LineCount => stdin[2] <= typed.lens[stdin[1]] + 1

(* The current line can be broken off, or gone on with in its middle.      *)
Broken == stdin[1] \in starved \/ ~ (typed.lens[stdin[1]] <= MaxBlocks * Block)
Over   == stdin[1] \in 1..P!LineCount /\ stdin[2] = typed.lens[stdin[1]] + 1

LastOf(k) == delivered[k][Len(delivered[k])]

(* All that was delivered comes before the a-th character of this line.    *)
Behind(a) == \A k \in 1..Len(delivered) : LastOf(k)[1] < stdin[1] \/ (LastOf(k)[1] = stdin[1] /\ LastOf(k)[2] < a)

(* The buffer holds this line from its a-th character on.                  *)
HeldFrom(a) == /\ stdin[1] \in 1..P!LineCount
               /\ Len(text) = stdin[2] - a
               /\ \A n \in 1..Len(text) : text[n] = <<stdin[1], a + n - 1>>
               /\ a = 1 \/ Broken
               /\ Behind(a)

Held == text # <<>> => \E a \in Nat \ {0} : HeldFrom(a)

(* Blocks are full as long as they keep coming.                            *)
FullBlocks == reading = "grow" =>
  /\ text # <<>> /\ numRead > 0
  /\ IF numRead = Block THEN /\ \E n \in 1..blocks : Len(text) = n * Block
                             /\ Len(text) = blocks * Block \/ Over
                        ELSE Len(text) <= blocks * Block /\ Over

Between == /\ reading \in {"prompt", "ended"} => text = <<>>
           /\ reading = "prompt" => P!AtEnd \/ stdin[2] = 1 \/ Broken
           /\ reading = "eat" => /\ P!AtEnd \/ Over \/ Broken
                                 /\ IF promptStatus = 0 THEN text # <<>> /\ Len(text) <= blocks * Block /\ Over
                                                        ELSE text = <<>>
           /\ reading = "eat" /\ promptStatus = 2 =>
                Over /\ \E e \in typed.exits : e[1] = stdin[1] /\ (e[2] = 1 \/ Broken) /\ Behind(e[2])

AllBehind == \A k \in 1..Len(delivered) :
  LastOf(k)[1] < stdin[1] \/ (LastOf(k)[1] = stdin[1] /\ LastOf(k)[2] < stdin[2])

Delivered(i) == \E n \in 1..Len(delivered) : delivered[n] = P!Row(i)

NoneLost == reading # "ended" => \A i \in 1..P!LineCount : P!Fits(i) /\ i \notin starved =>
  /\ i < stdin[1] => Delivered(i)
  /\ reading = "prompt" /\ P!AtEnd => Delivered(i)
  /\ reading = "eat" /\ i = stdin[1] => Delivered(i) \/ promptStatus \in {0, 2}

Whole == \A n \in 1..Len(delivered) : \A i \in 1..P!LineCount :
           delivered[n][1][1] = i /\ P!Short(i) /\ i \notin starved => delivered[n] = P!Row(i)

PromptInv == /\ LineTyped /\ Held /\ FullBlocks /\ Between /\ AllBehind /\ NoneLost
             /\ Whole /\ P!NeverMixesLines /\ P!EndsAtExit

LEMMA PromptStarts == ASSUME P!Init PROVE PromptInv
<1>1. /\ typed \in Sessions /\ stdin = <<1, 1>> /\ reading = "prompt" /\ text = <<>> /\ blocks = 1
      /\ numRead = 0 /\ promptStatus = 0 /\ delivered = <<>> /\ starved = {}
  BY DEF P!Init
<1>2. typed.lens \in Seq(Nat) /\ P!LineCount \in Nat
  BY <1>1, SessionsAssumption DEF P!LineCount
<1>3. LineTyped
  <2>1. 1 \in 1..P!LineCount => typed.lens[1] \in Nat
    BY <1>2 DEF P!LineCount
  <2>2. <<>> \in Chars /\ <<>> \in Seq(Chars)
    BY DEF Chars
  <2> QED
    BY <1>1, <1>2, <2>1, <2>2, BlocksAssumption DEF LineTyped
<1>4. Len(delivered) = 0 /\ 1..Len(delivered) = {}
  BY <1>1
<1>5. NoneLost
  <2>1. ASSUME NEW i \in 1..P!LineCount, P!AtEnd PROVE ~P!Fits(i)
    <3>1. i = 1 /\ P!LineCount = 1 /\ P!Left = 0
      BY <1>1, <1>2, <2>1 DEF P!AtEnd
    <3>2. typed.lens[1] = 0
      BY <1>1, <1>2, <3>1 DEF P!Left, P!LineCount
    <3> QED
      BY <3>1, <3>2, BlocksAssumption DEF P!Fits
  <2> QED
    BY <1>1, <1>2, <2>1 DEF NoneLost
<1> QED
  BY <1>1, <1>3, <1>4, <1>5 DEF PromptInv, Held, FullBlocks, Between, AllBehind, Whole, P!NeverMixesLines, P!EndsAtExit

(* The line read now, and what is left of it.                              *)
LEMMA HereNow ==
  ASSUME LineTyped
  PROVE  /\ typed.lens \in Seq(Nat) /\ P!LineCount \in Nat /\ typed.newline \in BOOLEAN
         /\ \A i \in 1..P!LineCount : typed.lens[i] \in Nat
         /\ stdin[1] \in Nat \ {0} /\ stdin[2] \in Nat \ {0} /\ stdin = <<stdin[1], stdin[2]>>
         /\ P!Left \in Nat
         /\ P!Left = 0 <=> (stdin[1] > P!LineCount \/ Over)
         /\ stdin[1] \in 1..P!LineCount => P!Left = typed.lens[stdin[1]] + 1 - stdin[2]
         /\ P!AtEnd => stdin[1] > P!LineCount \/ (stdin[1] = P!LineCount /\ Over /\ ~typed.newline)
         /\ Over /\ ~P!AtEnd /\ stdin[1] = P!LineCount => typed.newline
<1>1. typed.lens \in Seq(Nat) /\ typed.newline \in BOOLEAN
  BY SessionsAssumption DEF LineTyped
<1>2. P!LineCount \in Nat /\ \A i \in 1..P!LineCount : typed.lens[i] \in Nat
  BY <1>1 DEF P!LineCount
<1>3. stdin[1] \in Nat \ {0} /\ stdin[2] \in Nat \ {0} /\ stdin = <<stdin[1], stdin[2]>>
  BY DEF LineTyped
<1>4. CASE stdin[1] > P!LineCount
  BY <1>1, <1>2, <1>3, <1>4 DEF P!Left, Over
<1>5. CASE stdin[1] \in 1..P!LineCount
  <2>1. typed.lens[stdin[1]] \in Nat /\ stdin[2] <= typed.lens[stdin[1]] + 1
    BY <1>2, <1>5 DEF LineTyped
  <2>2. P!Left = typed.lens[stdin[1]] + 1 - stdin[2]
    BY <1>2, <1>3, <1>5 DEF P!Left
  <2>3. Over <=> stdin[2] = typed.lens[stdin[1]] + 1
    BY <1>5 DEF Over
  <2>4. P!Left \in Nat /\ (P!Left = 0 <=> Over)
    BY <1>3, <2>1, <2>2, <2>3
  <2>5. stdin[1] <= P!LineCount /\ ~(stdin[1] > P!LineCount)
    BY <1>2, <1>5
  <2>6. P!AtEnd <=> stdin[1] = P!LineCount /\ Over /\ ~typed.newline
    BY <2>4, <2>5 DEF P!AtEnd
  <2> QED
    BY <1>1, <1>2, <1>3, <1>5, <2>2, <2>4, <2>5, <2>6
<1>6. stdin[1] > P!LineCount \/ stdin[1] \in 1..P!LineCount
  BY <1>2, <1>3
<1> QED
  BY <1>4, <1>5, <1>6

(* What scanf matches.                                                     *)
LEMMA MatchedIs ==
  ASSUME LineTyped
  PROVE  /\ P!Matched \in Chars /\ Len(P!Matched) \in 0..Block
         /\ Len(P!Matched) = (IF P!Left < Block THEN P!Left ELSE Block)
         /\ \A n \in 1..Len(P!Matched) : P!Matched[n] = <<stdin[1], stdin[2] + n - 1>>
         /\ P!Matched = <<>> <=> P!Left = 0
         /\ P!Rest = <<stdin[1], stdin[2] + Len(P!Matched)>>
<1> DEFINE m == IF P!Left < Block THEN P!Left ELSE Block
<1>1. m \in Nat /\ m \in 0..Block /\ (m = 0 <=> P!Left = 0) /\ Block \in Nat \ {0}
  BY HereNow, BlocksAssumption
<1>2. P!Matched = [n \in 1..m |-> <<stdin[1], stdin[2] + n - 1>>]
  BY DEF P!Matched
<1> HIDE DEF m
<1>3. \A n \in 1..m : <<stdin[1], stdin[2] + n - 1>> \in Nat \X Nat
  BY <1>1, HereNow
<1>4. P!Matched \in Chars /\ Len(P!Matched) = m
  BY <1>1, <1>2, <1>3 DEF Chars
<1>5. P!Matched = <<>> <=> m = 0
  BY <1>1, <1>4 DEF Chars
<1> QED
  BY <1>1, <1>2, <1>4, <1>5 DEF m, P!Rest

(* What was delivered stays as it is.                                      *)
LEMMA DeliveredStays ==
  ASSUME PromptInv, typed' = typed, delivered' = delivered, starved \subseteq starved'
  PROVE  /\ Whole' /\ P!NeverMixesLines'
         /\ \A i : Delivered(i)' <=> Delivered(i)
         /\ \A i : P!Fits(i)' <=> P!Fits(i)
         /\ \A i : P!Short(i)' <=> P!Short(i)
         /\ \A k : LastOf(k)' = LastOf(k)
         /\ P!LineCount' = P!LineCount
<1>1. \A i : P!Row(i)' = P!Row(i)
  BY DEF P!Row
<1>2. P!LineCount' = P!LineCount /\ (\A i : P!Short(i)' <=> P!Short(i)) /\ (\A i : P!Fits(i)' <=> P!Fits(i))
  BY DEF P!LineCount, P!Short, P!Fits
<1>3. Whole'
  BY <1>1, <1>2 DEF PromptInv, Whole
<1>4. P!NeverMixesLines'
  BY <1>2 DEF PromptInv, P!NeverMixesLines, P!Piece, P!Before
<1> QED
  BY <1>1, <1>2, <1>3, <1>4 DEF Delivered, LastOf

(* The place moves on in its line.                                         *)
LEMMA StillBehind ==
  ASSUME PromptInv, delivered' = delivered, stdin'[1] = stdin[1], stdin'[2] \in Nat, stdin[2] <= stdin'[2]
  PROVE  AllBehind'
<1>1. \A k \in 1..Len(delivered) : LastOf(k)[2] \in Nat
  <2> TAKE k \in 1..Len(delivered)
  <2>1. P!Piece(k) /\ delivered \in Seq(Chars)
    BY DEF PromptInv, P!NeverMixesLines, LineTyped
  <2>2. delivered[k] \in Chars /\ delivered[k] # <<>>
    BY <2>1 DEF P!Piece
  <2> QED
    BY <2>2 DEF LastOf, Chars
<1>2. stdin[2] \in Nat
  BY DEF PromptInv, LineTyped
<1> QED
  BY <1>1, <1>2 DEF PromptInv, AllBehind, LastOf

LEMMA ReadKeeps == ASSUME PromptInv, P!Read PROVE PromptInv'
<1>1. /\ LineTyped /\ reading = "prompt" /\ blocks' = 1 /\ typed' = typed /\ delivered' = delivered
      /\ starved \subseteq starved'
  BY DEF P!Read, PromptInv
<1>2. /\ Whole' /\ P!NeverMixesLines' /\ P!LineCount' = P!LineCount
      /\ \A i : Delivered(i)' <=> Delivered(i)
      /\ \A i : P!Fits(i)' <=> P!Fits(i)
      /\ \A i : P!Short(i)' <=> P!Short(i)
      /\ \A k : LastOf(k)' = LastOf(k)
  BY <1>1, DeliveredStays
<1>3. P!AtEnd \/ stdin[2] = 1 \/ Broken
  BY <1>1 DEF PromptInv, Between
<1>4. \A i \in 1..P!LineCount : P!Fits(i) /\ i \notin starved =>
        (i < stdin[1] => Delivered(i)) /\ (P!AtEnd => Delivered(i))
  BY <1>1 DEF PromptInv, NoneLost
<1>5. blocks' \in 1..MaxBlocks /\ Block \in Nat \ {0} /\ numRead' \in 0..Block
  BY <1>1, BlocksAssumption, MatchedIs DEF P!Read
<1>6. CASE /\ promptStatus' = -1 /\ reading' = "eat" /\ text' = <<>> /\ numRead' = 0
           /\ starved' = starved \cup {stdin[1]} /\ stdin' = stdin
  <2>1. LineTyped'
    <3>1. text' \in Chars
      BY <1>6 DEF Chars
    <3> QED
      BY <1>1, <1>2, <1>5, <1>6, <3>1 DEF LineTyped
  <2>2. AllBehind'
    BY <1>1, <1>6, HereNow, StillBehind
  <2>3. Broken'
    BY <1>6 DEF Broken
  <2>4. NoneLost'
    BY <1>2, <1>4, <1>6 DEF NoneLost
  <2>5. Held' /\ FullBlocks' /\ Between' /\ P!EndsAtExit'
    BY <1>6, <2>3 DEF Held, FullBlocks, Between, P!EndsAtExit
  <2> QED
    BY <1>2, <2>1, <2>2, <2>4, <2>5 DEF PromptInv
<1>7. CASE /\ text' = P!Matched /\ numRead' = Len(P!Matched) /\ stdin' = P!Rest /\ starved' = starved
           /\ P!Matched = <<>> /\ promptStatus' = 1 /\ reading' = "eat"
  <2>1. stdin' = stdin /\ P!Left = 0 /\ text' = <<>>
    <3>1. Len(P!Matched) = 0 /\ P!Rest = <<stdin[1], stdin[2] + Len(P!Matched)>> /\ P!Left = 0
      BY <1>1, <1>7, MatchedIs
    <3>2. stdin[2] + 0 = stdin[2] /\ stdin = <<stdin[1], stdin[2]>>
      BY <1>1, HereNow
    <3> QED
      BY <1>7, <3>1, <3>2
  <2>2. LineTyped'
    <3>1. text' \in Chars
      BY <2>1 DEF Chars
    <3> QED
      BY <1>1, <1>2, <1>5, <1>7, <2>1, <3>1 DEF LineTyped
  <2>3. AllBehind'
    BY <1>1, <2>1, HereNow, StillBehind
  <2>4. (P!AtEnd' <=> P!AtEnd) /\ (Over' <=> Over)
    BY <1>1, <2>1 DEF P!AtEnd, Over, P!Left, P!LineCount
  <2>5. stdin[1] > P!LineCount \/ Over
    BY <1>1, <2>1, HereNow
  <2>6. ASSUME NEW i \in 1..P!LineCount, P!Fits(i), i \notin starved, i = stdin[1]
        PROVE  Delivered(i)
    <3>1. ~Broken /\ Over
      <4>1. typed.lens[i] <= MaxBlocks * Block
        BY <2>6 DEF P!Fits, P!Short
      <4>2. ~(stdin[1] > P!LineCount)
        BY <1>1, <2>6, HereNow
      <4> QED
        BY <2>5, <2>6, <4>1, <4>2 DEF Broken
    <3>2. stdin[2] # 1
      <4> SUFFICES ASSUME stdin[2] = 1 PROVE FALSE
        OBVIOUS
      <4>1. typed.lens[i] = 0
        BY <1>1, <2>6, <3>1, HereNow DEF Over
      <4> QED
        BY <1>5, <2>6, <4>1 DEF P!Fits
    <3> QED
      BY <1>3, <1>4, <2>6, <3>1, <3>2
  <2>7. NoneLost'
    BY <1>2, <1>4, <1>7, <2>1, <2>6 DEF NoneLost
  <2>8. P!AtEnd' \/ Over'
    BY <2>4, <2>5 DEF P!AtEnd
  <2>9. Held' /\ FullBlocks' /\ Between' /\ P!EndsAtExit'
    BY <1>7, <2>1, <2>8 DEF Held, FullBlocks, Between, P!EndsAtExit
  <2> QED
    BY <1>2, <2>2, <2>3, <2>7, <2>9 DEF PromptInv
<1>8. CASE /\ text' = P!Matched /\ numRead' = Len(P!Matched) /\ stdin' = P!Rest /\ starved' = starved
           /\ P!Matched # <<>> /\ promptStatus' = promptStatus /\ reading' = "grow"
  <2>a. PICK a \in Nat \ {0} : a = stdin[2]
    BY <1>1, HereNow
  <2>m. PICK m \in Nat : m = Len(P!Matched)
    BY <1>1, MatchedIs
  <2>1. /\ m \in Nat /\ m > 0 /\ m <= P!Left /\ m <= Block /\ (m < Block => m = P!Left)
        /\ P!Left \in Nat /\ P!Left # 0
    <3>1. P!Left \in Nat /\ P!Left # 0 /\ m = (IF P!Left < Block THEN P!Left ELSE Block)
      BY <1>1, <1>8, <2>m, MatchedIs, HereNow
    <3> QED
      BY <1>5, <3>1
  <2>2. stdin[1] \in 1..P!LineCount /\ a \in Nat \ {0} /\ ~P!AtEnd /\ ~Over
    BY <1>1, <2>1, HereNow
  <2>3. P!Left = typed.lens[stdin[1]] + 1 - a /\ typed.lens[stdin[1]] \in Nat
    BY <1>1, <2>a, <2>2, HereNow
  <2>4. stdin' = <<stdin[1], a + m>> /\ stdin'[1] = stdin[1] /\ stdin'[2] = a + m
    BY <1>1, <1>8, <2>a, <2>m, MatchedIs
  <2>5. m < Block => Over'
    <3>1. m < Block => a + m = typed.lens[stdin[1]] + 1
      BY <2>1, <2>2, <2>3
    <3> QED
      BY <1>1, <1>2, <2>2, <2>4, <3>1 DEF Over
  <2>6. LineTyped'
    <3>1. a + m <= typed.lens[stdin[1]] + 1 /\ a + m \in Nat \ {0}
      <4>1. PICK l \in Nat : l = typed.lens[stdin[1]]
        BY <2>3
      <4> QED
        BY <2>1, <2>3, <4>1
    <3>2. stdin' \in (Nat \ {0}) \X (Nat \ {0})
      BY <1>1, <2>4, <3>1, HereNow
    <3>3. text' \in Chars
      BY <1>1, <1>8, MatchedIs
    <3> QED
      BY <1>1, <1>2, <1>5, <1>8, <2>4, <3>1, <3>2, <3>3 DEF LineTyped
  <2>7. AllBehind'
    BY <1>1, <2>a, <2>1, <2>2, <2>4, StillBehind
  <2>8. HeldFrom(a)'
    <3>1. a + m - a = m
      BY <2>1, <2>2
    <3>2. a = 1 \/ Broken'
      BY <1>1, <1>3, <1>8, <2>a, <2>2, <2>4 DEF Broken
    <3>3. Behind(a)'
      BY <1>1, <1>2, <2>a, <2>4 DEF PromptInv, AllBehind, Behind
    <3>4. \A n \in 1..Len(text') : text'[n] = <<stdin'[1], a + n - 1>>
      BY <1>1, <1>8, <2>a, <2>4, MatchedIs
    <3>5. Len(text') = stdin'[2] - a
      BY <1>8, <2>m, <2>4, <3>1
    <3> QED
      BY <1>2, <2>2, <2>4, <3>2, <3>3, <3>4, <3>5 DEF HeldFrom
  <2>9. FullBlocks'
    <3>1. m = 1 * Block \/ m # Block
      BY <2>1, <1>5
    <3>2. m # Block => m <= 1 * Block /\ Over'
      BY <1>5, <2>1, <2>5
    <3> QED
      BY <1>1, <1>8, <2>m, <2>1, <3>1, <3>2 DEF FullBlocks
  <2>10. Held' /\ Between' /\ P!EndsAtExit' /\ NoneLost'
    <3>1. NoneLost'
      BY <1>2, <1>4, <1>8, <2>4 DEF NoneLost
    <3>2. Held'
      BY <2>2, <2>8 DEF Held
    <3> QED
      BY <1>8, <3>1, <3>2 DEF Between, P!EndsAtExit
  <2> QED
    BY <1>2, <2>6, <2>7, <2>9, <2>10 DEF PromptInv
<1> QED
  BY <1>6, <1>7, <1>8 DEF P!Read

LEMMA FullLines ==
  ASSUME NEW n \in Nat, NEW b \in Nat \ {0}
  PROVE  (n * b) % b = 0
OBVIOUS

LEMMA GrowsByOne ==
  ASSUME NEW n \in Nat, NEW b \in Nat
  PROVE  n * b + b = (n + 1) * b
OBVIOUS

LEMMA GrowKeeps == ASSUME PromptInv, P!Grow PROVE PromptInv'
<1>1. /\ LineTyped /\ reading = "grow" /\ numRead = Block /\ blocks < MaxBlocks /\ blocks' = blocks + 1
      /\ UNCHANGED <<typed, reading, promptStatus, delivered, starved>>
      /\ text' = text \o P!Matched /\ stdin' = P!Rest
      /\ numRead' = IF P!Matched = <<>> THEN numRead ELSE Len(P!Matched)
  BY DEF P!Grow, PromptInv
<1>2. /\ Whole' /\ P!NeverMixesLines' /\ P!LineCount' = P!LineCount
      /\ \A i : Delivered(i)' <=> Delivered(i)
      /\ \A i : P!Fits(i)' <=> P!Fits(i)
      /\ \A i : P!Short(i)' <=> P!Short(i)
      /\ \A k : LastOf(k)' = LastOf(k)
  BY <1>1, DeliveredStays
<1>3. PICK a \in Nat \ {0} : HeldFrom(a)
  BY <1>1 DEF PromptInv, Held, FullBlocks
<1>c. PICK c \in Nat \ {0} : c = stdin[2]
  BY <1>1, HereNow
<1>m. PICK m \in Nat : m = Len(P!Matched)
  BY <1>1, MatchedIs
<1>t. PICK t \in Nat : t = Len(text)
  BY <1>1 DEF LineTyped, Chars
<1>4. stdin[1] \in 1..P!LineCount /\ t = c - a /\ text # <<>> /\ t > 0
  BY <1>1, <1>3, <1>c, <1>t DEF PromptInv, HeldFrom, FullBlocks, LineTyped, Chars
<1>5. /\ Block \in Nat \ {0} /\ blocks \in Nat \ {0} /\ blocks' \in 1..MaxBlocks
  BY <1>1, BlocksAssumption DEF LineTyped
<1>6. /\ P!Left \in Nat /\ m = (IF P!Left < Block THEN P!Left ELSE Block)
      /\ P!Left = typed.lens[stdin[1]] + 1 - c /\ typed.lens[stdin[1]] \in Nat
      /\ (P!Left = 0 <=> Over) /\ (P!Matched = <<>> <=> m = 0)
  <2>1. ~(stdin[1] > P!LineCount)
    BY <1>1, <1>4, HereNow
  <2> QED
    BY <1>1, <1>4, <1>5, <1>c, <1>m, <2>1, HereNow, MatchedIs
<1>7. m <= P!Left /\ m <= Block /\ (m < Block => m = P!Left)
  BY <1>5, <1>6
<1>8. stdin' = <<stdin[1], c + m>> /\ stdin'[1] = stdin[1] /\ stdin'[2] = c + m
  BY <1>1, <1>c, <1>m, MatchedIs
<1>9. m < Block => Over'
  <2>1. m < Block => c + m = typed.lens[stdin[1]] + 1
    <3>1. PICK l \in Nat : l = typed.lens[stdin[1]]
      BY <1>6
    <3> QED
      BY <1>6, <1>7, <3>1
  <2> QED
    BY <1>1, <1>2, <1>4, <1>8, <2>1 DEF Over
<1>10. /\ text' \in Chars /\ Len(text') = t + m
       /\ \A n \in 1..t : text'[n] = text[n]
       /\ \A n \in 1..m : text'[t + n] = P!Matched[n]
  <2>1. text \in Chars /\ P!Matched \in Chars
    BY <1>1, MatchedIs DEF LineTyped
  <2>2. /\ text' \in Seq(Nat \X Nat) /\ Len(text') = Len(text) + Len(P!Matched)
        /\ \A n \in 1..(Len(text) + Len(P!Matched)) :
              text'[n] = IF n <= Len(text) THEN text[n] ELSE P!Matched[n - Len(text)]
    BY <1>1, <2>1, ConcatProperties DEF Chars
  <2>3. /\ text' \in Seq(Nat \X Nat) /\ Len(text') = t + m
        /\ \A n \in 1..(t + m) : text'[n] = IF n <= t THEN text[n] ELSE P!Matched[n - t]
    BY <2>2, <1>t, <1>m
  <2>4. ASSUME NEW n \in 1..m PROVE text'[t + n] = P!Matched[n]
    <3>1. PICK k \in 1..(t + m) : k = t + n /\ ~(k <= t) /\ k - t = n
      OBVIOUS
    <3>2. text'[k] = IF k <= t THEN text[k] ELSE P!Matched[k - t]
      BY <2>3
    <3> QED
      BY <3>1, <3>2
  <2>5. ASSUME NEW n \in 1..t PROVE text'[n] = text[n]
    <3>1. n \in 1..(t + m) /\ n <= t
      OBVIOUS
    <3> QED
      BY <2>3, <3>1
  <2> QED
    BY <2>3, <2>4, <2>5 DEF Chars
<1>11. LineTyped'
  <2>1. c + m <= typed.lens[stdin[1]] + 1 /\ c + m \in Nat \ {0}
    <3>1. PICK l \in Nat : l = typed.lens[stdin[1]]
      BY <1>6
    <3> QED
      BY <1>6, <1>7, <3>1
  <2>2. stdin' \in (Nat \ {0}) \X (Nat \ {0})
    BY <1>1, <1>8, <2>1, HereNow
  <2>3. numRead' \in 0..Block
    BY <1>1, <1>5, MatchedIs
  <2> QED
    BY <1>1, <1>2, <1>5, <1>8, <1>10, <2>1, <2>2, <2>3 DEF LineTyped
<1>12. AllBehind'
  <2>1. stdin[2] <= stdin'[2] /\ stdin'[2] \in Nat
    BY <1>8, <1>c
  <2> QED
    BY <1>1, <1>8, <2>1, StillBehind
<1>13. HeldFrom(a)'
  <2>1. a = 1 \/ Broken'
    BY <1>1, <1>2, <1>3, <1>8 DEF HeldFrom, Broken
  <2>2. Behind(a)'
    BY <1>1, <1>2, <1>3, <1>8 DEF HeldFrom, Behind
  <2>3. \A n \in 1..(t + m) : text'[n] = <<stdin[1], a + n - 1>>
    <3> TAKE n \in 1..(t + m)
    <3>1. CASE n \in 1..t
      BY <1>3, <1>10, <1>t, <3>1 DEF HeldFrom
    <3>2. CASE n \notin 1..t
      <4>1. PICK k \in 1..m : n = t + k
        <5>1. n - t \in 1..m /\ n = t + (n - t)
          BY <3>2
        <5> QED
          BY <5>1
      <4>2. text'[n] = <<stdin[1], c + k - 1>>
        BY <1>1, <1>10, <1>c, <1>m, <4>1, MatchedIs
      <4>3. c + k - 1 = a + n - 1
        BY <1>4, <4>1
      <4> QED
        BY <4>2, <4>3
    <3> QED
      BY <3>1, <3>2
  <2>4. Len(text') = stdin'[2] - a
    BY <1>4, <1>8, <1>10
  <2> QED
    BY <1>2, <1>4, <1>8, <1>10, <2>1, <2>2, <2>3, <2>4 DEF HeldFrom
<1>14. FullBlocks'
  <2>1. text' # <<>>
    BY <1>4, <1>10
  <2>2. PICK n \in 1..blocks : t = n * Block
    BY <1>1, <1>t DEF PromptInv, FullBlocks
  <2>3. t = blocks * Block \/ Over
    BY <1>1, <1>t DEF PromptInv, FullBlocks
  <2>4. CASE m = 0
    <3>1. numRead' = Block /\ Len(text') = n * Block /\ Over'
      BY <1>1, <1>5, <1>6, <1>9, <1>10, <2>2, <2>4
    <3>2. n \in 1..blocks'
      BY <1>1, <1>5
    <3> QED
      BY <1>5, <2>1, <3>1, <3>2 DEF FullBlocks
  <2>5. CASE m # 0
    <3>1. t = blocks * Block /\ numRead' = m /\ m > 0
      BY <1>1, <1>6, <1>7, <1>m, <2>3, <2>5
    <3>2. blocks * Block + Block = blocks' * Block /\ blocks * Block \in Nat
      BY <1>1, <1>5, GrowsByOne
    <3>3. m = Block => Len(text') = blocks' * Block
      BY <1>10, <3>1, <3>2
    <3>4. Len(text') <= blocks' * Block
      <4>1. PICK q \in Nat : q = blocks * Block
        BY <3>2
      <4>2. Len(text') = q + m /\ blocks' * Block = q + Block
        BY <1>10, <3>1, <3>2, <4>1
      <4>3. q + m <= q + Block
        BY <1>5, <1>7
      <4> QED
        BY <4>2, <4>3
    <3>5. m # Block => Over'
      BY <1>5, <1>7, <1>9
    <3>6. CASE m = Block
      <4>1. blocks' \in 1..blocks' /\ numRead' = Block /\ numRead' > 0
        BY <1>5, <3>1, <3>6
      <4>2. \E k \in 1..blocks' : Len(text') = k * Block
        BY <3>3, <3>6, <4>1
      <4> QED
        BY <2>1, <3>3, <3>6, <4>1, <4>2 DEF FullBlocks
    <3>7. CASE m # Block
      <4>1. numRead' # Block /\ numRead' > 0
        BY <3>1, <3>7
      <4> QED
        BY <2>1, <3>4, <3>5, <3>7, <4>1 DEF FullBlocks
    <3> QED
      BY <3>6, <3>7
  <2> QED
    BY <2>4, <2>5
<1>15. Held' /\ Between' /\ P!EndsAtExit' /\ NoneLost'
  <2>1. NoneLost'
    BY <1>1, <1>2, <1>8 DEF PromptInv, NoneLost
  <2>2. Held'
    BY <1>13 DEF Held
  <2> QED
    BY <1>1, <2>1, <2>2 DEF Between, P!EndsAtExit
<1> QED
  BY <1>2, <1>11, <1>12, <1>14, <1>15 DEF PromptInv

(* Memory that runs out breaks the line, or the line is one of those that  *)
(* leave no room.                                                          *)
LEMMA GrowFailsKeeps == ASSUME PromptInv, P!GrowFails PROVE PromptInv'
<1>1. /\ LineTyped /\ reading = "grow" /\ numRead = Block
      /\ promptStatus' = -1 /\ reading' = "eat" /\ text' = <<>>
      /\ UNCHANGED <<typed, stdin, blocks, numRead, delivered>>
      /\ starved' = IF blocks < MaxBlocks THEN starved \cup {stdin[1]} ELSE starved
      /\ starved \subseteq starved'
  BY DEF P!GrowFails, PromptInv
<1>2. /\ Whole' /\ P!NeverMixesLines' /\ P!LineCount' = P!LineCount
      /\ \A i : Delivered(i)' <=> Delivered(i)
      /\ \A i : P!Fits(i)' <=> P!Fits(i)
      /\ \A i : P!Short(i)' <=> P!Short(i)
      /\ \A k : LastOf(k)' = LastOf(k)
  BY <1>1, DeliveredStays
<1>3. PICK a \in Nat \ {0} : HeldFrom(a)
  BY <1>1 DEF PromptInv, Held, FullBlocks
<1>4. stdin[1] \in 1..P!LineCount
  BY <1>3 DEF HeldFrom
<1>5. PICK n \in 1..blocks : Len(text) = n * Block
  BY <1>1 DEF PromptInv, FullBlocks
<1>6. /\ Block \in Nat \ {0} /\ blocks \in 1..MaxBlocks /\ n \in Nat
  BY <1>1, BlocksAssumption DEF LineTyped
<1>7. ASSUME ~Broken' PROVE Over /\ ~P!Fits(stdin[1])
  <2>1. blocks = MaxBlocks /\ ~Broken
    <3>1. stdin[1] \notin starved' /\ ~Broken
      BY <1>1, <1>7 DEF Broken
    <3>2. ~(blocks < MaxBlocks)
      BY <1>1, <3>1
    <3> QED
      BY <1>6, <3>1, <3>2, BlocksAssumption
  <2>2. Len(text) = MaxBlocks * Block \/ Over
    BY <1>1, <2>1 DEF PromptInv, FullBlocks
  <2>3. a = 1 /\ Len(text) = stdin[2] - 1
    BY <1>3, <2>1 DEF HeldFrom
  <2>4. PICK l \in Nat : l = typed.lens[stdin[1]]
    BY <1>1, <1>4, HereNow
  <2>5. stdin[2] \in Nat /\ stdin[2] <= l + 1 /\ l <= MaxBlocks * Block
    BY <1>1, <1>4, <2>1, <2>4 DEF LineTyped, Broken
  <2>6. PICK q \in Nat : q = MaxBlocks * Block
    BY <1>6, BlocksAssumption
  <2>7. stdin[2] = l + 1
    BY <1>4, <2>2, <2>3, <2>4, <2>5, <2>6 DEF Over
  <2>8. l = n * Block
    <3>1. l = Len(text)
      BY <2>3, <2>7
    <3> QED
      BY <1>5, <3>1
  <2>9. l % Block = 0
    BY <1>6, <2>8, FullLines
  <2> QED
    BY <1>4, <2>4, <2>7, <2>9 DEF Over, P!Fits
<1>8. LineTyped'
  <2>1. text' \in Chars
    BY <1>1 DEF Chars
  <2> QED
    BY <1>1, <1>2, <2>1 DEF LineTyped
<1>9. AllBehind'
  BY <1>1, HereNow, StillBehind
<1>10. NoneLost'
  <2>1. ASSUME NEW i \in 1..P!LineCount, P!Fits(i), i \notin starved', i = stdin[1]
        PROVE  FALSE
    BY <1>1, <1>2, <1>7, <2>1 DEF Broken, P!Fits, P!Short
  <2>2. \A i \in 1..P!LineCount : P!Fits(i) /\ i \notin starved' /\ i < stdin[1] => Delivered(i)
    BY <1>1 DEF PromptInv, NoneLost
  <2> QED
    BY <1>1, <1>2, <2>1, <2>2 DEF NoneLost
<1>11. Over' \/ Broken'
  BY <1>1, <1>2, <1>7 DEF Over
<1>12. Held' /\ FullBlocks' /\ Between' /\ P!EndsAtExit'
  BY <1>1, <1>11 DEF Held, FullBlocks, Between, P!EndsAtExit
<1> QED
  BY <1>2, <1>8, <1>9, <1>10, <1>12 DEF PromptInv

(* A piece begins and ends in its line.                                    *)
LEMMA PieceEnds ==
  ASSUME PromptInv, NEW k \in 1..Len(delivered)
  PROVE  /\ LastOf(k)[1] = delivered[k][1][1] /\ LastOf(k)[2] \in Nat /\ LastOf(k)[2] >= 1
         /\ delivered[k][1][1] \in 1..P!LineCount
<1>1. P!Piece(k) /\ delivered \in Seq(Chars)
  BY DEF PromptInv, P!NeverMixesLines, LineTyped
<1>2. delivered[k] \in Chars /\ delivered[k] # <<>> /\ delivered[k][1][1] \in 1..P!LineCount
  BY <1>1 DEF P!Piece
<1>3. Len(delivered[k]) \in 1..Len(delivered[k])
  BY <1>2 DEF Chars
<1>4. LastOf(k) \in Nat \X Nat
  BY <1>2, <1>3 DEF LastOf, Chars
<1>5. /\ LastOf(k) = <<delivered[k][1][1], delivered[k][1][2] + Len(delivered[k]) - 1>>
      /\ LastOf(k)[2] \in 1..typed.lens[delivered[k][1][1]]
  BY <1>1, <1>3 DEF P!Piece, LastOf
<1> QED
  BY <1>2, <1>4, <1>5

LEMMA ReturnKeeps == ASSUME PromptInv, P!Return PROVE PromptInv'
<1>1. /\ LineTyped /\ reading = "grow" /\ numRead # Block /\ reading' = "eat"
      /\ UNCHANGED <<typed, stdin, blocks, numRead, delivered, starved>>
      /\ starved \subseteq starved'
  BY DEF P!Return, PromptInv
<1>2. /\ Whole' /\ P!NeverMixesLines' /\ P!LineCount' = P!LineCount
      /\ \A i : Delivered(i)' <=> Delivered(i)
      /\ \A i : P!Fits(i)' <=> P!Fits(i)
      /\ \A i : P!Short(i)' <=> P!Short(i)
      /\ \A k : LastOf(k)' = LastOf(k)
  BY <1>1, DeliveredStays
<1>3. AllBehind'
  BY <1>1, HereNow, StillBehind
<1>4. Over /\ Over' /\ Len(text) <= blocks * Block /\ text # <<>>
  BY <1>1, <1>2 DEF PromptInv, FullBlocks, Over
<1>5. PICK a \in Nat \ {0} : HeldFrom(a)
  BY <1>4 DEF PromptInv, Held
<1>6. CASE P!BeginsWithExit /\ promptStatus' = 2 /\ text' = <<>>
  <2>1. text[1] = <<stdin[1], a>>
    <3>1. 1 \in 1..Len(text) /\ a + 1 - 1 = a
      BY <1>1, <1>4 DEF LineTyped, Chars
    <3> QED
      BY <1>5, <3>1 DEF HeldFrom
  <2>2. <<stdin[1], a>> \in typed.exits
    BY <1>6, <2>1 DEF P!BeginsWithExit
  <2>3. (a = 1 \/ Broken)' /\ Behind(a)'
    BY <1>1, <1>2, <1>5 DEF HeldFrom, Behind, Broken
  <2>7. \E e \in typed'.exits : e[1] = stdin'[1] /\ (e[2] = 1 \/ Broken') /\ Behind(e[2])'
    <3>1. typed'.exits = typed.exits
      BY <1>1
    <3>2. <<stdin[1], a>> \in typed'.exits
      BY <2>2, <3>1
    <3>3. WITNESS <<stdin[1], a>> \in typed'.exits
    <3> QED
      BY <1>1, <2>3, <3>3
  <2>4. LineTyped'
    <3>1. text' \in Chars
      BY <1>6 DEF Chars
    <3> QED
      BY <1>1, <1>2, <1>6, <3>1 DEF LineTyped
  <2>5. NoneLost'
    BY <1>1, <1>2, <1>6 DEF PromptInv, NoneLost
  <2>6. Held' /\ FullBlocks' /\ Between' /\ P!EndsAtExit'
    BY <1>1, <1>2, <1>4, <1>6, <2>7 DEF Held, FullBlocks, Between, P!EndsAtExit
  <2> QED
    BY <1>2, <1>3, <2>4, <2>5, <2>6 DEF PromptInv
<1>7. CASE promptStatus' = 0 /\ text' = text
  <2>1. LineTyped' /\ NoneLost'
    BY <1>1, <1>2, <1>7 DEF PromptInv, NoneLost, LineTyped
  <2>2. Held'
    BY <1>1, <1>2, <1>5, <1>7 DEF Held, HeldFrom, Behind, Broken
  <2>3. FullBlocks' /\ Between' /\ P!EndsAtExit'
    BY <1>1, <1>4, <1>7 DEF FullBlocks, Between, P!EndsAtExit
  <2> QED
    BY <1>2, <1>3, <2>1, <2>2, <2>3 DEF PromptInv
<1> QED
  BY <1>6, <1>7 DEF P!Return

(* A line that ends here, and what is delivered with it.                   *)
LEMMA EatDelivers ==
  ASSUME PromptInv, P!Eat, promptStatus = 0
  PROVE  /\ delivered' \in Seq(Chars) /\ P!NeverMixesLines' /\ Whole'
         /\ \A k \in 1..Len(delivered') :
              LastOf(k)'[1] < stdin[1] \/ (LastOf(k)'[1] = stdin[1] /\ LastOf(k)'[2] < stdin[2])
         /\ \A i : Delivered(i) => Delivered(i)'
         /\ \A i \in 1..P!LineCount : P!Fits(i) /\ i \notin starved /\ i = stdin[1] => Delivered(i)'
<1>1. /\ LineTyped /\ reading = "eat" /\ typed' = typed /\ starved' = starved
      /\ delivered' = Append(delivered, text)
  BY DEF P!Eat, PromptInv
<1>2. text # <<>> /\ Over /\ text \in Chars /\ delivered \in Seq(Chars)
  BY <1>1 DEF PromptInv, Between, LineTyped
<1>3. PICK a \in Nat \ {0} : HeldFrom(a)
  BY <1>2 DEF PromptInv, Held
<1>4. PICK l \in Nat : l = typed.lens[stdin[1]]
  BY <1>1, <1>2, HereNow DEF Over
<1>5. stdin[1] \in 1..P!LineCount /\ stdin[2] = l + 1 /\ stdin[1] \in Nat /\ P!LineCount \in Nat
  BY <1>1, <1>2, <1>4, HereNow DEF Over
<1>t. PICK t \in Nat : t = Len(text) /\ t > 0
  BY <1>2 DEF Chars
<1>6. t = l + 1 - a /\ \A n \in 1..t : text[n] = <<stdin[1], a + n - 1>>
  <2>1. Len(text) = stdin[2] - a /\ \A n \in 1..Len(text) : text[n] = <<stdin[1], a + n - 1>>
    BY <1>3 DEF HeldFrom
  <2> QED
    BY <1>5, <1>t, <2>1
<1>7. PICK d \in Nat : d = Len(delivered)
  BY <1>2
<1>8. /\ delivered' \in Seq(Chars) /\ Len(delivered') = d + 1 /\ delivered'[d + 1] = text
      /\ \A k \in 1..d : delivered'[k] = delivered[k]
  BY <1>1, <1>2, <1>7
<1>9. \A k \in 1..(d + 1) : k \in 1..d \/ k = d + 1
  OBVIOUS
<1>10. /\ P!LineCount' = P!LineCount /\ \A i : (P!Short(i)' <=> P!Short(i)) /\ P!Row(i)' = P!Row(i)
  BY <1>1 DEF P!LineCount, P!Short, P!Row
<1>11. text[1] = <<stdin[1], a>> /\ text[t] = <<stdin[1], l>>
  <2>1. 1 \in 1..t /\ t \in 1..t /\ a + 1 - 1 = a /\ a + t - 1 = l
    BY <1>t, <1>6
  <2> QED
    BY <1>6, <2>1
<1>12. P!Piece(d + 1)'
  <2>1. \A n \in 1..t : a + n - 1 \in 1..l
    BY <1>t, <1>6
  <2>2. /\ text[1][1] = stdin[1] /\ text[1][2] = a
        /\ \A n \in 1..t : text[n] = <<stdin[1], a + n - 1>> /\ text[n][2] = a + n - 1
    BY <1>6, <1>11
  <2>3. /\ text # <<>> /\ text[1][1] \in 1..P!LineCount
        /\ \A n \in 1..Len(text) : text[n] = <<text[1][1], text[1][2] + n - 1>>
                                  /\ text[n][2] \in 1..typed.lens[text[1][1]]
    BY <1>2, <1>4, <1>5, <1>t, <2>1, <2>2
  <2> QED
    BY <1>1, <1>8, <1>10, <2>3 DEF P!Piece
<1>13. \A k \in 1..d : P!Piece(k)'
  BY <1>1, <1>7, <1>8, <1>10 DEF P!Piece, PromptInv, P!NeverMixesLines
<1>14. \A k \in 1..d : LastOf(k)' = LastOf(k)
  BY <1>8 DEF LastOf
<1>15. LastOf(d + 1)' = <<stdin[1], l>>
  BY <1>8, <1>11, <1>t DEF LastOf
<1>16. \A j \in 1..d : P!Before(j, d + 1)'
  <2> TAKE j \in 1..d
  <2>1. LastOf(j)[1] < stdin[1] \/ (LastOf(j)[1] = stdin[1] /\ LastOf(j)[2] < a)
    BY <1>3, <1>7 DEF HeldFrom, Behind
  <2>2. delivered'[d + 1][1] = <<stdin[1], a>> /\ delivered'[j][Len(delivered'[j])] = LastOf(j)
    BY <1>8, <1>11 DEF LastOf
  <2> QED
    BY <2>1, <2>2 DEF P!Before
<1>17. \A j, k \in 1..d : j < k => P!Before(j, k)'
  BY <1>7, <1>8 DEF P!Before, PromptInv, P!NeverMixesLines
<1>18. P!NeverMixesLines'
  <2>1. \A j, k \in 1..(d + 1) : j < k => P!Before(j, k)'
    <3> TAKE j, k \in 1..(d + 1)
    <3>1. j < k => j \in 1..d
      OBVIOUS
    <3> QED
      BY <3>1, <1>9, <1>16, <1>17
  <2>2. \A k \in 1..(d + 1) : P!Piece(k)'
    BY <1>9, <1>12, <1>13
  <2> QED
    BY <1>8, <2>1, <2>2 DEF P!NeverMixesLines
<1>19. ASSUME P!Short(stdin[1]), stdin[1] \notin starved PROVE text = P!Row(stdin[1])
  <2>1. a = 1
    BY <1>3, <1>19 DEF HeldFrom, Broken, P!Short
  <2>2. t = l /\ \A n \in 1..l : text[n] = <<stdin[1], n>>
    <3>1. t = l
      BY <1>6, <2>1
    <3>2. \A n \in 1..l : 1 + n - 1 = n
      OBVIOUS
    <3> QED
      BY <1>6, <2>1, <3>1, <3>2
  <2>3. P!Row(stdin[1]) = [n \in 1..l |-> <<stdin[1], n>>]
    BY <1>4 DEF P!Row
  <2>4. text = [n \in 1..t |-> text[n]]
    BY <1>2, <1>t DEF Chars
  <2> QED
    BY <2>2, <2>3, <2>4
<1>20. Whole'
  <2>1. ASSUME NEW n \in 1..(d + 1), NEW i \in 1..P!LineCount,
               delivered'[n][1][1] = i, P!Short(i), i \notin starved
        PROVE  delivered'[n] = P!Row(i)
    <3>1. CASE n \in 1..d
      BY <1>7, <1>8, <2>1, <3>1 DEF PromptInv, Whole
    <3>2. CASE n = d + 1
      <4>1. i = stdin[1]
        BY <1>8, <1>11, <2>1, <3>2
      <4> QED
        BY <1>8, <1>19, <2>1, <3>2, <4>1
    <3> QED
      BY <1>9, <3>1, <3>2
  <2> QED
    BY <1>1, <1>8, <1>10, <2>1 DEF Whole
<1>21. \A i : Delivered(i) => Delivered(i)'
  <2> TAKE i
  <2>1. ASSUME NEW n \in 1..d, delivered[n] = P!Row(i) PROVE Delivered(i)'
    <3>1. n \in 1..(d + 1) /\ delivered'[n] = P!Row(i)
      BY <1>8, <2>1
    <3> QED
      BY <1>8, <1>10, <3>1 DEF Delivered
  <2> QED
    BY <1>7, <2>1 DEF Delivered
<1>22. ASSUME NEW i \in 1..P!LineCount, P!Fits(i), i \notin starved, i = stdin[1] PROVE Delivered(i)'
  <2>1. delivered'[d + 1] = P!Row(i) /\ d + 1 \in 1..(d + 1)
    BY <1>8, <1>19, <1>22 DEF P!Fits
  <2> QED
    BY <1>8, <1>10, <2>1 DEF Delivered
<1>23. \A k \in 1..(d + 1) :
         LastOf(k)'[1] < stdin[1] \/ (LastOf(k)'[1] = stdin[1] /\ LastOf(k)'[2] < stdin[2])
  <2> TAKE k \in 1..(d + 1)
  <2>1. CASE k \in 1..d
    BY <1>7, <1>14, <2>1 DEF PromptInv, AllBehind
  <2>2. CASE k = d + 1
    <3>1. l < stdin[2]
      BY <1>5
    <3> QED
      BY <1>15, <2>2, <3>1
  <2> QED
    BY <1>9, <2>1, <2>2
<1> QED
  BY <1>8, <1>18, <1>20, <1>21, <1>22, <1>23

LEMMA EatKeeps == ASSUME PromptInv, P!Eat PROVE PromptInv'
<1>1. /\ LineTyped /\ reading = "eat" /\ text' = <<>> /\ stdin' = P!Skipped
      /\ reading' = IF promptStatus < 2 THEN "prompt" ELSE "ended"
      /\ UNCHANGED <<typed, blocks, numRead, promptStatus, starved>>
      /\ delivered' = IF promptStatus = 0 THEN Append(delivered, text) ELSE delivered
  BY DEF P!Eat, PromptInv
<1>2. /\ P!LineCount' = P!LineCount /\ P!LineCount \in Nat
      /\ \A i : P!Fits(i)' <=> P!Fits(i)
  BY <1>1, HereNow DEF P!LineCount, P!Fits, P!Short
<1>3. promptStatus \in {-1, 0, 1, 2} /\ (promptStatus < 2 <=> promptStatus # 2)
  BY <1>1 DEF LineTyped
<1>4. /\ delivered' \in Seq(Chars) /\ P!NeverMixesLines' /\ Whole'
      /\ \A k \in 1..Len(delivered') :
           LastOf(k)'[1] < stdin[1] \/ (LastOf(k)'[1] = stdin[1] /\ LastOf(k)'[2] < stdin[2])
      /\ \A i : Delivered(i) => Delivered(i)'
      /\ promptStatus # 2 =>
           \A i \in 1..P!LineCount : P!Fits(i) /\ i \notin starved /\ i = stdin[1] => Delivered(i)'
  <2>1. CASE promptStatus = 0
    BY <2>1, EatDelivers
  <2>2. CASE promptStatus # 0
    <3>1. delivered' = delivered /\ typed' = typed /\ starved \subseteq starved'
      BY <1>1, <2>2
    <3>2. /\ Whole' /\ P!NeverMixesLines'
          /\ \A i : Delivered(i)' <=> Delivered(i)
          /\ \A k : LastOf(k)' = LastOf(k)
      BY <3>1, DeliveredStays
    <3>3. \A k \in 1..Len(delivered) :
           LastOf(k)[1] < stdin[1] \/ (LastOf(k)[1] = stdin[1] /\ LastOf(k)[2] < stdin[2])
      BY DEF PromptInv, AllBehind
    <3>4. promptStatus # 2 => \A i \in 1..P!LineCount : P!Fits(i) /\ i \notin starved /\ i = stdin[1] => Delivered(i)
      BY <1>1, <2>2 DEF PromptInv, NoneLost
    <3> QED
      BY <1>1, <3>1, <3>2, <3>3, <3>4 DEF LineTyped
  <2> QED
    BY <2>1, <2>2
<1>5. P!AtEnd \/ Over \/ Broken
  BY <1>1 DEF PromptInv, Between
<1>6. /\ stdin[1] \in Nat \ {0} /\ stdin[2] \in Nat \ {0} /\ stdin = <<stdin[1], stdin[2]>>
      /\ \A k \in 1..Len(delivered') : LastOf(k)' \in Nat \X Nat
  <2>1. ASSUME NEW k \in 1..Len(delivered') PROVE LastOf(k)' \in Nat \X Nat
    <3>1. delivered'[k] \in Chars /\ delivered'[k] # <<>>
      BY <1>4 DEF P!NeverMixesLines, P!Piece
    <3>2. Len(delivered'[k]) \in 1..Len(delivered'[k])
      BY <3>1 DEF Chars
    <3> QED
      BY <3>1, <3>2 DEF LastOf, Chars
  <2> QED
    BY <1>1, <2>1, HereNow
<1>7. \/ P!AtEnd /\ stdin' = stdin
      \/ ~P!AtEnd /\ P!Left = 0 /\ stdin' = <<stdin[1] + 1, 1>>
      \/ ~P!AtEnd /\ P!Left # 0 /\ stdin' = <<stdin[1], stdin[2] + 1>>
  BY <1>1 DEF P!Skipped
<1>8. text' \in Chars /\ reading' \in {"prompt", "ended"} /\ (reading' = "ended" <=> promptStatus = 2)
  BY <1>1, <1>3 DEF Chars
<1>9. /\ stdin' \in (Nat \ {0}) \X (Nat \ {0})
      /\ stdin'[1] \in 1..P!LineCount => stdin'[2] <= typed.lens[stdin'[1]] + 1
  <2>1. CASE stdin' = stdin
    BY <1>1, <1>6, <2>1 DEF LineTyped
  <2>2. CASE stdin' = <<stdin[1] + 1, 1>>
    <3>1. stdin[1] + 1 \in Nat \ {0} /\ stdin'[1] = stdin[1] + 1 /\ stdin'[2] = 1
      BY <1>6, <2>2
    <3>2. ASSUME stdin'[1] \in 1..P!LineCount PROVE stdin'[2] <= typed.lens[stdin'[1]] + 1
      <4>1. typed.lens[stdin'[1]] \in Nat
        BY <1>1, <3>2, HereNow
      <4> QED
        BY <3>1, <4>1
    <3> QED
      BY <2>2, <3>1, <3>2
  <2>3. CASE ~P!AtEnd /\ P!Left # 0 /\ stdin' = <<stdin[1], stdin[2] + 1>>
    <3>1. stdin'[1] = stdin[1] /\ stdin'[2] = stdin[2] + 1 /\ stdin[2] + 1 \in Nat \ {0}
      BY <1>6, <2>3
    <3>2. ASSUME stdin[1] \in 1..P!LineCount PROVE stdin[2] + 1 <= typed.lens[stdin[1]] + 1
      <4>1. PICK l \in Nat : l = typed.lens[stdin[1]]
        BY <1>1, <3>2, HereNow
      <4>2. P!Left = l + 1 - stdin[2] /\ P!Left \in Nat
        BY <1>1, <3>2, <4>1, HereNow
      <4> QED
        BY <1>6, <2>3, <4>1, <4>2
    <3> QED
      BY <1>6, <2>3, <3>1, <3>2
  <2> QED
    BY <1>7, <2>1, <2>2, <2>3
<1>10. LineTyped'
  BY <1>1, <1>2, <1>4, <1>8, <1>9 DEF LineTyped
<1>11. AllBehind'
  <2>1. \A k \in 1..Len(delivered') :
           LastOf(k)'[1] < stdin'[1] \/ (LastOf(k)'[1] = stdin'[1] /\ LastOf(k)'[2] < stdin'[2])
    <3> TAKE k \in 1..Len(delivered')
    <3>1. LastOf(k)'[1] \in Nat /\ LastOf(k)'[2] \in Nat
      BY <1>6
    <3>2. LastOf(k)'[1] < stdin[1] \/ (LastOf(k)'[1] = stdin[1] /\ LastOf(k)'[2] < stdin[2])
      BY <1>4
    <3> QED
      BY <1>6, <1>7, <3>1, <3>2
  <2> QED
    BY <2>1 DEF AllBehind
<1>12. P!AtEnd' \/ stdin'[2] = 1 \/ Broken'
  <2>1. CASE P!AtEnd /\ stdin' = stdin
    BY <1>1, <2>1 DEF P!AtEnd, P!Left, P!LineCount
  <2>2. CASE stdin' = <<stdin[1] + 1, 1>>
    BY <2>2
  <2>3. CASE ~P!AtEnd /\ P!Left # 0 /\ stdin' = <<stdin[1], stdin[2] + 1>>
    <3>1. Broken
      BY <1>1, <1>5, <2>3, HereNow
    <3> QED
      BY <1>1, <2>3, <3>1 DEF Broken
  <2> QED
    BY <1>7, <2>1, <2>2, <2>3
<1>13. NoneLost'
  <2>1. SUFFICES ASSUME promptStatus # 2, NEW i \in 1..P!LineCount, P!Fits(i), i \notin starved
                 PROVE  (i < stdin'[1] => Delivered(i)') /\ (P!AtEnd' => Delivered(i)')
    BY <1>1, <1>2, <1>8 DEF NoneLost
  <2>2. i < stdin[1] => Delivered(i)'
    BY <1>1, <1>4, <2>1 DEF PromptInv, NoneLost
  <2>3. i = stdin[1] => Delivered(i)'
    BY <1>4, <2>1
  <2>4. CASE P!AtEnd /\ stdin' = stdin
    <3>1. i <= stdin[1]
      BY <1>2, <1>6, <2>4 DEF P!AtEnd
    <3> QED
      BY <1>6, <2>2, <2>3, <3>1
  <2>5. CASE ~P!AtEnd /\ P!Left = 0 /\ stdin' = <<stdin[1] + 1, 1>>
    <3>1. i < stdin'[1] => Delivered(i)'
      BY <1>6, <2>2, <2>3, <2>5
    <3>2. ASSUME P!AtEnd', ~(i < stdin'[1]) PROVE FALSE
      <4>1. i = stdin'[1] /\ P!Left' = 0 /\ stdin'[2] = 1
        BY <1>1, <1>2, <1>6, <2>5, <3>2 DEF P!AtEnd
      <4>2. typed.lens[i] = 0
        BY <1>1, <1>2, <4>1, HereNow DEF P!Left
      <4> QED
        BY <2>1, <4>2, BlocksAssumption DEF P!Fits
    <3> QED
      BY <3>1, <3>2
  <2>6. CASE ~P!AtEnd /\ P!Left # 0 /\ stdin' = <<stdin[1], stdin[2] + 1>>
    <3>1. P!AtEnd' => i <= stdin[1]
      BY <1>2, <1>6, <2>6 DEF P!AtEnd
    <3> QED
      BY <1>6, <2>2, <2>3, <2>6, <3>1
  <2> QED
    BY <1>7, <2>4, <2>5, <2>6
<1>14. P!EndsAtExit'
  <2> SUFFICES ASSUME promptStatus = 2 PROVE P!EndsAtExit'
    BY <1>8 DEF P!EndsAtExit
  <2>1. /\ Over /\ delivered' = delivered
        /\ \E e \in typed.exits : e[1] = stdin[1] /\ (e[2] = 1 \/ Broken) /\ Behind(e[2])
    BY <1>1 DEF PromptInv, Between
  <2>2. PICK e \in typed.exits : e[1] = stdin[1] /\ (e[2] = 1 \/ Broken) /\ Behind(e[2])
    BY <2>1
  <2>3. P!Left = 0 /\ stdin[1] \in 1..P!LineCount /\ stdin = <<stdin[1], typed.lens[stdin[1]] + 1>>
    BY <1>1, <2>1, HereNow DEF Over
  <2>4. P!AtEnd <=> stdin[1] = P!LineCount /\ ~typed.newline
    BY <1>2, <2>3 DEF P!AtEnd
  <2>5. stdin' = IF stdin[1] = P!LineCount /\ ~typed.newline
                 THEN <<stdin[1], typed.lens[stdin[1]] + 1>> ELSE <<stdin[1] + 1, 1>>
    BY <1>7, <2>3, <2>4
  <2>6. e[2] = 1 \/ e[1] \in starved' \/ ~P!Short(e[1])'
    BY <1>1, <2>2 DEF Broken, P!Short
  <2>7. \A k \in 1..Len(delivered') :
           LET last == delivered'[k][Len(delivered'[k])]
           IN  last[1] < e[1] \/ (last[1] = e[1] /\ last[2] < e[2])
    BY <2>1, <2>2 DEF Behind, LastOf
  <2>8. /\ e \in typed'.exits
        /\ stdin' = IF e[1] = P!LineCount' /\ ~typed'.newline
                    THEN <<e[1], typed'.lens[e[1]] + 1>> ELSE <<e[1] + 1, 1>>
    BY <1>1, <1>2, <2>2, <2>5
  <2> QED
    BY <2>6, <2>7, <2>8 DEF P!EndsAtExit
<1>15. Held' /\ FullBlocks' /\ Between'
  BY <1>1, <1>8, <1>12 DEF Held, FullBlocks, Between
<1> QED
  BY <1>4, <1>10, <1>11, <1>13, <1>14, <1>15 DEF PromptInv

LEMMA PromptNext == ASSUME PromptInv, [P!Next]_promptVars PROVE PromptInv'
<1>1. CASE UNCHANGED promptVars
  <2>1. typed' = typed /\ delivered' = delivered /\ starved \subseteq starved'
    BY <1>1 DEF promptVars
  <2>2. Whole' /\ P!NeverMixesLines'
    BY <2>1, DeliveredStays
  <2>3. LineTyped' /\ FullBlocks'
    BY <1>1 DEF promptVars, PromptInv, LineTyped, FullBlocks, Over, P!LineCount
  <2>4. Held'
    BY <1>1 DEF promptVars, PromptInv, Held, HeldFrom, Broken, Behind, LastOf, P!LineCount
  <2>5. Between' /\ AllBehind'
    BY <1>1 DEF promptVars, PromptInv, Between, Over, Broken, Behind, AllBehind, LastOf, P!LineCount, P!AtEnd, P!Left
  <2>6. NoneLost'
    BY <1>1 DEF promptVars, PromptInv, NoneLost, Delivered, P!Row, P!Fits, P!Short, P!LineCount, P!AtEnd, P!Left
  <2>7. P!EndsAtExit'
    BY <1>1 DEF promptVars, PromptInv, P!EndsAtExit, P!LineCount, P!Short
  <2> QED
    BY <2>2, <2>3, <2>4, <2>5, <2>6, <2>7 DEF PromptInv
<1> QED
  BY <1>1, ReadKeeps, GrowKeeps, GrowFailsKeeps, ReturnKeeps, EatKeeps DEF P!Next

LEMMA PromptHolds == ASSUME PromptInv PROVE P!TypeOK /\ P!DeliversTheLines /\ P!NeverMixesLines /\ P!EndsAtExit
<1>1. LineTyped
  BY DEF PromptInv
<1>2. Len(text) <= blocks * Block
  <2>1. Block \in Nat \ {0} /\ blocks \in Nat \ {0}
    BY <1>1, BlocksAssumption DEF LineTyped
  <2>2. PICK q \in Nat : q = blocks * Block
    BY <2>1
  <2>3. CASE text = <<>>
    BY <2>2, <2>3
  <2>4. CASE reading = "grow" /\ text # <<>>
    <3>1. CASE numRead # Block
      BY <2>4, <3>1 DEF PromptInv, FullBlocks
    <3>2. CASE numRead = Block
      <4>1. PICK n \in 1..blocks : Len(text) = n * Block
        BY <2>4, <3>2 DEF PromptInv, FullBlocks
      <4>2. n * Block <= blocks * Block
        BY <2>1
      <4> QED
        BY <4>1, <4>2
    <3> QED
      BY <3>1, <3>2
  <2>5. CASE reading = "eat" /\ text # <<>>
    BY <2>5 DEF PromptInv, Between
  <2> QED
    BY <1>1, <2>3, <2>4, <2>5 DEF PromptInv, Between, LineTyped
<1>3. P!TypeOK
  BY <1>1, <1>2 DEF PromptInv, Between, LineTyped, P!TypeOK
<1>4. P!DeliversTheLines
  <2>1. reading = "prompt" => \A i \in 1..P!LineCount :
           P!Gone(i) /\ P!Fits(i) /\ i \notin starved => \E n \in 1..Len(delivered) : delivered[n] = P!Row(i)
    <3> SUFFICES ASSUME reading = "prompt", NEW i \in 1..P!LineCount, P!Gone(i), P!Fits(i), i \notin starved
                 PROVE  Delivered(i)
      BY DEF Delivered
    <3>1. i < stdin[1] \/ P!AtEnd
      BY <1>1, HereNow DEF P!Gone
    <3> QED
      BY <3>1 DEF PromptInv, NoneLost
  <2> QED
    BY <2>1 DEF PromptInv, Whole, P!DeliversTheLines
<1> QED
  BY <1>3, <1>4 DEF PromptInv

(***************************************************************************)
(* For lines of any number and length, blocks of any size and as many as   *)
(* memory holds, whichever allocation fails: each line reaches the parser  *)
(* whole, once and in order, but for those that cannot; two are never      *)
(* mixed; and nothing is read after an exit (dsh.c:36-84).                 *)
(***************************************************************************)
THEOREM ReadsItsLines == MCSpec => []DeliversTheLines
<1> DEFINE Holds == program = "dsh_prompt" => PromptInv
<1>1. MCInit => Holds
  BY PromptStarts DEF MCInit
<1>2. Holds /\ [MCNext]_allVars => Holds'
  BY PromptNext DEF MCNext, allVars
<1>3. Holds => DeliversTheLines
  BY PromptHolds DEF DeliversTheLines
<1> QED
  BY <1>1, <1>2, <1>3, PTL DEF MCSpec
===============================================================================
