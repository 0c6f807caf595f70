---------------------------- MODULE SessionProofs ----------------------------
(***************************************************************************)
(* Safety of the main loop for every set of programs, every input and a    *)
(* script of any length: the variables keep their types, and the exit      *)
(* status of the process tells why it ended.                               *)
(***************************************************************************)
EXTENDS Session, DebuggerProofs

(* The three kinds of steps of the machine under the main loop.            *)
LEMMA TypeStays == TypeOK /\ UNCHANGED vars => TypeOK'
BY DEF TypeOK, vars, Loaded

LEMMA TypeReturn ==
    ASSUME TypeOK, NEW r \in Results, Idle, Return(r),
           UNCHANGED <<mem, pc, reg, bps, toks, pend, code, tok, before>>
    PROVE  TypeOK' /\ Idle'
BY DEF TypeOK, Idle, Return, Loaded, Phases, Callers

(* Types of the variables of the loop itself.                              *)
LoopTypes ==
    /\ mode \in {"SCRIPT", "INTERACTIF"}
    /\ fromFile \in BOOLEAN /\ eof \in BOOLEAN /\ hungUp \in BOOLEAN /\ refused \in BOOLEAN
    /\ why \in {"none", "exit", "error", "notElf", "gaveUp"}
    /\ left \in 0 .. MaxLines
    /\ stage \in Stages
    /\ status \in {"none", "success", "failure", "abort"}
    /\ stage = "ended" <=> status # "none"

(* Each action of the loop keeps these types, whatever the machine does.   *)
LEMMA LoopTypesStep == LoopTypes /\ [SNext]_svars => LoopTypes'
<1> SUFFICES ASSUME LoopTypes, [SNext]_svars PROVE LoopTypes'
  OBVIOUS
<1> USE DEF LoopTypes, Stages
<1>1. CASE ReadScriptLine
  <2>1. eof' \in BOOLEAN
    BY <1>1, Zenon DEF ReadScriptLine
  <2>2. left' = left \/ (left > 0 /\ left' = left - 1)
    BY <1>1, Zenon DEF ReadScriptLine
  <2>3. stage' \in Stages /\ (stage' = "ended" <=> status' # "none")
    BY <1>1 DEF ReadScriptLine
  <2>4. left' \in 0 .. MaxLines
    BY <2>2, MaxLinesAssumption
  <2> QED
    BY <1>1, <2>1, <2>3, <2>4 DEF ReadScriptLine
<1>2. CASE ReadTypedLine \/ HangUp \/ ReadNothing
  BY <1>2 DEF ReadTypedLine, HangUp, ReadNothing
<1>3. CASE StartCommand \/ Proceed
  BY <1>3 DEF StartCommand, Proceed, mainVars
<1>4. ASSUME NEW r \in Results \ {"sys10"}, OtherLine(r) PROVE LoopTypes'
  BY <1>4 DEF OtherLine
<1>5. ASSUME NEW m \in {"SCRIPT", "INTERACTIF"}, DebugOrResume(m) PROVE LoopTypes'
  BY <1>5 DEF DebugOrResume
<1>6. CASE Exit \/ LoadNotElf \/ LoadGivesUp \/ Killed \/ Crash
  BY <1>6 DEF Exit, LoadNotElf, LoadGivesUp, Killed, Crash, End
<1>7. CASE TreatResult \/ TestFeof
  BY <1>7 DEF TreatResult, TestFeof, End
<1>8. CASE Ended \/ UNCHANGED svars
  BY <1>8 DEF Ended, svars, mainVars
<1> QED
  BY <1>1, <1>2, <1>3, <1>4, <1>5, <1>6, <1>7, <1>8 DEF SNext, Main, User

(* A command is only running in the stage that waits for it.               *)
BetweenCommands == stage \in {"acquire", "execute", "feof"} => Idle

LEMMA MachineStep ==
    ASSUME TypeOK, LoopTypes, BetweenCommands, [SNext]_svars
    PROVE  TypeOK' /\ BetweenCommands'
<1> USE DEF BetweenCommands
<1>1. CASE ReadScriptLine
  BY <1>1, TypeStays DEF ReadScriptLine, vars, Idle
<1>2. CASE ReadTypedLine \/ HangUp \/ ReadNothing
  BY <1>2, TypeStays DEF ReadTypedLine, HangUp, ReadNothing, vars, Idle
<1>3. CASE StartCommand
  BY <1>3, TypeCommand DEF StartCommand, Command
<1>4. CASE Proceed
  BY <1>4, TypeHandler DEF Proceed, mainVars
<1>5. ASSUME NEW r \in Results \ {"sys10"}, OtherLine(r) PROVE TypeOK' /\ BetweenCommands'
  BY <1>5, TypeReturn DEF OtherLine
<1>6. ASSUME NEW m \in {"SCRIPT", "INTERACTIF"}, DebugOrResume(m)
      PROVE  TypeOK' /\ BetweenCommands'
  BY <1>6, TypeReturn DEF DebugOrResume, Results
<1>7. CASE Exit \/ LoadNotElf \/ LoadGivesUp \/ Killed \/ Crash
  BY <1>7, TypeStays DEF Exit, LoadNotElf, LoadGivesUp, Killed, Crash, End
<1>8. CASE TreatResult \/ TestFeof
  BY <1>8, TypeStays DEF TreatResult, TestFeof, End, vars, Idle
<1>9. CASE Ended \/ UNCHANGED svars
  BY <1>9, TypeStays DEF Ended, svars, mainVars, vars, Idle
<1> QED
  BY <1>1, <1>2, <1>3, <1>4, <1>5, <1>6, <1>7, <1>8, <1>9 DEF SNext, Main, User

LEMMA SessionTypes ==
    /\ STypeOK <=> TypeOK /\ LoopTypes /\ BetweenCommands
    /\ STypeOK' <=> TypeOK' /\ LoopTypes' /\ BetweenCommands'
BY DEF STypeOK, LoopTypes, BetweenCommands

LEMMA SessionTypeInit == SInit => STypeOK
<1> SUFFICES ASSUME SInit PROVE STypeOK
  OBVIOUS
<1>1. TypeOK /\ Idle
  BY TypeInit DEF SInit, Init, Idle
<1>2. LoopTypes /\ BetweenCommands
  BY <1>1 DEF SInit, LoopTypes, BetweenCommands, Stages
<1> QED
  BY <1>1, <1>2, SessionTypes

(* Every variable of the session keeps its type, the process has an exit   *)
(* status exactly when it has ended, and main reads, tests and executes    *)
(* lines only between commands.                                            *)
THEOREM SessionTyped == SSpec => []STypeOK
<1>1. STypeOK /\ [SNext]_svars => STypeOK'
  BY LoopTypesStep, MachineStep, SessionTypes
<1> QED
  BY <1>1, SessionTypeInit, PTL DEF SSpec

-----------------------------------------------------------------------------
(* The exit status.  What makes StatusTellsWhy inductive: no reason is     *)
(* recorded before the end, and the end of the file is only met with       *)
(* nothing left to read.                                                   *)
NoReasonYet == stage # "ended" => why = "none"
EofMeansRead == eof => left = 0
StatusInv == STypeOK /\ NoReasonYet /\ EofMeansRead /\ StatusTellsWhy

LEMMA StatusStep ==
    ASSUME LoopTypes, NoReasonYet, EofMeansRead, StatusTellsWhy, [SNext]_svars
    PROVE  NoReasonYet' /\ EofMeansRead' /\ StatusTellsWhy'
<1> USE DEF LoopTypes, NoReasonYet, EofMeansRead, StatusTellsWhy
<1>1. CASE ReadScriptLine
  <2>1. left' = 0 \/ eof' = FALSE
    <3>1. left \in Nat
      BY MaxLinesAssumption
    <3>2. CASE left > 0 /\ left # 1
      BY <1>1, <3>2, Zenon DEF ReadScriptLine
    <3>3. CASE left = 1
      BY <1>1, <3>3 DEF ReadScriptLine
    <3>4. left = 0 <=> ~(left > 0)
      BY <3>1
    <3>5. ~(left > 0) => left' = left
      BY <1>1, Zenon DEF ReadScriptLine
    <3> QED
      BY <3>1, <3>2, <3>3, <3>4, <3>5
  <2>2. why' = why /\ why = "none" /\ status' = status /\ stage # "ended"
    BY <1>1 DEF ReadScriptLine
  <2>3. NoReasonYet' /\ StatusTellsWhy'
    BY <2>2
  <2> QED
    BY <2>1, <2>3
<1>2. CASE ReadTypedLine \/ HangUp \/ ReadNothing
  BY <1>2 DEF ReadTypedLine, HangUp, ReadNothing
<1>3. CASE StartCommand \/ Proceed
  BY <1>3 DEF StartCommand, Proceed, mainVars
<1>4. ASSUME NEW r \in Results \ {"sys10"}, OtherLine(r)
      PROVE  NoReasonYet' /\ EofMeansRead' /\ StatusTellsWhy'
  BY <1>4 DEF OtherLine
<1>5. ASSUME NEW m \in {"SCRIPT", "INTERACTIF"}, DebugOrResume(m)
      PROVE  NoReasonYet' /\ EofMeansRead' /\ StatusTellsWhy'
  BY <1>5 DEF DebugOrResume
<1>6. CASE Exit \/ LoadNotElf \/ LoadGivesUp \/ Killed \/ Crash
  BY <1>6 DEF Exit, LoadNotElf, LoadGivesUp, Killed, Crash, End
<1>7. CASE TreatResult
  BY <1>7 DEF TreatResult, End
<1>8. CASE TestFeof
  BY <1>8 DEF TestFeof, End
<1>9. CASE Ended \/ UNCHANGED svars
  BY <1>9 DEF Ended, svars, mainVars
<1> QED
  BY <1>1, <1>2, <1>3, <1>4, <1>5, <1>6, <1>7, <1>8, <1>9 DEF SNext, Main, User

(* The exit status of a session tells what happened in it, for a script of *)
(* any length and whatever the commands do.                                *)
THEOREM StatusHonest == SSpec => []StatusTellsWhy
<1>1. SInit => StatusInv
  BY SessionTypeInit
     DEF StatusInv, SInit, NoReasonYet, EofMeansRead, StatusTellsWhy
<1>2. StatusInv /\ [SNext]_svars => StatusInv'
  BY LoopTypesStep, MachineStep, SessionTypes, StatusStep DEF StatusInv
<1>3. StatusInv => StatusTellsWhy
  BY DEF StatusInv
<1> QED
  BY <1>1, <1>2, <1>3, PTL DEF SSpec
=============================================================================
