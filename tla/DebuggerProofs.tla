--------------------------- MODULE DebuggerProofs ---------------------------
(***************************************************************************)
(* Safety of Debugger for every set of programs, every register set, every *)
(* word size and every input: the invariants that MCDebugger checks on a   *)
(* small instance.                                                         *)
(***************************************************************************)
EXTENDS Debugger, BreakpointsProofs

-----------------------------------------------------------------------------
(* Types of the operators of Instructions.                                 *)

LEMMA WrapType == ASSUME NEW n \in Int PROVE Wrap(n) \in Word
BY WordSizeAssumption DEF Wrap, Word

LEMMA WordIsNat == Word \subseteq Nat /\ 0 \in Word
BY WordSizeAssumption DEF Word

LEMMA AlignSignedType == ASSUME NEW w \in Word PROVE AlignSigned(w) \in Word
<1>1. w \in Nat /\ w < WordSize /\ WordSize \in Nat
  BY WordSizeAssumption DEF Word
<1>2. CASE Signed(w) >= 0
  BY <1>1, <1>2, AlignType DEF AlignSigned, Word
<1>3. CASE ~ (Signed(w) >= 0)
  <2>1. Signed(w) \in Int
    BY <1>1 DEF Signed
  <2>2. -Align(-Signed(w)) \in Int
    BY <1>3, <2>1 DEF Align
  <2> QED
    BY <1>3, <2>2, WrapType DEF AlignSigned
<1> QED
  BY <1>2, <1>3

LEMMA NopType == Nop \in Instr
BY RegsAssumption, WordSizeAssumption DEF Nop, Instr, Ops

LEMMA FetchType ==
    ASSUME NEW p \in Programs, NEW a \in Word, NEW i \in Fetch(p, a)
    PROVE  i \in Instr
<1>1. p.at \in [p.start .. (EndOf(p) - 4) -> Instr]
  <2>1. IsProgram(p)
    BY ProgramsAssumption
  <2> QED
    BY <2>1, Zenon DEF IsProgram
<1>2. CASE a \in p.start .. (EndOf(p) - 4)
  BY <1>1, <1>2, Zenon DEF Fetch
<1>3. CASE a \notin p.start .. (EndOf(p) - 4)
  BY <1>3, OverreadAssumption, NopType DEF Fetch
<1> QED
  BY <1>2, <1>3

LEMMA TextType == ASSUME NEW p \in Programs PROVE TextOf(p) \subseteq Word /\ p.start \in Word
BY ProgramsAssumption, WordSizeAssumption DEF IsProgram, EndOf, TextOf, Word

LEMMA PendingType ==
    ASSUME NEW i \in Instr, NEW r \in [Regs -> Word]
    PROVE  Pending(i, r) \in Jump
<1>1. i.imm \in Int /\ i.rs \in Regs /\ r[i.rs] \in Int
  BY WordSizeAssumption DEF Instr, Word
<1> QED
  BY <1>1 DEF Pending, Jump

LEMMA LandType == ASSUME NEW j \in Jump, NEW a \in Word PROVE Land(j, a) \in Word
<1>1. (IF j.rel THEN a + j.to ELSE j.to) \in Int
  BY WordIsNat DEF Jump
<1> QED
  BY <1>1, WrapType DEF Land

LEMMA LinkType ==
    ASSUME NEW i \in Instr, NEW r \in [Regs -> Word], NEW a \in Word
    PROVE  Link(i, r, a) \in [Regs -> Word]
<1>1. Wrap(a + 8) \in Word
  BY WordIsNat, WrapType
<1> QED
  BY <1>1, RegsAssumption DEF Link

LEMMA EffectType ==
    ASSUME NEW i \in Instr, NEW r \in [Regs -> Word]
    PROVE  Effect(i, r) \in [Regs -> Word]
<1>1. i.imm \in Int /\ i.rs \in Regs /\ i.rt \in Regs /\ r[i.rs] \in Int
  BY WordSizeAssumption DEF Instr, Word
<1>2. Wrap(r[i.rs] + i.imm) \in Word
  BY <1>1, WrapType
<1> QED
  BY <1>1, <1>2 DEF Effect

LEMMA LastFrontType ==
    ASSUME NEW S, NEW s \in Seq(S), s # <<>>
    PROVE  Last(s) \in S /\ Front(s) \in Seq(S)
<1>1. Len(s) \in Nat \ {0} /\ \A k \in 1 .. Len(s) : s[k] \in S
  BY EmptySeq
<1>2. \A k \in 1 .. (Len(s) - 1) : s[k] \in S
  BY <1>1
<1>3. Last(s) \in S
  BY <1>1 DEF Last
<1>4. SubSeq(s, 1, Len(s) - 1) \in Seq(S)
  BY <1>1, <1>2, SubSeqProperties
<1> QED
  BY <1>3, <1>4 DEF Front

-----------------------------------------------------------------------------
(* Type correctness, one step per action.                                  *)

LEMMA TypeInit == Init => TypeOK
<1> SUFFICES ASSUME Init PROVE TypeOK
  OBVIOUS
<1>1. RaInit \in Word /\ 0 \in Word
  BY InputsAssumption, WordIsNat
<1>2. reg \in [Regs -> Word]
  BY <1>1 DEF Init
<1>3. <<>> \in Seq(Word) /\ <<>> \in Seq(Token) /\ <<>> \in Seq(Jump)
  OBVIOUS
<1> QED
  BY <1>1, <1>2, <1>3 DEF Init, TypeOK, Phases, Callers, Results

LEMMA TokenListType == ASSUME NEW ts \in SeqOf(Tokens, MaxTokens) PROVE ts \in Seq(Token)
<1>1. Tokens \subseteq Token /\ MaxTokens \in Nat
  BY InputsAssumption
<1>2. PICK m \in 0 .. MaxTokens : ts \in [1 .. m -> Tokens]
  BY DEF SeqOf
<1>3. m \in Nat /\ ts \in [1 .. m -> Token]
  BY <1>1, <1>2
<1> QED
  BY <1>3, SeqDef

LEMMA TypeCommand == TypeOK /\ Command => TypeOK'
<1> SUFFICES ASSUME TypeOK, Command PROVE TypeOK'
  OBVIOUS
<1> USE DEF Phases, Callers, Results, Loaded, Text, IsInText
<1>1. ASSUME NEW p \in Programs, Load(p) PROVE TypeOK'
  BY <1>1, NoElfAssumption DEF TypeOK, Load, Idle, Return, NoExec
<1>2. ASSUME NEW rv \in SetValues, SetReg(rv[1], rv[2]) PROVE TypeOK'
  <2>1. rv[1] \in Regs \cup {"pc"} /\ rv[2] \in Word
    BY InputsAssumption
  <2>2. pc' \in Word /\ reg' \in [Regs -> Word]
    BY <1>2, <2>1 DEF TypeOK, SetReg
  <2> QED
    BY <1>2, <2>2 DEF TypeOK, SetReg, Idle, Return, NoExec
<1>3. ASSUME NEW ts \in SeqOf(Tokens, MaxTokens), BreakAdd(ts) \/ BreakDel(ts)
      PROVE  TypeOK'
  <2>1. ts \in Seq(Token)
    BY TokenListType
  <2>2. CASE BreakAdd(ts)
    BY <2>1, <2>2 DEF TypeOK, BreakAdd, Idle
  <2>3. CASE BreakDel(ts)
    BY <2>1, <2>3 DEF TypeOK, BreakDel, Idle
  <2> QED
    BY <1>3, <2>2, <2>3
<1>4. CASE BreakDelAll
  <2>0. bps' \in {<<>>, bps} /\ UNCHANGED <<mem, pc, tok, reg, before, toks, pend, code>>
    BY <1>4 DEF BreakDelAll, NoExec
  <2>1. bps' \in Seq(Word)
    <3>1. <<>> \in Seq(Word) /\ bps \in Seq(Word)
      BY DEF TypeOK
    <3> QED
      BY <2>0, <3>1
  <2>2. /\ ph' \in {"prompt", "aborted"} /\ caller' = "none"
        /\ res' \in Results /\ Loaded /\ ph = "prompt"
    BY <1>4 DEF TypeOK, BreakDelAll, Idle, Return, NoExec
  <2> QED
    BY <2>0, <2>1, <2>2 DEF TypeOK
<1>5. ASSUME NEW a \in Word, Run(a) PROVE TypeOK'
  BY <1>5, AlignSignedType DEF TypeOK, Run, RunFrom, Idle
<1>6. CASE Loaded /\ Run(RunStart)
  <2>1. RunStart \in Word
    BY <1>6, TextType DEF TypeOK, RunStart
  <2> QED
    BY <1>5, <1>6, <2>1
<1>7. ASSUME NEW t \in Tokens, Run(t.val) PROVE TypeOK'
  <2>1. t.val \in Word
    BY InputsAssumption DEF Token
  <2> QED
    BY <1>5, <1>7, <2>1
<1>8. CASE StepOverJump
  <2>1. mem \in Programs
    BY <1>8 DEF TypeOK, StepOverJump
  <2>2. tok' \in Word /\ tok' \in Nat
    <3>1. pc + 8 \in Int /\ tok' = Wrap(pc + 8)
      BY <1>8, WordIsNat DEF TypeOK, StepOverJump
    <3>2. Wrap(pc + 8) \in Word
      BY <3>1, WrapType
    <3> QED
      BY <3>1, <3>2, WordIsNat
  <2>3. bps' \in Seq(Word)
    BY <1>8, <2>1, <2>2, AjouterType, TextType DEF TypeOK, StepOverJump
  <2>4. pc' \in Word
    BY <1>8, AlignSignedType DEF TypeOK, StepOverJump, RunFrom
  <2> QED
    BY <1>8, <2>2, <2>3, <2>4 DEF TypeOK, StepOverJump, RunFrom, Idle
<1>9. CASE StepOverPlain
  BY <1>9 DEF TypeOK, StepOverPlain, Idle
<1>10. CASE StepInto
  BY <1>10 DEF TypeOK, StepInto, Idle
<1>11. ASSUME NEW r \in Results, StepRefused(r) PROVE TypeOK'
  <2>1. pc' \in Word
    BY <1>11, TextType DEF TypeOK, StepRefused
  <2> QED
    BY <1>11, <2>1 DEF TypeOK, StepRefused, Idle, Return, NoExec
<1>12. CASE StepIntoRefused
  BY <1>11, <1>12 DEF StepIntoRefused
<1>13. CASE DroppedErrors
  <2>1. CASE BreakRefused
    BY <2>1 DEF TypeOK, BreakRefused, Idle, Return, NoExec
  <2>2. CASE RunRefused
    BY <2>2 DEF TypeOK, RunRefused, Idle, Return, NoExec
  <2>3. CASE StepRefused("ok")
    BY <1>11, <2>3
  <2> QED
    BY <1>13, <2>1, <2>2, <2>3 DEF DroppedErrors
<1> QED
  BY <1>1, <1>2, <1>3, <1>4, <1>6, <1>7, <1>8, <1>9, <1>10, <1>12, <1>13
     DEF Command, AcceptedCommand

LEMMA TypeHandler == TypeOK /\ Handler => TypeOK'
<1> SUFFICES ASSUME TypeOK, Handler PROVE TypeOK'
  OBVIOUS
<1> USE DEF Phases, Callers, Results, Loaded, Text, IsInText
<1>0. ph # "prompt" /\ mem \in Programs
  BY DEF TypeOK, Handler, AddToken, DelToken, BreakDone, LoopLeavesText, LoopBreaks,
         LoopExecutes, LoopReturns, ExecJump, ExecPlain, Unwind, StepintoReturns
<1>1. CASE AddToken
  <2>1. Head(toks) \in Token /\ Tail(toks) \in Seq(Token)
    BY <1>1 DEF TypeOK, AddToken
  <2>2. Head(toks).val \in Nat
    BY <2>1, WordIsNat DEF Token
  <2>3. bps' \in Seq(Word)
    BY <1>0, <1>1, <2>2, AjouterType, TextType DEF TypeOK, AddToken
  <2> QED
    BY <1>1, <2>1, <2>3 DEF TypeOK, AddToken
<1>2. CASE DelToken
  <2>1. Tail(toks) \in Seq(Token)
    BY <1>2 DEF TypeOK, DelToken
  <2>2. bps' \in Seq(Word)
    BY <1>2, FreeType DEF TypeOK, DelToken
  <2> QED
    BY <1>2, <2>1, <2>2 DEF TypeOK, DelToken
<1>3. CASE BreakDone
  BY <1>3 DEF TypeOK, BreakDone, Return
<1>4. CASE LoopLeavesText
  BY <1>4 DEF TypeOK, LoopLeavesText
<1>5. CASE LoopBreaks
  <2>1. pc' \in Word
    BY <1>5, WrapType, WordIsNat DEF TypeOK, LoopBreaks
  <2> QED
    BY <1>5, <2>1 DEF TypeOK, LoopBreaks
<1>6. CASE LoopExecutes
  BY <1>6 DEF TypeOK, LoopExecutes
<1>7. CASE LoopReturns
  <2>1. pc' \in Word /\ tok' \in Word
    BY <1>0, <1>7, TextType, WordIsNat DEF TypeOK, LoopReturns
  <2>2. bps' \in Seq(Word)
    BY <1>7, FreeType DEF TypeOK, LoopReturns
  <2> QED
    BY <1>7, <2>1, <2>2 DEF TypeOK, LoopReturns, Return
<1>8. CASE ExecJump
  <2>1. PICK i \in Fetch(mem, pc) : pend' = Append(pend, Pending(i, reg)) /\ reg' = Link(i, reg, pc)
    BY <1>8 DEF ExecJump
  <2>2. i \in Instr /\ pc \in Word /\ reg \in [Regs -> Word]
    BY <1>0, FetchType DEF TypeOK
  <2>3. pend' \in Seq(Jump)
    BY <2>1, <2>2, PendingType DEF TypeOK
  <2>4. reg' \in [Regs -> Word]
    BY <2>1, <2>2, LinkType
  <2>5. pc' \in Word
    BY <1>8, <2>2, WrapType, WordIsNat DEF ExecJump
  <2> QED
    BY <1>8, <2>3, <2>4, <2>5 DEF TypeOK, ExecJump
<1>9. CASE ExecPlain
  <2>1. PICK i \in Fetch(mem, pc) : reg' = Effect(i, reg) /\ code' \in {"exit", "other"}
    BY <1>9 DEF ExecPlain
  <2>2. reg' \in [Regs -> Word]
    BY <1>0, <2>1, FetchType, EffectType DEF TypeOK
  <2> QED
    BY <1>9, <2>1, <2>2 DEF TypeOK, ExecPlain
<1>10. CASE Unwind
  <2>1. Last(pend) \in Jump /\ Front(pend) \in Seq(Jump)
    BY <1>10, LastFrontType DEF TypeOK, Unwind
  <2>2. pc' \in Word
    BY <1>10, <2>1, LandType DEF TypeOK, Unwind
  <2> QED
    BY <1>10, <2>1, <2>2 DEF TypeOK, Unwind
<1>11. CASE StepintoReturns
  <2>1. pc' \in Word
    BY <1>0, <1>11, TextType, WrapType, WordIsNat DEF TypeOK, StepintoReturns
  <2> QED
    BY <1>11, <2>1 DEF TypeOK, StepintoReturns, Return
<1> QED
  BY <1>1, <1>2, <1>3, <1>4, <1>5, <1>6, <1>7, <1>8, <1>9, <1>10, <1>11 DEF Handler

LEMMA TypeStep == TypeOK /\ [Next]_vars => TypeOK'
<1>1. TypeOK /\ UNCHANGED vars => TypeOK'
  BY DEF TypeOK, vars, Loaded
<1> QED
  BY <1>1, TypeCommand, TypeHandler DEF Next, Aborted

(* Every variable keeps its type, and jumps are pending only while an      *)
(* instruction executes, in every behaviour of Debugger.                   *)
THEOREM TypeCorrect == Spec => []TypeOK
BY TypeInit, TypeStep, PTL DEF Spec
=============================================================================
