--------------------------- MODULE DebuggerSafety ---------------------------
(***************************************************************************)
(* IndInv is an inductive invariant of Debugger, and the properties of the *)
(* breakpoint list, of run and of step that follow from it, for every set  *)
(* of programs and every input.  At the end, execution implements the      *)
(* architecture MipsArch.                                                  *)
(***************************************************************************)
EXTENDS DebuggerProofs

(* What a command can do before the first instruction it executes: it does *)
(* not end a loop, it enters execute_asm only outside run, and only step   *)
(* leaves a breakpoint of its own behind.                                  *)
LEMMA CommandEffect ==
    ASSUME TypeOK, Command
    PROVE  /\ ph = "prompt" /\ caller = "none"
           /\ ph' # "endloop"
           /\ ph' = "exec" => caller' \notin {"run", "step"}
           /\ caller' = "step" => bps' = AjouterEnTete(before', tok', Text')
<1>1. ph = "prompt" /\ caller = "none"
  BY DEF TypeOK, Command, AcceptedCommand, DroppedErrors, Idle, Load, SetReg, BreakAdd,
         BreakDel, BreakDelAll, BreakRefused, Run, StepOverJump, StepOverPlain, StepInto,
         StepRefused, RunRefused, StepIntoRefused
<1>2. \/ ph' \in {"prompt", "adding", "deleting", "aborted"} /\ caller' = "none"
      \/ ph' = "loop" /\ caller' = "run"
      \/ ph' = "exec" /\ caller' \in {"into", "over"}
      \/ StepOverJump
  BY <1>1 DEF Command, AcceptedCommand, DroppedErrors, Load, SetReg, BreakAdd, BreakDel,
         BreakDelAll, BreakRefused, Run, StepOverPlain, StepInto, StepRefused,
         RunRefused, StepIntoRefused, Return, RunFrom
<1>3. StepOverJump =>
          ph' = "loop" /\ bps' = AjouterEnTete(before', tok', Text')
  BY DEF StepOverJump, RunFrom, Text
<1> QED
  BY <1>1, <1>2, <1>3

-----------------------------------------------------------------------------
(* The breakpoint list.                                                    *)

(* Every change of the list, by whatever command, is one call of the list's *)
(* own operations or leaves it empty.                                      *)
LEMMA ListChanges ==
    ASSUME TypeOK, [Next]_vars
    PROVE  \/ bps' = bps \/ bps' = <<>>
           \/ \E a \in Word : bps' = FreeBp(bps, a)
           \/ Text \in SUBSET Word /\ \E t \in Nat : bps' = AjouterEnTete(bps, t, Text)
<1>1. Loaded => Text \in SUBSET Word
  BY TextType DEF TypeOK, Loaded, Text
<1>2. CASE UNCHANGED vars \/ Aborted
  BY <1>2 DEF vars, Aborted
<1>3. CASE Command
  <2>1. StepOverJump => Loaded /\ \E t \in Nat : bps' = AjouterEnTete(bps, t, Text)
    <3> SUFFICES ASSUME StepOverJump
                 PROVE  Loaded /\ \E t \in Nat : bps' = AjouterEnTete(bps, t, Text)
      OBVIOUS
    <3>1. pc + 8 \in Int
      BY WordIsNat DEF TypeOK
    <3>2. tok' \in Nat
      BY <3>1, WrapType, WordIsNat DEF StepOverJump
    <3> QED
      BY <3>2 DEF StepOverJump
  <2>2. bps' \in {bps, <<>>} \/ StepOverJump
    BY <1>3 DEF Command, AcceptedCommand, DroppedErrors, Load, SetReg, BreakAdd, BreakDel,
           BreakDelAll, BreakRefused, Run, StepOverPlain, StepInto, StepRefused,
           RunRefused, StepIntoRefused
  <2> QED
    BY <1>1, <2>1, <2>2
<1>4. CASE Handler
  <2>1. CASE AddToken
    <3>1. Loaded /\ Head(toks) \in Token
      BY <2>1 DEF TypeOK, AddToken
    <3>2. Head(toks).val \in Nat
      BY <3>1, WordIsNat DEF Token
    <3> QED
      BY <1>1, <2>1, <3>1, <3>2 DEF AddToken
  <2>2. CASE DelToken
    <3>1. Head(toks) \in Token
      BY <2>2 DEF TypeOK, DelToken
    <3>2. Head(toks).val \in Word
      BY <3>1 DEF Token
    <3> QED
      BY <2>2, <3>2 DEF DelToken
  <2>3. CASE LoopReturns
    BY <2>3 DEF LoopReturns, TypeOK
  <2>4. AddToken \/ DelToken \/ LoopReturns \/ bps' = bps
    BY <1>4 DEF Handler, BreakDone, LoopLeavesText, LoopBreaks, LoopExecutes, ExecJump,
           ExecPlain, Unwind, StepintoReturns
  <2> QED
    BY <2>1, <2>2, <2>3, <2>4
<1> QED
  BY <1>2, <1>3, <1>4 DEF Next

(* An address is in the list once, or twice when its second node is the    *)
(* oldest of the list.                                                     *)
LEMMA FrontDistinctStep ==
    ASSUME TypeOK, BreakpointsFrontDistinct, [Next]_vars
    PROVE  BreakpointsFrontDistinct'
<1>1. bps \in Seq(Word) /\ FrontDistinct(bps)
  BY DEF TypeOK, BreakpointsFrontDistinct
<1>2. FrontDistinct(<<>>)
  BY DEF FrontDistinct
<1>3. \A a \in Word : FrontDistinct(FreeBp(bps, a))
  BY <1>1, FreeFrontDistinct
<1>4. Text \in SUBSET Word => \A t \in Nat : FrontDistinct(AjouterEnTete(bps, t, Text))
  BY <1>1, AjouterFrontDistinct
<1> QED
  BY <1>1, <1>2, <1>3, <1>4, ListChanges DEF BreakpointsFrontDistinct

(* Alignment only depends on the set of addresses in the list.             *)
LEMMA AlignedElements ==
    ASSUME NEW S, NEW l \in Seq(S)
    PROVE  (\A k \in DOMAIN l : l[k] % 4 = 0) <=> (\A x \in ToSet(l) : x % 4 = 0)
BY DEF ToSet

(* Every address in the list is on a word boundary.                        *)
LEMMA AlignedStep ==
    ASSUME TypeOK, BreakpointsAligned, [Next]_vars
    PROVE  BreakpointsAligned'
<1>1. bps \in Seq(Word) /\ \A k \in DOMAIN bps : bps[k] % 4 = 0
  BY DEF TypeOK, BreakpointsAligned
<1>2. ASSUME NEW a \in Word, bps' = FreeBp(bps, a) PROVE BreakpointsAligned'
  <2>1. bps' \in Seq(Word) /\ ToSet(bps') \subseteq ToSet(bps)
    BY <1>1, <1>2, FreeType, FreeElements
  <2>2. \A x \in ToSet(bps) : x % 4 = 0
    BY <1>1, AlignedElements
  <2> QED
    BY <2>1, <2>2, AlignedElements DEF BreakpointsAligned
<1>3. ASSUME Text \in SUBSET Word, NEW t \in Nat, bps' = AjouterEnTete(bps, t, Text)
      PROVE  BreakpointsAligned'
  BY <1>1, <1>3, AjouterAligned DEF BreakpointsAligned
<1>4. bps' = <<>> => BreakpointsAligned'
  BY DEF BreakpointsAligned
<1>5. bps' = bps => BreakpointsAligned'
  BY <1>1 DEF BreakpointsAligned
<1> QED
  BY <1>2, <1>3, <1>4, <1>5, ListChanges

-----------------------------------------------------------------------------
(* The loop of run.                                                        *)

(* The loop ended because pc left .text, passed a breakpoint or was reset  *)
(* by an exit.                                                             *)
LEMMA LoopEndedStep ==
    ASSUME TypeOK, LoopEndedFor, [Next]_vars
    PROVE  LoopEndedFor'
<1> USE DEF LoopEndedFor, IsInText, Text
<1>1. CASE UNCHANGED vars \/ Aborted
  BY <1>1 DEF vars, Aborted
<1>2. CASE Command
  BY <1>2, CommandEffect
<1>3. CASE LoopLeavesText
  BY <1>3 DEF LoopLeavesText
<1>4. CASE LoopBreaks
  BY <1>4 DEF LoopBreaks, CheckBp
<1>5. CASE StepintoReturns
  BY <1>5 DEF StepintoReturns, Return
<1>6. CASE /\ Handler
           /\ ~ (LoopLeavesText \/ LoopBreaks \/ StepintoReturns)
  <2>1. ph' # "endloop"
    BY <1>6 DEF Handler, AddToken, DelToken, BreakDone, LoopExecutes, LoopReturns,
           ExecJump, ExecPlain, Unwind, Return
  <2> QED
    BY <2>1
<1> QED
  BY <1>1, <1>2, <1>3, <1>4, <1>5, <1>6 DEF Next

(* Between the test of the loop and the instruction, neither pc nor the    *)
(* list changes.                                                           *)
LEMMA ExecCheckedStep ==
    ASSUME TypeOK, ExecChecked, [Next]_vars
    PROVE  ExecChecked'
<1> USE DEF ExecChecked
<1>1. CASE UNCHANGED vars \/ Aborted
  BY <1>1 DEF vars, Aborted
<1>2. CASE Command
  BY <1>2, CommandEffect
<1>3. CASE LoopExecutes
  BY <1>3 DEF LoopExecutes
<1>4. CASE ExecJump
  <2>1. PICK i \in Fetch(mem, pc) : pend' = Append(pend, Pending(i, reg))
    BY <1>4 DEF ExecJump
  <2>2. pend \in Seq(Jump) /\ Pending(i, reg) \in Jump
    <3>1. mem \in Programs
      BY <1>4 DEF TypeOK, Loaded, ExecJump
    <3> QED
      BY <3>1, FetchType, PendingType DEF TypeOK
  <2>3. pend' # <<>>
    BY <2>1, <2>2
  <2> QED
    BY <2>3
<1>5. CASE Handler /\ ~ (LoopExecutes \/ ExecJump)
  <2>1. ph' # "exec"
    BY <1>5 DEF Handler, AddToken, DelToken, BreakDone, LoopLeavesText, LoopBreaks,
           LoopReturns, ExecPlain, Unwind, StepintoReturns, Return
  <2> QED
    BY <2>1
<1> QED
  BY <1>1, <1>2, <1>3, <1>4, <1>5 DEF Next

(* From the push to the free of step nothing else changes the list, the    *)
(* address or .text.                                                       *)
LEMMA StepHoldsListStep ==
    ASSUME TypeOK, StepHoldsList, [Next]_vars
    PROVE  StepHoldsList'
<1> USE DEF StepHoldsList, Text
<1>1. CASE UNCHANGED vars \/ Aborted
  BY <1>1 DEF vars, Aborted
<1>2. CASE Command
  BY <1>2, CommandEffect
<1>3. CASE Handler
  <2>1. \/ caller' # "step"
        \/ UNCHANGED <<caller, bps, before, tok, mem>>
    BY <1>3 DEF TypeOK, Handler, AddToken, DelToken, BreakDone, LoopLeavesText, LoopBreaks,
           LoopExecutes, LoopReturns, ExecJump, ExecPlain, Unwind, StepintoReturns, Return
  <2> QED
    BY <2>1
<1> QED
  BY <1>1, <1>2, <1>3 DEF Next

-----------------------------------------------------------------------------
(* The inductive invariant and what follows from it.                       *)

LEMMA InitIndInv == Init => IndInv
<1> SUFFICES ASSUME Init PROVE IndInv
  OBVIOUS
<1>1. bps = <<>> /\ ph = "prompt" /\ caller = "none"
  BY DEF Init
<1>2. BreakpointsFrontDistinct /\ BreakpointsAligned
  BY <1>1 DEF BreakpointsFrontDistinct, FrontDistinct, BreakpointsAligned
<1> QED
  BY <1>1, <1>2, TypeInit DEF IndInv, LoopEndedFor, ExecChecked, StepHoldsList

LEMMA IndInvStep == IndInv /\ [Next]_vars => IndInv'
BY TypeStep, FrontDistinctStep, AlignedStep, LoopEndedStep, ExecCheckedStep,
   StepHoldsListStep
   DEF IndInv

(* The strengthened invariant holds in every behaviour.                    *)
THEOREM InductiveInvariant == Spec => []IndInv
BY InitIndInv, IndInvStep, PTL DEF Spec

(* break add, break del, break del all and step keep the nodes before the  *)
(* tail of the list pairwise different.                                    *)
THEOREM ListShape == Spec => []BreakpointsFrontDistinct
<1>1. IndInv => BreakpointsFrontDistinct
  BY DEF IndInv
<1> QED
  BY <1>1, InductiveInvariant, PTL

(* No command ever leaves a breakpoint off a word boundary.                *)
THEOREM ListAligned == Spec => []BreakpointsAligned
<1>1. IndInv => BreakpointsAligned
  BY DEF IndInv
<1> QED
  BY <1>1, InductiveInvariant, PTL

(* run gives the prompt back one instruction after a breakpoint, or at the *)
(* start of .text.                                                         *)
THEOREM RunStops == Spec => RunStopsAtBreakpointOrEnd
<1>1. IndInv /\ [Next]_vars =>
        [ph = "endloop" /\ ph' = "prompt" =>
            pc' = mem.start \/ \E k \in DOMAIN bps : pc' = Wrap(bps[k] + 4)]_vars
  <2> SUFFICES ASSUME IndInv, Next, ph = "endloop", ph' = "prompt"
               PROVE  pc' = mem.start \/ \E k \in DOMAIN bps : pc' = Wrap(bps[k] + 4)
    BY Zenon
  <2>1. LoopReturns
    BY DEF Next, Aborted, Handler, Command, AcceptedCommand, DroppedErrors, Idle, Load,
           SetReg, BreakAdd, BreakDel, BreakDelAll, BreakRefused, Run, StepOverJump,
           StepOverPlain, StepInto, StepRefused, RunRefused, StepIntoRefused, AddToken,
           DelToken, BreakDone, LoopLeavesText, LoopBreaks, LoopExecutes, ExecJump,
           ExecPlain, Unwind, StepintoReturns
  <2> QED
    BY <2>1 DEF IndInv, LoopEndedFor, LoopReturns
<1> QED
  BY <1>1, InductiveInvariant, PTL DEF Spec, RunStopsAtBreakpointOrEnd

(* Under run no instruction that has a breakpoint executes, unless it is   *)
(* in a delay slot.                                                        *)
THEOREM BreakpointsSeen == Spec => BreakpointsEscapedOnlyInDelaySlots
<1>1. IndInv /\ [Next]_vars =>
        [ph = "exec" /\ (ph' # ph \/ pend' # pend) /\ caller \in {"run", "step"}
            => pend # <<>> \/ ~ CheckBp(bps, pc)]_vars
  BY DEF IndInv, ExecChecked
<1> QED
  BY <1>1, InductiveInvariant, PTL DEF Spec, BreakpointsEscapedOnlyInDelaySlots

(* step over a jump at an aligned PC gives the user's breakpoints back,    *)
(* but for the one at PC+8.                                                *)
THEOREM StepRestores == Spec => StepRestoresBreakpoints
<1>1. IndInv /\ [Next]_vars =>
        [caller = "step" /\ caller' = "none" /\ tok % 4 = 0 =>
            /\ ToSet(bps') \subseteq ToSet(before)
            /\ ToSet(before) \ {tok} \subseteq ToSet(bps')]_vars
  <2> SUFFICES ASSUME IndInv, Next, caller = "step", caller' = "none", tok % 4 = 0
               PROVE  /\ ToSet(bps') \subseteq ToSet(before)
                      /\ ToSet(before) \ {tok} \subseteq ToSet(bps')
    BY Zenon
  <2>1. TypeOK /\ bps = AjouterEnTete(before, tok, Text)
    BY DEF IndInv, StepHoldsList
  <2>2. LoopReturns
    <3>1. ~ Command
      BY <2>1, CommandEffect
    <3>2. ph \notin {"prompt", "adding", "deleting", "aborted"}
      BY <2>1 DEF TypeOK
    <3> QED
      BY <3>1, <3>2 DEF Next, Aborted, Handler, AddToken, DelToken, BreakDone,
             LoopLeavesText, LoopBreaks, LoopExecutes, ExecJump, ExecPlain, Unwind,
             StepintoReturns
  <2>3. bps' = FreeBp(AjouterEnTete(before, tok, Text), tok)
    BY <2>1, <2>2 DEF LoopReturns
  <2>4. Text \in SUBSET Word
    BY <2>1, TextType DEF TypeOK, Loaded, Text
  <2>5. before \in Seq(Word) /\ tok \in Word /\ Word \in SUBSET Nat
    BY <2>1, WordIsNat DEF TypeOK
  <2> QED
    BY <2>3, <2>4, <2>5, PushThenFree
<1> QED
  BY <1>1, InductiveInvariant, PTL DEF Spec, StepRestoresBreakpoints

-----------------------------------------------------------------------------
(* Execution implements the architecture MipsArch, for programs that keep  *)
(* jumps and the exit call out of delay slots.                             *)

(* Wrapping once or twice is the same: pc arithmetic in several steps.     *)
LEMMA WrapPlus == ASSUME NEW x \in Int, NEW k \in Int PROVE Wrap(Wrap(x) + k) = Wrap(x + k)
<1> DEFINE d == x \div WordSize
           m == x % WordSize
<1>0. WordSize \in Nat \ {0}
  BY WordSizeAssumption
<1>1. d \in Int /\ m \in Int /\ x = WordSize * d + m
  BY <1>0, DivMod
<1> HIDE DEF d, m
<1> DEFINE n == m + k
<1>2. n \in Int /\ x + k = d * WordSize + n
  BY <1>0, <1>1
<1> HIDE DEF n
<1>3. (d * WordSize + n) % WordSize = n % WordSize
  BY <1>0, <1>1, <1>2, ModPlus
<1>4. (x + k) % WordSize = (m + k) % WordSize
  BY <1>2, <1>3 DEF n
<1> QED
  BY <1>4 DEF Wrap, m

(* The instructions of the architecture are those of Instructions.         *)
LEMMA SameInstructions ==
    /\ Arch!JumpOps = JumpOps
    /\ \A i, r : Arch!Taken(i, r) <=> Taken(i, r)
    /\ \A i, r : Arch!Exits(i, r) <=> Exits(i, r)
    /\ \A i, r, a : Arch!Link(i, r, a) = Link(i, r, a)
    /\ \A i, r : Arch!Effect(i, r) = Effect(i, r)
    /\ \A p, a : Arch!Fetch(p, a) = Fetch(p, a)
    /\ \A n : Arch!Wrap(n) = Wrap(n)
<1>1. \A n : Arch!Wrap(n) = Wrap(n)
  BY DEF Wrap, Arch!Wrap
<1>2. Arch!JumpOps = JumpOps
  BY DEF JumpOps, Arch!JumpOps, Branches, Arch!Branches
<1>3. \A i, r : Arch!Taken(i, r) <=> Taken(i, r)
  BY DEF Taken, Arch!Taken, Signed, Arch!Signed
<1>4. \A i, r : Arch!Exits(i, r) <=> Exits(i, r)
  BY DEF Exits, Arch!Exits, ExitCode, Arch!ExitCode
<1>5. \A i, r, a : Arch!Link(i, r, a) = Link(i, r, a)
  BY DEF Link, Arch!Link, Wrap, Arch!Wrap
<1>6. \A i, r : Arch!Effect(i, r) = Effect(i, r)
  BY DEF Effect, Arch!Effect, Wrap, Arch!Wrap
<1>7. \A p, a : Arch!Fetch(p, a) = Fetch(p, a)
  BY DEF Fetch, Arch!Fetch, EndOf, Arch!EndOf, Nop, Arch!Nop
<1> QED
  BY <1>1, <1>2, <1>3, <1>4, <1>5, <1>6, <1>7

(* A jump that has landed, with the 4 that stepinto adds, is where the     *)
(* architecture sends it: the - 4 of the offsets and targets pay for the   *)
(* + 4 of the delay slot and of stepinto.                                  *)
LEMMA JumpTarget ==
    ASSUME TypeOK, mem \in Programs, NEW i \in Fetch(mem, pc), i.op \in JumpOps
    PROVE  Wrap(Land(Pending(i, reg), Wrap(pc + 4)) + 4) = Wrap(Arch!Target(i, pc))
<1> DEFINE imm == i.imm
           t == IF i.op = "JR" THEN reg[i.rs] ELSE imm
<1>1. pc \in Int /\ i.imm \in Int /\ t \in Int
  <2>1. i \in Instr /\ pc \in Word /\ reg \in [Regs -> Word]
    BY FetchType DEF TypeOK
  <2>2. i.rs \in Regs /\ i.imm \in -WordSize .. WordSize
    BY <2>1 DEF Instr
  <2>3. pc \in Int /\ reg[i.rs] \in Int
    <3>1. reg[i.rs] \in Word
      BY <2>1, <2>2
    <3>2. Word \subseteq Int
      BY WordIsNat
    <3> QED
      BY <2>1, <3>1, <3>2, Zenon
  <2>4. i.imm \in Int
    BY <2>2, WordSizeAssumption
  <2> QED
    BY <2>3, <2>4
<1>2. /\ i.op \in Branches => i.op \notin {"JR", "J", "JAL"}
      /\ i.op \notin Branches => i.op \in {"JR", "J", "JAL"}
  BY DEF Branches, JumpOps
<1>3. /\ i.op \in Branches /\ Taken(i, reg) =>
            /\ Arch!Target(i, pc) = pc + 4 + imm
            /\ Pending(i, reg) = [rel |-> TRUE, to |-> imm - 4]
      /\ i.op \in Branches /\ ~ Taken(i, reg) =>
            /\ Arch!Target(i, pc) = pc + 8
            /\ Pending(i, reg) = [rel |-> TRUE, to |-> 0]
      /\ i.op \notin Branches =>
            /\ Arch!Target(i, pc) = t
            /\ Pending(i, reg) = [rel |-> FALSE, to |-> t - 4]
  <2>1. CASE i.op \in Branches
    <3>1. i.op \notin {"JR", "J", "JAL"}
      BY <1>2, <2>1
    <3>2. Arch!Target(i, pc) = IF Taken(i, reg) THEN pc + 4 + imm ELSE pc + 8
      BY <3>1, SameInstructions DEF Arch!Target
    <3>3. Pending(i, reg) = [rel |-> TRUE, to |-> IF Taken(i, reg) THEN imm - 4 ELSE 0]
      BY <2>1, <3>1 DEF Pending
    <3> QED
      BY <2>1, <3>2, <3>3
  <2>2. CASE i.op \notin Branches
    <3>1. Arch!Target(i, pc) = t
      <4>1. ~ Taken(i, reg)
        BY <2>2 DEF Taken, Branches
      <4> QED
        BY <1>2, <2>2, <4>1, SameInstructions DEF Arch!Target
    <3>2. Pending(i, reg) = [rel |-> FALSE, to |-> t - 4]
      BY <1>2, <2>2 DEF Pending
    <3> QED
      BY <2>2, <3>1, <3>2
  <2> QED
    BY <2>1, <2>2
<1> HIDE DEF imm, t
<1>4. \A n : /\ Land([rel |-> TRUE, to |-> n], Wrap(pc + 4)) = Wrap(Wrap(pc + 4) + n)
            /\ Land([rel |-> FALSE, to |-> n], Wrap(pc + 4)) = Wrap(n)
  BY DEF Land
<1>5. ASSUME NEW n \in Int PROVE Wrap(Wrap(Wrap(pc + 4) + n) + 4) = Wrap(pc + 8 + n)
  <2>1. pc + 4 \in Int /\ pc + 4 + n \in Int /\ pc + 4 + n + 4 = pc + 8 + n
    BY <1>1
  <2>2. Wrap(Wrap(pc + 4) + n) = Wrap(pc + 4 + n)
    BY <2>1, WrapPlus
  <2>3. Wrap(Wrap(pc + 4 + n) + 4) = Wrap(pc + 4 + n + 4)
    BY <2>1, WrapPlus
  <2> QED
    BY <2>1, <2>2, <2>3
<1>6. CASE i.op \in Branches /\ Taken(i, reg)
  <2>1. imm - 4 \in Int /\ pc + 8 + (imm - 4) = pc + 4 + imm
    BY <1>1 DEF imm
  <2> QED
    BY <1>3, <1>4, <1>5, <1>6, <2>1
<1>7. CASE i.op \in Branches /\ ~ Taken(i, reg)
  <2>1. pc + 8 + 0 = pc + 8
    BY <1>1
  <2> QED
    BY <1>3, <1>4, <1>5, <1>7, <2>1
<1>8. CASE i.op \notin Branches
  <2>1. t - 4 \in Int /\ t - 4 + 4 = t
    BY <1>1
  <2>2. Wrap(Wrap(t - 4) + 4) = Wrap(t - 4 + 4)
    BY <2>1, WrapPlus
  <2> QED
    BY <1>3, <1>4, <1>8, <2>1, <2>2
<1> QED
  BY <1>6, <1>7, <1>8

(* One jump at most waits for its delay slot, the instruction after it,    *)
(* and no exit is noticed inside one.                                      *)
OneSlot ==
    /\ Len(pend) <= 1
    /\ code = "exit" => ph = "unwind" /\ pend = <<>>

(* The program counters of the architecture in each phase.                 *)
LEMMA MapPhases ==
    /\ ph = "loop" => archRunning /\ archPc = pc /\ archNpc = Wrap(pc + 4)
    /\ ph = "exec" => archRunning /\ archPc = pc /\ archNpc = InFlight
    /\ ph = "unwind" /\ code # "exit" =>
           archRunning /\ archPc = InFlight /\ archNpc = Wrap(InFlight + 4)
    /\ ph = "unwind" /\ code = "exit" =>
           archRunning /\ archPc = pc /\ archNpc = Wrap(pc + 4)
    /\ ph \notin {"loop", "exec", "unwind"} =>
           ~ archRunning /\ archPc = pc /\ archNpc = Wrap(pc + 4)
BY DEF archRunning, archPc, archNpc, Executed

(* The same of the next state.                                             *)
LEMMA MapPhasesNext ==
    /\ ph' = "loop" => archRunning' /\ archPc' = pc' /\ archNpc' = Wrap(pc' + 4)
    /\ ph' = "exec" => archRunning' /\ archPc' = pc' /\ archNpc' = InFlight'
    /\ ph' = "unwind" /\ code' # "exit" =>
           archRunning' /\ archPc' = InFlight' /\ archNpc' = Wrap(InFlight' + 4)
    /\ ph' = "unwind" /\ code' = "exit" =>
           archRunning' /\ archPc' = pc' /\ archNpc' = Wrap(pc' + 4)
    /\ ph' \notin {"loop", "exec", "unwind"} =>
           ~ archRunning' /\ archPc' = pc' /\ archNpc' = Wrap(pc' + 4)
BY DEF archRunning, archPc, archNpc, Executed

(* What is left when the only pending jump has taken effect.               *)
LEMMA FrontOfOne ==
    ASSUME NEW S, NEW s \in Seq(S), s # <<>>, Len(s) <= 1
    PROVE  Front(s) = <<>>
<1>1. Len(s) \in Nat /\ Len(s) # 0
  BY EmptySeq
<1>2. Len(s) = 1
  BY <1>1
<1> QED
  BY <1>2 DEF Front

(* Only a jump outside a delay slot waits, and it waits for one slot.      *)
LEMMA OneSlotStep ==
    ASSUME TypeOK, OneSlot, SlotObeys, [Next]_vars
    PROVE  OneSlot'
<1>1. CASE UNCHANGED <<pend, code, ph>>
  BY <1>1 DEF OneSlot
<1>2. CASE Command
  <2>1. ph = "prompt" /\ pend' = pend /\ code' = code
    BY <1>2, CommandEffect DEF Command, AcceptedCommand, DroppedErrors, Load, SetReg, BreakAdd,
         BreakDel, BreakDelAll, BreakRefused, Run, StepOverJump, StepOverPlain, StepInto,
         StepRefused, RunRefused, StepIntoRefused, NoExec
  <2> QED
    BY <2>1 DEF OneSlot
<1>3. CASE ExecJump
  <2>1. ph = "exec" /\ ph' = ph /\ code' = code /\ code # "exit"
    BY <1>3 DEF ExecJump, OneSlot
  <2>2. PICK i \in Fetch(mem, pc) : i.op \in JumpOps /\ pend' = Append(pend, Pending(i, reg))
    BY <1>3 DEF ExecJump
  <2>3. pend = <<>>
    BY <2>1, <2>2 DEF SlotObeys
  <2>4. Len(pend') = 1
    BY <2>2, <2>3
  <2> QED
    BY <2>1, <2>4 DEF OneSlot
<1>4. CASE ExecPlain
  <2>1. pend' = pend /\ ph' = "unwind" /\ (code' = "exit" => pend = <<>>)
    BY <1>4 DEF ExecPlain
  <2> QED
    BY <2>1 DEF OneSlot
<1>5. CASE Unwind
  <2>1. pend # <<>> /\ pend' = Front(pend) /\ ph' = ph /\ code' = code /\ code # "exit"
    BY <1>5 DEF Unwind, OneSlot
  <2>2. pend \in Seq(Jump) /\ Len(pend) <= 1
    BY DEF OneSlot, TypeOK
  <2>3. pend' = <<>>
    BY <2>1, <2>2, FrontOfOne
  <2> QED
    BY <2>1, <2>3 DEF OneSlot
<1>6. CASE StepintoReturns
  BY <1>6 DEF StepintoReturns, OneSlot
<1>7. CASE \/ AddToken \/ DelToken \/ BreakDone \/ LoopLeavesText \/ LoopBreaks
           \/ LoopExecutes \/ LoopReturns
  <2>1. pend' = pend /\ code' = code /\ ph # "unwind"
    BY <1>7 DEF AddToken, DelToken, BreakDone, LoopLeavesText, LoopBreaks, LoopExecutes,
         LoopReturns
  <2> QED
    BY <2>1 DEF OneSlot
<1> QED
  BY <1>1, <1>2, <1>3, <1>4, <1>5, <1>6, <1>7 DEF Next, Handler, Aborted, vars

(* What an action leaves running, or stopped, of the architecture.         *)
LEMMA ArchQuiet ==
    ASSUME ~ archRunning, ~ archRunning', archNpc' = Wrap(archPc' + 4)
    PROVE  Arch!ANext
BY SameInstructions DEF Arch!ANext, Arch!Edit

(* A command starts the program, or the architecture sees the debugger     *)
(* edit its state.                                                         *)
LEMMA CommandFollows ==
    ASSUME TypeOK, Command
    PROVE  Arch!ANext
<1>1. ph = "prompt" /\ pend = <<>> /\ pend' = pend
  BY CommandEffect DEF TypeOK, Command, AcceptedCommand, DroppedErrors, Load, SetReg, BreakAdd,
       BreakDel, BreakDelAll, BreakRefused, Run, StepOverJump, StepOverPlain, StepInto,
       StepRefused, RunRefused, StepIntoRefused, NoExec
<1>2. ph' \in {"prompt", "adding", "deleting", "aborted", "loop", "exec"}
  BY <1>1 DEF Command, AcceptedCommand, DroppedErrors, Load, SetReg, BreakAdd,
       BreakDel, BreakDelAll, BreakRefused, Run, StepOverJump, StepOverPlain, StepInto,
       StepRefused, RunRefused, StepIntoRefused, NoExec, Return, RunFrom
<1>3. ph' \in {"loop", "exec"} => UNCHANGED <<mem, reg>>
  BY <1>1 DEF Command, AcceptedCommand, DroppedErrors, Load, SetReg, BreakAdd,
       BreakDel, BreakDelAll, BreakRefused, Run, StepOverJump, StepOverPlain, StepInto,
       StepRefused, RunRefused, StepIntoRefused, NoExec, Return, RunFrom
<1>4. ~ archRunning
  BY <1>1, MapPhases
<1>5. CASE ph' \in {"loop", "exec"}
  <2>1. ph' = "exec" => InFlight' = Wrap(pc' + 4)
    BY <1>1 DEF InFlight
  <2>2. archRunning' /\ archNpc' = Wrap(archPc' + 4)
    BY <1>5, <2>1, MapPhasesNext
  <2> QED
    BY <1>3, <1>4, <1>5, <2>2, SameInstructions DEF Arch!ANext, Arch!Start
<1>6. CASE ph' \notin {"loop", "exec"}
  <2>1. ph' \notin {"loop", "exec", "unwind"}
    BY <1>2, <1>6
  <2>2. ~ archRunning' /\ archNpc' = Wrap(archPc' + 4)
    BY <2>1, MapPhasesNext
  <2> QED
    BY <1>4, <2>2, ArchQuiet
<1> QED
  BY <1>5, <1>6

(* The instruction execute_asm has fetched is one step of the architecture.*)
LEMMA JumpFollows ==
    ASSUME TypeOK, SlotObeys, ExecJump
    PROVE  Arch!ANext
<1>1. ph = "exec" /\ ph' = ph /\ mem' = mem /\ pc' = Wrap(pc + 4) /\ mem \in Programs
  BY DEF ExecJump, TypeOK, Loaded
<1>2. PICK i \in Fetch(mem, pc) :
          i.op \in JumpOps /\ pend' = Append(pend, Pending(i, reg)) /\ reg' = Link(i, reg, pc)
  BY DEF ExecJump
<1>3. pend = <<>>
  BY <1>1, <1>2 DEF SlotObeys
<1>4. archPc = pc /\ archNpc = Wrap(pc + 4) /\ archRunning
  BY <1>1, <1>3, MapPhases DEF InFlight
<1>5. archPc' = pc' /\ archNpc' = InFlight' /\ archRunning'
  BY <1>1, MapPhasesNext
<1>6. pend' # <<>> /\ Last(pend') = Pending(i, reg)
  BY <1>2, <1>3 DEF Last
<1>7. InFlight' = Wrap(Land(Pending(i, reg), Wrap(pc + 4)) + 4)
  BY <1>1, <1>6 DEF InFlight
<1>8. InFlight' = Wrap(Arch!Target(i, pc))
  BY <1>1, <1>2, <1>7, JumpTarget
<1>9. ~ Exits(i, reg)
  BY <1>2 DEF Exits, JumpOps, Branches
<1>10. Arch!Execute(i)
  BY <1>1, <1>2, <1>4, <1>5, <1>8, <1>9, SameInstructions DEF Arch!Execute
<1> QED
  BY <1>2, <1>4, <1>10, SameInstructions DEF Arch!ANext

(* Another instruction is one step of the architecture, but for the exit   *)
(* call, which stepinto will turn into a stop.                             *)
LEMMA PlainFollows ==
    ASSUME TypeOK, SlotObeys, ExecPlain
    PROVE  [Arch!ANext]_(Arch!avars)
<1>1. ph = "exec" /\ ph' = "unwind" /\ UNCHANGED <<mem, pc, pend>>
  BY DEF ExecPlain
<1>2. PICK i \in Fetch(mem, pc) :
          /\ i.op \notin JumpOps
          /\ reg' = Effect(i, reg)
          /\ code' = IF pend = <<>> /\ Exits(i, reg) THEN "exit" ELSE "other"
  BY DEF ExecPlain
<1>3. archPc = pc /\ archNpc = InFlight /\ archRunning
  BY <1>1, MapPhases
<1>4. InFlight' = InFlight
  BY <1>1 DEF InFlight
<1>5. CASE Exits(i, reg)
  <2>1. pend = <<>> /\ code' = "exit"
    BY <1>1, <1>2, <1>5 DEF SlotObeys
  <2>2. reg' = reg
    BY <1>2, <1>5 DEF Exits, Effect
  <2>3. archPc' = archPc /\ archNpc' = archNpc /\ archRunning' = archRunning
    <3>1. archPc' = pc /\ archNpc' = Wrap(pc + 4) /\ archRunning'
      BY <1>1, <2>1, MapPhasesNext
    <3>2. archNpc = Wrap(pc + 4)
      BY <1>3, <2>1 DEF InFlight
    <3> QED
      BY <1>3, <3>1, <3>2 DEF archRunning
  <2> QED
    BY <1>1, <2>2, <2>3 DEF Arch!avars
<1>6. CASE ~ Exits(i, reg)
  <2>1. code' # "exit"
    BY <1>2, <1>6
  <2>2. archPc' = InFlight /\ archNpc' = Wrap(InFlight + 4) /\ archRunning'
    BY <1>1, <1>4, <2>1, MapPhasesNext
  <2>3. Arch!Execute(i)
    <3>1. archRunning' = archRunning
      BY <1>1 DEF archRunning
    <3> QED
      BY <1>1, <1>2, <1>3, <1>6, <2>2, <3>1, SameInstructions DEF Arch!Execute
  <2> QED
    BY <1>2, <1>3, <2>3, SameInstructions DEF Arch!ANext
<1> QED
  BY <1>5, <1>6

(* The pending jump taking effect is part of the step its delay slot was.  *)
LEMMA UnwindFollows ==
    ASSUME TypeOK, OneSlot, Unwind
    PROVE  UNCHANGED Arch!avars
<1>1. ph = "unwind" /\ ph' = ph /\ code # "exit" /\ UNCHANGED <<mem, reg, code>>
  BY DEF Unwind, OneSlot
<1>2. pend # <<>> /\ pc' = Land(Last(pend), pc) /\ pend' = Front(pend)
  BY DEF Unwind
<1>3. pend' = <<>>
  <2>1. pend \in Seq(Jump) /\ Len(pend) <= 1
    BY DEF OneSlot, TypeOK
  <2> QED
    BY <1>2, <2>1, FrontOfOne
<1>4. InFlight = Wrap(pc' + 4) /\ InFlight' = Wrap(pc' + 4)
  BY <1>2, <1>3 DEF InFlight
<1>5. archPc = InFlight /\ archNpc = Wrap(InFlight + 4)
  BY <1>1, MapPhases
<1>6. archPc' = InFlight' /\ archNpc' = Wrap(InFlight' + 4)
  BY <1>1, MapPhasesNext
<1> QED
  BY <1>1, <1>4, <1>5, <1>6 DEF Arch!avars, archRunning

(* When execute_asm has returned, the architecture goes on or stops.       *)
LEMMA ReturnFollows ==
    ASSUME StepintoReturns
    PROVE  [Arch!ANext]_(Arch!avars)
<1>1. ph = "unwind" /\ pend = <<>> /\ UNCHANGED <<mem, reg, pend>> /\ code' = "none"
  BY DEF StepintoReturns
<1>2. archRunning /\ Arch!Sequential
  <2>1. CASE code = "exit"
    BY <1>1, <2>1, MapPhases, SameInstructions DEF Arch!Sequential
  <2>2. CASE code # "exit"
    BY <1>1, <2>2, MapPhases, SameInstructions DEF Arch!Sequential
  <2> QED
    BY <2>1, <2>2
<1>3. CASE ph' \notin {"loop", "exec", "unwind"}
  <2>1. ~ archRunning' /\ archNpc' = Wrap(archPc' + 4)
    BY <1>3, MapPhasesNext
  <2> QED
    BY <1>1, <1>2, <2>1, SameInstructions DEF Arch!ANext, Arch!Stop
<1>4. CASE ph' \in {"loop", "exec", "unwind"}
  <2>1. ph' = "loop" /\ code # "exit" /\ pc' = Wrap(pc + 4)
    BY <1>4 DEF StepintoReturns, Return
  <2>2. InFlight = Wrap(pc + 4)
    BY <1>1 DEF InFlight
  <2>3. archPc = pc' /\ archNpc = Wrap(pc' + 4)
    BY <1>1, <2>1, <2>2, MapPhases
  <2>4. archPc' = pc' /\ archNpc' = Wrap(pc' + 4) /\ archRunning'
    BY <2>1, MapPhasesNext
  <2> QED
    BY <1>1, <2>1, <2>3, <2>4 DEF Arch!avars, archRunning
<1> QED
  BY <1>3, <1>4

(* The loop of run stops the architecture, or lets it go on.               *)
LEMMA LoopFollows ==
    ASSUME TypeOK, LoopLeavesText \/ LoopBreaks \/ LoopExecutes
    PROVE  [Arch!ANext]_(Arch!avars)
<1>1. ph = "loop" /\ pend = <<>> /\ UNCHANGED <<mem, reg, pend>>
  BY DEF TypeOK, LoopLeavesText, LoopBreaks, LoopExecutes
<1>2. archRunning /\ archPc = pc /\ archNpc = Wrap(pc + 4)
  BY <1>1, MapPhases
<1>3. CASE LoopExecutes
  <2>1. ph' = "exec" /\ pc' = pc
    BY <1>3 DEF LoopExecutes
  <2>2. InFlight' = Wrap(pc + 4)
    BY <1>1, <2>1 DEF InFlight
  <2> QED
    BY <1>1, <1>2, <2>1, <2>2, MapPhasesNext DEF Arch!avars, archRunning
<1>4. CASE LoopLeavesText \/ LoopBreaks
  <2>1. ph' = "endloop"
    BY <1>4 DEF LoopLeavesText, LoopBreaks
  <2>2. ~ archRunning' /\ archNpc' = Wrap(archPc' + 4)
    BY <2>1, MapPhasesNext
  <2> QED
    BY <1>1, <1>2, <2>2, SameInstructions DEF Arch!ANext, Arch!Stop, Arch!Sequential
<1> QED
  BY <1>3, <1>4

(* A handler that edits the list, or ends run, does not run the program.   *)
LEMMA ListFollows ==
    ASSUME AddToken \/ DelToken \/ BreakDone \/ LoopReturns
    PROVE  Arch!ANext
<1>1. /\ ph \notin {"loop", "exec", "unwind"}
      /\ ph' \notin {"loop", "exec", "unwind"}
  BY DEF AddToken, DelToken, BreakDone, LoopReturns, Return
<1> QED
  BY <1>1, MapPhases, MapPhasesNext, ArchQuiet

(* The state main starts in is an initial state of the architecture.       *)
LEMMA ArchInit == Init => Arch!AInit
<1> SUFFICES ASSUME Init PROVE Arch!AInit
  OBVIOUS
<1>1. ph = "prompt"
  BY DEF Init
<1> QED
  BY <1>1, MapPhases, SameInstructions DEF Arch!AInit, Arch!Sequential

(* Every step of a command or a handler maps to a step or a stutter.       *)
LEMMA ArchStep ==
    ASSUME TypeOK, OneSlot, SlotObeys, [Next]_vars
    PROVE  [Arch!ANext]_(Arch!avars)
<1>1. CASE UNCHANGED vars
  BY <1>1 DEF vars, Arch!avars, archPc, archNpc, archRunning, Executed, InFlight
<1>2. Aborted => UNCHANGED vars
  BY DEF Aborted
<1> QED
  BY <1>1, <1>2, CommandFollows, JumpFollows, PlainFollows, UnwindFollows, ReturnFollows,
     LoopFollows, ListFollows
     DEF Next, Handler

(* Of a program that keeps jumps and the exit call out of the delay slots  *)
(* it comes to, execution follows the architecture: the recursion of       *)
(* execute_asm and the pc arithmetic around it are delayed jumps.          *)
THEOREM ArchFollowed == Spec /\ []SlotObeys => ImplementsArch
<1>1. TypeOK /\ OneSlot /\ SlotObeys /\ [Next]_vars => OneSlot'
  BY OneSlotStep
<1>2. TypeOK /\ OneSlot /\ SlotObeys /\ [Next]_vars => [Arch!ANext]_(Arch!avars)
  BY ArchStep
<1>3. Init => OneSlot
  BY DEF Init, OneSlot
<1> QED
  BY <1>1, <1>2, <1>3, ArchInit, TypeCorrect, PTL DEF Spec, ImplementsArch, Arch!ASpec

(* A delay slot is the word after a jump of the loaded program.            *)
SlotFollowsJump ==
    ph = "exec" /\ pend # <<>> => \E a \in Word : pc = Wrap(a + 4) /\ JumpAt(mem, a)

(* execute_asm enters a delay slot from the jump before it and from        *)
(* nowhere else.                                                           *)
LEMMA SlotFollowsJumpStep ==
    ASSUME TypeOK, SlotFollowsJump, [Next]_vars
    PROVE  SlotFollowsJump'
<1> SUFFICES ASSUME ph' = "exec", pend' # <<>>
             PROVE  \E a \in Word : pc' = Wrap(a + 4) /\ JumpAt(mem', a)
  BY DEF SlotFollowsJump, JumpAt
<1>1. CASE UNCHANGED vars
  BY <1>1 DEF vars, SlotFollowsJump
<1>2. CASE ExecJump
  <2>1. JumpAt(mem, pc) /\ mem' = mem /\ pc' = Wrap(pc + 4) /\ pc \in Word
    BY <1>2 DEF ExecJump, JumpAt, TypeOK
  <2> QED
    BY <2>1
<1>3. ~ Command
  BY CommandEffect DEF TypeOK, Command, AcceptedCommand, DroppedErrors, Load, SetReg, BreakAdd,
       BreakDel, BreakDelAll, BreakRefused, Run, StepOverJump, StepOverPlain, StepInto,
       StepRefused, RunRefused, StepIntoRefused, NoExec
<1>4. ~ LoopExecutes
  BY DEF LoopExecutes, TypeOK
<1>5. ~ (\/ AddToken \/ DelToken \/ BreakDone \/ LoopLeavesText \/ LoopBreaks \/ LoopReturns
         \/ ExecPlain \/ Unwind \/ StepintoReturns)
  BY DEF AddToken, DelToken, BreakDone, LoopLeavesText, LoopBreaks, LoopReturns, ExecPlain,
         Unwind, StepintoReturns, Return
<1> QED
  BY <1>1, <1>2, <1>3, <1>4, <1>5 DEF Next, Handler, Aborted

(* Whatever pc the user sets and wherever the program goes, a program      *)
(* whose delay slots hold neither jumps nor system calls comes to none.    *)
LEMMA SlotsObeyed ==
    ASSUME \A p \in Programs : PlainDelaySlots(p), TypeOK, SlotFollowsJump
    PROVE  SlotObeys
<1> SUFFICES ASSUME ph = "exec", pend # <<>>, NEW i \in Fetch(mem, pc)
             PROVE  i.op \notin JumpOps /\ ~ Exits(i, reg)
  BY DEF SlotObeys
<1>1. PICK a \in Word : pc = Wrap(a + 4) /\ JumpAt(mem, a)
  BY DEF SlotFollowsJump
<1>2. mem \in Programs
  BY DEF TypeOK, Loaded
<1> QED
  BY <1>1, <1>2 DEF PlainDelaySlots, Exits

(* Execution implements the architecture for every set of such programs,   *)
(* every input and every breakpoint.                                       *)
THEOREM ArchImplemented ==
    ASSUME \A p \in Programs : PlainDelaySlots(p)
    PROVE  Spec => ImplementsArch
<1>1. Init => SlotFollowsJump
  BY DEF Init, SlotFollowsJump
<1>2. TypeOK /\ SlotFollowsJump /\ [Next]_vars => SlotFollowsJump'
  BY SlotFollowsJumpStep
<1>3. TypeOK /\ SlotFollowsJump => SlotObeys
  BY SlotsObeyed
<1>4. Spec => []SlotObeys
  BY <1>1, <1>2, <1>3, TypeCorrect, PTL DEF Spec
<1> QED
  BY <1>4, ArchFollowed
=============================================================================
