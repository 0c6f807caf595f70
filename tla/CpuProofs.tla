------------------------------ MODULE CpuProofs ------------------------------
(***************************************************************************)
(* Proofs about Cpu for words of every width: the registers hold words, and*)
(* ADD, ADDI and SUB detect overflow exactly; the tables of names agree.   *)
(***************************************************************************)
EXTENDS Cpu, Numbers

(* Half is a natural number, half of WordSize.                             *)
LEMMA HalfIsHalf == Half \in Nat /\ Half >= 2 /\ WordSize = 2 * Half
BY WidthsAssumption DEF Half

(* A conversion to int32_t gives one.                                      *)
LEMMA ToIntType == ASSUME NEW x \in Int PROVE ToInt(x) \in SWord
BY HalfIsHalf DEF ToInt, SWord

(* It changes nothing that is one.                                         *)
LEMMA ToIntId == ASSUME NEW x \in SWord PROVE ToInt(x) = x
BY HalfIsHalf DEF ToInt, SWord

(* Bits are bits.                                                          *)
LEMMA BitType == ASSUME NEW x \in Int, NEW k \in 0 .. WordBits PROVE Bit(x, k) \in 0 .. 1
<1>1. 2^k \in Nat \ {0}
  BY WidthsAssumption
<1>2. ASSUME NEW p \in Nat \ {0} PROVE (x \div p) % 2 \in 0 .. 1
  OBVIOUS
<1> QED BY <1>1, <1>2 DEF Bit

(* The word with given bits is a word.                                     *)
LEMMA WordOfType == ASSUME NEW f \in [BitNumbers -> 0 .. 1] PROVE WordOf(f) \in SWord
<1>1. PICK z \in SWord : \A k \in BitNumbers : Bit(z, k) = f[k]
  BY PatternsAssumption
<1> QED BY <1>1 DEF WordOf

LEMMA AndType == ASSUME NEW x \in Int, NEW y \in Int PROVE And(x, y) \in SWord
<1> DEFINE f == [k \in BitNumbers |-> Bit(x, k) * Bit(y, k)]
<1>1. ASSUME NEW k \in BitNumbers PROVE Bit(x, k) * Bit(y, k) \in 0 .. 1
  <2>1. Bit(x, k) \in 0 .. 1 /\ Bit(y, k) \in 0 .. 1
    BY BitType, WidthsAssumption DEF BitNumbers
  <2> QED BY <2>1
<1>2. f \in [BitNumbers -> 0 .. 1]
  BY <1>1
<1> QED BY <1>2, WordOfType DEF And

LEMMA OrType == ASSUME NEW x \in Int, NEW y \in Int PROVE Or(x, y) \in SWord
<1> DEFINE f == [k \in BitNumbers |-> IF Bit(x, k) = 1 THEN 1 ELSE Bit(y, k)]
<1>1. ASSUME NEW k \in BitNumbers PROVE Bit(y, k) \in 0 .. 1
  BY BitType, WidthsAssumption DEF BitNumbers
<1>2. f \in [BitNumbers -> 0 .. 1]
  BY <1>1
<1> QED BY <1>2, WordOfType DEF Or

LEMMA XorType == ASSUME NEW x \in Int, NEW y \in Int PROVE Xor(x, y) \in SWord
<1> DEFINE f == [k \in BitNumbers |-> IF Bit(x, k) = Bit(y, k) THEN 0 ELSE 1]
<1>1. f \in [BitNumbers -> 0 .. 1]
  OBVIOUS
<1> QED BY <1>1, WordOfType DEF Xor

(* A field of a word is an integer.                                        *)
LEMMA GetbitsType ==
    ASSUME NEW x \in Int, NEW i \in 0 .. WordBits, NEW j \in Int, j - i + 1 \in 0 .. WordBits
    PROVE  getbits(x, i, j) \in Nat
<1>1. 2^i \in Nat \ {0} /\ 2^(j - i + 1) \in Nat \ {0}
  BY WidthsAssumption
<1>2. Unsigned(x) \in Nat
  BY WidthsAssumption DEF Unsigned
<1>3. ASSUME NEW a \in Nat, NEW p \in Nat \ {0}, NEW q \in Nat \ {0} PROVE (a \div p) % q \in Nat
  OBVIOUS
<1> QED BY <1>1, <1>2, <1>3 DEF getbits

(* Division towards zero.                                                  *)
LEMMA DivisionType ==
    ASSUME NEW x \in Int, NEW y \in Int, y # 0
    PROVE  Quotient(x, y) \in Int /\ Remainder(x, y) \in Int
<1>1. Abs(x) \in Nat /\ Abs(y) \in Nat \ {0}
  BY DEF Abs
<1>2. Abs(x) \div Abs(y) \in Int
  BY <1>1
<1>3. Quotient(x, y) \in Int
  BY <1>2 DEF Quotient
<1> QED BY <1>3 DEF Remainder

-----------------------------------------------------------------------------
(* Type correctness                                                        *)

LEMMA WordIsInt == ASSUME NEW x \in SWord PROVE x \in Int
BY HalfIsHalf DEF SWord

(* The fields of an instruction word of the program.                       *)
LEMMA Fields ==
    ASSUME NEW u \in Program
    PROVE  /\ u.rs \in Gpr /\ u.rt \in Gpr /\ u.rd \in Gpr
           /\ u.imm \in Int /\ u.sa \in Nat /\ u.target \in Nat /\ u.imm \in SHalf
<1>1. u \in Instr
  BY InputsAssumption
<1>2. u.rs \in Gpr /\ u.rt \in Gpr /\ u.rd \in Gpr /\ u.sa \in 0 .. 31
      /\ u.target \in Nat /\ u.imm \in SHalf
  BY <1>1 DEF Instr
<1>3. HalfSize \in Nat
  BY WidthsAssumption DEF HalfSize
<1>4. u.imm \in Int
  BY <1>2, <1>3 DEF SHalf
<1>5. u.sa \in Nat
  BY <1>2
<1> QED BY <1>2, <1>4, <1>5

(* Its operands.                                                           *)
LEMMA Operands ==
    ASSUME CTypeOK, NEW u \in Program
    PROVE  /\ S(u) \in SWord /\ T(u) \in SWord /\ D(u) \in SWord
           /\ S(u) \in Int /\ T(u) \in Int /\ D(u) \in Int
<1>1. u.rs \in Gpr /\ u.rt \in Gpr /\ u.rd \in Gpr
  BY Fields
<1>2. reg \in [Gpr \cup {HI, LO} -> SWord]
  BY DEF CTypeOK
<1>3. S(u) \in SWord /\ T(u) \in SWord /\ D(u) \in SWord
  BY <1>1, <1>2 DEF S, T, D
<1> QED BY <1>3, WordIsInt

(* The context of an instruction, and the value of set reg.                *)
LEMMA ContextTypes ==
    ASSUME NEW m \in Contexts PROVE m.pc \in Int /\ m.word \in Int /\ m.byte \in Int
<1>1. m \in [pc : SWord, word : SWord, byte : 0 .. (ByteSize - 1)]
  BY InputsAssumption
<1>2. m.pc \in SWord /\ m.word \in SWord /\ m.byte \in 0 .. (ByteSize - 1)
  BY <1>1
<1>3. ByteSize \in Int
  BY WidthsAssumption DEF ByteSize
<1> QED BY <1>2, <1>3, WordIsInt

LEMMA NumeralType == ASSUME NEW v \in Numerals PROVE v.hex \in Int
BY InputsAssumption

(* The ways an instruction ends.                                           *)
LEMMA SetsTyped ==
    ASSUME CTypeOK, NEW k \in Gpr \cup {HI, LO}, NEW v \in Int, Sets(k, v)
    PROVE  CTypeOK'
BY ToIntType DEF CTypeOK, Sets, Says, Out

LEMMA FailsTyped == ASSUME CTypeOK, NEW ret, Fails(ret) PROVE CTypeOK'
BY DEF CTypeOK, Fails, Says, Out

LEMMA CheckedTyped ==
    ASSUME CTypeOK, NEW k \in Gpr \cup {HI, LO}, NEW t, NEW v \in Int, Checked(k, t, v)
    PROVE  CTypeOK'
BY SetsTyped, FailsTyped DEF Checked

LEMMA SetsHiLoTyped ==
    ASSUME CTypeOK, NEW hi \in Int, NEW lo \in Int, SetsHiLo(hi, lo)
    PROVE  CTypeOK'
BY ToIntType DEF CTypeOK, SetsHiLo, Says, Out

LEMMA LoadToTyped ==
    ASSUME CTypeOK, NEW u \in Program, NEW v \in Int, NEW bus, LoadTo(u, v, bus)
    PROVE  CTypeOK'
BY ToIntType, Fields DEF CTypeOK, LoadTo, Says, Out

LEMMA PowerType == ASSUME NEW k \in 0 .. WordBits PROVE 2^k \in Nat \ {0}
BY WidthsAssumption

LEMMA ShiftTyped ==
    ASSUME CTypeOK, NEW u \in Program, Shift(getInstr(u), u) PROVE CTypeOK'
<1> DEFINE op == getInstr(u)
<1>1. CASE Sets(u.rd, getbits(T(u), 0, ByteBits - 1))
  <2>1. ByteBits - 1 - 0 + 1 = ByteBits
    BY WidthsAssumption
  <2>2. 2^0 \in Nat \ {0} /\ 2^(ByteBits - 1 - 0 + 1) \in Nat \ {0}
    BY <2>1, WidthsAssumption
  <2>3. Unsigned(T(u)) \in Nat
    BY Operands, WidthsAssumption DEF Unsigned
  <2>4. ASSUME NEW a \in Nat, NEW p \in Nat \ {0}, NEW q \in Nat \ {0}
        PROVE  (a \div p) % q \in Int
    OBVIOUS
  <2>5. getbits(T(u), 0, ByteBits - 1) \in Int
    BY <2>2, <2>3, <2>4 DEF getbits
  <2> QED BY <2>5, <1>1, Fields, SetsTyped
<1>2. CASE op \in ListsRdRtSa
  <2>1. u.sa \in 0 .. (WordBits - 1)
    BY <1>2, InputsAssumption DEF BitNumbers
  <2>2. WordBits \in Nat
    BY WidthsAssumption
  <2>3. u.sa \in 0 .. WordBits /\ WordBits - 1 - u.sa + 1 \in 0 .. WordBits
             /\ u.sa - 0 + 1 \in 0 .. WordBits /\ 0 \in 0 .. WordBits
             /\ WordBits - 1 \in Int /\ u.sa \in Int
    BY <2>1, <2>2
  <2>4. 2^u.sa \in Nat \ {0}
    BY <2>3, PowerType
  <2>5. getbits(T(u), 0, u.sa) \in Nat
    BY <2>3, Operands, GetbitsType
  <2>6. getbits(D(u), u.sa, WordBits - 1) \in Nat
    BY <2>3, Operands, GetbitsType
  <2>7. ASSUME NEW a \in Int, NEW p \in Nat \ {0} PROVE a \div p \in Int /\ a * p \in Int
    OBVIOUS
  <2>8. getbits(T(u), 0, u.sa) * 2^u.sa \in Int /\ D(u) \div 2^u.sa \in Int
    BY <2>4, <2>5, <2>7, Operands
  <2>9. u.rd \in Gpr \cup {HI, LO}
    BY Fields
  <2>10. CASE Fails(OK)
    BY <2>10, FailsTyped
  <2>11. CASE Sets(u.rd, getbits(T(u), 0, u.sa) * 2^u.sa)
    BY <2>11, <2>8, <2>9, SetsTyped
  <2>12. CASE Sets(u.rd, getbits(D(u), u.sa, WordBits - 1))
    BY <2>12, <2>6, <2>9, SetsTyped
  <2>13. CASE Sets(u.rd, D(u) \div 2^u.sa)
    BY <2>13, <2>8, <2>9, SetsTyped
  <2> QED BY <1>2, <2>10, <2>11, <2>12, <2>13 DEF Shift, ListsRdRtSa
<1> QED BY <1>1, <1>2 DEF Shift, ListsRdRtSa

LEMMA MultDivTyped ==
    ASSUME CTypeOK, NEW u \in Program, NEW op, MultDiv(op, u) PROVE CTypeOK'
<1> DEFINE prod == Unsigned64(ToInt(S(u) * T(u)))
<1>1. CASE SetsHiLo(prod \div WordSize, prod % WordSize)
  <2>1. S(u) * T(u) \in Int
    BY Operands
  <2>2. ToInt(S(u) * T(u)) \in Int
    BY <2>1, ToIntType, WordIsInt
  <2>3. WordSize * WordSize \in Nat \ {0}
    BY WidthsAssumption
  <2>4. prod \in Int
    BY <2>2, <2>3 DEF Unsigned64
  <2> HIDE DEF prod
  <2>5. prod \div WordSize \in Int /\ prod % WordSize \in Int
    BY <2>4, WidthsAssumption
  <2> QED BY <1>1, <2>5, SetsHiLoTyped
<1>2. CASE T(u) # 0 /\ SetsHiLo(Remainder(S(u), T(u)), Quotient(S(u), T(u)))
  BY <1>2, Operands, DivisionType, SetsHiLoTyped
<1>3. CASE killed' = TRUE /\ UNCHANGED <<reg, out>>
  BY <1>3 DEF CTypeOK
<1>4. CASE Fails(-1)
  BY <1>4, FailsTyped
<1>5. CASE Sets(u.rd, reg[HI]) \/ Sets(u.rd, reg[LO])
  <2>1. reg[HI] \in SWord /\ reg[LO] \in SWord
    BY DEF CTypeOK
  <2>2. reg[HI] \in Int /\ reg[LO] \in Int
    BY <2>1, WordIsInt
  <2> QED BY <1>5, <2>2, Fields, SetsTyped
<1> QED BY <1>1, <1>2, <1>3, <1>4, <1>5 DEF MultDiv

LEMMA LoadStoreTyped ==
    ASSUME CTypeOK, NEW u \in Program, NEW m \in Contexts, NEW op, LoadStore(op, u, m)
    PROVE  CTypeOK'
BY ContextTypes, LoadToTyped, FailsTyped DEF LoadStore, StoreOf, Says, Out, CTypeOK

LEMMA AluTyped ==
    ASSUME CTypeOK, NEW u \in Program, NEW op,
           AddOrSub(op, u) \/ ThreeRegisters(op, u) \/ WithImmediate(op, u)
    PROVE  CTypeOK'
<1>1. /\ S(u) \in Int /\ T(u) \in Int /\ u.imm \in Int
      /\ u.rd \in Gpr \cup {HI, LO} /\ u.rt \in Gpr \cup {HI, LO}
  BY Fields, Operands
<1>2. CASE AddOrSub(op, u)
  <2>1. S(u) + T(u) \in Int /\ S(u) - T(u) \in Int /\ S(u) + u.imm \in Int
    BY <1>1
  <2> QED BY <1>1, <1>2, <2>1, CheckedTyped DEF AddOrSub
<1>3. CASE ThreeRegisters(op, u)
  <2>1. S(u) + T(u) \in Int /\ S(u) - T(u) \in Int /\ Truth(S(u) < T(u)) \in Int
    BY <1>1 DEF Truth
  <2>2. And(S(u), T(u)) \in Int /\ Or(S(u), T(u)) \in Int /\ Xor(S(u), T(u)) \in Int
    BY <1>1, AndType, OrType, XorType, WordIsInt
  <2> QED BY <1>1, <1>3, <2>1, <2>2, SetsTyped DEF ThreeRegisters
<1>4. CASE WithImmediate(op, u)
  <2>1. S(u) + u.imm \in Int /\ Truth(S(u) < u.imm) \in Int
    BY <1>1 DEF Truth
  <2>2. And(S(u), u.imm) \in Int /\ Or(S(u), u.imm) \in Int
    BY <1>1, AndType, OrType, WordIsInt
  <2>3. u.imm * HalfSize \in Int
    BY <1>1, WidthsAssumption DEF HalfSize
  <2> QED BY <1>1, <1>4, <2>1, <2>2, <2>3, SetsTyped DEF WithImmediate
<1> QED BY <1>2, <1>3, <1>4

LEMMA ExecuteTyped ==
    ASSUME CTypeOK, NEW u \in Program, NEW m \in Contexts, execute_asm(u, m)
    PROVE  CTypeOK'
<1> DEFINE op == getInstr(u)
<1>1. CASE AddOrSub(op, u) \/ ThreeRegisters(op, u) \/ WithImmediate(op, u)
  BY <1>1, AluTyped
<1>2. CASE Shift(op, u)
  BY <1>2, ShiftTyped
<1>3. CASE MultDiv(op, u)
  BY <1>3, MultDivTyped
<1>4. CASE LoadStore(op, u, m)
  BY <1>4, LoadStoreTyped
<1>5. CASE JumpTo(op, u, m.pc)
  <2>1. m.pc + 8 \in Int
    BY ContextTypes
  <2>2. ToInt(m.pc + 8) \in SWord
    BY <2>1, ToIntType
  <2> QED BY <1>5, <2>2 DEF JumpTo, CTypeOK, Says, Out
<1>6. CASE Syscall(op) \/ Others(op)
  BY <1>6, FailsTyped DEF Syscall, Others
<1> QED BY <1>1, <1>2, <1>3, <1>4, <1>5, <1>6 DEF execute_asm

(* The registers hold words, whatever is executed and set, for every       *)
(* program and every width.                                                *)
THEOREM RegistersTyped == CSpec => []CTypeOK
<1>1. CInit => CTypeOK
  <2>1. 0 \in SWord
    BY HalfIsHalf DEF SWord
  <2>2. CInit => reg \in [Gpr \cup {HI, LO} -> SWord]
    BY <2>1 DEF CInit
  <2> QED BY <2>2 DEF CInit, CTypeOK, Out
<1>2. CTypeOK /\ [CNext]_cvars => CTypeOK'
  <2> SUFFICES ASSUME CTypeOK, [CNext]_cvars PROVE CTypeOK'
    OBVIOUS
  <2>1. CASE Execute
    BY <2>1, ExecuteTyped DEF Execute
  <2>2. CASE SetReg
    <3>1. PICK n \in Names, v \in Numerals :
             /\ reg' = [reg EXCEPT ![convert(n)] = ToInt(v.hex)]
             /\ Command(Out(OK, <<>>, <<>>, <<>>))
      BY <2>2 DEF SetReg
    <3>2. ToInt(v.hex) \in SWord
      BY NumeralType, ToIntType
    <3>3. reg' \in [Gpr \cup {HI, LO} -> SWord]
      BY <3>1, <3>2 DEF CTypeOK
    <3> QED BY <3>1, <3>3 DEF Command, Says, Out, CTypeOK
  <2>3. CASE AssertReg \/ DispReg \/ RefuseReg
    BY <2>3 DEF AssertReg, DispReg, RefuseReg, Command, Says, Out, CTypeOK
  <2>4. CASE UNCHANGED cvars
    BY <2>4 DEF cvars, CTypeOK
  <2> QED BY <2>1, <2>2, <2>3, <2>4 DEF CNext
<1> QED BY <1>1, <1>2, PTL DEF CSpec

-----------------------------------------------------------------------------
(* Overflow                                                                *)

(* The 64-bit sum or difference of two casts is the cast of the exact one. *)
LEMMA CastAdds ==
    ASSUME NEW M \in Nat \ {0}, NEW a \in Int, NEW b \in Int
    PROVE  /\ ((a % M) + (b % M)) % M = (a + b) % M
           /\ ((a % M) - (b % M)) % M = (a - b) % M
<1> DEFINE p == a \div M
           q == b \div M
           m == a % M
           n == b % M
<1>1. p \in Int /\ q \in Int /\ m \in Int /\ n \in Int
      /\ a = M * p + m /\ b = M * q + n
  BY DivMod
<1> HIDE DEF p, q, m, n
<1>2. ((p + q) * M + (m + n)) % M = (m + n) % M /\ ((p - q) * M + (m - n)) % M = (m - n) % M
  <2> DEFINE k == p + q
             l == p - q
             s == m + n
             t == m - n
  <2>1. k \in Int /\ l \in Int /\ s \in Int /\ t \in Int
    BY <1>1
  <2> HIDE DEF k, l, s, t
  <2>2. (k * M + s) % M = s % M
    BY <2>1, ModPlus
  <2>3. (l * M + t) % M = t % M
    BY <2>1, ModPlus
  <2> QED BY <2>2, <2>3 DEF k, l, s, t
<1>3. a + b = (p + q) * M + (m + n) /\ a - b = (p - q) * M + (m - n)
  BY <1>1
<1>4. (a + b) % M = (m + n) % M /\ (a - b) % M = (m - n) % M
  <2> DEFINE u == (p + q) * M + (m + n)
             v == (p - q) * M + (m - n)
  <2>1. u % M = (m + n) % M /\ v % M = (m - n) % M /\ a + b = u /\ a - b = v
    BY <1>2, <1>3
  <2> HIDE DEF u, v
  <2> QED BY <2>1
<1> QED BY <1>4 DEF m, n

(* Bits 31 and 32 of the cast of an integer of 33 bits differ when it is   *)
(* no integer of 32.                                                       *)
LEMMA TestExact ==
    ASSUME NEW v \in Int, -WordSize <= v, v < WordSize
    PROVE  Overflows(Unsigned64(v)) <=> v \notin SWord
<1> DEFINE M == WordSize * WordSize
           t == Unsigned64(v)
<1>1. Half \in Nat /\ Half >= 2 /\ WordSize = 2 * Half /\ WordSize \in Nat \ {0}
  BY HalfIsHalf
<1>2. M \in Nat \ {0} /\ WordSize <= M
  BY <1>1
<1>3. CASE v >= 0
  <2>1. v \in 0 .. (WordSize - 1) /\ v \in 0 .. (M - 1)
    BY <1>1, <1>2, <1>3
  <2>2. t = v /\ v \div WordSize = 0
    <3> HIDE DEF M
    <3>1. v % M = v
      BY <1>2, <2>1, SmallMod
    <3>2. v \div WordSize = 0
      BY <1>1, <2>1, SmallMod
    <3> QED BY <3>1, <3>2 DEF Unsigned64, M
  <2>3. CASE v < Half
    <3>1. v \in 0 .. (Half - 1) /\ v \in SWord
      BY <1>1, <1>3, <2>3 DEF SWord
    <3>2. v \div Half = 0
      BY <1>1, <3>1, SmallMod
    <3> QED BY <2>2, <3>1, <3>2 DEF Overflows
  <2>4. CASE v >= Half
    <3> DEFINE r == v - Half
    <3>1. r \in 0 .. (Half - 1) /\ v = 1 * Half + r /\ v \notin SWord
      BY <1>1, <2>1, <2>4 DEF SWord
    <3> HIDE DEF r
    <3>2. v \div Half = 1
      BY <1>1, <3>1, ModUnique
    <3> QED BY <2>2, <3>1, <3>2 DEF Overflows
  <2> QED BY <1>1, <2>3, <2>4
<1>4. CASE v < 0
  <2> DEFINE w == v + WordSize
  <2>1. w \in 0 .. (WordSize - 1) /\ v + M \in 0 .. (M - 1) /\ v + M = (WordSize - 1) * WordSize + w
    BY <1>1, <1>2, <1>4
  <2>2. t = v + M
    <3> DEFINE x == v + M
    <3>1. v % M = ((-1) * M + x) % M /\ x \in 0 .. (M - 1)
      BY <1>2, <2>1
    <3> HIDE DEF M, x
    <3>2. ((-1) * M + x) % M = x
      BY <1>2, <3>1, ModUnique
    <3> QED BY <3>1, <3>2 DEF Unsigned64, M, x
  <2>3. (v + M) \div WordSize = WordSize - 1
    <3> HIDE DEF w
    <3>1. WordSize - 1 \in Int
      BY <1>1
    <3>2. ((WordSize - 1) * WordSize + w) \div WordSize = WordSize - 1
      BY <1>1, <2>1, <3>1, ModUnique
    <3> QED BY <2>1, <3>2
  <2>6. (WordSize - 1) % 2 = 1 /\ (2 * WordSize - 2) % 2 = 0 /\ (2 * WordSize - 1) % 2 = 1
    BY <1>1
  <2>4. CASE v < -Half
    <3> DEFINE q == 2 * WordSize - 2
               r == v + 2 * Half
    <3>1. v + M = q * Half + r /\ r \in 0 .. (Half - 1) /\ q \in Int /\ v \notin SWord
      BY <1>1, <2>1, <2>4 DEF SWord
    <3> HIDE DEF q, r
    <3>2. (q * Half + r) \div Half = q
      BY <1>1, <3>1, ModUnique
    <3>3. q % 2 = 0
      BY <2>6 DEF q
    <3>4. t \div Half = q /\ t \div WordSize = WordSize - 1
      <4> HIDE DEF t, M
      <4> QED BY <2>2, <2>3, <3>1, <3>2
    <3> HIDE DEF t, M
    <3>5. (t \div WordSize) % 2 = 1 /\ (t \div Half) % 2 = 0
      BY <2>6, <3>3, <3>4
    <3> QED BY <3>1, <3>5 DEF Overflows, t
  <2>5. CASE v >= -Half
    <3> DEFINE q == 2 * WordSize - 1
               r == v + Half
    <3>1. v + M = q * Half + r /\ r \in 0 .. (Half - 1) /\ q \in Int /\ v \in SWord
      BY <1>1, <1>4, <2>1, <2>5 DEF SWord
    <3> HIDE DEF q, r
    <3>2. (q * Half + r) \div Half = q
      BY <1>1, <3>1, ModUnique
    <3>3. q % 2 = 1
      BY <2>6 DEF q
    <3>4. t \div Half = q /\ t \div WordSize = WordSize - 1
      <4> HIDE DEF t, M
      <4> QED BY <2>2, <2>3, <3>1, <3>2
    <3> HIDE DEF t, M
    <3>5. (t \div WordSize) % 2 = 1 /\ (t \div Half) % 2 = 1
      BY <2>6, <3>3, <3>4
    <3> QED BY <3>1, <3>5 DEF Overflows, t
  <2> QED BY <1>1, <2>4, <2>5
<1> QED BY <1>3, <1>4

(* The cast of an int has sign-extended it: or-ing the sign bit in changes *)
(* nothing.                                                                *)
LEMMA WideIsCast == ASSUME NEW x \in SWord PROVE Wide(x) = Unsigned64(x)
<1> DEFINE M == WordSize * WordSize
<1>1. Half \in Nat /\ Half >= 2 /\ WordSize = 2 * Half /\ WordSize \in Nat \ {0} /\ x \in Int
  BY HalfIsHalf, WordIsInt
<1>2. M \in Nat \ {0} /\ WordSize <= M
  BY <1>1
<1>3. CASE x >= 0
  <2>1. x \in 0 .. (Half - 1) /\ x \in 0 .. (WordSize - 1) /\ Half \in Nat \ {0}
    BY <1>1, <1>3 DEF SWord
  <2>2. Unsigned(x) = x /\ x \div Half = 0
    BY <1>1, <2>1, SmallMod DEF Unsigned
  <2>3. (Unsigned(x) \div Half) % 2 = 0
    BY <2>2
  <2> QED BY <2>3 DEF Wide
<1>4. CASE x < 0
  <2> DEFINE y == x + M
             w == x + WordSize
  <2>1. x \in -Half .. -1
    BY <1>1, <1>4 DEF SWord
  <2>2. y \in 0 .. (M - 1) /\ x = (-1) * M + y
      /\ y = (WordSize - 1) * WordSize + w /\ w \in 0 .. (WordSize - 1)
    BY <1>1, <1>2, <2>1
  <2>3. Unsigned64(x) = y
    <3>1. y \in 0 .. (M - 1) /\ x % M = ((-1) * M + y) % M
      BY <2>2
    <3> HIDE DEF M, y, w
    <3>2. ((-1) * M + y) % M = y
      BY <1>2, <3>1, ModUnique
    <3> QED BY <3>1, <3>2 DEF Unsigned64, M
  <2>4. y \div WordSize = WordSize - 1
    <3> HIDE DEF y, w
    <3>1. WordSize - 1 \in Int
      BY <1>1
    <3>2. ((WordSize - 1) * WordSize + w) \div WordSize = WordSize - 1
      BY <1>1, <2>2, <3>1, ModUnique
    <3> QED BY <2>2, <3>2
  <2>5. (Unsigned64(x) \div WordSize) % 2 = 1
    <3>1. (WordSize - 1) % 2 = 1
      BY <1>1
    <3> HIDE DEF y
    <3> QED BY <2>3, <2>4, <3>1
  <2> QED BY <2>5 DEF Wide
<1> QED BY <1>1, <1>3, <1>4

(* The test on the sum or difference of two words is exact.                *)
LEMMA SumTest ==
    ASSUME NEW x \in SWord, NEW y \in SWord
    PROVE  /\ Overflows(Unsigned64(Wide(x) + Wide(y))) <=> x + y \notin SWord
           /\ Overflows(Unsigned64(Wide(x) - Wide(y))) <=> x - y \notin SWord
<1>1. x \in Int /\ y \in Int /\ WordSize * WordSize \in Nat \ {0}
  BY WordIsInt, WidthsAssumption
<1>2. /\ Unsigned64(Wide(x) + Wide(y)) = Unsigned64(x + y)
      /\ Unsigned64(Wide(x) - Wide(y)) = Unsigned64(x - y)
  <2> DEFINE M == WordSize * WordSize
  <2>1. Wide(x) = x % M /\ Wide(y) = y % M
    BY WideIsCast DEF Unsigned64
  <2> HIDE DEF M
  <2>2. ((x % M) + (y % M)) % M = (x + y) % M /\ ((x % M) - (y % M)) % M = (x - y) % M
    BY <1>1, CastAdds DEF M
  <2> QED BY <2>1, <2>2 DEF Unsigned64, M
<1>3. /\ x + y \in Int /\ -WordSize <= x + y /\ x + y < WordSize
      /\ x - y \in Int /\ -WordSize <= x - y /\ x - y < WordSize
  BY <1>1, HalfIsHalf DEF SWord
<1> QED BY <1>2, <1>3, TestExact

(* An immediate is a word.                                                 *)
LEMMA ImmediateIsWord == ASSUME NEW i \in SHalf PROVE i \in SWord
<1>1. HalfSize \in Nat \ {0} /\ HalfSize <= WordSize /\ WordSize \in Nat
  BY WidthsAssumption DEF HalfSize
<1>2. ASSUME NEW h \in Nat, NEW w \in Nat, h <= w PROVE h \div 2 <= w \div 2
  BY <1>2
<1>3. HalfSize \div 2 <= Half /\ HalfSize \div 2 \in Int /\ Half \in Int
  BY <1>1, <1>2 DEF Half
<1> QED BY <1>3 DEF SHalf, SWord

(* One ADD, SUB or ADDI.                                                   *)
LEMMA CheckedExact ==
    ASSUME CTypeOK, NEW u \in Program, NEW k, NEW v \in Int, NEW t,
           Overflows(t) <=> v \notin SWord, Checked(k, t, v)
    PROVE  IF v \in SWord THEN out'.ret = OK /\ reg' = [reg EXCEPT ![k] = v]
           ELSE out'.ret = 1 /\ reg' = reg
<1>1. CASE v \in SWord
  BY <1>1, ToIntId DEF Checked, Sets, Says, Out
<1>2. CASE v \notin SWord
  BY <1>2 DEF Checked, Fails, Says, Out
<1> QED BY <1>1, <1>2

(* ADD, ADDI and SUB: for words of every width, the test of two bits of a  *)
(* 64-bit sum refuses exactly the results that are no int32_t and then     *)
(* leaves the registers alone; what it lets through is the exact result.   *)
THEOREM OverflowExact == CSpec => OverflowRefused
<1> DEFINE Step ==
      Executed /\ getInstr(ran'.u) \in {"ADD", "ADDI", "SUB"} =>
        LET u == ran'.u
            v == Exact(getInstr(u), u)
            k == IF getInstr(u) = "ADDI" THEN u.rt ELSE u.rd
        IN  IF v \in SWord THEN out'.ret = OK /\ reg' = [reg EXCEPT ![k] = v]
            ELSE out'.ret = 1 /\ reg' = reg
<1>1. CTypeOK /\ CNext => Step
  <2> SUFFICES ASSUME CTypeOK, CNext, Executed, getInstr(ran'.u) \in {"ADD", "ADDI", "SUB"}
               PROVE  LET u == ran'.u
                          v == Exact(getInstr(u), u)
                          k == IF getInstr(u) = "ADDI" THEN u.rt ELSE u.rd
                      IN  IF v \in SWord THEN out'.ret = OK /\ reg' = [reg EXCEPT ![k] = v]
                          ELSE out'.ret = 1 /\ reg' = reg
    OBVIOUS
  <2>1. Execute
    BY DEF CNext, Executed, SetReg, AssertReg, DispReg, RefuseReg, Command
  <2>2. PICK u \in Program, m \in Contexts : ran' = [u |-> u, m |-> m] /\ execute_asm(u, m)
    BY <2>1 DEF Execute
  <2>3. ran'.u = u
    BY <2>2
  <2> DEFINE op == getInstr(u)
  <2>4. op \in {"ADD", "ADDI", "SUB"}
    BY <2>3
  <2> HIDE DEF op
  <2>5. AddOrSub(op, u)
    <3>1. \/ AddOrSub(op, u) \/ ThreeRegisters(op, u) \/ WithImmediate(op, u)
          \/ Shift(op, u) \/ MultDiv(op, u) \/ LoadStore(op, u, m)
          \/ JumpTo(op, u, m.pc) \/ Syscall(op) \/ Others(op)
      BY <2>2 DEF execute_asm, op
    <3>2. ~ThreeRegisters(op, u) /\ ~WithImmediate(op, u)
      BY <2>4 DEF ThreeRegisters, WithImmediate
    <3>3. ~Shift(op, u) /\ ~MultDiv(op, u)
      BY <2>4 DEF Shift, MultDiv
    <3>4. ~LoadStore(op, u, m) /\ ~JumpTo(op, u, m.pc) /\ ~Syscall(op)
      BY <2>4 DEF LoadStore, JumpTo, Syscall
    <3>5. ~Others(op)
      BY <2>4 DEF Others, Unknown, Problem
    <3> QED BY <3>1, <3>2, <3>3, <3>4, <3>5
  <2>6. S(u) \in SWord /\ T(u) \in SWord /\ u.imm \in SWord
        /\ S(u) \in Int /\ T(u) \in Int /\ u.imm \in Int
    BY Operands, Fields, ImmediateIsWord
  <2>7. S(u) + T(u) \in Int /\ S(u) - T(u) \in Int /\ S(u) + u.imm \in Int
    BY <2>6
  <2>8. CASE op = "ADD"
    <3>1. Checked(u.rd, Unsigned64(Wide(S(u)) + Wide(T(u))), S(u) + T(u))
      BY <2>5, <2>8 DEF AddOrSub
    <3>2. Overflows(Unsigned64(Wide(S(u)) + Wide(T(u)))) <=> S(u) + T(u) \notin SWord
      BY <2>6, SumTest
    <3> QED BY <2>3, <2>7, <2>8, <3>1, <3>2, CheckedExact DEF Exact, op
  <2>9. CASE op = "SUB"
    <3>1. Checked(u.rd, Unsigned64(Wide(S(u)) - Wide(T(u))), S(u) - T(u))
      BY <2>5, <2>9 DEF AddOrSub
    <3>2. Overflows(Unsigned64(Wide(S(u)) - Wide(T(u)))) <=> S(u) - T(u) \notin SWord
      BY <2>6, SumTest
    <3> QED BY <2>3, <2>7, <2>9, <3>1, <3>2, CheckedExact DEF Exact, op
  <2>10. CASE op = "ADDI"
    <3>1. Checked(u.rt, Unsigned64(Wide(S(u)) + Wide(u.imm)), S(u) + u.imm)
      BY <2>5, <2>10 DEF AddOrSub
    <3>2. Overflows(Unsigned64(Wide(S(u)) + Wide(u.imm))) <=> S(u) + u.imm \notin SWord
      BY <2>6, SumTest
    <3> QED BY <2>3, <2>7, <2>10, <3>1, <3>2, CheckedExact DEF Exact, op
  <2> QED BY <2>4, <2>8, <2>9, <2>10
<1>2. CTypeOK /\ [CNext]_cvars => [Step]_cvars
  BY <1>1
<1> QED BY <1>2, RegistersTyped, PTL DEF CSpec, OverflowRefused

-----------------------------------------------------------------------------
(* Names of registers                                                      *)

(* No two registers have the same name, and none that of the pc, HI or LO  *)
(* in lower case.                                                          *)
LEMMA NamesDistinct ==
    \A j, k \in Numbers : Mnemonics[j + 1] = Mnemonics[k + 1] => j = k
BY SMTT(60) DEF Numbers, Mnemonics

LEMMA NamesNotLower == \A k \in Numbers : Mnemonics[k + 1] \notin DOMAIN LowerCase
<1>1. DOMAIN LowerCase = {"pc", "hi", "lo"}
  BY DEF LowerCase
<1>2. \A k \in Numbers : Mnemonics[k + 1] \notin {"pc", "hi", "lo"}
  BY SMTT(60) DEF Numbers, Mnemonics
<1> QED BY <1>1, <1>2

(* convert undoes getR.                                                    *)
LEMMA ConvertBack == ASSUME NEW k \in Numbers PROVE convert(getR(k)) = k
<1> DEFINE m == Mnemonics[k + 1]
<1>1. "number" \notin DOMAIN Mnemonic(m) /\ Mnemonic(m).mnemonic = m
  BY DEF Mnemonic
<1>2. m \notin DOMAIN LowerCase
  BY NamesNotLower
<1>3. Named(m) = {k}
  BY NamesDistinct DEF Named
<1>4. (CHOOSE j \in Numbers : j \in Named(m)) = k
  BY <1>3
<1> QED BY <1>1, <1>2, <1>3, <1>4 DEF convert, getR

(* disp reg shows a register under the name the disassembler gives it, and *)
(* the commands take that name for the same register.                      *)
THEOREM NamesMeet == CSpec => NamesAgree
<1> DEFINE Step ==
      ~Executed /\ out'.shown # <<>> =>
        LET k == convert(out'.shown[1])
        IN  k \in DOMAIN reg /\ reg[k] = out'.shown[2] /\ getR(k) = out'.shown[1]
<1>1. CTypeOK /\ CNext => Step
  <2> SUFFICES ASSUME CTypeOK, CNext, ~Executed, out'.shown # <<>>
               PROVE  LET k == convert(out'.shown[1])
                      IN  /\ k \in DOMAIN reg /\ reg[k] = out'.shown[2]
                          /\ getR(k) = out'.shown[1]
    OBVIOUS
  <2>1. ~Execute
    <3> SUFFICES ASSUME NEW u \in Program, NEW m \in Contexts, ran' = [u |-> u, m |-> m]
                 PROVE  FALSE
      BY DEF Execute
    <3>1. "u" \in DOMAIN ran'
      OBVIOUS
    <3>2. "u" \notin DOMAIN <<>>
      OBVIOUS
    <3> QED BY <3>1, <3>2 DEF Executed
  <2>2. ~SetReg /\ ~AssertReg /\ ~RefuseReg
    BY DEF SetReg, AssertReg, RefuseReg, Command, Says, Out
  <2>3. PICK n \in Names :
          Command(IF convert(n) = -1 THEN Out(-2, <<>>, <<>>, <<>>)
                  ELSE Out(OK, <<>>, <<>>, <<getName(n), reg[convert(n)]>>))
    BY <2>1, <2>2 DEF CNext, DispReg
  <2>4. convert(n) # -1 /\ out'.shown = <<getName(n), reg[convert(n)]>>
    BY <2>3 DEF Command, Says, Out
  <2> DEFINE k == convert(n)
  <2>5. k \in Gpr \cup {HI, LO} /\ k \in Numbers
    <3>1. k \in Gpr \cup {HI, LO}
      BY <2>4, NamesAssumption
    <3>2. Gpr \subseteq 0 .. 31
      BY InputsAssumption
    <3> HIDE DEF k
    <3>3. k \in Numbers
      BY <3>1, <3>2 DEF Numbers, HI, LO
    <3> QED BY <3>1, <3>3
  <2>6. getName(n) = getR(k)
    BY DEF getName, getName2, getR
  <2>7. convert(getR(k)) = k
    BY <2>5, ConvertBack
  <2>8. k \in DOMAIN reg
    BY <2>5 DEF CTypeOK
  <2> HIDE DEF k
  <2>9. out'.shown[1] = getR(k) /\ out'.shown[2] = reg[k]
    BY <2>4, <2>6 DEF k
  <2> QED BY <2>7, <2>8, <2>9
<1>2. CTypeOK /\ [CNext]_cvars => [Step]_cvars
  BY <1>1
<1> QED BY <1>2, RegistersTyped, PTL DEF CSpec, NamesAgree

-----------------------------------------------------------------------------
(* What the disassembly tells                                              *)

Listed ==
    ListsRdRsRt \cup ListsRdRtSa \cup ListsRtRsImm \cup ListsRsRtImm \cup ListsRsImm
      \cup ListsRsRt \cup ListsRd \cup ListsTarget \cup ListsNone \cup {"JR", "SEB", "LUI"}

(* Every name of the tables is listed, but for JALR.                       *)
LEMMA NamesOfInstructions == ASSUME NEW u PROVE getInstr(u) \in Listed \cup Unknown
<1>1. ASSUME NEW table, NEW code PROVE Lookup(table, code) \in DOMAIN table \cup {Problem}
  BY DEF Lookup
<1>2. DOMAIN libs \subseteq Listed \cup Unknown
  BY DEF libs, Listed, Unknown, ListsRdRsRt, ListsRdRtSa, ListsRsRt, ListsRd, ListsNone
<1>3. DOMAIN libr \subseteq Listed /\ DOMAIN libs3 \subseteq Listed
  BY DEF libr, libs3, Listed, ListsRsImm
<1>4. DOMAIN libn \subseteq Listed
  BY DEF libn, Listed, ListsRtRsImm, ListsRsRtImm, ListsRsImm, ListsTarget
<1>5. Problem \in Unknown
  BY DEF Unknown
<1>6. getInstr(u) \in {Lookup(libs, u.funct), Lookup(libr, u.rt), Lookup(libs3, u.sa), Lookup(libn, u.opcode)}
  BY DEF getInstr, type
<1> QED
  BY <1>1, <1>2, <1>3, <1>4, <1>5, <1>6, Zenon

(* The line of each kind of instruction.                                   *)
LEMMA Lines ==
    ASSUME NEW u
    PROVE  LET op == getInstr(u)
           IN  /\ IsNop(u) => dispAssem(u) = <<"NOP">>
               /\ op \in ListsRdRtSa /\ ~IsNop(u) =>
                    dispAssem(u) = <<op, getR(u.rd), getR(u.rt), u.sa>>
               /\ op \in ListsRdRsRt => dispAssem(u) = <<op, getR(u.rd), getR(u.rs), getR(u.rt)>>
               /\ op \in ListsRtRsImm => dispAssem(u) = <<op, getR(u.rt), getR(u.rs), u.imm>>
               /\ op \in ListsRsRtImm => dispAssem(u) = <<op, getR(u.rs), getR(u.rt), u.imm>>
               /\ op \in ListsRsImm => dispAssem(u) = <<op, getR(u.rs), u.imm>>
               /\ op \in ListsRsRt => dispAssem(u) = <<op, getR(u.rs), getR(u.rt)>>
               /\ op \in ListsRd => dispAssem(u) = <<op, getR(u.rd)>>
               /\ op \in ListsTarget => dispAssem(u) = <<op, u.target>>
               /\ op = "JR" => dispAssem(u) = <<op, getR(u.rs)>>
               /\ op = "SEB" => dispAssem(u) = <<op, getR(u.rd), getR(u.rt)>>
               /\ op = "LUI" => dispAssem(u) = <<op, getR(u.rt), u.imm>>
               /\ op \in ListsNone => dispAssem(u) = <<op>>
               /\ op \in Unknown => dispAssem(u) = <<Problem>>
<1> DEFINE op == getInstr(u)
<1>1. IsNop(u) => op = "SLL"
  BY DEF IsNop
<1>2. dispAssem(u) = CASE IsNop(u) -> <<"NOP">>
          [] ~IsNop(u) /\ op \in ListsRdRtSa -> <<op, getR(u.rd), getR(u.rt), u.sa>>
          [] op \in ListsRdRsRt -> <<op, getR(u.rd), getR(u.rs), getR(u.rt)>>
          [] op \in ListsRtRsImm -> <<op, getR(u.rt), getR(u.rs), u.imm>>
          [] op \in ListsRsRtImm -> <<op, getR(u.rs), getR(u.rt), u.imm>>
          [] op \in ListsRsImm  -> <<op, getR(u.rs), u.imm>>
          [] op \in ListsRsRt   -> <<op, getR(u.rs), getR(u.rt)>>
          [] op \in ListsRd     -> <<op, getR(u.rd)>>
          [] op \in ListsTarget -> <<op, u.target>>
          [] op = "JR"          -> <<op, getR(u.rs)>>
          [] op = "SEB"         -> <<op, getR(u.rd), getR(u.rt)>>
          [] op = "LUI"         -> <<op, getR(u.rt), u.imm>>
          [] op \in ListsNone   -> <<op>>
          [] OTHER              -> <<Problem>>
  BY DEF dispAssem
<1> HIDE DEF op
<1>3. CASE IsNop(u)
  BY <1>1, <1>2, <1>3 DEF ListsRdRsRt, ListsRdRtSa, ListsRtRsImm, ListsRsRtImm, ListsRsImm,
        ListsRsRt, ListsRd, ListsTarget, ListsNone, Unknown, Problem, op
<1>4. CASE ~IsNop(u)
  BY <1>2, <1>4 DEF ListsRdRsRt, ListsRdRtSa, ListsRtRsImm, ListsRsRtImm, ListsRsImm,
        ListsRsRt, ListsRd, ListsTarget, ListsNone, Unknown, Problem, op
<1> QED
  BY <1>3, <1>4

(* Registers with the same name are the same.                              *)
LEMMA SameRegister ==
    ASSUME NEW j \in Gpr, NEW k \in Gpr, getR(j) = getR(k)
    PROVE  j = k
<1>1. j \in Numbers /\ k \in Numbers
  BY InputsAssumption DEF Numbers
<1> QED BY <1>1, ConvertBack

(* What an instruction word says to those that read it as op.              *)
SameFields(u, v) ==
    LET op == getInstr(u)
    IN  /\ getInstr(v) = op /\ (IsNop(v) <=> IsNop(u))
        /\ op \in ListsRdRsRt => v.rd = u.rd /\ v.rs = u.rs /\ v.rt = u.rt
        /\ op \in ListsRdRtSa /\ ~IsNop(u) => v.rd = u.rd /\ v.rt = u.rt /\ v.sa = u.sa
        /\ op \in ListsRtRsImm => v.rs = u.rs /\ v.rt = u.rt /\ v.imm = u.imm
        /\ op \in ListsRsRt => v.rs = u.rs /\ v.rt = u.rt
        /\ op \in ListsRd => v.rd = u.rd
        /\ op \in ListsTarget => v.target = u.target
        /\ op = "SEB" => v.rd = u.rd /\ v.rt = u.rt
        /\ op = "LUI" => v.rt = u.rt /\ v.imm = u.imm

(* The line gives back the fields of an instruction that has a name.       *)
LEMMA LineTells ==
    ASSUME NEW u \in Program, NEW v \in Program, dispAssem(v) = dispAssem(u),
           getInstr(u) \in Listed
    PROVE  SameFields(u, v)
<1> DEFINE op == getInstr(u)
           pp == getInstr(v)
<1>1. /\ u.rd \in Gpr /\ u.rs \in Gpr /\ u.rt \in Gpr
      /\ v.rd \in Gpr /\ v.rs \in Gpr /\ v.rt \in Gpr
  BY Fields
<1>2. op \in Listed /\ pp \in Listed \cup Unknown
  BY NamesOfInstructions
<1>3. "NOP" \notin Listed \cup Unknown /\ Problem \notin Listed /\ Problem # "NOP"
  BY DEF Listed, Unknown, Problem, ListsRdRsRt, ListsRdRtSa, ListsRtRsImm, ListsRsRtImm,
        ListsRsImm, ListsRsRt, ListsRd, ListsTarget, ListsNone
<1>4. ASSUME NEW x
      PROVE  dispAssem(x)[1] = IF IsNop(x) THEN "NOP"
                               ELSE IF getInstr(x) \in Listed THEN getInstr(x) ELSE Problem
  <2>1. getInstr(x) \in Listed \cup Unknown
    BY NamesOfInstructions
  <2> QED BY <2>1, Lines DEF Listed
<1>5. pp = op /\ (IsNop(v) <=> IsNop(u))
  <2>1. CASE IsNop(u)
    BY <1>2, <1>3, <1>4, <2>1 DEF IsNop
  <2>2. CASE ~IsNop(u)
    BY <1>2, <1>3, <1>4, <2>2
  <2> QED BY <2>1, <2>2
<1> HIDE DEF op, pp
<1> QED BY <1>1, <1>5, Lines, SameRegister DEF SameFields, op, pp

(* Only the branch of its kind executes an instruction.                    *)
LEMMA OneBranch ==
    ASSUME NEW op, NEW u, NEW m
    PROVE  /\ AddOrSub(op, u) => op \in {"ADD", "SUB", "ADDI"}
           /\ ThreeRegisters(op, u) => op \in {"ADDU", "SUBU", "AND", "OR", "XOR", "SLT", "SLTU"}
           /\ WithImmediate(op, u) => op \in {"ADDIU", "ANDI", "ORI", "SLTI", "SLTIU", "LUI"}
           /\ Shift(op, u) => op \in {"SLL", "SRA", "SRL", "SEB"}
           /\ MultDiv(op, u) => op \in {"MULT", "DIV", "MFHI", "MFLO"}
           /\ LoadStore(op, u, m) => op \in {"LB", "LBU", "LW", "SB", "SW"}
           /\ JumpTo(op, u, m.pc) => op \in {"J", "JAL"}
           /\ Syscall(op) => op = "SYSCALL"
           /\ Others(op) => op \in Unknown \cup {"BREAK"}
BY DEF AddOrSub, ThreeRegisters, WithImmediate, Shift, MultDiv, LoadStore, JumpTo, Syscall, Others

(* An instruction word executes like any other with the same fields.       *)
LEMMA SameExecution ==
    ASSUME NEW u, NEW v, NEW m, SameFields(u, v), execute_asm(u, m)
    PROVE  execute_asm(v, m)
<1> DEFINE op == getInstr(u)
<1>1. getInstr(v) = op /\ (IsNop(v) <=> IsNop(u))
  BY DEF SameFields
<1>2. \/ AddOrSub(op, u) \/ ThreeRegisters(op, u) \/ WithImmediate(op, u)
      \/ Shift(op, u) \/ MultDiv(op, u) \/ LoadStore(op, u, m)
      \/ JumpTo(op, u, m.pc) \/ Syscall(op) \/ Others(op)
  BY DEF execute_asm
<1>3. /\ op \in ListsRdRsRt => v.rd = u.rd /\ v.rs = u.rs /\ v.rt = u.rt
      /\ op \in ListsRdRtSa /\ ~IsNop(u) => v.rd = u.rd /\ v.rt = u.rt /\ v.sa = u.sa
      /\ op \in ListsRtRsImm => v.rs = u.rs /\ v.rt = u.rt /\ v.imm = u.imm
      /\ op \in ListsRsRt => v.rs = u.rs /\ v.rt = u.rt
      /\ op \in ListsRd => v.rd = u.rd
      /\ op \in ListsTarget => v.target = u.target
      /\ op = "SEB" => v.rd = u.rd /\ v.rt = u.rt
      /\ op = "LUI" => v.rt = u.rt /\ v.imm = u.imm
  BY DEF SameFields
<1>4. IsNop(u) => op = "SLL"
  BY DEF IsNop
<1> HIDE DEF op
<1>5. CASE AddOrSub(op, u)
  <2>1. AddOrSub(op, v)
    BY <1>3, <1>5 DEF AddOrSub, S, T, ListsRdRsRt, ListsRtRsImm
  <2> QED BY <1>1, <2>1 DEF execute_asm
<1>6. CASE ThreeRegisters(op, u)
  <2>1. ThreeRegisters(op, v)
    BY <1>3, <1>6 DEF ThreeRegisters, S, T, ListsRdRsRt
  <2> QED BY <1>1, <2>1 DEF execute_asm
<1>7. CASE WithImmediate(op, u)
  <2>1. WithImmediate(op, v)
    BY <1>3, <1>7 DEF WithImmediate, S, ListsRtRsImm
  <2> QED BY <1>1, <2>1 DEF execute_asm
<1>8. CASE Shift(op, u)
  <2>1. Shift(op, v)
    BY <1>1, <1>3, <1>4, <1>8 DEF Shift, T, D, ListsRdRtSa
  <2> QED BY <1>1, <2>1 DEF execute_asm
<1>9. CASE MultDiv(op, u)
  <2>1. MultDiv(op, v)
    BY <1>3, <1>9 DEF MultDiv, S, T, ListsRsRt, ListsRd
  <2> QED BY <1>1, <2>1 DEF execute_asm
<1>10. CASE LoadStore(op, u, m)
  <2>1. LoadStore(op, v, m)
    BY <1>3, <1>10 DEF LoadStore, LoadTo, vAddr, S, T, ListsRtRsImm
  <2> QED BY <1>1, <2>1 DEF execute_asm
<1>11. CASE JumpTo(op, u, m.pc)
  <2>1. JumpTo(op, v, m.pc)
    BY <1>3, <1>11 DEF JumpTo, Landing, ListsTarget
  <2> QED BY <1>1, <2>1 DEF execute_asm
<1>12. CASE Syscall(op) \/ Others(op)
  BY <1>1, <1>12 DEF execute_asm
<1> QED
  BY <1>2, <1>5, <1>6, <1>7, <1>8, <1>9, <1>10, <1>11, <1>12

(* The instructions that dispAssem calls a problem do one and the same     *)
(* thing: nothing, with result 2.                                          *)
LEMMA ProblemsAlike ==
    ASSUME NEW u, NEW v, NEW m, dispAssem(v) = dispAssem(u), getInstr(u) \in Unknown,
           execute_asm(u, m)
    PROVE  execute_asm(v, m)
<1>1. Others(getInstr(u))
  BY OneBranch DEF execute_asm, Unknown, Problem
<1>2. "BREAK" \notin Unknown /\ Problem \notin Listed \cup {"NOP"} /\ "SLL" \in Listed
  BY DEF Listed, Unknown, Problem, ListsRdRsRt, ListsRdRtSa, ListsRtRsImm, ListsRsRtImm,
        ListsRsImm, ListsRsRt, ListsRd, ListsTarget, ListsNone
<1>3. Fails(2)
  BY <1>1, <1>2 DEF Others
<1>4. dispAssem(v) = <<Problem>>
  BY Lines
<1>5. getInstr(v) \notin Listed
  <2>1. getInstr(v) \in Listed =>
          dispAssem(v)[1] = IF IsNop(v) THEN "NOP" ELSE getInstr(v)
    BY Lines DEF Listed
  <2> QED BY <1>2, <1>4, <2>1
<1>6. getInstr(v) \in Unknown
  BY <1>5, NamesOfInstructions
<1> QED BY <1>3, <1>6 DEF execute_asm, Others

(* The disassembly hides nothing, for any set of instruction words: two    *)
(* words that dispAssem lists the same way make the same steps.            *)
THEOREM ListingExact == CSpec => ListingTellsAll
<1> DEFINE Step == Executed => \A v \in SameListing[ran'.u] : execute_asm(v, ran'.m)
<1>1. CNext => Step
  <2> SUFFICES ASSUME CNext, Executed PROVE \A v \in SameListing[ran'.u] : execute_asm(v, ran'.m)
    OBVIOUS
  <2>1. Execute
    BY DEF CNext, Executed, SetReg, AssertReg, DispReg, RefuseReg, Command
  <2>2. PICK u \in Program, m \in Contexts : ran' = [u |-> u, m |-> m] /\ execute_asm(u, m)
    BY <2>1 DEF Execute
  <2>3. ran'.u = u /\ ran'.m = m
    BY <2>2
  <2> SUFFICES ASSUME NEW v \in SameListing[u] PROVE execute_asm(v, m)
    BY <2>3
  <2>4. v \in Program /\ dispAssem(v) = dispAssem(u)
    BY DEF SameListing
  <2>5. CASE getInstr(u) \in Listed
    BY <2>2, <2>4, <2>5, LineTells, SameExecution
  <2>6. CASE getInstr(u) \in Unknown
    BY <2>2, <2>4, <2>6, ProblemsAlike
  <2> QED BY <2>5, <2>6, NamesOfInstructions
<1>2. [CNext]_cvars => [Step]_cvars
  BY <1>1
<1> QED BY <1>2, PTL DEF CSpec, ListingTellsAll
=============================================================================
