--------------------------------- MODULE Cpu ---------------------------------
(***************************************************************************)
(* The registers and the instructions that compute, load, store and jump   *)
(* to a target, as execute_asm executes them one at a time, and the        *)
(* commands that read and write registers.  Which instruction comes next   *)
(* (branches, JR, delay slots) is in Instructions and Debugger, the memory *)
(* behind loads and stores is in Memory: here an instruction may follow    *)
(* any other, at any pc and with any answer of loadmem in Contexts.        *)
(***************************************************************************)
EXTENDS Words, Decoder

CONSTANTS
    Gpr,        \* numbers of the registers in use
    Program,    \* instruction words that may be executed: no branch and no JR
    Contexts,   \* values of the pc, with what loadmem answers as a WORD and a BYTE
    Names,      \* register arguments of the commands
    Numerals    \* value arguments: what "%x" and atoi make of the text

Instr == [opcode : 0 .. 63, rs : Gpr, rt : Gpr, rd : Gpr, sa : 0 .. 31,
          funct : 0 .. 63, imm : SHalf, target : Nat]

ASSUME InputsAssumption ==
    /\ Gpr \subseteq 0 .. 31 /\ {0, V0, RA} \subseteq Gpr
    /\ Program \subseteq Instr
    /\ \A u \in Program : getInstr(u) \in ListsRdRtSa => u.sa \in BitNumbers
    /\ Contexts \subseteq [pc : SWord, word : SWord, byte : 0 .. (ByteSize - 1)]
    /\ Numerals \subseteq [hex : Int, dec : Int]

(* A name that stands for a register stands for one in use.                *)
ASSUME NamesAssumption == \A n \in Names : convert(n) \in Gpr \cup {HI, LO, -1}

VARIABLES
    reg,        \* r->reg, pc apart
    out,        \* what the last step gave: [ret, bus, to, shown]
    ran,        \* the last instruction: [u, m], or <<>>
    killed      \* SIGFPE has ended the process
cvars == <<reg, out, ran, killed>>

(* ret: the result; bus: the access to memory; to: where a jump goes once  *)
(* its delay slot is done; shown: what a command displays.                 *)
Out(ret, bus, to, shown) == [ret |-> ret, bus |-> bus, to |-> to, shown |-> shown]
OK == 0

CInit ==
    /\ reg = [k \in Gpr \cup {HI, LO} |-> 0]
    /\ out = Out(OK, <<>>, <<>>, <<>>) /\ ran = <<>> /\ killed = FALSE

-----------------------------------------------------------------------------
(* How an instruction ends                                                 *)

Says(o) == out' = o /\ UNCHANGED killed

(* Mutant: a register holds more than 32 bits.                             *)
Sets_Wide(k, v) == reg' = [reg EXCEPT ![k] = v] /\ Says(Out(OK, <<>>, <<>>, <<>>))

(* An assignment to a register is one to an int32_t.                       *)
Sets(k, v) == reg' = [reg EXCEPT ![k] = ToInt(v)] /\ Says(Out(OK, <<>>, <<>>, <<>>))
Fails(ret) == UNCHANGED reg /\ Says(Out(ret, <<>>, <<>>, <<>>))

(* The test of ADD, ADDI and SUB on a 64-bit temp: its bits 32 and 31.     *)
Overflows(temp) == (temp \div WordSize) % 2 # (temp \div Half) % 2

(* An operand of that test: the cast of an int sign-extends it, so that    *)
(* bit 32, which the code sets from bit 31, is already there.              *)
Wide(x) ==
    LET c == Unsigned64(x)
    IN  IF (Unsigned(x) \div Half) % 2 = 1 /\ (c \div WordSize) % 2 = 0
        THEN c + WordSize ELSE c

(* Mutant: the wrapped sum is stored before the test.                      *)
Checked_StoresAnyway(k, temp, v) ==
    reg' = [reg EXCEPT ![k] = ToInt(v)]
        /\ Says(Out(IF Overflows(temp) THEN 1 ELSE OK, <<>>, <<>>, <<>>))

Checked(k, temp, v) == IF Overflows(temp) THEN Fails(1) ELSE Sets(k, v)

-----------------------------------------------------------------------------
(* The instructions, by the registers they read and write.                 *)
S(u) == reg[u.rs]
T(u) == reg[u.rt]
D(u) == reg[u.rd]
Truth(b) == IF b THEN 1 ELSE 0

(* Mutant: the address is the base register alone.                         *)
vAddr_NoOffset(u) == Unsigned(S(u))

(* The address of a load or a store.                                       *)
vAddr(u) == Unsigned(u.imm + S(u))

AddOrSub(op, u) ==
    \/ op = "ADD" /\ Checked(u.rd, Unsigned64(Wide(S(u)) + Wide(T(u))), S(u) + T(u))
    \/ op = "SUB" /\ Checked(u.rd, Unsigned64(Wide(S(u)) - Wide(T(u))), S(u) - T(u))
    \/ op = "ADDI" /\ Checked(u.rt, Unsigned64(Wide(S(u)) + Wide(u.imm)), S(u) + u.imm)

ThreeRegisters(op, u) ==
    \/ op = "ADDU" /\ Sets(u.rd, S(u) + T(u))
    \/ op = "SUBU" /\ Sets(u.rd, S(u) - T(u))
    \/ op = "AND"  /\ Sets(u.rd, And(S(u), T(u)))
    \/ op = "OR"   /\ Sets(u.rd, Or(S(u), T(u)))
    \/ op = "XOR"  /\ Sets(u.rd, Xor(S(u), T(u)))
    \/ op \in {"SLT", "SLTU"} /\ Sets(u.rd, Truth(S(u) < T(u)))

(* The immediate is a signed 16-bit integer in all of them.                *)
WithImmediate(op, u) ==
    \/ op = "ADDIU" /\ Sets(u.rt, S(u) + u.imm)
    \/ op = "ANDI"  /\ Sets(u.rt, And(S(u), u.imm))
    \/ op = "ORI"   /\ Sets(u.rt, Or(S(u), u.imm))
    \/ op \in {"SLTI", "SLTIU"} /\ Sets(u.rt, Truth(S(u) < u.imm))
    \/ op = "LUI"   /\ Sets(u.rt, u.imm * HalfSize)

(* SLL keeps sa + 1 bits of rt; SRA and SRL shift the destination, the     *)
(* first as an unsigned word, the second as an int.                        *)
Shift(op, u) ==
    \/ op = "SLL" /\ ~IsNop(u) /\ Sets(u.rd, getbits(T(u), 0, u.sa) * 2^u.sa)
    \/ op = "SLL" /\ IsNop(u) /\ Fails(OK)
    \/ op = "SRA" /\ Sets(u.rd, getbits(D(u), u.sa, WordBits - 1))
    \/ op = "SRL" /\ Sets(u.rd, D(u) \div 2^u.sa)
    \/ op = "SEB" /\ Sets(u.rd, getbits(T(u), 0, ByteBits - 1))

SetsHiLo(hi, lo) ==
    /\ reg' = [reg EXCEPT ![HI] = ToInt(hi), ![LO] = ToInt(lo)]
    /\ Says(Out(OK, <<>>, <<>>, <<>>))

(* The product is one of ints, widened after it has wrapped; the smallest  *)
(* int divided by -1 traps.                                                *)
MultDiv(op, u) ==
    \/ /\ op = "MULT"
       /\ LET prod == Unsigned64(ToInt(S(u) * T(u)))
          IN  SetsHiLo(prod \div WordSize, prod % WordSize)
    \/ op = "DIV" /\ T(u) = 0 /\ Fails(-1)
    \/ /\ op = "DIV" /\ S(u) = -Half /\ T(u) = -1
       /\ killed' = TRUE /\ UNCHANGED <<reg, out>>
    \/ /\ op = "DIV" /\ T(u) # 0 /\ ~(S(u) = -Half /\ T(u) = -1)
       /\ SetsHiLo(Remainder(S(u), T(u)), Quotient(S(u), T(u)))
    \/ op = "MFHI" /\ Sets(u.rd, reg[HI])
    \/ op = "MFLO" /\ Sets(u.rd, reg[LO])

Aligned(a) == getbits(a, 0, 1) = 0

LoadTo(u, v, bus) ==
    reg' = [reg EXCEPT ![u.rt] = ToInt(v)] /\ Says(Out(OK, bus, <<>>, <<>>))
StoreOf(bus) == UNCHANGED reg /\ Says(Out(OK, bus, <<>>, <<>>))

(* Both byte loads leave the upper bits at zero, and SB stores a byte of   *)
(* its base register.                                                      *)
LoadStore(op, u, m) ==
    LET a == vAddr(u)
    IN  \/ op \in {"LB", "LBU"} /\ LoadTo(u, m.byte, <<"read", a>>)
        \/ op = "LW" /\ Aligned(a) /\ LoadTo(u, m.word, <<"read", a>>)
        \/ op \in {"LW", "SW"} /\ ~Aligned(a) /\ Fails(1)
        \/ op = "SB" /\ StoreOf(<<"byte", a, getbits(S(u), 0, ByteBits - 1)>>)
        \/ op = "SW" /\ Aligned(a) /\ StoreOf(<<"word", a, T(u)>>)

(* The region bits of the pc of the delay slot, at the bottom, or-ed with  *)
(* the target.                                                             *)
Landing(u, slot) ==
    Unsigned(Or(Unsigned(slot) \div 2^(WordBits - RegionBits), u.target * 4))

(* JAL links before its delay slot.                                        *)
JumpTo(op, u, pc) ==
    /\ op \in {"J", "JAL"}
    /\ reg' = IF op = "JAL" THEN [reg EXCEPT ![RA] = ToInt(pc + 8)] ELSE reg
    /\ Says(Out(OK, <<>>, <<Landing(u, pc + 4)>>, <<>>))

Syscall(op) ==
    op = "SYSCALL" /\ Fails(CASE reg[V0] = 10       -> 10
                              [] reg[V0] \in {1, 4} -> OK
                              [] OTHER              -> 1)

(* JALR is not what execute_asm calls it.                                  *)
Unknown == {Problem, "JALR"}
Others(op) == \/ op = "BREAK" /\ Fails(3)
              \/ op \in Unknown /\ Fails(2)

(* execute_asm on the word u in the context m.                             *)
execute_asm(u, m) ==
    LET op == getInstr(u)
    IN  \/ AddOrSub(op, u) \/ ThreeRegisters(op, u) \/ WithImmediate(op, u)
        \/ Shift(op, u) \/ MultDiv(op, u) \/ LoadStore(op, u, m)
        \/ JumpTo(op, u, m.pc) \/ Syscall(op) \/ Others(op)

Execute ==
    \E u \in Program, m \in Contexts : ran' = [u |-> u, m |-> m] /\ execute_asm(u, m)

-----------------------------------------------------------------------------
(* The commands; the value of set reg is read as hexadecimal and the one   *)
(* of assert reg as decimal.                                               *)
Command(o) == ran' = <<>> /\ Says(o)

SetReg ==
    \E n \in Names, v \in Numerals :
        /\ convert(n) # -1
        /\ reg' = [reg EXCEPT ![convert(n)] = ToInt(v.hex)]
        /\ Command(Out(OK, <<>>, <<>>, <<>>))

AssertReg ==
    \E n \in Names, v \in Numerals :
        /\ convert(n) # -1 /\ UNCHANGED reg
        /\ Command(Out(IF reg[convert(n)] = v.dec THEN OK ELSE 1, <<>>, <<>>, <<>>))

(* disp reg shows registers up to the first name that is none.             *)
DispReg ==
    \E n \in Names :
        /\ UNCHANGED reg
        /\ Command(IF convert(n) = -1 THEN Out(-2, <<>>, <<>>, <<>>)
                   ELSE Out(OK, <<>>, <<>>, <<getName(n), reg[convert(n)]>>))

(* A name that is no register: CMD_WRONG_ARG.                              *)
RefuseReg ==
    /\ \E n \in Names : convert(n) = -1
    /\ UNCHANGED reg /\ Command(Out(-4, <<>>, <<>>, <<>>))

CNext == ~killed /\ (Execute \/ SetReg \/ AssertReg \/ DispReg \/ RefuseReg)

CSpec == CInit /\ [][CNext]_cvars

-----------------------------------------------------------------------------
(* Properties                                                              *)

(* Types: every register holds 32 bits, whatever was executed.             *)
CTypeOK ==
    /\ reg \in [Gpr \cup {HI, LO} -> SWord]
    /\ killed \in BOOLEAN
    /\ DOMAIN out = {"ret", "bus", "to", "shown"}

Executed == ran' # <<>>
Encoded(u, opcode, funct) == u.opcode = opcode /\ u.funct = funct

(* The exception a result of execute_asm stands for; SIGFPE is none that   *)
(* the architecture has.                                                   *)
Exception ==
    IF ran = <<>> THEN "none"
    ELSE IF killed THEN "SIGFPE"
    ELSE LET op == getInstr(ran.u)
         IN  CASE op = "SYSCALL"                  -> "syscall"
               [] out.ret = OK \/ op = "DIV"      -> "none"
               [] op \in {"ADD", "ADDI", "SUB"}   -> "overflow"
               [] op \in {"LW", "SW"}             -> "address"
               [] op = "BREAK"                    -> "break"
               [] OTHER                           -> "reserved"

Architecture == INSTANCE Mips WITH bus <- out.bus, to <- out.to, trap <- Exception

(* The words that are decoded to another instruction than they are, or to  *)
(* none: JALR, SLTU, the one taken for SLTU, and all of SPECIAL3 but SEB.  *)
Misnamed(u) ==
    \/ \E funct \in {9, 43, 44} : Encoded(u, 0, funct)
    \/ u.opcode = 31 /\ u.sa = 16 /\ u.funct # 32

DifferAbove(x, y, k) == \E j \in k .. (WordBits - 1) : Bit(x, j) # Bit(y, j)

(* The values that an instruction which writes a register gets wrong.      *)
WrongValue(op, u, m) ==
    \/ Encoded(u, 0, 42) /\ Or(S(u), T(u)) # Truth(S(u) < T(u))
    \/ op = "ANDI" /\ u.imm < 0 /\ DifferAbove(S(u), 0, HalfBits)
    \/ op = "ORI" /\ u.imm < 0 /\ DifferAbove(S(u), -1, HalfBits)
    \/ op = "SLTIU" /\ (S(u) < 0) # (u.imm < 0)
    \/ op = "LB" /\ Bit(m.byte, ByteBits - 1) = 1
    \/ op = "SEB" /\ Bit(T(u), ByteBits - 1) = 1
    \/ op = "SLL" /\ \E k \in (u.sa + 1) .. (WordBits - 1 - u.sa) : Bit(T(u), k) = 1
    \/ op = "SRA" /\ (DifferAbove(D(u), T(u), u.sa) \/ (u.sa > 0 /\ T(u) < 0))
    \/ op = "SRL" /\ (DifferAbove(D(u), T(u), u.sa) \/ (u.sa > 0 /\ D(u) < 0))

(* The register an instruction writes, if any.                             *)
Target(op, u) ==
    IF op \in ListsRdRsRt \cup ListsRdRtSa \cup ListsRd \cup {"SEB"} THEN u.rd
    ELSE IF op \in (ListsRtRsImm \ {"SB", "SW"}) \cup {"LUI"} THEN u.rt
    ELSE -1

(* All the steps that are not the architecture's.                          *)
Departs(u, m) ==
    LET op == getInstr(u)
    IN  \/ Misnamed(u)
        \/ Target(op, u) # 0 /\ WrongValue(op, u, m)
        \/ Target(op, u) = 0 /\ reg'[0] # reg[0]
        \/ op = "MULT" /\ S(u) * T(u) \notin SWord
        \/ op = "DIV" /\ S(u) = -Half /\ T(u) = -1
        \/ op = "SB" /\ \E k \in 0 .. (ByteBits - 1) : Bit(S(u), k) # Bit(T(u), k)
        \/ op \in ListsTarget /\ Unsigned(m.pc + 4) >= 2^(WordBits - RegionBits)

(* execute_asm does what the architecture says in every case but those of  *)
(* Departs, and in each of those it does something else.                   *)
MipsButForDepartures ==
    [][Executed => (Architecture!Step(ran'.u, ran'.m) <=> ~Departs(ran'.u, ran'.m))]_cvars

(* The exact result of ADD, SUB and ADDI.                                  *)
Exact(op, u) ==
    CASE op = "ADD" -> S(u) + T(u) [] op = "SUB" -> S(u) - T(u) [] OTHER -> S(u) + u.imm

(* ADD, ADDI and SUB: the test of two bits of a 64-bit sum refuses exactly *)
(* the results that are no int32_t, then leaves the registers alone, and   *)
(* what is not refused is the exact result.                                *)
OverflowRefused ==
    [][Executed /\ getInstr(ran'.u) \in {"ADD", "ADDI", "SUB"} =>
        LET u == ran'.u
            v == Exact(getInstr(u), u)
            k == IF getInstr(u) = "ADDI" THEN u.rt ELSE u.rd
        IN  IF v \in SWord THEN out'.ret = OK /\ reg' = [reg EXCEPT ![k] = v]
            ELSE out'.ret = 1 /\ reg' = reg]_cvars

(* The disassembly hides nothing: an instruction word listed the same way  *)
(* as the one just executed could have made the same step.                 *)
SameListing == [u \in Program |-> {v \in Program : dispAssem(v) = dispAssem(u)}]
ListingTellsAll ==
    [][Executed => \A v \in SameListing[ran'.u] : execute_asm(v, ran'.m)]_cvars

(* The tables of names agree: the name disp reg shows a register under is  *)
(* the one the disassembler gives it, and the commands take it for that    *)
(* register.                                                               *)
NamesAgree ==
    [][~Executed /\ out'.shown # <<>> =>
        LET k == convert(out'.shown[1])
        IN  k \in DOMAIN reg /\ reg[k] = out'.shown[2] /\ getR(k) = out'.shown[1]]_cvars
=============================================================================
