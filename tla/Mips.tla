-------------------------------- MODULE Mips --------------------------------
(***************************************************************************)
(* What the MIPS32 architecture says of one instruction: the registers,    *)
(* the access to memory, the target and the exception it asks for.  The    *)
(* abstract specification of a step of Cpu.                                *)
(***************************************************************************)
EXTENDS Words

HI == 33
LO == 34
RA == 31

VARIABLES
    reg,    \* the registers, with HI and LO
    bus,    \* the access to memory
    to,     \* where a jump goes
    trap    \* an exception, or "none"

Special == [ADD |-> 32, ADDU |-> 33, SUB |-> 34, SUBU |-> 35, AND |-> 36, OR |-> 37,
            XOR |-> 38, SLT |-> 42, SLTU |-> 43, SLL |-> 0, SRL |-> 2, SRA |-> 3,
            MULT |-> 24, DIV |-> 26, MFHI |-> 16, MFLO |-> 18, SYSCALL |-> 12,
            BREAK |-> 13, JALR |-> 9]
Opcode == [ADDI |-> 8, ADDIU |-> 9, SLTI |-> 10, SLTIU |-> 11, ANDI |-> 12, ORI |-> 13,
           LUI |-> 15, LB |-> 32, LW |-> 35, LBU |-> 36, SB |-> 40, SW |-> 43,
           J |-> 2, JAL |-> 3]

(* SEB is function 32 of SPECIAL3, with 16 in the field of the amount.     *)
IsA(op, u) ==
    \/ op \in DOMAIN Special /\ u.opcode = 0 /\ u.funct = Special[op]
    \/ op \in DOMAIN Opcode /\ u.opcode = Opcode[op]
    \/ op = "SEB" /\ u.opcode = 31 /\ u.funct = 32 /\ u.sa = 16
Known == DOMAIN Special \cup DOMAIN Opcode \cup {"SEB"}

S(u) == reg[u.rs]
T(u) == reg[u.rt]
ZeroExtend(h) == h % HalfSize
SignExtendByte(b) == IF 2 * b >= ByteSize THEN b - ByteSize ELSE b
LowByte(x) == x % ByteSize
Truth(b) == IF b THEN 1 ELSE 0

(* An exception leaves everything alone.                                   *)
Trap(t) == trap' = t /\ bus' = <<>> /\ to' = <<>> /\ UNCHANGED reg
Quiet == trap' = "none" /\ bus' = <<>> /\ to' = <<>>

(* $zero is not written.                                                   *)
Assign(k, v) == reg' = IF k = 0 THEN reg ELSE [reg EXCEPT ![k] = ToInt(v)]
Write(k, v) == Assign(k, v) /\ Quiet

(* ADD, ADDI, SUB: an exception when the exact result does not fit.        *)
WriteOrOverflow(k, v) == IF v \in SWord THEN Write(k, v) ELSE Trap("overflow")

Computes(u) ==
    \/ IsA("ADD", u) /\ WriteOrOverflow(u.rd, S(u) + T(u))
    \/ IsA("SUB", u) /\ WriteOrOverflow(u.rd, S(u) - T(u))
    \/ IsA("ADDI", u) /\ WriteOrOverflow(u.rt, S(u) + u.imm)
    \/ IsA("ADDU", u) /\ Write(u.rd, S(u) + T(u))
    \/ IsA("SUBU", u) /\ Write(u.rd, S(u) - T(u))
    \/ IsA("AND", u) /\ Write(u.rd, And(S(u), T(u)))
    \/ IsA("OR", u) /\ Write(u.rd, Or(S(u), T(u)))
    \/ IsA("XOR", u) /\ Write(u.rd, Xor(S(u), T(u)))
    \/ IsA("SLT", u) /\ Write(u.rd, Truth(S(u) < T(u)))
    \/ IsA("SLTU", u) /\ Write(u.rd, Truth(Unsigned(S(u)) < Unsigned(T(u))))
    \/ IsA("ADDIU", u) /\ Write(u.rt, S(u) + u.imm)
    \/ IsA("ANDI", u) /\ Write(u.rt, And(S(u), ZeroExtend(u.imm)))
    \/ IsA("ORI", u) /\ Write(u.rt, Or(S(u), ZeroExtend(u.imm)))
    \/ IsA("SLTI", u) /\ Write(u.rt, Truth(S(u) < u.imm))
    \/ IsA("SLTIU", u) /\ Write(u.rt, Truth(Unsigned(S(u)) < Unsigned(u.imm)))
    \/ IsA("LUI", u) /\ Write(u.rt, u.imm * HalfSize)
    \/ IsA("SLL", u) /\ Write(u.rd, T(u) * 2^u.sa)
    \/ IsA("SRL", u) /\ Write(u.rd, Unsigned(T(u)) \div 2^u.sa)
    \/ IsA("SRA", u) /\ Write(u.rd, T(u) \div 2^u.sa)
    \/ IsA("SEB", u) /\ Write(u.rd, SignExtendByte(LowByte(T(u))))
    \/ IsA("MFHI", u) /\ Write(u.rd, reg[HI])
    \/ IsA("MFLO", u) /\ Write(u.rd, reg[LO])

(* A 64-bit product; the quotient and remainder of a division by zero are  *)
(* unpredictable.                                                          *)
Multiplies(u) ==
    /\ Quiet
    /\ \/ /\ IsA("MULT", u)
          /\ reg' = [reg EXCEPT ![HI] = ToInt((S(u) * T(u)) \div WordSize),
                                ![LO] = ToInt(S(u) * T(u))]
       \/ /\ IsA("DIV", u) /\ T(u) # 0
          /\ reg' = [reg EXCEPT ![HI] = ToInt(Remainder(S(u), T(u))),
                                ![LO] = ToInt(Quotient(S(u), T(u)))]
       \/ /\ IsA("DIV", u) /\ T(u) = 0
          /\ \A k \in DOMAIN reg \ {HI, LO} : reg'[k] = reg[k]

Accesses(u, m) ==
    LET a == Unsigned(S(u) + u.imm)
        Access(b) == trap' = "none" /\ bus' = b /\ to' = <<>>
    IN  \/ IsA("LB", u) /\ Assign(u.rt, SignExtendByte(m.byte)) /\ Access(<<"read", a>>)
        \/ IsA("LBU", u) /\ Assign(u.rt, m.byte) /\ Access(<<"read", a>>)
        \/ IsA("LW", u) /\ a % 4 = 0 /\ Assign(u.rt, m.word) /\ Access(<<"read", a>>)
        \/ IsA("SB", u) /\ UNCHANGED reg /\ Access(<<"byte", a, LowByte(T(u))>>)
        \/ IsA("SW", u) /\ a % 4 = 0 /\ UNCHANGED reg /\ Access(<<"word", a, T(u)>>)
        \/ (IsA("LW", u) \/ IsA("SW", u)) /\ a % 4 # 0 /\ Trap("address")

(* The target replaces all but the region bits of the delay slot's pc.     *)
Region(pc) == Unsigned(pc) - (Unsigned(pc) % 2^(WordBits - RegionBits))
Jumps(u, pc) ==
    /\ \/ IsA("J", u) /\ UNCHANGED reg
       \/ IsA("JAL", u) /\ reg' = [reg EXCEPT ![RA] = ToInt(pc + 8)]
    /\ trap' = "none" /\ bus' = <<>> /\ to' = <<Region(pc + 4) + 4 * u.target>>

JumpsByRegister(u, pc) ==
    /\ IsA("JALR", u)
    /\ Assign(u.rd, pc + 8)
    /\ trap' = "none" /\ bus' = <<>> /\ to' = <<Unsigned(S(u))>>

Raises(u) ==
    \/ IsA("BREAK", u) /\ Trap("break")
    \/ IsA("SYSCALL", u) /\ Trap("syscall")
    \/ (\A op \in Known : ~IsA(op, u)) /\ Trap("reserved")

(* One instruction u in the context m: the pc and the answer of memory.    *)
Step(u, m) ==
    \/ Computes(u) \/ Multiplies(u) \/ Accesses(u, m)
    \/ Jumps(u, m.pc) \/ JumpsByRegister(u, m.pc) \/ Raises(u)
=============================================================================
