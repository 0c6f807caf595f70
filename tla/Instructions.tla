---------------------------- MODULE Instructions ----------------------------
(***************************************************************************)
(* One MIPS instruction as asm.c executes it, abstracted to what control   *)
(* flow depends on.  An instruction is a record                            *)
(*     [op, rs, rt : registers, imm : byte offset, target or addend].      *)
(* ADDIU stands for the instructions that write a register, NOP for those  *)
(* that write none of the registers in Regs.                               *)
(***************************************************************************)
EXTENDS Breakpoints

CONSTANTS
    Regs,       \* the registers the programs use, "v0" and "ra" among them
    WordSize,   \* number of values of a machine word: 2^32 in the program
    Overread    \* what a fetch that reads past the segment's content can see

ASSUME WordSizeAssumption == WordSize \in Nat /\ WordSize >= 8 /\ WordSize % 4 = 0
ASSUME RegsAssumption == {"v0", "ra"} \subseteq Regs

Word == 0 .. (WordSize - 1)
Wrap(n) == n % WordSize

(* Registers are int32_t (registre.h), so comparisons are signed.          *)
Signed(w) == IF 2 * w >= WordSize THEN w - WordSize ELSE w

(* run rounds the int a with a -= a % 4, which rounds towards zero.        *)
AlignSigned(w) == IF Signed(w) >= 0 THEN Align(w) ELSE Wrap(-Align(-Signed(w)))

Branches == {"BEQ", "BNE", "BGEZ", "BGTZ", "BLEZ", "BLTZ"}

(* The instructions whose code calls NextInstruction before it moves pc.   *)
(* The decoder names the remaining jump "JALR" (lib.c:126) and execute_asm *)
(* tests for "JARL", so JALR falls through to "Instruction inconnue".      *)
JumpOps == Branches \cup {"J", "JAL", "JR"}
Ops == JumpOps \cup {"JALR", "ADDIU", "SYSCALL", "BREAK", "NOP"}
Instr == [op : Ops, rs : Regs, rt : Regs, imm : -WordSize .. WordSize]
Nop == [op |-> "NOP", rs |-> "v0", rt |-> "v0", imm |-> 0]

ASSUME OverreadAssumption == Overread \subseteq Instr /\ Overread # {}

(* The instructions step() runs over: BNE and BGEZ are missing there.      *)
StepOverOps == {"BEQ", "BLEZ", "BGTZ", "BLTZ", "J", "JAL", "JALR", "JR"}

(* Mutant: BEQ tests for different registers.                              *)
Taken_BeqInverted(i, reg) ==
    LET s == Signed(reg[i.rs])
    IN  \/ i.op \in {"BEQ", "BNE"} /\ reg[i.rs] # reg[i.rt]
        \/ i.op = "BGTZ" /\ s > 0
        \/ i.op = "BLEZ" /\ s <= 0

(* condition of the six branches, read before the delay slot.              *)
Taken(i, reg) ==
    LET s == Signed(reg[i.rs])
    IN  \/ i.op = "BEQ" /\ reg[i.rs] = reg[i.rt]
        \/ i.op = "BNE" /\ reg[i.rs] # reg[i.rt]
        \/ i.op = "BGEZ" /\ s >= 0
        \/ i.op = "BGTZ" /\ s > 0
        \/ i.op = "BLEZ" /\ s <= 0
        \/ i.op = "BLTZ" /\ s < 0

(* Mutant: the branch offset without the - 4 that stepinto adds back.      *)
Pending_NoMinusFour(i, reg) ==
    IF i.op \in Branches THEN [rel |-> TRUE, to |-> IF Taken(i, reg) THEN i.imm ELSE 0]
    ELSE [rel |-> FALSE, to |-> (IF i.op = "JR" THEN reg[i.rs] ELSE i.imm) - 4]

(* What a jump keeps while its delay slot executes: where it will go, as   *)
(* an offset from the pc then current or as an address.  A branch that is  *)
(* not taken leaves pc alone.                                              *)
Pending(i, reg) ==
    CASE i.op \in Branches -> [rel |-> TRUE, to |-> IF Taken(i, reg) THEN i.imm - 4 ELSE 0]
      [] i.op = "JR"       -> [rel |-> FALSE, to |-> reg[i.rs] - 4]
      [] OTHER             -> [rel |-> FALSE, to |-> i.imm - 4]
Jump == [rel : BOOLEAN, to : Int]

(* Mutant: pc grows past 32 bits.                                          *)
Land_NoWrap(j, pc) == IF j.rel THEN pc + j.to ELSE j.to

(* pc once the delay slot is done: the second half of a jump.              *)
Land(j, pc) == Wrap(IF j.rel THEN pc + j.to ELSE j.to)

(* JAL links before its delay slot executes.                               *)
Link(i, reg, pc) ==
    IF i.op = "JAL" THEN [reg EXCEPT !["ra"] = Wrap(pc + 8)] ELSE reg

(* The register file after an instruction that is not a jump.              *)
Effect(i, reg) ==
    IF i.op = "ADDIU" THEN [reg EXCEPT ![i.rt] = Wrap(reg[i.rs] + i.imm)] ELSE reg

(* The only return value of execute_asm that anything reads is 10: a       *)
(* SYSCALL with $v0 = 10.                                                  *)
ExitCode == 10
Exits(i, reg) == i.op = "SYSCALL" /\ reg["v0"] = ExitCode

-----------------------------------------------------------------------------
(* seg[0] of a loaded file: .text, its words, and what a fetch at each     *)
(* byte offset decodes to.                                                 *)
EndOf(p) == p.start + p.size

(* IsInText.  numero_segment looks for an address below the start of the   *)
(* next segment.  That is the stack when .text is the only section, and    *)
(* load sizes the stack from fields it has not initialized (the class byte *)
(* of a fresh header, the upper halves of v and va): when calloc refuses   *)
(* the size, the stack starts at 0 and no address is in .text ("visible"), *)
(* unless the word read after the array is above it (see Memory!IsInText). *)
(* Otherwise it and the signed arithmetic of run agree with a comparison.  *)
TextOf(p) == IF p.visible THEN p.start .. (EndOf(p) - 1) ELSE {}

IsProgram(p) ==
    /\ p.visible \in BOOLEAN
    /\ p.start \in Word /\ p.size \in Nat \ {0}
    /\ p.start % 4 = 0 /\ p.size % 4 = 0
    /\ 2 * EndOf(p) < WordSize      \* user segment: below 2^31
    /\ p.at \in [p.start .. (EndOf(p) - 4) -> Instr]

(* loadmem(.., "WORD") for a fetch: inside .text, up to three bytes past   *)
(* its content (its bound is inclusive and it reads four bytes), or in no  *)
(* segment, where it returns 0, which decodes to a shift of $zero.         *)
Fetch(p, a) ==
    IF a \in p.start .. (EndOf(p) - 4) THEN {p.at[a]}
    ELSE IF a \in (EndOf(p) - 3) .. EndOf(p) THEN Overread
    ELSE {Nop}
=============================================================================
