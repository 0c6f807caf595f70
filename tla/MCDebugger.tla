----------------------------- MODULE MCDebugger -----------------------------
(***************************************************************************)
(* Instances of Debugger for TLC: 64-byte address space, .text at 8.       *)
(***************************************************************************)
EXTENDS Debugger

MCRegs == {"zero", "v0", "ra"}
I(op, rs, rt, imm) == [op |-> op, rs |-> rs, rt |-> rt, imm |-> imm]
NOP == I("NOP", "v0", "v0", 0)

(* A program from its words; a fetch off a word boundary sees a NOP.       *)
MkProgram(start, words) ==
    [start |-> start, size |-> 4 * Len(words), visible |-> TRUE,
     at |-> [a \in start .. (start + 4 * Len(words) - 4) |->
                IF (a - start) % 4 = 0 THEN words[(a - start) \div 4 + 1] ELSE NOP]]

(* A function called with jal, whose delay slots work, then exit.          *)
CallProgram == MkProgram(8, <<
    I("JAL", "v0", "v0", 20), NOP, I("SYSCALL", "v0", "v0", 0),
    I("JR", "ra", "ra", 0), I("ADDIU", "zero", "v0", 10)>>)

(* A loop that ends when $v0 is 0, then runs off the end of .text.         *)
LoopProgram == MkProgram(8, <<
    I("BEQ", "v0", "zero", 12), NOP, I("J", "v0", "v0", 8),
    I("ADDIU", "zero", "v0", 0)>>)

(* Jumps in delay slots, an exit in a delay slot, a jump as last word.     *)
OddProgram == MkProgram(4, <<
    I("BNE", "v0", "zero", 8), I("SYSCALL", "v0", "v0", 0),
    I("J", "v0", "v0", 12), I("JALR", "ra", "v0", 0), I("BEQ", "v0", "v0", -12)>>)

(* The stack could not be allocated.                                       *)
HiddenProgram == [LoopProgram EXCEPT !.visible = FALSE]

MCPrograms == {CallProgram, LoopProgram, OddProgram, HiddenProgram}
SimplePrograms == {CallProgram, LoopProgram}
MCOverread == {NOP, I("J", "v0", "v0", 4)}
MCTokens == {[hexa |-> TRUE, val |-> 8], [hexa |-> TRUE, val |-> 16],
             [hexa |-> FALSE, val |-> 14], [hexa |-> TRUE, val |-> 62]}
MCSetValues == {<<"v0", 10>>, <<"pc", 8>>, <<"pc", 22>>}

(* The programs of MCArch are ones that ArchImplemented speaks of.         *)
ASSUME SimpleAssumption == \A p \in SimplePrograms : PlainDelaySlots(p)
=============================================================================
