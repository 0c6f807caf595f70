------------------------------ MODULE MCSession ------------------------------
(***************************************************************************)
(* Instances of Session for TLC: one program with a call and an exit, one  *)
(* breakpoint address, few values to set.                                  *)
(***************************************************************************)
EXTENDS Session

MCRegs == {"zero", "v0", "ra"}
I(op, rs, rt, imm) == [op |-> op, rs |-> rs, rt |-> rt, imm |-> imm]
Words == << I("JAL", "v0", "v0", 16), I("ADDIU", "zero", "v0", 10),
            I("SYSCALL", "v0", "v0", 0), I("JR", "ra", "ra", 0), Nop >>
CallProgram ==
    [start |-> 4, size |-> 20, visible |-> TRUE,
     at |-> [a \in 4 .. 20 |-> IF a % 4 = 0 THEN Words[a \div 4] ELSE Nop]]
MCPrograms == {CallProgram}
MCOverread == {Nop}
MCTokens == {[hexa |-> TRUE, val |-> 16], [hexa |-> FALSE, val |-> 4]}
MCSetValues == {<<"pc", 12>>, <<"v0", 0>>}
=============================================================================
