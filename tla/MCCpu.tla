-------------------------------- MODULE MCCpu --------------------------------
(***************************************************************************)
(* An instance of Cpu for TLC: words of four bits, immediates of two,      *)
(* bytes of one, and registers $zero, $v0 and $ra.                         *)
(***************************************************************************)
EXTENDS Cpu, FiniteSets

MCGpr == {0, V0, RA}
Used == {0, V0}

Blank == [opcode |-> 0, rs |-> 0, rt |-> 0, rd |-> 0, sa |-> 0, funct |-> 0,
          imm |-> 0, target |-> 0]

(* Every function of SPECIAL that the decoder or the architecture knows,   *)
(* but JR, and one neither does.                                           *)
ThreeRegister ==
    {[Blank EXCEPT !.funct = f, !.rs = s, !.rt = t, !.rd = d] :
        f \in {32, 33, 34, 35, 36, 37, 38, 42, 43, 44}, s, t, d \in Used}
OneShot ==
    {[Blank EXCEPT !.funct = f, !.rt = V0, !.rd = d] : f \in {16, 18}, d \in Used}
        \cup {[Blank EXCEPT !.funct = f, !.rt = V0] : f \in {9, 12, 13, 24, 26, 63}}
        \cup {[Blank EXCEPT !.funct = f, !.rs = V0] : f \in {24, 26}}
        \cup {[Blank EXCEPT !.funct = f, !.rs = V0, !.rt = V0] : f \in {24, 26}}
Shifts ==
    {[Blank EXCEPT !.funct = f, !.rt = t, !.rd = d, !.sa = n] :
        f \in {0, 2, 3}, t, d \in Used, n \in BitNumbers}
Special3 ==
    {[Blank EXCEPT !.opcode = 31, !.rt = t, !.rd = d, !.sa = n, !.funct = f] :
        t, d \in Used, n \in {0, 16}, f \in {0, 32}}

(* Opcodes 8 to 15, the loads and stores, and one that is not decoded.     *)
Immediate ==
    {[Blank EXCEPT !.opcode = o, !.rs = s, !.rt = t, !.imm = i] :
        o \in {8, 9, 10, 11, 12, 13, 15, 32, 35, 36, 40, 43}, s, t \in Used, i \in SHalf}
JumpWords ==
    {[Blank EXCEPT !.opcode = o, !.target = t] : o \in {2, 3}, t \in {0, 1}}
        \cup {[Blank EXCEPT !.opcode = 63]}

MCProgram == ThreeRegister \cup OneShot \cup Shifts \cup Special3 \cup Immediate \cup JumpWords

(* A delay slot in either region, and at the end of the first.             *)
MCContexts == {[pc |-> -8, word |-> -8, byte |-> 0], [pc |-> 4, word |-> 3, byte |-> 1],
               [pc |-> -4, word |-> 3, byte |-> 1]}
MCNames == {Number(0), Mnemonic("v0"), Mnemonic("hi"), Mnemonic("s8")}
MCNumerals == [hex : SWord, dec : {1}]

(* Bound: an instruction reads two registers at most; states with three    *)
(* that are not zero are checked and not gone on from.                     *)
Bounded == Cardinality({k \in DOMAIN reg : reg[k] # 0}) <= 2

(* No guard reads what the last step gave.                                 *)
CView == <<reg, killed>>
=============================================================================
