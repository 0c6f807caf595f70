------------------------------- MODULE Decoder -------------------------------
(***************************************************************************)
(* The decoder and the disassembler.  An instruction word is the record of *)
(* its fields; imm covers rd, sa and funct in the program, and target rs   *)
(* to funct, but an instruction reads the fields of its own format only.   *)
(***************************************************************************)
EXTENDS Registers

(* The tables: from a name to the codes that have it.                      *)
libs == [ADD |-> {32}, ADDU |-> {33}, AND |-> {36}, BREAK |-> {13}, DIV |-> {26},
         JALR |-> {9}, JR |-> {8}, MFHI |-> {16}, MFLO |-> {18}, MULT |-> {24},
         SLL |-> {0}, OR |-> {37, 42}, SLTU |-> {44}, SRA |-> {3}, SRL |-> {2},
         SUB |-> {34}, SUBU |-> {35}, SYSCALL |-> {12}, XOR |-> {38}]
libr == [BGEZ |-> {1}, BLTZ |-> {0}]
libs3 == [SEB |-> {16}]
libn == [ADDI |-> {8}, ADDIU |-> {9}, ANDI |-> {12}, BEQ |-> {4}, BGTZ |-> {7},
         BLEZ |-> {6}, BNE |-> {5}, J |-> {2}, JAL |-> {3}, LB |-> {32}, LBU |-> {36},
         LUI |-> {15}, LW |-> {35}, ORI |-> {13}, SB |-> {40}, SLTI |-> {10},
         SLTIU |-> {11}, SW |-> {43}]

Problem == "PROBLEME"
Lookup(table, code) ==
    IF \E n \in DOMAIN table : code \in table[n]
    THEN CHOOSE n \in DOMAIN table : code \in table[n]
    ELSE Problem

type(opcode) ==
    CASE opcode = 0  -> "SPECIAL"
      [] opcode = 1  -> "REGIMM"
      [] opcode = 31 -> "SPECIAL3"
      [] OTHER       -> "NORMAL"

getInstr(u) ==
    CASE type(u.opcode) = "SPECIAL"  -> Lookup(libs, u.funct)
      [] type(u.opcode) = "REGIMM"   -> Lookup(libr, u.rt)
      [] type(u.opcode) = "SPECIAL3" -> Lookup(libs3, u.sa)
      [] OTHER                       -> Lookup(libn, u.opcode)

(* The word that is all zeros but for the fields SLL does not name.        *)
IsNop(u) == getInstr(u) = "SLL" /\ u.rd = 0 /\ u.rt = 0 /\ u.sa = 0

(* The instructions by the operands dispAssem prints.                      *)
ListsRdRsRt == {"ADD", "ADDU", "AND", "OR", "SLT", "SLTU", "SUB", "SUBU", "XOR"}
ListsRdRtSa == {"SLL", "SRA", "SRL"}
ListsRtRsImm == {"ADDI", "ADDIU", "ANDI", "ORI", "SLTI", "SLTIU",
                 "LB", "LBU", "LW", "SB", "SW"}
ListsRsRtImm == {"BEQ", "BNE"}
ListsRsImm == {"BGEZ", "BGTZ", "BLEZ", "BLTZ"}
ListsRsRt == {"DIV", "MULT"}
ListsRd == {"MFHI", "MFLO"}
ListsTarget == {"J", "JAL"}
ListsNone == {"BREAK", "SYSCALL"}

(* Mutant: a shift is listed without its amount.                           *)
dispAssem_NoAmount(u) ==
    LET op == getInstr(u)
    IN  CASE IsNop(u) -> <<"NOP">>
          [] op \in ListsRdRsRt -> <<op, getR(u.rd), getR(u.rs), getR(u.rt)>>
          [] op \in ListsRdRtSa -> <<op, getR(u.rd), getR(u.rt)>>
          [] op \in ListsRtRsImm -> <<op, getR(u.rt), getR(u.rs), u.imm>>
          [] OTHER -> <<op, u>>

(* One line of the disassembly: the name and the operands, none of which   *)
(* is left out when the instruction reads it.                              *)
dispAssem(u) ==
    LET op == getInstr(u)
    IN  CASE IsNop(u)           -> <<"NOP">>
          [] ~IsNop(u) /\ op \in ListsRdRtSa -> <<op, getR(u.rd), getR(u.rt), u.sa>>
          [] op \in ListsRdRsRt -> <<op, getR(u.rd), getR(u.rs), getR(u.rt)>>
          [] op \in ListsRtRsImm -> <<op, getR(u.rt), getR(u.rs), u.imm>>
          [] op \in ListsRsRtImm -> <<op, getR(u.rs), getR(u.rt), u.imm>>
          [] op \in ListsRsImm  -> <<op, getR(u.rs), u.imm>>
          [] op \in ListsRsRt   -> <<op, getR(u.rs), getR(u.rt)>>
          [] op \in ListsRd     -> <<op, getR(u.rd)>>
          [] op \in ListsTarget -> <<op, u.target>>
          [] op = "JR"          -> <<op, getR(u.rs)>>
          [] op = "SEB"         -> <<op, getR(u.rd), getR(u.rt)>>
          [] op = "LUI"         -> <<op, getR(u.rt), u.imm>>
          [] op \in ListsNone   -> <<op>>
          [] OTHER              -> <<Problem>>
=============================================================================
