------------------------------ MODULE Registers ------------------------------
(***************************************************************************)
(* The names of the 35 registers: what set reg, assert reg and disp reg    *)
(* accept, and what disp reg and the disassembler print.  A name is a      *)
(* number, $4, or a mnemonic, $a0; the dollar is left out.                 *)
(***************************************************************************)
EXTENDS Integers, Sequences

PC == 32
HI == 33
LO == 34
RA == 31
V0 == 2
Numbers == 0 .. 34

Mnemonics == <<"zero", "at", "v0", "v1", "a0", "a1", "a2", "a3",
               "t0", "t1", "t2", "t3", "t4", "t5", "t6", "t7",
               "s0", "s1", "s2", "s3", "s4", "s5", "s6", "s7",
               "t8", "t9", "k0", "k1", "gp", "sp", "fp", "ra", "PC", "HI", "LO">>
LowerCase == [pc |-> PC, hi |-> HI, lo |-> LO]

Number(k) == [number |-> k]
Mnemonic(m) == [mnemonic |-> m]
Named(m) == {k \in Numbers : Mnemonics[k + 1] = m}

(* Mutant: HI is taken for LO.                                             *)
convert_SwapsHiLo(name) ==
    IF "number" \in DOMAIN name THEN (IF name.number \in Numbers THEN name.number ELSE -1)
    ELSE IF name.mnemonic \in DOMAIN LowerCase THEN LowerCase[name.mnemonic]
    ELSE IF name.mnemonic = "HI" THEN LO
    ELSE IF Named(name.mnemonic) = {} THEN -1
    ELSE CHOOSE k \in Numbers : k \in Named(name.mnemonic)

(* The number a name stands for, -1 if none; get_type takes a token for a  *)
(* register when there is one.                                             *)
convert(name) ==
    IF "number" \in DOMAIN name THEN (IF name.number \in Numbers THEN name.number ELSE -1)
    ELSE IF name.mnemonic \in DOMAIN LowerCase THEN LowerCase[name.mnemonic]
    ELSE IF Named(name.mnemonic) = {} THEN -1
    ELSE CHOOSE k \in Numbers : k \in Named(name.mnemonic)

(* Printed by disp reg all, by disp reg and by the disassembler.           *)
getName2(k) == Mnemonic(Mnemonics[k + 1])
getName(name) == getName2(convert(name))
getR(k) == Mnemonic(Mnemonics[k + 1])
=============================================================================
