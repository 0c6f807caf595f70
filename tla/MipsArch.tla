------------------------------ MODULE MipsArch ------------------------------
(***************************************************************************)
(* What executing a program promises: the MIPS architecture with delayed   *)
(* jumps, in the usual (pc, npc) form.  A jump changes the instruction     *)
(* after the next one.  A debugger may start and stop execution and move   *)
(* the pc, but never between a jump and its delay slot, and while the      *)
(* program runs registers and pc change by the instructions alone.         *)
(***************************************************************************)
EXTENDS Instructions

VARIABLES mem, pc, npc, reg, running

avars == <<mem, pc, npc, reg, running>>

Sequential == npc = Wrap(pc + 4)

AInit == ~ running /\ Sequential

(* Where a jump at address a goes, by the architecture.                    *)
Target(i, a) ==
    CASE i.op = "JR"          -> reg[i.rs]
      [] i.op \in {"J", "JAL"} -> i.imm
      [] Taken(i, reg)        -> a + 4 + i.imm
      [] OTHER                -> a + 8

Execute(i) ==
    /\ running
    /\ ~ Exits(i, reg)
    /\ pc' = npc
    /\ npc' = IF i.op \in JumpOps THEN Wrap(Target(i, pc)) ELSE Wrap(npc + 4)
    /\ reg' = IF i.op \in JumpOps THEN Link(i, reg, pc) ELSE Effect(i, reg)
    /\ UNCHANGED <<mem, running>>

(* The debugger's moves.  Start and Stop may set pc, Edit anything.        *)
Start == ~ running /\ running' /\ npc' = Wrap(pc' + 4) /\ UNCHANGED <<mem, reg>>
Stop == running /\ Sequential /\ ~ running' /\ npc' = Wrap(pc' + 4) /\ UNCHANGED <<mem, reg>>
Edit == ~ running /\ ~ running' /\ npc' = Wrap(pc' + 4)

ANext ==
    \/ running /\ \E i \in Fetch(mem, pc) : Execute(i)
    \/ Start \/ Stop \/ Edit

ASpec == AInit /\ [][ANext]_avars
=============================================================================
