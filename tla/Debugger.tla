------------------------------ MODULE Debugger ------------------------------
(***************************************************************************)
(* The debugging commands of the emulator and the execution loop under     *)
(* them: load, set reg, break, run, step and step into (commande.c), with  *)
(* execute_asm and NextInstruction (asm.c).  Handlers that loop or recurse *)
(* are cut at each iteration and at each instruction; a handler that does  *)
(* neither is one action.                                                  *)
(***************************************************************************)
EXTENDS Instructions

CONSTANTS
    Programs,   \* the object files that can be loaded
    NoElf,      \* memory == NULL: nothing loaded yet
    Tokens,     \* address arguments a user can type
    MaxTokens,  \* bound: the addresses of one break command
    SetValues,  \* <<register, value>> arguments of "set reg"
    RaInit      \* what main puts in $31: the address of the stack segment

VARIABLES
    mem,        \* the .text segment of the loaded program, or NoElf
    pc,         \* r->reg[32]
    reg,        \* r->reg for the registers in Regs
    bps,        \* the breakpoint list bpi of main
    ph,         \* where in the command loop or in a handler control is
    caller,     \* the command that is executing instructions
    toks,       \* the tokens of a break command not yet read
    pend,       \* jumps whose delay slot is executing, outermost first
    code,       \* the return value of the outermost execute_asm
    tok,        \* in step(): the address PC+8 it puts a breakpoint on
    res,        \* what the last command returned to main
    before      \* history: the breakpoint list when step() started

vars == <<mem, pc, reg, bps, ph, caller, toks, pend, code, tok, res, before>>

(* A token: is it written 0x... (get_type says HEXA), and what sscanf("%x")*)
(* reads in it.                                                            *)
Token == [hexa : BOOLEAN, val : Word]

ASSUME ProgramsAssumption == \A p \in Programs : IsProgram(p)
ASSUME NoElfAssumption == NoElf \notin Programs
ASSUME InputsAssumption ==
    /\ Tokens \subseteq Token
    /\ SetValues \subseteq (Regs \cup {"pc"}) \X Word
    /\ MaxTokens \in Nat /\ RaInit \in Word

Loaded == mem # NoElf
Text == TextOf(mem)
IsInText(a) == a \in Text

Phases == {"prompt", "adding", "deleting", "loop", "exec", "unwind", "endloop", "aborted"}
Callers == {"none", "run", "step", "into", "over"}
Results == {"ok", "noElf", "wrongArg", "sys10", "unknown", "requireArg"}

Idle == ph = "prompt"
Return(r) == ph' = "prompt" /\ caller' = "none" /\ res' = r
NoExec == UNCHANGED <<toks, pend, code, tok, before>>

Init ==
    /\ mem = NoElf /\ pc = 0 /\ bps = <<>>
    /\ reg = [r \in Regs |-> IF r = "ra" THEN RaInit ELSE 0]
    /\ ph = "prompt" /\ caller = "none" /\ res = "ok"
    /\ toks = <<>> /\ pend = <<>> /\ code = "none" /\ tok = 0 /\ before = <<>>

-----------------------------------------------------------------------------
(* load: the new memory replaces the old one; registers other than $29,    *)
(* pc and the breakpoints stay.                                            *)
Load(p) ==
    /\ Idle
    /\ mem' = p
    /\ Return("ok")
    /\ UNCHANGED <<pc, reg, bps>> /\ NoExec

(* set reg <register> <value>: refused before a load.                      *)
SetReg(r, v) ==
    /\ Idle
    /\ IF Loaded
       THEN /\ pc' = IF r = "pc" THEN v ELSE pc
            /\ reg' = IF r = "pc" THEN reg ELSE [reg EXCEPT ![r] = v]
            /\ Return("ok")
       ELSE UNCHANGED <<pc, reg>> /\ Return("wrongArg")
    /\ UNCHANGED <<mem, bps>> /\ NoExec

-----------------------------------------------------------------------------
(* break add <address>+ : one iteration per token.  execute_cmd drops what *)
(* breakcmd returns, so its errors come back as "ok".                      *)
BreakAdd(ts) ==
    /\ Idle /\ Loaded
    /\ ph' = "adding" /\ toks' = ts
    /\ UNCHANGED <<mem, pc, reg, bps, caller, pend, code, tok, res, before>>

AddToken ==
    /\ ph = "adding" /\ toks # <<>>
    /\ bps' = AjouterEnTete(bps, Head(toks).val, Text)
    /\ toks' = Tail(toks)
    /\ UNCHANGED <<mem, pc, reg, ph, caller, pend, code, tok, res, before>>

(* break del <address>+ : stops at the first token not written 0x...       *)
BreakDel(ts) ==
    /\ Idle /\ Loaded /\ ts # <<>>
    /\ ph' = "deleting" /\ toks' = ts
    /\ UNCHANGED <<mem, pc, reg, bps, caller, pend, code, tok, res, before>>

DelToken ==
    /\ ph = "deleting" /\ toks # <<>> /\ Head(toks).hexa
    /\ bps' = FreeBp(bps, Head(toks).val)
    /\ toks' = Tail(toks)
    /\ UNCHANGED <<mem, pc, reg, ph, caller, pend, code, tok, res, before>>

BreakDone ==
    /\ ph \in {"adding", "deleting"}
    /\ toks # <<>> => ph = "deleting" /\ ~ Head(toks).hexa
    /\ toks' = <<>>
    /\ Return("ok")
    /\ UNCHANGED <<mem, pc, reg, bps, pend, code, tok, before>>

(* break del all: free_list reads suiv from the node it has just freed.    *)
(* Once the allocator has reused that word the loop either stops or frees  *)
(* a pointer that is not a node, and the process aborts.                   *)
BreakDelAll ==
    /\ Idle /\ Loaded
    /\ \/ /\ bps' = <<>>
          /\ Return("ok")
       \/ /\ bps # <<>>
          /\ ph' = "aborted"
          /\ UNCHANGED <<bps, caller, res>>
    /\ UNCHANGED <<mem, pc, reg>> /\ NoExec

(* break before a load, or without an argument: nothing happens.           *)
BreakRefused ==
    /\ Idle
    /\ Return("ok")
    /\ UNCHANGED <<mem, pc, reg, bps>> /\ NoExec

-----------------------------------------------------------------------------
(* run [address], up to its loop.  Tokens that do not parse leave the      *)
(* address alone, like no token.                                           *)
RunFrom(a) == pc' = AlignSigned(a) /\ ph' = "loop"
RunStart == IF IsInText(pc) THEN pc ELSE mem.start

Run(a) ==
    /\ Idle /\ Loaded
    /\ RunFrom(a)
    /\ caller' = "run"
    /\ UNCHANGED <<mem, reg, bps, toks, pend, code, tok, res, before>>

(* step over a jump: a temporary breakpoint at PC+8, then run.  The token  *)
(* run reads is the word "step" itself, which does not parse.              *)
StepOverJump ==
    /\ Idle /\ Loaded /\ IsInText(pc)
    /\ \E i \in Fetch(mem, pc) : i.op \in StepOverOps
    /\ tok' = Wrap(pc + 8)
    /\ bps' = AjouterEnTete(bps, tok', Text)
    /\ before' = bps
    /\ RunFrom(pc)
    /\ caller' = "step"
    /\ UNCHANGED <<mem, reg, toks, pend, code, res>>

(* step on anything else is one stepinto.                                  *)
StepOverPlain ==
    /\ Idle /\ Loaded /\ IsInText(pc)
    /\ \E i \in Fetch(mem, pc) : i.op \notin StepOverOps
    /\ ph' = "exec" /\ caller' = "over"
    /\ UNCHANGED <<mem, pc, reg, bps, toks, pend, code, tok, res, before>>

StepInto ==
    /\ Idle /\ Loaded /\ IsInText(pc)
    /\ ph' = "exec" /\ caller' = "into"
    /\ UNCHANGED <<mem, pc, reg, bps, toks, pend, code, tok, res, before>>

(* The errors of the execution commands.  Those of run and step are lost   *)
(* on the way to main (emulMips.c:365, commande.c:826); those of step into *)
(* are not.                                                                *)
StepRefused(r) ==
    /\ Idle
    /\ ~ (Loaded /\ IsInText(pc))
    /\ pc' = IF Loaded THEN mem.start ELSE pc
    /\ Return(r)
    /\ UNCHANGED <<mem, reg, bps>> /\ NoExec

RunRefused ==
    /\ Idle /\ ~ Loaded
    /\ Return("ok")
    /\ UNCHANGED <<mem, pc, reg, bps>> /\ NoExec

StepIntoRefused == StepRefused(IF Loaded THEN "wrongArg" ELSE "noElf")

-----------------------------------------------------------------------------
(* The loop of run.                                                        *)
LoopLeavesText ==
    /\ ph = "loop" /\ ~ IsInText(pc)
    /\ ph' = "endloop"
    /\ UNCHANGED <<mem, pc, reg, bps, caller, toks, pend, code, tok, res, before>>

(* Mutant: the stop skips two instructions.                                *)
LoopBreaks_SkipsTwo ==
    /\ ph = "loop" /\ IsInText(pc) /\ CheckBp(bps, pc)
    /\ pc' = Wrap(pc + 8)
    /\ ph' = "endloop"
    /\ UNCHANGED <<mem, reg, bps, caller, toks, pend, code, tok, res, before>>

(* A breakpoint stops the loop and pc moves past the instruction it marks. *)
LoopBreaks ==
    /\ ph = "loop" /\ IsInText(pc) /\ CheckBp(bps, pc)
    /\ pc' = Wrap(pc + 4)
    /\ ph' = "endloop"
    /\ UNCHANGED <<mem, reg, bps, caller, toks, pend, code, tok, res, before>>

LoopExecutes ==
    /\ ph = "loop" /\ IsInText(pc) /\ ~ CheckBp(bps, pc)
    /\ ph' = "exec"
    /\ UNCHANGED <<mem, pc, reg, bps, caller, toks, pend, code, tok, res, before>>

(* After the loop; step then removes its breakpoint.                       *)
LoopReturns ==
    /\ ph = "endloop"
    /\ pc' = IF IsInText(pc) THEN pc ELSE mem.start
    /\ bps' = IF caller = "step" THEN FreeBp(bps, tok) ELSE bps
    /\ tok' = 0 /\ before' = <<>>
    /\ Return("ok")
    /\ UNCHANGED <<mem, reg, toks, pend, code>>

-----------------------------------------------------------------------------
(* execute_asm on a jump: NextInstruction moves to the delay slot and      *)
(* executes it, so the jump waits in pend.                                 *)
ExecJump ==
    /\ ph = "exec"
    /\ \E i \in Fetch(mem, pc) :
          /\ i.op \in JumpOps
          /\ pend' = Append(pend, Pending(i, reg))
          /\ reg' = Link(i, reg, pc)
    /\ pc' = Wrap(pc + 4)
    /\ UNCHANGED <<mem, bps, ph, caller, toks, code, tok, res, before>>

(* execute_asm on any other instruction.  NextInstruction drops the return *)
(* value of an instruction in a delay slot.                                *)
ExecPlain ==
    /\ ph = "exec"
    /\ \E i \in Fetch(mem, pc) :
          /\ i.op \notin JumpOps
          /\ reg' = Effect(i, reg)
          /\ code' = IF pend = <<>> /\ Exits(i, reg) THEN "exit" ELSE "other"
    /\ ph' = "unwind"
    /\ UNCHANGED <<mem, pc, bps, caller, toks, pend, tok, res, before>>

(* The innermost pending jump takes effect.                                *)
Unwind ==
    /\ ph = "unwind" /\ pend # <<>>
    /\ pc' = Land(Last(pend), pc)
    /\ pend' = Front(pend)
    /\ UNCHANGED <<mem, reg, bps, ph, caller, toks, code, tok, res, before>>

(* Mutant: the loop of run goes on without looking at pc again.            *)
StepintoReturns_NoCheck ==
    /\ ph = "unwind" /\ pend = <<>>
    /\ pc' = IF code = "exit" THEN mem.start ELSE Wrap(pc + 4)
    /\ code' = "none"
    /\ IF caller \in {"run", "step"}
       THEN /\ ph' = IF code = "exit" THEN "endloop" ELSE "exec"
            /\ UNCHANGED <<caller, res>>
       ELSE Return("ok")
    /\ UNCHANGED <<mem, reg, bps, toks, pend, tok, before>>

(* The end of stepinto: syscall resets pc on an exit, else pc advances.    *)
StepintoReturns ==
    /\ ph = "unwind" /\ pend = <<>>
    /\ pc' = IF code = "exit" THEN mem.start ELSE Wrap(pc + 4)
    /\ code' = "none"
    /\ IF caller \in {"run", "step"}
       THEN /\ ph' = IF code = "exit" THEN "endloop" ELSE "loop"
            /\ UNCHANGED <<caller, res>>
       ELSE Return(IF code = "exit" /\ caller = "into" THEN "sys10" ELSE "ok")
    /\ UNCHANGED <<mem, reg, bps, toks, pend, tok, before>>

-----------------------------------------------------------------------------
(* Commands whose handler reports an error that never reaches main.        *)
DroppedErrors == BreakRefused \/ RunRefused \/ StepRefused("ok")

AcceptedCommand ==
    \/ \E p \in Programs : Load(p)
    \/ \E rv \in SetValues : SetReg(rv[1], rv[2])
    \/ \E ts \in SeqOf(Tokens, MaxTokens) : BreakAdd(ts) \/ BreakDel(ts)
    \/ BreakDelAll
    \/ Loaded /\ Run(RunStart)
    \/ \E t \in Tokens : Run(t.val)
    \/ StepOverJump
    \/ StepOverPlain
    \/ StepInto
    \/ StepIntoRefused

Command == AcceptedCommand \/ DroppedErrors

Handler ==
    \/ AddToken
    \/ DelToken
    \/ BreakDone
    \/ LoopLeavesText
    \/ LoopBreaks
    \/ LoopExecutes
    \/ LoopReturns
    \/ ExecJump
    \/ ExecPlain
    \/ Unwind
    \/ StepintoReturns

Aborted == ph = "aborted" /\ UNCHANGED vars

Next == Command \/ Handler \/ Aborted

Spec == Init /\ [][Next]_vars
(* A started handler runs until it returns: one thread, no blocking call.  *)
FairSpec == Spec /\ WF_vars(Handler)

-----------------------------------------------------------------------------
(* Types, and which variables are in use in which phase.                   *)
TypeOK ==
    /\ mem \in Programs \cup {NoElf}
    /\ pc \in Word /\ tok \in Word
    /\ reg \in [Regs -> Word]
    /\ bps \in Seq(Word) /\ before \in Seq(Word)
    /\ ph \in Phases /\ caller \in Callers /\ res \in Results
    /\ toks \in Seq(Token)
    /\ pend \in Seq(Jump)
    /\ code \in {"none", "other", "exit"}
    /\ ph # "prompt" => Loaded
    /\ caller = "none" <=> ph \in {"prompt", "adding", "deleting", "aborted"}
    /\ ph \in {"loop", "endloop"} => caller \in {"run", "step"}
    /\ ph \notin {"exec", "unwind"} => pend = <<>>

(* break add, break del and step keep the list in this shape: an address   *)
(* is listed once, or twice when the second node is the oldest one.  The   *)
(* list is only ever searched from the head, so this bounds what a stale   *)
(* duplicate can do.                                                       *)
BreakpointsFrontDistinct == FrontDistinct(bps)

(* Every breakpoint is on a word boundary, also the temporary one of step, *)
(* although free_bp and check_bp compare addresses that are not aligned.   *)
BreakpointsAligned == \A k \in DOMAIN bps : bps[k] % 4 = 0

(* A run, also the one inside step, only gives the prompt back where its   *)
(* loop says it stops: one instruction after a breakpoint, or at the start *)
(* of .text because the program left .text or exited.                      *)
RunStopsAtBreakpointOrEnd ==
    [][ph = "endloop" /\ ph' = "prompt" =>
          pc' = mem.start \/ \E k \in DOMAIN bps : pc' = Wrap(bps[k] + 4)]_vars

(* The loop of run, also the one inside step, looks for a breakpoint       *)
(* before every instruction it executes, however it got there; only an     *)
(* instruction in a delay slot escapes it.                                 *)
BreakpointsEscapedOnlyInDelaySlots ==
    [][ph = "exec" /\ (ph' # ph \/ pend' # pend) /\ caller \in {"run", "step"}
          => pend # <<>> \/ ~ CheckBp(bps, pc)]_vars

(* step removes the breakpoint it adds: after step over a jump at an       *)
(* aligned PC, no address is a breakpoint that was not one before, and at  *)
(* most PC+8, its own, has gone.                                           *)
StepRestoresBreakpoints ==
    [][caller = "step" /\ caller' = "none" /\ tok % 4 = 0 =>
          /\ ToSet(bps') \subseteq ToSet(before)
          /\ ToSet(before) \ {tok} \subseteq ToSet(bps')]_vars

(* What makes the three properties above inductive: why the loop of run    *)
(* ended, that its test of pc still holds when execute_asm starts, and     *)
(* that nothing touches the list between the push and the free of step.    *)
LoopEndedFor ==
    ph = "endloop" =>
        \/ pc = mem.start \/ ~ IsInText(pc)
        \/ \E k \in DOMAIN bps : pc = Wrap(bps[k] + 4)
ExecChecked ==
    ph = "exec" /\ pend = <<>> /\ caller \in {"run", "step"} => ~ CheckBp(bps, pc)
StepHoldsList == caller = "step" => bps = AjouterEnTete(before, tok, Text)

(* The inductive invariant of DebuggerProofs.                              *)
IndInv ==
    /\ TypeOK
    /\ BreakpointsFrontDistinct
    /\ BreakpointsAligned
    /\ LoopEndedFor
    /\ ExecChecked
    /\ StepHoldsList

(* Execution follows the architecture: seen through the mapping below, the *)
(* recursion execute_asm -> NextInstruction -> execute_asm and the pc      *)
(* arithmetic around it (offset - 4, target - 4, then + 4 in stepinto) are *)
(* delayed jumps, and the debugger never intervenes inside one.            *)
archRunning == ph \in {"loop", "exec", "unwind"}
InFlight == IF pend = <<>> THEN Wrap(pc + 4) ELSE Wrap(Land(Last(pend), pc) + 4)
Executed == ph = "unwind" /\ code # "exit"
archPc == IF Executed THEN InFlight ELSE pc
archNpc == IF Executed THEN Wrap(InFlight + 4)
           ELSE IF ph = "exec" THEN InFlight ELSE Wrap(pc + 4)
Arch == INSTANCE MipsArch WITH pc <- archPc, npc <- archNpc, running <- archRunning
ImplementsArch == Arch!ASpec

(* The architecture leaves a jump in a delay slot open, and the exit call  *)
(* in one is lost (ExitCutsTheLoop below): what a program must avoid, on   *)
(* its way and, in the second form, wherever it may fetch.                 *)
SlotObeys ==
    ph = "exec" /\ pend # <<>> =>
        \A i \in Fetch(mem, pc) : i.op \notin JumpOps /\ ~ Exits(i, reg)
JumpAt(p, a) == \E i \in Fetch(p, a) : i.op \in JumpOps
PlainDelaySlots(p) ==
    \A a \in Word : JumpAt(p, a) =>
        \A i \in Fetch(p, Wrap(a + 4)) : i.op \notin JumpOps \cup {"SYSCALL"}

(* A command that started executing the program gives the prompt back.     *)
CommandReturns == ~ Idle /\ ph # "aborted" ~> Idle

-----------------------------------------------------------------------------
(* Statements of the sources that the code does not keep.                  *)

(* commande.c:1184: an address that already has a breakpoint is not added. *)
NoDuplicateBreakpoint == AllDistinct(bps)

(* commande.c:908: step over a jump runs up to PC+8.  Without breakpoints  *)
(* of the user it stops there, unless the program ends.                    *)
StepStopsAtPcPlus8 ==
    [][caller = "step" /\ caller' = "none" /\ before = <<>> =>
          pc' \in {tok, mem.start}]_vars

(* asm.c:346 and commande.c:945: the exit system call ends the program and *)
(* cuts the loop of run.                                                   *)
ExitCutsTheLoop ==
    [][ph = "exec" /\ ph' = "unwind" /\ (\A i \in Fetch(mem, pc) : Exits(i, reg))
          => code' = "exit"]_vars
=============================================================================
