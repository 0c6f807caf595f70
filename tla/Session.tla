------------------------------- MODULE Session -------------------------------
(***************************************************************************)
(* The main loop of the emulator (emulMips.c): acquire_line, execute_cmd   *)
(* and the treatment of its result, around the commands of Debugger.  Lines*)
(* come from a script file or from the terminal; debug and resume switch   *)
(* between the two.                                                        *)
(***************************************************************************)
EXTENDS Debugger

CONSTANT MaxLines   \* bound: the lines of the script file, or typed after resume

ASSUME MaxLinesAssumption == MaxLines \in Nat

VARIABLES
    mode,       \* inter->mode
    fromFile,   \* fp is a script file, not stdin
    left,       \* lines fp still holds
    eof,        \* feof(fp)
    hungUp,     \* stdin is at end of file: readline returns NULL
    stage,      \* where main is in its loop
    status,     \* the exit status of the process, once it has ended
    refused,    \* history: the current command's handler reported an error
    why         \* history: exit, a reported error or a file load gave up on

mainVars == <<mode, fromFile, left, eof, hungUp, stage, status, refused, why>>
svars == <<vars, mainVars>>

Stages == {"acquire", "execute", "running", "feof", "ended"}

SInit ==
    /\ Init
    /\ fromFile \in BOOLEAN
    /\ mode = IF fromFile THEN "SCRIPT" ELSE "INTERACTIF"
    /\ left \in 0 .. MaxLines
    /\ eof = FALSE /\ hungUp = FALSE /\ refused = FALSE /\ why = "none"
    /\ stage = "acquire" /\ status = "none"

End(s) == stage' = "ended" /\ status' = s

-----------------------------------------------------------------------------
(* Mutant: reads one line more than there are.                             *)
ReadScriptLine_PastEnd ==
    /\ stage = "acquire" /\ mode = "SCRIPT"
    /\ IF left >= 0
       THEN /\ left' = left - 1
            /\ stage' = "execute"
            /\ eof' \in (IF left = 1 THEN BOOLEAN ELSE {FALSE})
       ELSE /\ eof' = TRUE
            /\ stage' = "feof"
            /\ UNCHANGED left
    /\ UNCHANGED <<vars, mode, fromFile, hungUp, status, refused, why>>

(* acquire_line in SCRIPT mode: fgets on fp.  Reading the last line also   *)
(* meets the end of file when that line has no newline.                    *)
ReadScriptLine ==
    /\ stage = "acquire" /\ mode = "SCRIPT"
    /\ IF left > 0
       THEN /\ left' = left - 1
            /\ stage' = "execute"
            /\ eof' \in (IF left = 1 THEN BOOLEAN ELSE {FALSE})
       ELSE /\ eof' = TRUE
            /\ stage' = "feof"
            /\ UNCHANGED left
    /\ UNCHANGED <<vars, mode, fromFile, hungUp, status, refused, why>>

(* acquire_line in INTERACTIF mode: readline on stdin, whatever fp is.     *)
ReadTypedLine ==
    /\ stage = "acquire" /\ mode = "INTERACTIF" /\ ~ hungUp
    /\ stage' \in {"execute", "feof"}       \* "feof": an empty line
    /\ UNCHANGED <<vars, mode, fromFile, left, eof, hungUp, status, refused, why>>

(* The user closes stdin; readline then returns NULL each time it is       *)
(* called, and acquire_line 1.                                             *)
HangUp ==
    /\ stage = "acquire" /\ mode = "INTERACTIF" /\ ~ hungUp
    /\ hungUp' = TRUE
    /\ UNCHANGED <<vars, mode, fromFile, left, eof, stage, status, refused, why>>

ReadNothing ==
    /\ stage = "acquire" /\ mode = "INTERACTIF" /\ hungUp
    /\ stage' = "feof"
    /\ UNCHANGED <<vars, mode, fromFile, left, eof, hungUp, status, refused, why>>

-----------------------------------------------------------------------------
(* execute_cmd: the commands of Debugger.                                  *)
StartCommand ==
    /\ stage = "execute"
    /\ \/ AcceptedCommand /\ refused' = FALSE
       \/ DroppedErrors /\ refused' = TRUE
    /\ stage' = "running"
    /\ UNCHANGED <<mode, fromFile, left, eof, hungUp, status, why>>

Proceed ==
    /\ stage = "running" /\ Handler
    /\ UNCHANGED mainVars

(* Lines that leave the machine alone: comments, disp, assert, disasm,     *)
(* test, unknown words, a load without a file name or of no such file.     *)
OtherLine(r) ==
    /\ stage = "execute"
    /\ Return(r)
    /\ refused' = (r # "ok")
    /\ stage' = "running"
    /\ UNCHANGED <<mem, pc, reg, bps, toks, pend, code, tok, before>>
    /\ UNCHANGED <<mode, fromFile, left, eof, hungUp, status, why>>

DebugOrResume(m) ==
    /\ stage = "execute"
    /\ mode' = m
    /\ Return("ok")
    /\ refused' = FALSE
    /\ stage' = "running"
    /\ UNCHANGED <<mem, pc, reg, bps, toks, pend, code, tok, before>>
    /\ UNCHANGED <<fromFile, left, eof, hungUp, status, why>>

(* exit.                                                                   *)
Exit ==
    /\ stage = "execute"
    /\ End("success")
    /\ why' = "exit"
    /\ UNCHANGED <<vars, mode, fromFile, left, eof, hungUp, refused>>

(* load of a file that is not ELF: ERROR_MSG ends the process there, the   *)
(* return after it is never reached, in either mode.                       *)
LoadNotElf ==
    /\ stage = "execute"
    /\ End("failure")
    /\ why' = "notElf"
    /\ UNCHANGED <<vars, mode, fromFile, left, eof, hungUp, refused>>

(* load of an ELF file with a relocation against a symbol that is not a    *)
(* section: reloc_segment ends the process.  So does load itself when      *)
(* malloc has no room for the header that gives the stack its width.       *)
LoadGivesUp ==
    /\ stage = "execute"
    /\ End("failure")
    /\ why' = "gaveUp"
    /\ UNCHANGED <<vars, mode, fromFile, left, eof, hungUp, refused>>

(* A signal ends the process: a line or an instruction reads or writes     *)
(* outside of the memory, or DIV divides what the processor cannot.        *)
Killed ==
    /\ stage = "execute" \/ (stage = "running" /\ ph = "exec")
    /\ End("abort")
    /\ UNCHANGED <<vars, mode, fromFile, left, eof, hungUp, refused, why>>

(* free_list aborted the process in a handler.                             *)
Crash ==
    /\ stage = "running" /\ ph = "aborted"
    /\ End("abort")
    /\ UNCHANGED <<vars, mode, fromFile, left, eof, hungUp, refused, why>>

-----------------------------------------------------------------------------
(* Mutant: main looks at the kind of input, not at the mode.               *)
TreatResult_ByFile ==
    /\ stage = "running" /\ Idle
    /\ why' = IF res # "ok" /\ mode = "SCRIPT" THEN "error" ELSE why
    /\ IF res # "ok" /\ fromFile
       THEN End("failure")
       ELSE stage' = "feof" /\ UNCHANGED status
    /\ UNCHANGED <<vars, mode, fromFile, left, eof, hungUp, refused>>

(* main's switch on the result of execute_cmd.                             *)
TreatResult ==
    /\ stage = "running" /\ Idle
    /\ why' = IF res # "ok" /\ mode = "SCRIPT" THEN "error" ELSE why
    /\ IF res # "ok" /\ mode = "SCRIPT"
       THEN End("failure")
       ELSE stage' = "feof" /\ UNCHANGED status
    /\ UNCHANGED <<vars, mode, fromFile, left, eof, hungUp, refused>>

(* Mutant: the end of the file is not looked at.                           *)
TestFeof_Never ==
    /\ stage = "feof"
    /\ stage' = "acquire" /\ UNCHANGED status
    /\ UNCHANGED <<vars, mode, fromFile, left, eof, hungUp, refused, why>>

(* The end of an iteration of main's loop.                                 *)
TestFeof ==
    /\ stage = "feof"
    /\ IF mode = "SCRIPT" /\ eof
       THEN End("success")
       ELSE stage' = "acquire" /\ UNCHANGED status
    /\ UNCHANGED <<vars, mode, fromFile, left, eof, hungUp, refused, why>>

Ended == stage = "ended" /\ UNCHANGED svars

Main ==
    \/ fromFile /\ ReadScriptLine
    \/ ReadNothing
    \/ StartCommand
    \/ Proceed
    \/ \E r \in Results \ {"sys10"} : OtherLine(r)
    \/ \E m \in {"SCRIPT", "INTERACTIF"} : DebugOrResume(m)
    \/ Exit
    \/ LoadNotElf
    \/ LoadGivesUp
    \/ Killed
    \/ Crash
    \/ TreatResult
    \/ TestFeof

(* What waits for the user: readline, and after a typed resume also fgets. *)
User == ReadTypedLine \/ (~ fromFile /\ ReadScriptLine) \/ HangUp

SNext == Main \/ User \/ Ended

SSpec == SInit /\ [][SNext]_svars
(* main never stops by itself; the user need not type anything.            *)
SFairSpec == SSpec /\ WF_svars(Main)

-----------------------------------------------------------------------------
(* Types, and the phases of a command in each stage of the main loop.      *)
STypeOK ==
    /\ TypeOK
    /\ mode \in {"SCRIPT", "INTERACTIF"}
    /\ {fromFile, eof, hungUp, refused} \subseteq BOOLEAN
    /\ why \in {"none", "exit", "error", "notElf", "gaveUp"}
    /\ left \in 0 .. MaxLines
    /\ stage \in Stages
    /\ status \in {"none", "success", "failure", "abort"}
    /\ stage = "ended" <=> status # "none"
    /\ stage \in {"acquire", "execute", "feof"} => Idle

(* The exit status tells a driver of test scripts what happened.  Success: *)
(* exit was executed, or every line of the file was, and no command had    *)
(* reported an error to main in SCRIPT mode.  Failure: one had, or load    *)
(* gave up on a file, which was not ELF or had a relocation it does not    *)
(* support, or on its memory.  An error met in INTERACTIF mode, also       *)
(* between debug and resume of a script, ends nothing.                     *)
StatusTellsWhy ==
    /\ status = "success" => why = "exit" \/ (why = "none" /\ left = 0 /\ eof)
    /\ status = "failure" <=> why \in {"error", "notElf", "gaveUp"}

(* The session of a script file that is in SCRIPT mode for good, from the  *)
(* start or after the last resume, ends, unless a program it runs loops    *)
(* for ever: the file is finite and main sees its end, also when it met it *)
(* before a debug.                                                         *)
ScriptEnds ==
    fromFile /\ <>[](mode = "SCRIPT") /\ []<>Idle => <>(stage = "ended")

-----------------------------------------------------------------------------
(* Statements of the sources that the code does not keep.                  *)

(* emulMips.c:553: in file mode any error ends the program.                *)
AnyErrorEndsScript ==
    [][stage = "running" /\ stage' = "feof" => ~ (refused /\ mode = "SCRIPT")]_svars

(* emulMips.c:575: all the ways out of the program are treated above, so   *)
(* its end of input ends it.                                               *)
HangUpEnds == hungUp ~> stage = "ended"
=============================================================================
