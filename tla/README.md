# A verification development for the MIPS emulator

The repository is a command-line debugger for MIPS object files, written in C:
it loads a relocatable ELF file into a virtual memory and offers `disp`, `set`,
`assert`, `disasm`, `break`, `run`, `step`, `step into`, `debug`, `resume` and
`exit`, from a terminal or from a script. This directory holds TLA+ modules that
model it, TLC configurations that check them on small instances, and proofs
checked by TLAPS.

## 1. Inventory

| Part | Code | State | Operations | What is hard |
| --- | --- | --- | --- | --- |
| Main loop | `emulMips.c` | mode (SCRIPT, INTERACTIF), the stream and its end-of-file flag, the exit status | `acquire_line`, `execute_cmd`, treatment of the result, `debug`, `resume`, `exit` | which errors reach `main`; end of file in each mode, switching modes in the middle |
| Tokenizer | `emulMips.c` | `inter->input`, `from`, `first_token` | `get_next_token`, `get_type`, `is_hexa`, `string_standardise` | restarts the line after it returned NULL |
| Breakpoint list | `commande.c` 790-808, 995-1214 | a linked list, newest first | `ajouter_en_tete`, `deja_dans_liste`, `find_by_add`, `free_bp`, `free_list`, `check_bp` | sentinel node, tail never compared, addresses aligned in one operation and not in the other, use after free |
| Execution | `commande.c` 726-993 | PC, the list, the memory | `run`, `step`, `stepinto`, `syscall` | `step` borrows the user's list; PC is moved in three places |
| Instructions | `asm.c`, `lib.c` | 35 registers | `execute_asm`, `NextInstruction`, decoder | delay slots by recursion, dropped return values, 32-bit arithmetic |
| Virtual memory | `mem.c`, `asm.c` 387-467, `commande.c` 1220-1238 | segments with start, size, content | `loadmem`, `storemem`, `numero_segment`, `set mem`, `assert`, `disp mem`, `disasm` | two different notions of "in a segment", inclusive bounds |
| Loader | `commande.c` 20-128, `mipself_test.c` | memory, `$29` | `load`, `reloc_segment` | layout of absent sections, uninitialized stack descriptor, symbol number used as index |
| Decoder | `lib.c` | none | `getInstr`, `type`, the tables, `dispAssem` | tables written by hand, twice |
| Register names | `registre.c` | none | `convert`, `getName`, `getName2`, `getRegisterValue`, `setRegisterValue` | four tables of the same names |
| ELF reader | `elf.c`, `syms.c`, `section.c`, `bits.c` | none after `load` | `elf_extract_scn_by_name`, `elf_extract_section_names`, `elf_load_symtab` | sections found by the beginning of their name, missing tables, symbols without a name |

The program has one thread. `main` reads a line and calls `execute_cmd`, which
calls one handler and returns its result, or 0 for the handlers whose result it
drops. Handlers share the registers, the memory and the breakpoint list through
pointers of `main`. What is hard is not concurrency of threads but the order of
small steps: what `step`, `run` and `stepinto` do around each instruction while
`execute_asm` recurses through delay slots, and long sequences of commands that
bring the list or PC into a state nobody tried.

What makes each part correct:

* list: no address twice, whatever the sequence of `break` and `step`; `step`
  leaves the user's breakpoints as they were;
* execution: `run` stops at every breakpoint it reaches and nowhere else, and
  the nested calls implement the delayed jumps of the architecture;
* main loop: the exit status tells whether the script succeeded, an error ends a
  script, and the session ends when its input does;
* memory: what is read is what was written, by whichever command or instruction,
  and segments do not meet;
* loader and instructions: the values the architecture and the ABI define.

`PROJECT.json` lists the components, and under `hazards` the places where these
could fail.

## 2. Modules

```
Breakpoints --> Instructions --> Debugger --> Session --> MCSession
      |               |             |  \----> MCDebugger
      |               +-> MipsArch <-+ (INSTANCE, refinement)
      v                             v
BreakpointsProofs ----------> DebuggerProofs --> DebuggerSafety, SessionProofs
      ^
   Numbers --> MemoryProofs, CpuProofs, LoaderProofs
                     ^
ByteStore <------- Memory --> MCMemory
      (INSTANCE, refinement)

Words, Registers --> Decoder --> Cpu --> MCCpu, CpuProofs
                                  +--> Mips (INSTANCE)
Words, ObjectFile ------------> Loader --> MCLoader, LoaderProofs
                                  +--> Linker (INSTANCE)
```

* **Breakpoints**: the list as a sequence of addresses, head first, and the five
  operations as operators.
* **Instructions**: an instruction as a record `[op, rs, rt, imm]`; when a branch is
  taken, what a jump keeps while its delay slot executes (`Pending`), where it lands
  (`Land`); the loaded `.text` and what a fetch sees in it (`Fetch`).
* **Debugger**: one action per command, one per iteration of the loops of `break`
  and `run`, one per instruction. `ph` says where control is; `caller` which command
  is executing; `pend` is the C stack of `execute_asm` frames that wait for their
  delay slot. Each action is a whole handler, or the part of it between two
  iterations.
* **MipsArch**: the architecture with (pc, npc) and delayed jumps, as the abstract
  specification of execution.
* **Session**: `main` around the commands of Debugger, and the ways the process ends:
  `Exit`, `TreatResult` and `TestFeof` in `main`; `LoadNotElf` and `LoadGivesUp`, the
  calls of `exit` inside `load` and `reloc_segment`; `Crash` in `free_list`; and
  `Killed`, a signal in any line or instruction, which Memory, Cpu and Loader tell
  apart (`wild`, `killed`, `gone`). The names of `User` are what waits for a person.
* **Memory**: the segments as a sequence of `[name, start, high, content]`; `load`
  as one action per section (`LoadSection`) and one for the stack; the two searches
  `NumeroSegment` and `LoadmemSegment`; one action per command and instruction that
  reads or writes bytes. `done` is the last operation with its answer, `wild` says
  that an access has left every segment.
* **ByteStore**: memory as its users think of it, a function from addresses to bytes
  in which an access is refused only if its address does not exist. The abstract
  specification of Memory.
* **Words**: `int32_t` in two's complement: the casts, `getbits`, the bit operations
  and the division of C, for any width.
* **Registers**, **Decoder**: the tables of register names; the tables of
  instructions, `getInstr`, and what `dispAssem` lists of an instruction word. A
  word is the record of its fields.
* **Cpu**: the registers, the branches of `execute_asm` that compute, load, store
  and jump to a target, and the commands on registers. `out` is what the step gave
  (result, access to memory, target, what is shown), `ran` the instruction and its
  context, `killed` that the process got SIGFPE.
* **Mips**: one instruction as the MIPS32 architecture defines it, with an action
  `Step` over the same registers. The abstract specification of a step of Cpu.
* **ObjectFile**: what the ELF reader extracts from a file: the section a name
  finds, the symbols with their names and types, the relocation entries.
* **Loader**: `load` on an object file, with an action per section, per relocation
  entry and for the stack. `gone` says how the process ended, if it has.
* **Linker**: the image the MIPS ABI makes of an object file, as one function of the
  file and the place. The abstract specification of Loader.
* **Numbers**: least and greatest positions, and division with remainder.
  **BreakpointsProofs**, **DebuggerProofs**, **DebuggerSafety**, **SessionProofs**,
  **MemoryProofs**, **CpuProofs**, **LoaderProofs**: the proofs.

The three views of an instruction fit together as follows. Debugger decides which
instruction comes next and knows one that writes a register; Cpu knows what each
writes, with any pc, any order and any answer of memory (`Contexts`); Memory has
the loads and stores with the segments behind them. The same holds of `load`: Loader
says which bytes reach a segment, Memory starts from any bytes.

### Abstractions

* Machine words are `0 .. WordSize - 1`; 2^32 in the program, 64 in the runs. `run`
  computes on a signed `int`, which `AlignSigned` keeps.
* `.text` starts on a word boundary, its size is a multiple of four, and it ends
  below half the address space (below 2^31), as START_MEM and object files have it.
  `visible` is FALSE when the stack segment has stayed at 0 and follows `.text`, so
  that `numero_segment` finds no address of it (if the word after the segment table
  is a bound too; otherwise the program behaves as one with `visible` TRUE).
* `ADDIU` stands for every instruction that writes a register, `NOP` for those that
  write none. Programs do not store into `.text`. Jump targets are absolute; the
  region bits of `J` are 0.
* A fetch past the end of `.text` may see any instruction of `Overread`.
* `$29`, which `load` sets, is not among the registers of the model.
* `step x` with a word x other than `into` is one of `step into` or an error without
  effect, by the value of `strcmp`; the latter is an `OtherLine`.
* In Memory the contents of a section stand for its bytes after relocation, files
  are those that Loader reads without a failure, and `disp mem` and `disasm` have
  one range. Their loops count `int`s, as the code's do: `Signed` bounds, from below 0
  when the first address is in the upper half; `disp mem` up to INT_MAX does not end
  (`Lost`), and `disasm a + n` lists nothing when the sum is above it (the build has
  no optimisation, so it wraps). The stack gets whichever width and high half its uninitialized
  descriptor has, and may be refused by `calloc` (`StackSegments`).
* A byte read outside of a segment is `Unknown`; such a read, or a write there, may
  end the process or leave memory the model does not have changed, so `wild` stops
  the accesses. The bound that `numero_segment` reads after the last segment is a
  free choice, which is why the set of its answers is modelled.
* `Increments` of `disasm a + n` are positive ints (below half the address space).
* A store of Cpu always answers 0: no caller of `execute_asm` reads the -1 with which
  `storemem` refuses an address in no segment. Memory refuses such a store.
* In Cpu a word has `WordBits` bits, an immediate `HalfBits`, a byte `ByteBits`, and
  J keeps `RegionBits`. The fields of an instruction word are independent of each
  other, although `imm` and `target` overlap others: no branch of `execute_asm`
  reads two that overlap. In the run the amounts of shifts are below the width. DIV
  of the smallest int by -1 takes SIGFPE, as the build does on x86.
* In Loader a segment is a sequence of words and relocation entries lie on word
  boundaries. Files are big-endian, as those of the repository are:
  `reloc_segment` swaps the bytes of entries whatever the file says. The
  values and sizes of symbols are left out, since `load` reads neither. What
  `malloc` leaves in a section without bits is `Unknown`, as is a word read outside
  of every segment's content, and what is computed from one. A symbol without a name
  gets a text of `.strtab` that is no section's (`SomeText`). A read through a NULL
  content ends the process. Allocations succeed, but for that of the stack.
* Files of 64 bits are not extracted: `load` reads symbols of 32-bit files only,
  finds none in the others, and so asks for no section.
* `break del all` reads freed memory. Both outcomes are taken: the list becomes
  empty, or the process aborts.

## 3. Runs

| Run | Checks | Instance |
| --- | --- | --- |
| `debugger` | types, list shape and alignment, where `run` stops, that no breakpoint is passed outside a delay slot, that `step` restores the list, and the inductive invariant of the proofs | 64-byte space, four programs, four tokens, one address per `break` |
| `arch` | Debugger implements MipsArch; each command gives the prompt back | two programs without a jump in a delay slot |
| `session` | exit status and end of scripts | one program, scripts of at most three lines, any number of typed lines |
| `memory` | types, layout, agreement of the two searches, `IsInText`, Memory implements ByteStore | two sections, 128 addresses, pages of 8, bytes of one bit |
| `cpu` | registers hold words; every step is the architecture's or one of a list of departures, and never both; overflow; what the disassembly tells; names of registers | words of 4 bits, registers `$zero`, `$v0`, `$ra`, all values of two of them, 355 words of every format |
| `loader` | segments hold words; when the image is the ABI's; what a cut section leaves alone; that relocation stays in its word | words of 8 bits, pages of 2 words, 61 files at 6 places, loaded one after the other |
| `setbyte` | `SetByteTakesBytes` is violated | as `memory` |
| `duplicate` | `NoDuplicateBreakpoint` is violated | as `arch` |
| `stepstop` | `StepStopsAtPcPlus8` is violated | as `arch` |
| `delayslotexit` | `ExitCutsTheLoop` is violated | as `debugger` |
| `droppederror` | `AnyErrorEndsScript` is violated | as `session` |
| `hangup` | `HangUpEnds` is violated | as `session` |

The last six state what a comment of the sources says and the code does not
keep; `findings` in `PROJECT.json` quotes the comment.

**Bounds.** Four words of `.text` suffice for a call with both delay slots, a
backward branch and a jump as last word; the overread is reached from the latter.
Tokens give two aligned addresses of `.text` (lists of three nodes with a repeated
address occur, since the tail is not compared), one that is not written `0x` and
not aligned, and one outside. `MaxTokens = 1` loses nothing: the loop over the
tokens of one `break` makes the same steps as several commands. Three
lines are a command, a switch of mode and an end of file in each order.

For `memory`, each section is absent, empty, five bytes (part of a page) or eight (a
page, where the gap matters); `load` starts at a page, which leaves room, or at the
stack, where sections overlap it. The addresses are the first byte and the end of a
section, one inside, one in a gap, one unaligned, INT_MAX, one of the upper half in
the gap before the stack, and the stack, under every layout; ranges between these
last and the low ones are read outside of every segment.
`done` is left out of the VIEW: no guard and no invariant of that run reads it, and
TLC checks ByteStore's step formula, which does, on every transition. Deadlock is
not checked there, as an access astray may end the process. `setbyte`, whose
invariant reads `done`, has no VIEW.

For `cpu`, registers take every value of four bits, so that sums, differences and
products overflow, every shift amount occurs, and the delay slot of a jump is in the
first region, in the second and across their border. Two registers that are not zero
are enough because an instruction reads two at most: the CONSTRAINT leaves states
with three checked and without successors. The VIEW keeps what guards and
assignments read; an action property is evaluated on every transition all the same,
but for one that repeats the step before without any effect. Deadlock is not
checked, as a division ends the process. `MipsButForDepartures` is an equivalence.
Its list, `Departs`, is exact: `execute_asm` differs from MIPS32 in the words that
are decoded to another instruction, in nine values (`WrongValue`), in `$zero`, in
the upper half of a product, in the byte SB stores, in jumps outside region 0 and in
one division, and in no other step of that instance.

For `loader`, the files are `relocation.o` of the repository in small, with near and
far jump targets, addends with and without a carry, halves apart, in the other order
or without a partner, symbols of other sections and of none, unknown symbol types, a
`.rodata` that comes last in the file and second in memory, names that begin like
others, cut sections, missing tables and another class. The places are START_MEM,
the start of memory, two addresses off a page, one of them in the other region of a
jump, one from which sections meet the stack and one from which they wrap around.
`ImageLinked` states the conditions of a right image (`Roomy`, `Readable`,
`Relocatable`): without the first, without the last, or without what the second says
of names, it is false in this run. `Relocatable` has the entries of a section at
words of it, no two at the same (`OwnWord`), as an assembler puts them.
`RelocatesInPlace` asks that no segment takes a quarter of the address space
(`Moderate`; 28 bytes of 256 at most here, and the stack 40). Deadlock is not checked: an entry that is not
supported ends the process.

**Fairness.** `WF_vars(Handler)`: a handler that has started runs, as nothing in
it blocks. `WF_svars(Main)`: `main` never stops by itself, and reading a line
of a script file does not block. A person at the terminal need not type, so `User`
has no fairness: `readline`, the end of file on stdin, and the `fgets` on stdin that
a typed `resume` leads to. `ScriptEnds` is therefore about sessions of a file; those
that wait for a person in INTERACTIF mode for ever are not in SCRIPT mode for good.
`CommandReturns` speaks of programs that terminate from every PC the user can
set, as the two of that run do; `ScriptEnds` excludes programs that do not
through `[]<>Idle`.

`ImplementsArch` is checked for programs without a jump in a delay slot: the
architecture leaves those unpredictable. MipsArch takes `Taken`, `Link` and
`Effect` from Instructions, so it says nothing of arithmetic; what it checks is
the order and amounts in which PC moves.

## 4. Proofs

For every set of programs, files, registers, width and input, under the assumptions
on constants named in the modules (for Debugger and Session `WordSizeAssumption`,
`RegsAssumption`, `OverreadAssumption`, `ProgramsAssumption`, `NoElfAssumption`,
`InputsAssumption`; TLC evaluates all of them in the runs):

| Theorem | States |
| --- | --- |
| `TypeCorrect` | `Spec => []TypeOK` |
| `InductiveInvariant` | `Spec => []IndInv` |
| `ListShape`, `ListAligned` | `Spec => []BreakpointsFrontDistinct`, `[]BreakpointsAligned` |
| `RunStops` | `Spec => RunStopsAtBreakpointOrEnd` |
| `BreakpointsSeen` | `Spec => BreakpointsEscapedOnlyInDelaySlots` |
| `StepRestores` | `Spec => StepRestoresBreakpoints` |
| `SessionTyped` | `SSpec => []STypeOK` |
| `StatusHonest` | `SSpec => []StatusTellsWhy` |
| `RegistersTyped` | `CSpec => []CTypeOK` |
| `OverflowExact` | `CSpec => OverflowRefused` |
| `NamesMeet` | `CSpec => NamesAgree` |
| `ImageTyped` | `LSpec => []LTypeOK` |
| `HalvesMeet` | the relocated halves of a HI16/LO16 pair add up to symbol plus addend |
| `MemoryTypes` | `MSpec => []MTypeOK` |
| `LayoutApart` | `MSpec => []SegmentsApart` |
| `SearchesAgree` | `MSpec => []ViewsAgree` |
| `TextFound` | `MSpec => []TextSeen` |
| `ByteStoreImplemented` | `MSpec => ImplementsByteStore` |
| `ArchFollowed` | `Spec /\ []SlotObeys => ImplementsArch` |
| `ArchImplemented` | `Spec => ImplementsArch`, if all programs have plain delay slots |
| `OthersStay` | `LSpec => []OthersInPlace` |
| `ImageRight` | `LSpec => []ImageLinked` |
| `EntriesInPlace` | `LSpec => RelocatesInPlace` |
| `ListingExact` | `CSpec => ListingTellsAll` |

**Argument.** The three action properties are about the last step of a command
and need what the steps before it established. `LoopEndedFor` remembers why the
loop of `run` ended, `ExecChecked` that its test of PC still holds when the
instruction starts, `StepHoldsList` that the list is still what `step` made of the
user's. They are inductive together with `TypeOK`, whose last conjuncts say which
variables are in use in which phase. `BreakpointsFrontDistinct` is inductive
because the nodes `deja_dans_liste` compares are exactly those that stay before
the tail after a push (`AjouterFrontDistinct`). `StepRestores` rests on
`PushThenFree`: the node `step` pushes is the first one `free_bp` finds, so the
user's list comes back node for node; if the address was there already nothing was
pushed, and the user's own breakpoint on PC+8 is the one that goes.

`find_by_add` is a CHOOSE of the first match; that it exists is `LeastPosition`,
from the well-foundedness of `<` on the naturals.

Memory's theorems need `SizesAssumption` (the stack lies in the upper half and ends
below 2^32), `ContentsAssumption` (sections have at most `MaxContent` bytes) and
`ArgumentsAssumption`. Their invariant, `MInv == Shape /\ Apart`, says of the load in
progress that there is room from `next` on for the sections left, that those placed
end before `next`, and `SegmentsApart` itself; a store keeps it
because it changes bytes and no size. `Roomy` is a hypothesis because the code
takes any start: without room the properties are false. From `Apart` an address of
a segment lies between its start and the next one's, and in no other segment
widened by one, which is what the two searches test.

`ByteStoreImplemented` maps each action of Memory to one of ByteStore, or to a
stutter while `load` is between two sections. Its invariant adds to `MInv` that no
section has a high half (`SectionsLow`: only the start of the stack may be one of 64
bits that no address reaches) and that `load` is the last operation while it runs
(`LoadAnswers`). Per action, both sides of the refinement come to the same question,
which segment has an address, and `SearchesAgree` answers it. A range of `disp` or
`disasm` that passes INT_MAX, or starts in the upper half, goes through addresses
of the upper half, for which ByteStore has `Beyond` (`DispLands`, `DisassembleLands`).

`ArchFollowed` supposes `SlotObeys`: whenever a delay slot executes, it holds neither
a jump nor the call of exit. Both are needed. The architecture leaves a jump in a
delay slot open, and `delayslotexit` shows that the code loses the exit there.
`ArchImplemented` gets it from the text of the programs, through `SlotFollowsJump`
(the pc is four after a jump as long as a frame waits). From it at most one frame of
`execute_asm` waits (`OneSlot`), for a jump to the npc of the architecture; the step
of each instruction then says that what `Land` leaves in the pc is that npc, on
every way the frames return.

`StatusHonest` needs, of the states in which the session goes on, that no reason to
end has been recorded (`NoReasonYet`) and that end of file means the script has been
read (`EofMeansRead`). The commands of Debugger that Session runs enter through the
types proved of them, and leave the variables of the main loop alone.

`RegistersTyped` and `OverflowExact` rest on `WidthsAssumption` (WordSize is even
and at least 4, the powers of two are numbers) and `PatternsAssumption` (every
pattern of bits is a word: what `And`, `Or` and `Xor` choose exists). The second
theorem is about `ADD`, `ADDI` and `SUB`: their operands are cast to 64 bits, which
extends the sign, so that the code's `|` with bit 31 moved to 32 adds nothing
(`WideIsCast`); bits 32 and 31 of the 64-bit sum then differ exactly when the sum of
the two ints is none (`TestExact`, `SumTest`), by division of that sum by 2^31.

`NamesMeet` needs `NamesAssumption` (a name that stands for a register stands for one
of `reg`): no two mnemonics are equal, so `convert` undoes `getR` (`ConvertBack`).

`ImageTyped` needs `LoaderAssumption`, `FilesAssumption` (the sections of a program
hold words) and `TargetAssumption`. Its invariant `LoaderInv` also says what segment
and entry the loop of relocation is at; `RelocatedType` is the case per type of
entry. `HalvesMeet` needs no invariant: HI16 keeps the sum less its sign-extended
low half, and LO16 that half, for every symbol and every addend that `reloc_segment`
computes. The addend is the sign-extended low half only; that it is the file's is
the part that `ImageLinked` states, under `SmallPair`.

`OthersStay` says of a load in progress (`PlacedInv`) that the segments taken so far
are the sections wanted so far, in order, each at the sum of the room of those
before it, and that `next` is that sum. The sum is a fold over a set of at most
four section names, unrolled once for all orders (`FoldSums`).

`ImageRight` is the theorem about `load` as a whole. `ImageInv` says of a file that
fits (`Roomy`, `Readable`, `Relocatable`) that every section read has in its segment
the words of the file, with those of the entries before the current one replaced by
the ABI's (`SoFar`), that nothing has ended the process, and that the segment after
the last one is still empty. An entry then finds its own segment, as `Roomy` leaves
a page between two (`SegmentHit`, `NoFault`); it finds the word of the file there,
and so does the HI16 for its LO16, since no two entries are for one word
(`OwnWord`) and a pair is relocated high half first; and what it computes is the
ABI's word (`EntryLinked`), by the cases of `type`: `UpperLinked` and `LowerLinked` for the
halves, and for `R_MIPS_26` that `|` of two words without a common bit is their sum
(`DisjointOr`, from `PowersAssumption` and `PatternsAssumption`).

`EntriesInPlace` has no room as a hypothesis, so sections may wrap around and the
stack may lie in the middle of them. `ChainInv` gives the places before they are
reduced modulo WordSize: each is its predecessor plus its size and what fills the
page. Two of at most four are less than WordSize apart when no segment takes a quarter
of the address space (`Moderate`), so an address has one place among them
(`SameRemainder`, `ChainApart`). Without `Moderate`, or for an entry beyond the end
of its segment (`e.offset <= Size(seg[k])` excludes it), the property is false: the
address is then another segment's.

`ListingExact` reads the fields of an instruction word back from its listing. The
decoder's name gives opcode and function, names of registers are distinct, so that
each operand field is that of the other word or not read by `execute_asm`.

Of the constants, beside what is said above: `LoaderAssumption` has pages of more
than four bytes (0x1000 in the program), the end of the stack in the address space
and `$29` in the stack; `FilesAssumption` has entries at words, as the modelled
files do; `TargetAssumption` ties the field of J to the region (26 bits, words of
four bytes and 4 bits of region make 32); `PowersAssumption` is what is used of `^`,
of which the provers know nothing.

Only model-checked: `MipsButForDepartures`, an equivalence over 26 instructions with
products, shifts and divisions, of which only the parts above are proved for every
width; `CommandReturns` and `ScriptEnds`, which are liveness under fairness and
beyond the prover; and the six violations, which are counterexamples. No module uses
a RECURSIVE operator.

## 5. Not modelled, and the plan

1. **Nodes**: the breakpoint list as nodes and pointers, with the allocator, shown
   to implement Breakpoints; `free_list` there.
2. **Tokens**: `get_next_token`, `get_type`, and what each handler reads.
3. Stores of Memory as instructions of Debugger, so that `.text` changes under `run`.
4. Proofs: the departures of Cpu for every width, group by group, as
   `execute_asm` has them.

Out of scope: the bytes of ELF headers, swapping them, the text of messages and
listings, the `.BAK` copies and the build files. `elf_load_scntab`, which
`reloc_segment` calls, fills a table that nothing reads.
