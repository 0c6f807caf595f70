-------------------------------- MODULE Memory --------------------------------
(***************************************************************************)
(* The virtual memory: how load lays the segments out, the two ways an     *)
(* address finds its segment (numero_segment for the commands,             *)
(* loadmem/storemem for the instructions), and every operation that reads  *)
(* or writes bytes: set mem, assert, disp mem, disasm, LB, LW, SB, SW.     *)
(*                                                                         *)
(* A word is a sequence of four bytes, most significant first.             *)
(***************************************************************************)
EXTENDS Integers, Sequences

CONSTANTS
    AddrSpace,      \* number of addresses: 2^32 in the program
    Page,           \* 0x1000
    ByteRange,      \* values of a byte: 256
    NbSections,     \* NB_SECTIONS; section 1 is .text
    Contents,       \* what a section of an object file can hold
    MaxContent,     \* and the largest size of it
    LoadAddresses,  \* START_MEM and the address argument of load
    StackStart, StackSize,
    Addresses,      \* addresses that commands and instructions use
    Words,          \* words they write and compare with
    ByteArgs,       \* byte arguments of set and assert, before any check
    Increments      \* second operand of disasm a + n

Byte == 0 .. (ByteRange - 1)
Half == AddrSpace \div 2
Unknown == -1       \* a byte read outside of a segment's content
Stack == NbSections + 1

ASSUME SizesAssumption ==
    /\ Page \in Nat \ {0} /\ ByteRange \in Nat \ {0} /\ NbSections \in Nat \ {0}
    /\ AddrSpace \in Nat /\ AddrSpace % 2 = 0
    /\ StackStart \in Half .. (AddrSpace - 1) /\ StackSize \in Nat
    /\ StackStart + StackSize < AddrSpace
ASSUME ContentsAssumption ==
    /\ MaxContent \in Nat
    /\ \A c \in Contents : c \in Seq(Byte) /\ Len(c) <= MaxContent
ASSUME ArgumentsAssumption ==
    /\ LoadAddresses \subseteq 0 .. (AddrSpace - 1)
    /\ Addresses \subseteq 0 .. (AddrSpace - 1)
    /\ Words \subseteq [1 .. 4 -> Byte]
    /\ ByteArgs \subseteq Int /\ Increments \subseteq 0 .. (Half - 1)

VARIABLES
    seg,        \* memory->seg, in the order of attachment
    phase,      \* "none": memory is NULL; "loading"; "ready"
    base,       \* the page load was asked to start at
    section,    \* i of load: the next of the predefined sections
    next,       \* next_segment_start
    done,       \* the last operation and what it answered
    wild        \* an access has left every segment: the process may be gone
mvars == <<seg, phase, base, section, next, done, wild>>

Wrap(n) == n % AddrSpace
Signed(a) == IF a >= Half THEN a - AddrSpace ELSE a

(* A segment once filled.  start is start._32; high is the upper half of   *)
(* start._64, 0 but for the stack.                                         *)
Segment(name, start, high, content) ==
    [name |-> name, start |-> start, high |-> high, content |-> content]
Size(s) == Len(s.content)
Span(s) == s.start .. (s.start + Size(s) - 1)
Start64(s) == s.start + s.high * AddrSpace

Answer(op, a, arg, bytes, ok) ==
    [op |-> op, a |-> a, arg |-> arg, bytes |-> bytes, ok |-> ok]
Nothing == Answer("none", 0, <<>>, <<>>, TRUE)

MInit ==
    /\ seg = <<>> /\ phase = "none" /\ base = 0 /\ section = 1 /\ next = 0
    /\ done = Nothing /\ wild = FALSE

-----------------------------------------------------------------------------
(* load                                                                    *)

PageOf(a) == a - (a % Page)

(* Mutant: a full section leaves no gap before the next one.               *)
Advance_NoGap(s) == PageOf(Size(s) + Page - 1)

(* The distance to the next section.                                       *)
Advance(s) == PageOf(Size(s) + Page)

(* The number of segments is not kept: get_nsegments counts the sections   *)
(* that LoadSection then appends, and one more for the stack.              *)
StartLoad ==
    /\ phase # "loading" /\ ~wild
    /\ \E a \in LoadAddresses : base' = PageOf(a)
    /\ next' = base'
    /\ seg' = <<>> /\ section' = 1 /\ phase' = "loading"
    /\ done' = Answer("load", 0, <<>>, <<>>, TRUE)
    /\ UNCHANGED wild

(* A section that is not among the symbols is skipped.  Relocation         *)
(* rewrites words of the contents: they stand for the relocated bytes.     *)
LoadSection ==
    /\ phase = "loading" /\ section <= NbSections
    /\ section' = section + 1
    /\ \/ UNCHANGED <<seg, next>>
       \/ \E c \in Contents :
            LET s == Segment(section, next, 0, c)
            IN  seg' = Append(seg, s) /\ next' = Wrap(next + Advance(s))
    /\ UNCHANGED <<phase, base, done, wild>>

(* The stack is as wide as byte 4 of a header that load has allocated and  *)
(* not read, and so are its size and start, of which only the low halves   *)
(* are assigned.  calloc may refuse the size; fill_mem_scn then leaves an  *)
(* empty segment at 0.                                                     *)
StackSegments ==
    {Segment(Stack, StackStart, high, [k \in 1 .. StackSize |-> 0]) : high \in {0, -1}}
        \cup {Segment(Stack, 0, 0, <<>>)}

AttachStack ==
    /\ phase = "loading" /\ section > NbSections
    /\ \E s \in StackSegments : seg' = Append(seg, s)
    /\ phase' = "ready"
    /\ UNCHANGED <<base, section, next, done, wild>>

-----------------------------------------------------------------------------
(* Finding the segment of an address.  Both return 0 for none.             *)

(* Mutant: the upper bound is the start of the next segment included.      *)
NumeroSegment_Inclusive(a) ==
    LET hits == {i \in 1 .. (Len(seg) - 1) : seg[i].start <= a /\ a <= seg[i + 1].start}
    IN  IF hits # {} THEN {CHOOSE i \in hits : \A j \in hits : i <= j}
        ELSE IF seg[Len(seg)].start <= a THEN {0, Len(seg)} ELSE {0}

(* numero_segment: the first segment with a from its start to the start of *)
(* the next one.  After the last segment it reads a bound that is not in   *)
(* the array: the address may be found there or not.                       *)
NumeroSegment(a) ==
    LET hits == {i \in 1 .. (Len(seg) - 1) : seg[i].start <= a /\ a < seg[i + 1].start}
    IN  IF hits # {} THEN {CHOOSE i \in hits : \A j \in hits : i <= j}
        ELSE IF seg[Len(seg)].start <= a THEN {0, Len(seg)} ELSE {0}

(* loadmem, storemem: the last segment with a from its start to its end,   *)
(* the end included.                                                       *)
LoadmemSegment(a) ==
    LET hits == {i \in 1 .. Len(seg) :
                    seg[i].start <= a /\ a <= Wrap(seg[i].start + Size(seg[i]))}
    IN  IF hits = {} THEN 0 ELSE CHOOSE i \in hits : \A j \in hits : j <= i

(* Mutant: the end of .text counts as .text.                               *)
IsInText_Inclusive(a) ==
    {n # 0 /\ Wrap(a - seg[1].start) <= Size(seg[1]) : n \in NumeroSegment(a)}

(* IsInText: in some segment, and within the size of the first one.        *)
IsInText(a) ==
    {n # 0 /\ Wrap(a - seg[1].start) < Size(seg[1]) : n \in NumeroSegment(a)}

-----------------------------------------------------------------------------
(* Bytes.  k is the position in the content of segment n.  A command finds *)
(* it from an int and the 64-bit start, an instruction from 32-bit ones.   *)
CommandPos(n, a) == Signed(a) - Start64(seg[n]) + 1
CpuPos(n, a) == a - seg[n].start + 1

Read(n, k, len) ==
    [j \in 1 .. len |-> IF n # 0 /\ k + j - 1 \in 1 .. Size(seg[n])
                        THEN seg[n].content[k + j - 1] ELSE Unknown]

(* A read past the content: unknown bytes, or the end of the process.      *)
Stray(bytes) == \E j \in DOMAIN bytes : bytes[j] = Unknown

Reads(op, a, arg, bytes, oks) ==
    /\ \E ok \in oks : done' = Answer(op, a, arg, bytes, ok)
    /\ wild' \in (IF Stray(bytes) THEN BOOLEAN ELSE {FALSE})
    /\ UNCHANGED <<seg, phase, base, section, next>>

Refused(op, a, arg) ==
    /\ done' = Answer(op, a, arg, <<>>, FALSE)
    /\ UNCHANGED <<seg, phase, base, section, next, wild>>

Lost(op, a, arg) ==
    /\ done' = Answer(op, a, arg, <<>>, FALSE) /\ wild' = TRUE
    /\ UNCHANGED <<seg, phase, base, section, next>>

(* Mutant: the bytes of a word, least significant first.                   *)
Writes_LittleEndian(op, a, arg, n, k, bytes) ==
    LET at == k .. (k + Len(bytes) - 1)
    IN  /\ done' = Answer(op, a, arg, <<>>, TRUE)
        /\ IF at \subseteq 1 .. Size(seg[n])
           THEN /\ seg' = [seg EXCEPT ![n].content =
                    [j \in DOMAIN @ |-> IF j \in at THEN bytes[k + Len(bytes) - j] ELSE @[j]]]
                /\ UNCHANGED wild
           ELSE wild' = TRUE /\ UNCHANGED seg
        /\ UNCHANGED <<phase, base, section, next>>

(* A write past the content changes memory the model does not have.        *)
Writes(op, a, arg, n, k, bytes) ==
    LET at == k .. (k + Len(bytes) - 1)
    IN  /\ done' = Answer(op, a, arg, <<>>, TRUE)
        /\ IF at \subseteq 1 .. Size(seg[n])
           THEN /\ seg' = [seg EXCEPT ![n].content =
                    [j \in DOMAIN @ |-> IF j \in at THEN bytes[j - k + 1] ELSE @[j]]]
                /\ UNCHANGED wild
           ELSE wild' = TRUE /\ UNCHANGED seg
        /\ UNCHANGED <<phase, base, section, next>>

-----------------------------------------------------------------------------
(* The commands                                                            *)

Ready == phase = "ready" /\ ~wild

(* Mutant: the value is stored as it was read.                             *)
ToByte_Unreduced(v) == v

(* The assignment of an int to a byte.                                     *)
ToByte(v) == v % ByteRange

SetByte ==
    Ready /\ \E a \in Addresses, v \in ByteArgs : \E n \in NumeroSegment(a) :
        IF n = 0 \/ v > ByteRange THEN Refused("set", a, <<v>>)
        ELSE Writes("set", a, <<v>>, n, CommandPos(n, a), <<ToByte(v)>>)

SetWord ==
    Ready /\ \E a \in Addresses, w \in Words : \E n \in NumeroSegment(a) :
        IF n = 0 THEN Refused("set", a, w)
        ELSE Writes("set", a, w, n, CommandPos(n, a), w)

(* What a comparison with bytes read can answer.  assert uses the result   *)
(* of numero_segment unchecked: without a segment the bytes are unknown.   *)
Compare(v, bytes) == IF Stray(bytes) THEN BOOLEAN ELSE {v = bytes}

AssertByte ==
    Ready /\ \E a \in Addresses, v \in ByteArgs : \E n \in NumeroSegment(a) :
        LET bytes == Read(n, IF n = 0 THEN 0 ELSE CommandPos(n, a), 1)
        IN  IF v > ByteRange THEN Refused("assert", a, <<v>>)
            ELSE Reads("assert", a, <<v>>, bytes, Compare(<<v>>, bytes))

AssertWord ==
    Ready /\ \E a \in Addresses, w \in Words : \E n \in NumeroSegment(a) :
        LET bytes == Read(n, IF n = 0 THEN 0 ELSE CommandPos(n, a), 4)
        IN  Reads("assert", a, w, bytes, Compare(w, bytes))

(* disp mem a:b.  The loop counts ints, from below 0 when a is in the      *)
(* upper half, and does not end when b is INT_MAX: it then faults.         *)
DispMem ==
    Ready /\ \E a, b \in Addresses : \E n \in NumeroSegment(a), m \in NumeroSegment(b) :
        IF n = 0 \/ m # n \/ Signed(a) > Signed(b) THEN Refused("disp", a, <<b>>)
        ELSE IF Signed(b) = Half - 1 THEN Lost("disp", a, <<b>>)
        ELSE Reads("disp", a, <<b>>,
                   Read(n, CommandPos(n, a), Signed(b) - Signed(a) + 1), {TRUE})

(* disasm shows the words at the multiples of four from a to last, counted *)
(* as ints; what comes after INT_MAX is outside of every segment.          *)
Disassemble(a, arg, n, last) ==
    LET first == Signed(a) + ((-Signed(a)) % 4)
        len   == IF last < first THEN 0 ELSE 4 * ((last - first) \div 4 + 1)
        k     == first - Start64(seg[n]) + 1
    IN  Reads("disasm", a, arg, Read(IF last < Half THEN n ELSE 0, k, len), {TRUE})

(* The loop of disasm a:b ends after b, which an int is never when b is    *)
(* INT_MAX, or after the size of the segment.                              *)
LastOfRange(a, b) ==
    LET stop == Signed(a) + Size(seg[1]) - 1
    IN  IF Signed(b) = Half - 1 \/ stop <= Signed(b) THEN stop ELSE Signed(b)

(* disasm a:b, in the first segment only.                                  *)
DisasmRange ==
    Ready /\ \E a, b \in Addresses : \E n \in NumeroSegment(a), m \in NumeroSegment(b) :
        IF n # 1 \/ m # 1 THEN Refused("disasm", a, <<b>>)
        ELSE Disassemble(a, <<b>>, 1, LastOfRange(a, b))

(* The loop of disasm a + n ends after the address that ends the segment;  *)
(* from an address further than that the unsigned bound does not stop it.  *)
(* a sum above INT_MAX wraps, and lists nothing.                           *)
LastOfPlus(n, a, inc) ==
    LET stop == Signed(Wrap(a + (inc - (inc % 4)))) - 1
        end  == Signed(a) + Wrap(seg[n].start + Size(seg[n]) - a)
    IN  IF stop > end THEN end ELSE stop

(* It first scans the text of its increment, a bytes further than it is.   *)
DisasmPlus ==
    Ready /\ \E a \in Addresses, inc \in Increments : \E n \in NumeroSegment(a) :
        IF n = 0 THEN Refused("disasm", a, <<inc>>)
        ELSE \/ Disassemble(a, <<inc>>, n, LastOfPlus(n, a, inc))
             \/ Lost("disasm", a, <<inc>>)

Command == SetByte \/ SetWord \/ AssertByte \/ AssertWord \/ DispMem
               \/ DisasmRange \/ DisasmPlus

-----------------------------------------------------------------------------
(* The instructions; loadmem answers 0 when no segment has the address.    *)
Load(op, a, len) ==
    LET n == LoadmemSegment(a)
    IN  Reads(op, a, <<>>,
              IF n = 0 THEN [j \in 1 .. len |-> 0] ELSE Read(n, CpuPos(n, a), len),
              {TRUE})

Store(op, a, bytes) ==
    LET n == LoadmemSegment(a)
    IN  IF n = 0 THEN Refused(op, a, bytes) ELSE Writes(op, a, bytes, n, CpuPos(n, a), bytes)

(* LB, LBU *)
LoadByte == Ready /\ \E a \in Addresses : Load("LB", a, 1)

(* LW, and the fetch of an instruction when a is a multiple of four.       *)
LoadWord ==
    Ready /\ \E a \in Addresses :
        IF a % 4 # 0 THEN Refused("LW", a, <<>>) ELSE Load("LW", a, 4)

(* SB stores the low byte of its base register: any byte.                  *)
StoreByte == Ready /\ \E a \in Addresses, b \in Byte : Store("SB", a, <<b>>)

StoreWord ==
    Ready /\ \E a \in Addresses, w \in Words :
        IF a % 4 # 0 THEN Refused("SW", a, w) ELSE Store("SW", a, w)

Instruction == LoadByte \/ LoadWord \/ StoreByte \/ StoreWord

MNext == StartLoad \/ LoadSection \/ AttachStack \/ Command \/ Instruction

MSpec == MInit /\ [][MNext]_mvars

-----------------------------------------------------------------------------
(* Properties                                                              *)

(* Types: a segment holds bytes and the stack is the last one.             *)
MTypeOK ==
    /\ phase \in {"none", "loading", "ready"} /\ wild \in BOOLEAN
    /\ section \in 1 .. (NbSections + 1)
    /\ base \in 0 .. (AddrSpace - 1) /\ next \in 0 .. (AddrSpace - 1)
    /\ \A i \in 1 .. Len(seg) :
        /\ seg[i].content \in Seq(Byte)
        /\ seg[i].start \in 0 .. (AddrSpace - 1)
        /\ seg[i].name = Stack <=> (i = Len(seg) /\ phase = "ready")
        /\ seg[i].name \in 1 .. Stack

(* load was given an address that leaves room for the sections in the      *)
(* lower half of the address space, as START_MEM does.                     *)
Roomy == base + NbSections * (MaxContent + Page) <= Half

(* Memory as load means it to be: room for the sections, and a stack.      *)
LaidOut == phase = "ready" /\ Roomy /\ seg[Len(seg)].start = StackStart

(* Layout of load: no segment reaches the address after the end of the one *)
(* before, which loadmem and storemem still count as that one, whatever    *)
(* sections the file has and however full their last page is.              *)
SegmentsApart ==
    Roomy => \A i, j \in 1 .. Len(seg) :
        i < j /\ (seg[j].name = Stack => seg[j].start = StackStart)
            => seg[i].start + Size(seg[i]) < seg[j].start

(* numero_segment and loadmem, which compare with different bounds and     *)
(* search in different orders, agree on every address of a segment.        *)
ViewsAgree ==
    LaidOut => \A i \in 1 .. Len(seg) : \A a \in Span(seg[i]) :
        /\ LoadmemSegment(a) = i
        /\ i # Len(seg) => NumeroSegment(a) = {i}

(* IsInText accepts the addresses of .text and no other, for every file    *)
(* that has a .text, when the stack is there or another section follows.   *)
TextSeen ==
    phase = "ready" /\ Roomy /\ seg[1].name = 1
        /\ (seg[Len(seg)].start = StackStart \/ Len(seg) > 2)
        => \A a \in 0 .. (AddrSpace - 1) : \A yes \in IsInText(a) :
               yes <=> a \in Span(seg[1])

(* The bytes of the segments, as one function of the address.              *)
Bytes ==
    LET SegmentOf(a) == CHOOSE i \in 1 .. Len(seg) : a \in Span(seg[i])
    IN  [a \in UNION {Span(seg[i]) : i \in 1 .. Len(seg)} |->
            LET s == seg[SegmentOf(a)] IN s.content[a - s.start + 1]]

Bytewise == INSTANCE ByteStore WITH
    store <- IF LaidOut THEN Bytes ELSE <<>>, wild <- wild \/ ~LaidOut

(* Commands and instructions read and write one array of bytes: what one   *)
(* of them wrote all others see, at that address and no other, and no      *)
(* access to an address that exists is refused (assert, set, disp, disasm, *)
(* LB, LW, SB, SW).                                                        *)
ImplementsByteStore == Bytewise!BSpec

(* "your writed 'byte' but the value is a word" (commande.c:377): set mem  *)
(* byte takes no value that is not a byte.                                 *)
SetByteTakesBytes ==
    done.op = "set" /\ done.ok /\ ~wild => \A k \in DOMAIN done.arg : done.arg[k] \in Byte
=============================================================================
