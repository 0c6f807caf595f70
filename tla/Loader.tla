------------------------------- MODULE Loader -------------------------------
(***************************************************************************)
(* The load command on an object file: one segment for each of the four    *)
(* sections that has a symbol, the relocation of each segment, entry by    *)
(* entry, and the stack.  Memory abstracts the result to contents of any   *)
(* kind; here they come from the file.                                     *)
(*                                                                         *)
(* A segment holds words; an access to a word is aligned.                  *)
(***************************************************************************)
EXTENDS Words, ObjectFile

CONSTANTS
    Page,               \* 0x1000
    Files,              \* object files
    Starts,             \* START_MEM and the address argument of load
    StackStart, StackWords, StackTop

Word == 0 .. (WordSize - 1)
Unknown == -1           \* the content of memory that nobody has written

ASSUME LoaderAssumption ==
    /\ Page \in Nat /\ Page > 4
    /\ WordSize = HalfSize * HalfSize
    /\ Starts \subseteq Word /\ StackStart \in Word /\ StackWords \in Nat
    /\ StackStart + 4 * StackWords \in Word
    /\ StackTop \in StackStart .. (StackStart + 4 * StackWords)

(* Sections with the name of one of a program hold words, and the ones     *)
(* that relocate them entries, each at a word.                             *)
ASSUME FilesAssumption ==
    \A f \in Files : \A n \in DOMAIN SectionNames :
        /\ Len(f.sections) \in Nat /\ DOMAIN f.sections = 1 .. Len(f.sections)
        /\ \A i \in Matches(f, SectionNames[n]) : f.sections[i].body \in Seq(Word)
        /\ \A i \in Matches(f, <<"rel">> \o SectionNames[n]) :
              LET es == f.sections[i].body
              IN  /\ Len(es) \in Nat /\ DOMAIN es = 1 .. Len(es)
                  /\ \A j \in DOMAIN es : es[j].offset \in Nat /\ es[j].offset % 4 = 0

VARIABLES
    file,       \* the file being loaded, or the last one
    base,       \* the page it was asked to start at
    symtab,     \* its symbols
    seg,        \* memory->seg, with the segments that are not attached
    section,    \* i of the loop over the sections
    next,       \* next_segment_start
    entry,      \* <<k, e>>: the segment and the entry to relocate next
    phase,      \* "none", "sections", "relocation", "stack", "ready"
    sp,         \* r->reg[29]
    gone        \* "no", or how the process ended: "exit", "signal"
lvars == <<file, base, symtab, seg, section, next, entry, phase, sp, gone>>

(* content is FALSE for NULL.                                              *)
Segment(name, start, content, body) ==
    [name |-> name, start |-> start, content |-> content, body |-> body]
Unattached == Segment(<<>>, 0, FALSE, <<>>)
Size(s) == 4 * Len(s.body)

LInit ==
    /\ file = <<>> /\ base = 0 /\ symtab = Table(TRUE, <<>>) /\ seg = <<>>
    /\ section = 1 /\ next = 0 /\ entry = <<1, 1>> /\ phase = "none" /\ sp = 0
    /\ gone = "no"

-----------------------------------------------------------------------------
(* Sections                                                                *)

PageOf(a) == a - (a % Page)

init_mem(nseg) == [k \in 1 .. nseg |-> Unattached]

(* A file that does not exist or does not begin like an ELF file, and a    *)
(* load without a name, change nothing.                                    *)
StartLoad ==
    /\ phase \in {"none", "ready"} /\ gone = "no"
    /\ \E f \in Files, a \in Starts :
        /\ file' = f /\ base' = PageOf(a) /\ next' = PageOf(a)
        /\ symtab' = elf_load_symtab(f)
        /\ seg' = init_mem(get_nsegments(symtab') + 1)
    /\ section' = 1 /\ entry' = <<1, 1>> /\ phase' = "sections"
    /\ UNCHANGED <<sp, gone>>

(* The first segment without a name.                                       *)
attach_scn_to_mem == CHOOSE k \in DOMAIN seg :
            seg[k].name = <<>> /\ \A j \in 1 .. (k - 1) : seg[j].name # <<>>

(* Section i at address a: of one without bits, what is copied is a buffer *)
(* that nobody has written.                                                *)
fill_mem_scn(name, a, i) ==
    LET s == file.sections[i]
    IN  Segment(name, a, TRUE, [j \in DOMAIN s.body |-> IF s.bits THEN s.body[j] ELSE Unknown])

(* elf_load_section_in_memory: a section that cannot be read leaves its    *)
(* segment attached, empty and at 0, and load takes no notice.             *)
elf_load_section_in_memory(name) ==
    LET i == elf_extract_scn_by_name(file, name)
    IN  IF i = 0 THEN Segment(name, 0, FALSE, <<>>)
        ELSE fill_mem_scn(name, next, i)

(* Mutant: a section that is not in memory takes no page.                  *)
Advance_OnlyFilled(s) == IF s.content THEN PageOf(Size(s) + Page) ELSE 0

(* The distance to the next section.                                       *)
Advance(s) == PageOf(Size(s) + Page)

LoadSection ==
    /\ phase = "sections" /\ section \in DOMAIN SectionNames
    /\ LET name == SectionNames[section]
           s    == elf_load_section_in_memory(name)
       IN  IF is_in_symbols(name, symtab)
           THEN seg' = [seg EXCEPT ![attach_scn_to_mem] = s] /\ next' = Unsigned(next + Advance(s))
           ELSE UNCHANGED <<seg, next>>
    /\ section' = section + 1
    /\ UNCHANGED <<file, base, symtab, entry, phase, sp, gone>>

SectionsDone ==
    /\ phase = "sections" /\ section \notin DOMAIN SectionNames
    /\ phase' = "relocation"
    /\ UNCHANGED <<file, base, symtab, seg, section, next, entry, sp, gone>>

-----------------------------------------------------------------------------
(* Relocation                                                              *)

(* loadmem, storemem: the last segment with a from its start to its end,   *)
(* the end included, 0 for none; one that is not attached is at 0.         *)
SegmentOf(a) ==
    LET hits == {k \in DOMAIN seg :
                    seg[k].start <= a /\ a <= Unsigned(seg[k].start + Size(seg[k]))}
    IN  IF hits = {} THEN 0 ELSE CHOOSE k \in hits : \A j \in hits : j <= k

PositionOf(a, k) == (a - seg[k].start) \div 4 + 1
Faults(a) == SegmentOf(a) # 0 /\ ~seg[SegmentOf(a)].content
loadmem(a) ==
    LET k == SegmentOf(a)
    IN  IF k = 0 THEN 0
        ELSE IF PositionOf(a, k) \in DOMAIN seg[k].body THEN seg[k].body[PositionOf(a, k)]
        ELSE Unknown

storemem(a, w) ==
    LET k == SegmentOf(a)
    IN  IF k # 0 /\ PositionOf(a, k) \in DOMAIN seg[k].body
        THEN seg' = [seg EXCEPT ![k].body[PositionOf(a, k)] = w]
        ELSE UNCHANGED seg

(* The start of the segment that has the number of the symbol, less one:   *)
(* it need not be that of the symbol's section, nor exist.                 *)
StartFor(e) == IF e.sym \in DOMAIN seg THEN seg[e.sym].start ELSE Unknown

TargetSize == 2^(WordBits - RegionBits - 2)
ASSUME TargetAssumption ==
    /\ TargetSize \in Nat \ {0} /\ 4 * TargetSize = 2^(WordBits - RegionBits)
    /\ WordSize % (4 * TargetSize) = 0
Region(a) == a - (a % 2^(WordBits - RegionBits))
LowHalf(w) == w % HalfSize
SignHalf(h) == IF 2 * h >= HalfSize THEN h - HalfSize ELSE h

(* The upper 16 bits of a word whose lower half will be added as signed.   *)
Carried(x) == LowHalf((x - SignHalf(LowHalf(x))) \div HalfSize)

(* Mutant: a sum that is not reduced.                                      *)
Relocated_Unwrapped(type, p, w, lo, s) == IF type = "32" THEN s + w ELSE w

(* Mutant: the upper half of the sum as it is.                             *)
Relocated_NoCarry(type, p, w, lo, s) ==
    CASE type = "32"   -> Unsigned(s + w)
      [] type = "HI16" -> w - LowHalf(w) + LowHalf((SignHalf(LowHalf(lo)) + s) \div HalfSize)
      [] type = "LO16" -> w - LowHalf(w) + LowHalf(SignHalf(LowHalf(w)) + s)
      [] OTHER         -> w

(* The relocated word: at address p, w before, with the word lo after it   *)
(* and the symbol at s.  The upper half of the addend is shifted out, and  *)
(* the target of a jump is or-ed with the symbol.                          *)
Relocated(type, p, w, lo, s) ==
    CASE type = "32"   -> Unsigned(s + w)
      [] type = "26"   ->
            w - (w % TargetSize)
              + ((Unsigned(Or((w % TargetSize) * 4, Unsigned(Region(p) + s))) \div 4) % TargetSize)
      [] type = "HI16" -> w - LowHalf(w) + Carried(SignHalf(LowHalf(lo)) + s)
      [] type = "LO16" -> w - LowHalf(w) + LowHalf(SignHalf(LowHalf(w)) + s)
      [] OTHER         -> w

Supported == {"32", "26", "HI16", "LO16"}
Operands(type, w, lo, s) ==
    {w} \cup (IF type \in Supported THEN {s} ELSE {}) \cup (IF type = "HI16" THEN {lo} ELSE {})

(* The words an entry at address p reads.                                  *)
ReadBy(type, p) ==
    {p} \cup (IF type = "HI16" THEN {Unsigned(p + 4)} ELSE {})
        \cup (IF type = "LO16" THEN {Unsigned(p - 4)} ELSE {})

(* A segment with nothing in it is not relocated.                          *)
Entries(k) ==
    IF seg[k].content /\ seg[k].body # <<>> THEN EntriesFor(file, seg[k].name) ELSE <<>>

(* Mutant: the address is that of the word after.                          *)
AddressOf_Next(k, e) == Unsigned(seg[k].start + e.offset + 4)

AddressOf(k, e) == Unsigned(seg[k].start + e.offset)

(* The body of the loop of reloc_segment.                                  *)
Apply(e, p) ==
    LET w  == loadmem(p)
        lo == loadmem(Unsigned(p + 4))
        s  == StartFor(e)
    IN  storemem(p, IF Unknown \in Operands(e.type, w, lo, s) THEN Unknown
                    ELSE Relocated(e.type, p, w, lo, s))

RelocateEntry ==
    /\ phase = "relocation" /\ gone = "no"
    /\ entry[1] < Len(seg) /\ entry[2] \in DOMAIN Entries(entry[1])
    /\ LET e == Entries(entry[1])[entry[2]]
           p == AddressOf(entry[1], e)
       IN  IF Faults(p) THEN gone' = "signal" /\ UNCHANGED seg
           ELSE IF e.type \in Supported /\ symtab.syms[e.sym + 1].type # "section"
           THEN gone' = "exit" /\ UNCHANGED seg
           ELSE IF \E a \in ReadBy(e.type, p) : Faults(a)
           THEN gone' = "signal" /\ UNCHANGED seg
           ELSE Apply(e, p) /\ UNCHANGED gone
    /\ entry' = [entry EXCEPT ![2] = @ + 1]
    /\ UNCHANGED <<file, base, symtab, section, next, phase, sp>>

NextSegment ==
    /\ phase = "relocation" /\ gone = "no"
    /\ entry[1] < Len(seg) /\ entry[2] \notin DOMAIN Entries(entry[1])
    /\ entry' = <<entry[1] + 1, 1>>
    /\ UNCHANGED <<file, base, symtab, seg, section, next, phase, sp, gone>>

-----------------------------------------------------------------------------
(* The stack, and the end of load: a table of symbols that has been freed  *)
(* already is freed again.                                                 *)
StackSegments ==
    {Segment(<<"stack">>, StackStart, TRUE, [k \in 1 .. StackWords |-> 0]),
     Segment(<<"stack">>, 0, FALSE, <<>>)}

AttachStack ==
    /\ phase = "relocation" /\ gone = "no" /\ entry[1] = Len(seg)
    /\ \E s \in StackSegments : seg' = [seg EXCEPT ![attach_scn_to_mem] = s]
    /\ sp' = StackTop /\ phase' = "ready"
    /\ gone' \in IF symtab.fresh THEN {"no"} ELSE {"no", "signal"}
    /\ UNCHANGED <<file, base, symtab, section, next, entry>>

LNext ==
    \/ StartLoad \/ LoadSection \/ SectionsDone
    \/ RelocateEntry \/ NextSegment \/ AttachStack

LSpec == LInit /\ [][LNext]_lvars

-----------------------------------------------------------------------------
(* Properties                                                              *)

(* Types: segments hold words, and all but the last are sections.          *)
LTypeOK ==
    /\ phase \in {"none", "sections", "relocation", "ready"}
    /\ gone \in {"no", "exit", "signal"} /\ next \in Word /\ base \in Word
    /\ \A k \in DOMAIN seg :
        /\ seg[k].start \in Word /\ seg[k].content \in BOOLEAN
        /\ \A j \in DOMAIN seg[k].body : seg[k].body[j] \in Word \cup {Unknown}

Abi == INSTANCE Linker

(* The sections load has to put in memory, in its order.                   *)
Wanted == {n \in DOMAIN SectionNames : Abi!SectionNamed(file, SectionNames[n]) # 0}
Position(n) == Cardinality({m \in Wanted : m <= n})
PlaceOf(n) == Abi!Place(file, base, SectionNames, n)
Program(n) == Abi!BodyOf(file, SectionNames[n])
EntriesOf(n) == Abi!BodyOf(file, <<"rel">> \o SectionNames[n])
AddendOf(n, e) == Program(n)[e.offset \div 4 + 1]

(* The sections fit below the stack, above address 0.                      *)
Roomy == base > 0 /\ PlaceOf(Len(SectionNames) + 1) < StackStart

(* Every section is read, and for what it is: it has a symbol when it is   *)
(* there, no other whose name begins with its own comes before it, the     *)
(* file does not end in it, and it has bits unless it is empty.            *)
Readable ==
    /\ symtab.fresh
    /\ \A n \in DOMAIN SectionNames :
        LET name == SectionNames[n]
        IN  /\ is_in_symbols(name, symtab) <=> n \in Wanted
            /\ \A full \in {name, <<"rel">> \o name} :
                  elf_extract_scn_by_name(file, full) = Abi!SectionNamed(file, full)
            /\ n \in Wanted /\ Program(n) # <<>> => file.sections[Abi!SectionNamed(file, name)].bits

(* The entry is about the section whose segment has its number.            *)
OwnNumber(e) ==
    LET symbol == file.symbols[e.sym + 1]
    IN  /\ e.sym + 1 \in DOMAIN file.symbols /\ symbol.type = "section"
        /\ \E m \in Wanted : /\ Abi!SectionNamed(file, SectionNames[m]) = symbol.shndx
                             /\ Position(m) = e.sym

(* The halves of an address are in two words that follow each other, and   *)
(* the upper one is zero before.                                           *)
SmallPair(es, n, j) ==
    /\ Abi!Completes(es, j) # {}
    /\ es[Abi!Completion(es, j)].offset = es[j].offset + 4
    /\ LowHalf(AddendOf(n, es[j])) = 0

(* The target of a jump and the place of its section have no bit in common.*)
Apart(n, e) ==
    LET target == 4 * (AddendOf(n, e) % TargetSize)
    IN  \A k \in BitNumbers : Bit(target, k) * Bit(Abi!SymbolAt(file, base, SectionNames, e), k) = 0

(* An entry is for a word of its section, and for one that no other entry  *)
(* is for.                                                                 *)
OwnWord(es, n, j) ==
    /\ es[j].offset \div 4 + 1 \in DOMAIN Program(n)
    /\ \A i \in DOMAIN es : es[i].offset = es[j].offset => i = j

Relocatable ==
    \A n \in Wanted : \A j \in DOMAIN EntriesOf(n) :
        LET e == EntriesOf(n)[j]
        IN  /\ e.type \in Supported /\ OwnNumber(e) /\ OwnWord(EntriesOf(n), n, j)
            /\ e.type = "HI16" => SmallPair(EntriesOf(n), n, j)
            /\ e.type = "26" => Apart(n, e)

(* load makes of a file what the ABI does, whatever was loaded before, if  *)
(* it is one that Readable and Relocatable describe; $sp is in the stack.  *)
ImageLinked ==
    (phase = "ready" \/ gone # "no") /\ Roomy /\ Readable /\ Relocatable =>
        /\ gone = "no" /\ Len(seg) = Cardinality(Wanted) + 1
        /\ \A n \in Wanted :
            LET s == seg[Position(n)]
            IN  /\ s.name = SectionNames[n] /\ s.start = PlaceOf(n)
                /\ s.body = Abi!Linked(file, base, SectionNames, n)
        /\ seg[Len(seg)].content => SegmentOf(sp) = Len(seg)

(* The sections of a file, with the one it ends in taken for empty.        *)
CutShort(f) ==
    [sections |-> [i \in DOMAIN f.sections |->
        [name |-> f.sections[i].name,
         body |-> IF f.sections[i].cut THEN <<>> ELSE f.sections[i].body]]]

(* The symbols of sections are those of the sections there are, and no     *)
(* name begins two sections.                                               *)
Accounted ==
    \A n \in DOMAIN SectionNames :
        /\ is_in_symbols(SectionNames[n], symtab) <=> n \in Wanted
        /\ Cardinality(Matches(file, SectionNames[n])) <= 1

(* A section the file ends in costs that section only, which is empty and  *)
(* at 0: the others have the numbers and the places they would have if it  *)
(* were empty in the file.                                                 *)
OthersInPlace ==
    phase \in {"relocation", "ready"} /\ Roomy /\ Accounted =>
        \A n \in Wanted :
            LET s == seg[Position(n)]
            IN  /\ s.name = SectionNames[n]
                /\ IF file.sections[Abi!SectionNamed(file, s.name)].cut
                   THEN s.body = <<>>
                   ELSE s.start = Abi!Place(CutShort(file), base, SectionNames, n)

(* No segment takes a quarter of the address space.                        *)
Moderate == \A k \in DOMAIN seg : 4 * (Size(seg[k]) + Page) <= WordSize

(* An entry that is not beyond its segment changes one word of it, the one *)
(* it names, or none: the search for the segment of its address goes       *)
(* nowhere else, wherever the segments lie and wrap around.                *)
RelocatesInPlace ==
    [][phase = "relocation" /\ seg' # seg /\ entry'[2] > entry[2] /\ Moderate =>
        LET k == entry[1]
            e == Entries(k)[entry[2]]
            j == e.offset \div 4 + 1
        IN  e.offset <= Size(seg[k]) =>
                \A l \in DOMAIN seg : \A i \in DOMAIN seg[l].body :
                    seg'[l].body[i] # seg[l].body[i] => l = k /\ i = j]_lvars
=============================================================================
