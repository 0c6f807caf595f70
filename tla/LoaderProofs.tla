---------------------------- MODULE LoaderProofs ----------------------------
(***************************************************************************)
(* Proofs about Loader for words of every width and for any object files:  *)
(* the segments hold words whatever is loaded and relocated, the two       *)
(* halves of a relocated address make that address, a section that cannot  *)
(* be read does not move the others, load makes of a file what the ABI     *)
(* does, and an entry changes no word but the one it names.                *)
(***************************************************************************)
EXTENDS Loader, Numbers, FiniteSetTheorems, SequenceTheorems

-----------------------------------------------------------------------------
(* Words                                                                   *)

LEMMA Sizes ==
    /\ WordSize \in Nat \ {0} /\ HalfSize \in Nat \ {0} /\ TargetSize \in Nat \ {0}
    /\ WordSize = HalfSize * HalfSize
    /\ Word \subseteq Nat
BY WidthsAssumption, LoaderAssumption, TargetAssumption DEF HalfSize, Word

(* A conversion to uint32_t gives a word.                                  *)
LEMMA UnsignedType == ASSUME NEW x \in Int PROVE Unsigned(x) \in Word
BY Sizes DEF Unsigned, Word

(* A word whose low digits are replaced is a word.                         *)
LEMMA LowReplaced ==
    ASSUME NEW M \in Nat \ {0}, NEW q \in Nat, NEW w \in 0 .. (q * M - 1), NEW r \in 0 .. (M - 1)
    PROVE  w - (w % M) + r \in 0 .. (q * M - 1)
<1> DEFINE d == w \div M
           e == w % M
<1>1. q * M \in Nat /\ w \in Nat /\ w < q * M
  OBVIOUS
<1>2. d \in Int /\ e \in 0 .. (M - 1) /\ w = M * d + e
  BY <1>1, DivMod
<1> HIDE DEF d, e
<1>3. ASSUME NEW k \in Int, k <= 0 PROVE M * k <= 0
  BY <1>3
<1>4. M * d > -M /\ M * (d - q) < 0
  BY <1>1, <1>2
<1>5. M * (d + 1) > 0
  BY <1>2, <1>4
<1>6. d >= 0
  BY <1>2, <1>3, <1>5
<1>7. ASSUME NEW k \in Int, k >= 0 PROVE M * k >= 0
  BY <1>7
<1>8. d - q < 0
  BY <1>2, <1>4, <1>7
<1>9. M * (q - d - 1) >= 0 /\ M * d >= 0
  BY <1>2, <1>6, <1>7, <1>8
<1>10. M * d + r <= q * M - 1 /\ M * d + r >= 0 /\ M * d + r \in Int
  BY <1>2, <1>9
<1>11. w - e + r = M * d + r
  BY <1>2
<1> QED BY <1>1, <1>10, <1>11 DEF e

(* The lower half of a number has the bits of an immediate.                *)
LEMMA LowHalfType == ASSUME NEW x \in Int PROVE LowHalf(x) \in 0 .. (HalfSize - 1)
BY Sizes DEF LowHalf

(* The lower half taken as signed is a number.                             *)
LEMMA SignHalfType == ASSUME NEW h \in Int PROVE SignHalf(h) \in Int
BY Sizes DEF SignHalf

(* The upper half that allows for a signed lower half.                     *)
LEMMA CarriedType == ASSUME NEW x \in Int PROVE Carried(x) \in 0 .. (HalfSize - 1)
<1> DEFINE d == x - SignHalf(LowHalf(x))
<1>1. LowHalf(x) \in Int
  BY Sizes, LowHalfType
<1>2. d \in Int
  BY <1>1, SignHalfType
<1> HIDE DEF d
<1>3. d \div HalfSize \in Int
  BY <1>2, Sizes
<1> QED BY <1>3, LowHalfType DEF Carried, d

(* The upper half replaced by a carry, the lower by a sum.                 *)
LEMMA HalfReplaced ==
    ASSUME NEW w \in Word, NEW r \in 0 .. (HalfSize - 1)
    PROVE  w - LowHalf(w) + r \in Word
BY Sizes, LowReplaced DEF LowHalf, Word

(* A number with no remainder is a multiple.                               *)
LEMMA ExactQuotient ==
    ASSUME NEW M \in Nat \ {0}, NEW n \in Nat \ {0}, n % M = 0
    PROVE  \E q \in Nat : n = q * M
<1> DEFINE q == n \div M
<1>1. q \in Int /\ n = M * q + (n % M)
  BY DivMod
<1> HIDE DEF q
<1>2. ASSUME NEW k \in Int, k <= 0 PROVE M * k <= 0
  BY <1>2
<1>3. q \in Nat /\ n = q * M
  BY <1>1, <1>2
<1> QED BY <1>3

(* A word with another target in it is a word.                             *)
LEMMA TargetReplaced ==
    ASSUME NEW w \in Word, NEW r \in 0 .. (TargetSize - 1)
    PROVE  w - (w % TargetSize) + r \in Word
<1> DEFINE R == 4 * TargetSize
<1>0. R \in Nat \ {0} /\ WordSize % R = 0
  BY Sizes, TargetAssumption
<1>1. PICK q \in Nat : WordSize = q * TargetSize
  <2> HIDE DEF R
  <2>1. PICK d \in Nat : WordSize = d * R
    BY Sizes, <1>0, ExactQuotient
  <2>2. WordSize = (4 * d) * TargetSize
    BY <2>1, Sizes DEF R
  <2> QED
    BY <2>1, <2>2
<1>2. w \in 0 .. (q * TargetSize - 1)
  BY <1>1 DEF Word
<1>3. w - (w % TargetSize) + r \in 0 .. (q * TargetSize - 1)
  BY <1>2, Sizes, LowReplaced
<1> QED BY <1>1, <1>3 DEF Word

(* Bits.                                                                   *)
LEMMA OrType == ASSUME NEW x \in Int, NEW y \in Int PROVE Or(x, y) \in Int
<1> DEFINE f == [k \in BitNumbers |-> IF Bit(x, k) = 1 THEN 1 ELSE Bit(y, k)]
<1>1. ASSUME NEW k \in BitNumbers PROVE Bit(y, k) \in 0 .. 1
  <2>1. 2^k \in Nat \ {0}
    BY WidthsAssumption DEF BitNumbers
  <2>2. ASSUME NEW p \in Nat \ {0} PROVE (y \div p) % 2 \in 0 .. 1
    OBVIOUS
  <2> QED BY <2>1, <2>2 DEF Bit
<1>2. f \in [BitNumbers -> 0 .. 1]
  BY <1>1
<1>3. PICK z \in SWord : \A k \in BitNumbers : Bit(z, k) = f[k]
  BY <1>2, PatternsAssumption
<1>4. WordOf(f) \in SWord
  BY <1>3 DEF WordOf
<1>5. Or(x, y) \in SWord
  BY <1>4 DEF Or
<1> QED BY <1>5, WidthsAssumption DEF SWord, Half

(* Whatever the type of an entry, what it makes of a word is a word.       *)
LEMMA RelocatedType ==
    ASSUME NEW p \in Word, NEW w \in Word, NEW type, NEW lo, NEW s,
           type \in Supported => s \in Word, type = "HI16" => lo \in Word
    PROVE  Relocated(type, p, w, lo, s) \in Word
<1>0. Word \subseteq Int
  BY Sizes
<1>1. p \in Int /\ w \in Int /\ (s \in Word => s \in Int) /\ (lo \in Word => lo \in Int)
  BY <1>0
<1>2. CASE type = "32"
  <2>1. s + w \in Int
    BY <1>1, <1>2 DEF Supported
  <2> QED BY <1>2, <2>1, UnsignedType DEF Relocated
<1>3. CASE type = "26"
  <2> DEFINE t == (w % TargetSize) * 4
             a == Unsigned(Region(p) + s)
             o == Unsigned(Or(t, a))
  <2>1. w % TargetSize \in Int
    BY <1>1, Sizes
  <2>2. 2^(WordBits - RegionBits) \in Nat \ {0}
    BY WidthsAssumption
  <2>3. Region(p) \in Int
    BY <1>1, <2>2 DEF Region
  <2>4. Region(p) + s \in Int
    BY <1>1, <1>3, <2>3 DEF Supported
  <2>5. t \in Int /\ a \in Word
    BY <2>1, <2>4, UnsignedType
  <2> HIDE DEF t, a
  <2>6. o \in Word
    BY <2>5, OrType, UnsignedType, Sizes
  <2> HIDE DEF o
  <2>7. (o \div 4) % TargetSize \in 0 .. (TargetSize - 1)
    BY <2>6, Sizes, DivMod
  <2>8. Relocated(type, p, w, lo, s) = w - (w % TargetSize) + ((o \div 4) % TargetSize)
    BY <1>3 DEF Relocated, o, t, a
  <2> QED BY <2>7, <2>8, TargetReplaced
<1>4. CASE type = "HI16"
  <2>1. LowHalf(lo) \in Int
    BY <1>1, <1>4, LowHalfType, Sizes
  <2>2. SignHalf(LowHalf(lo)) + s \in Int
    BY <1>1, <1>4, <2>1, SignHalfType DEF Supported
  <2> QED BY <1>4, <2>2, CarriedType, HalfReplaced DEF Relocated
<1>5. CASE type = "LO16"
  <2>1. LowHalf(w) \in Int
    BY <1>1, LowHalfType, Sizes
  <2>2. SignHalf(LowHalf(w)) + s \in Int
    BY <1>1, <1>5, <2>1, SignHalfType DEF Supported
  <2> QED BY <1>5, <2>2, LowHalfType, HalfReplaced DEF Relocated
<1>6. CASE type \notin Supported
  BY <1>6 DEF Relocated, Supported
<1> QED BY <1>2, <1>3, <1>4, <1>5, <1>6 DEF Supported

-----------------------------------------------------------------------------
(* Addresses in two halves                                                 *)

(* The lower half of a word is the one that was put there.                 *)
LEMMA LowOfReplaced ==
    ASSUME NEW w \in Word, NEW r \in 0 .. (HalfSize - 1)
    PROVE  LowHalf(w - LowHalf(w) + r) = r
<1> DEFINE d == w \div HalfSize
           e == w % HalfSize
<1>1. d \in Int /\ e \in Int /\ w = HalfSize * d + e
  BY Sizes, DivMod
<1> HIDE DEF d, e
<1>2. w - e + r = d * HalfSize + r
  BY <1>1, Sizes
<1>3. (d * HalfSize + r) % HalfSize = r
  BY <1>1, Sizes, ModUnique
<1> QED BY <1>2, <1>3 DEF LowHalf, e

(* The carry and the lower half of a number make it, up to a word.         *)
LEMMA CarryAndLow ==
    ASSUME NEW x \in Int
    PROVE  Unsigned(Carried(x) * HalfSize + SignHalf(LowHalf(x))) = Unsigned(x)
<1> DEFINE d == x \div HalfSize
           e == x % HalfSize
           h == SignHalf(e)
           c == (x - h) \div HalfSize
           q == c \div HalfSize
           r == c % HalfSize
<1>1. d \in Int /\ e \in 0 .. (HalfSize - 1) /\ x = HalfSize * d + e
  BY Sizes, DivMod
<1>2. h \in Int /\ h \in {e, e - HalfSize}
  BY <1>1, Sizes, SignHalfType DEF SignHalf
<1> HIDE DEF d, e, h
<1>3. x - h = d * HalfSize + 0 \/ x - h = (d + 1) * HalfSize + 0
  BY <1>1, <1>2, Sizes
<1>4. c \in Int /\ x - h = c * HalfSize
  <2>1. ASSUME NEW k \in Int PROVE (k * HalfSize + 0) \div HalfSize = k
    BY Sizes, ModUnique
  <2>2. CASE x - h = d * HalfSize + 0
    BY <1>1, <2>1, <2>2, Sizes
  <2>3. CASE x - h = (d + 1) * HalfSize + 0
    BY <1>1, <2>1, <2>3, Sizes
  <2> QED BY <1>3, <2>2, <2>3
<1> HIDE DEF c
<1>5. q \in Int /\ r \in Int /\ c = HalfSize * q + r
  BY <1>4, Sizes, DivMod
<1> HIDE DEF q, r
<1>6. x = q * WordSize + (r * HalfSize + h)
  BY <1>1, <1>2, <1>4, <1>5, Sizes
<1>7. x % WordSize = (r * HalfSize + h) % WordSize
  <2>1. r * HalfSize + h \in Int
    BY <1>2, <1>5, Sizes
  <2> QED BY <1>5, <1>6, <2>1, Sizes, ModPlus
<1> QED BY <1>7 DEF Unsigned, Carried, LowHalf, r, c, h, e

(* Relocation of an address in two halves, the addend in the lower one:    *)
(* what LUI and ADDIU make of the two relocated words is the address of    *)
(* the symbol plus the addend, also when the lower half is negative.       *)
THEOREM HalvesMeet ==
    ASSUME NEW upper \in Word, NEW lower \in Word, NEW s \in Word, NEW p, NEW q, NEW after
    PROVE  LET hi == LowHalf(Relocated("HI16", p, upper, lower, s))
               lo == LowHalf(Relocated("LO16", q, lower, after, s))
           IN  Unsigned(hi * HalfSize + SignHalf(lo)) = Unsigned(SignHalf(LowHalf(lower)) + s)
<1> DEFINE x == SignHalf(LowHalf(lower)) + s
<1>1. LowHalf(lower) \in Int
  BY LowHalfType, Sizes
<1>2. x \in Int
  BY <1>1, SignHalfType, Sizes
<1>3. Relocated("HI16", p, upper, lower, s) = upper - LowHalf(upper) + Carried(x)
  BY DEF Relocated
<1>4. Relocated("LO16", q, lower, after, s) = lower - LowHalf(lower) + LowHalf(x)
  BY DEF Relocated
<1> HIDE DEF x
<1>5. LowHalf(Relocated("HI16", p, upper, lower, s)) = Carried(x)
  BY <1>2, <1>3, CarriedType, LowOfReplaced
<1>6. LowHalf(Relocated("LO16", q, lower, after, s)) = LowHalf(x)
  BY <1>2, <1>4, LowHalfType, LowOfReplaced
<1> QED BY <1>2, <1>5, <1>6, CarryAndLow DEF x

-----------------------------------------------------------------------------
(* Type correctness                                                        *)

ProgramNames == {SectionNames[n] : n \in DOMAIN SectionNames}
Contents == Seq(Word \cup {Unknown})
Segments ==
    [name : ProgramNames \cup {<<>>, <<"stack">>}, start : Word, content : BOOLEAN,
     body : Contents]

(* What makes LTypeOK inductive: until the stack is there, what is in a    *)
(* segment is a section of the file.                                       *)
LoaderInv ==
    /\ phase \in {"none", "sections", "relocation", "ready"}
    /\ gone \in {"no", "exit", "signal"} /\ next \in Word /\ base \in Word
    /\ phase # "none" => file \in Files
    /\ seg \in Seq(Segments)
    /\ entry \in (Nat \ {0}) \X (Nat \ {0})
    /\ phase \in {"sections", "relocation"} =>
          \A k \in DOMAIN seg : seg[k].content => seg[k].name \in ProgramNames

(* LoaderInv gives the types.                                              *)
LEMMA LoaderInvTypes == LoaderInv => LTypeOK
<1> SUFFICES ASSUME LoaderInv PROVE LTypeOK
  OBVIOUS
<1>1. ASSUME NEW k \in DOMAIN seg
      PROVE  /\ seg[k].start \in Word /\ seg[k].content \in BOOLEAN
             /\ \A j \in DOMAIN seg[k].body : seg[k].body[j] \in Word \cup {Unknown}
  <2>1. seg[k] \in Segments
    BY DEF LoaderInv
  <2>2. seg[k].start \in Word /\ seg[k].content \in BOOLEAN /\ seg[k].body \in Contents
    BY <2>1 DEF Segments
  <2> QED BY <2>2 DEF Contents
<1> QED BY <1>1 DEF LoaderInv, LTypeOK

(* A sequence with one of its members replaced.                            *)
LEMMA ExceptType ==
    ASSUME NEW S, NEW q \in Seq(S), NEW k, NEW s \in S
    PROVE  [q EXCEPT ![k] = s] \in Seq(S) /\ DOMAIN [q EXCEPT ![k] = s] = DOMAIN q
<1>1. PICK m \in Nat : q \in [1 .. m -> S]
  BY SeqDef
<1>2. [q EXCEPT ![k] = s] \in [1 .. m -> S]
  BY <1>1
<1> QED BY <1>1, <1>2, SeqDef

(* What is put in memory is a segment.                                     *)
LEMMA SegmentType ==
    ASSUME NEW name \in ProgramNames \cup {<<>>, <<"stack">>}, NEW a \in Word,
           NEW content \in BOOLEAN, NEW body \in Contents
    PROVE  Segment(name, a, content, body) \in Segments
BY DEF Segment, Segments

(* Memory that nobody relocates may be 0.                                  *)
LEMMA ZeroIsWord == 0 \in Word
BY Sizes DEF Word

(* The page of an address does not come after it.                          *)
LEMMA PageOfType == ASSUME NEW a \in Nat PROVE PageOf(a) \in 0 .. a
<1>1. a % Page \in 0 .. a
  BY LoaderAssumption
<1> QED BY <1>1 DEF PageOf

(* The section that is found is one that is taken for the name.            *)
LEMMA Found ==
    ASSUME NEW f \in Files, NEW name, elf_extract_scn_by_name(f, name) # 0
    PROVE  elf_extract_scn_by_name(f, name) \in Matches(f, name)
<1>1. DOMAIN f.sections \subseteq Nat
  <2>1. 1 \in DOMAIN SectionNames
    BY DEF SectionNames
  <2>2. Len(f.sections) \in Nat /\ DOMAIN f.sections = 1 .. Len(f.sections)
    BY <2>1, FilesAssumption
  <2> QED BY <2>2
<1>2. Matches(f, name) # {} /\ Matches(f, name) \subseteq Nat
  BY <1>1 DEF elf_extract_scn_by_name, Matches
<1>3. PICK m \in Matches(f, name) : \A j \in Matches(f, name) : ~ (j < m)
  BY <1>2, LeastPosition
<1>4. \A j \in Matches(f, name) : m <= j
  BY <1>2, <1>3
<1> DEFINE i == CHOOSE i \in Matches(f, name) : \A j \in Matches(f, name) : i <= j
<1>5. i \in Matches(f, name)
  BY <1>4
<1> HIDE DEF i
<1>6. elf_extract_scn_by_name(f, name) \in {0, i}
  BY DEF elf_extract_scn_by_name, i
<1> QED BY <1>5, <1>6

(* What load puts in memory for a section.                                 *)
LEMMA SectionLoaded ==
    ASSUME LoaderInv, file \in Files, NEW n \in DOMAIN SectionNames
    PROVE  /\ elf_load_section_in_memory(SectionNames[n]) \in Segments
           /\ elf_load_section_in_memory(SectionNames[n]).name = SectionNames[n]
<1> DEFINE name == SectionNames[n]
           i == elf_extract_scn_by_name(file, name)
<1>1. name \in ProgramNames /\ next \in Word
  BY DEF ProgramNames, LoaderInv
<1>2. CASE i = 0
  <2>1. elf_load_section_in_memory(name) = Segment(name, 0, FALSE, <<>>)
    BY <1>2 DEF elf_load_section_in_memory
  <2>2. <<>> \in Contents
    BY DEF Contents
  <2>3. Segment(name, 0, FALSE, <<>>) \in Segments
    BY <1>1, <2>2, ZeroIsWord, SegmentType
  <2> QED BY <2>1, <2>3 DEF Segment
<1>3. CASE i # 0
  <2> DEFINE b == file.sections[i].body
             filled == [j \in DOMAIN b |-> IF file.sections[i].bits THEN b[j] ELSE Unknown]
  <2>1. i \in Matches(file, name)
    BY <1>3, Found
  <2>2. b \in Seq(Word)
    BY <2>1, FilesAssumption
  <2>3. elf_load_section_in_memory(name) = Segment(name, next, TRUE, filled)
    BY <1>3 DEF elf_load_section_in_memory, fill_mem_scn
  <2> HIDE DEF b
  <2>4. filled \in Contents
    BY <2>2 DEF Contents
  <2> HIDE DEF filled
  <2>5. Segment(name, next, TRUE, filled) \in Segments
    BY <1>1, <2>4, SegmentType
  <2> QED BY <2>3, <2>5 DEF Segment
<1> QED BY <1>2, <1>3

(* load, up to relocation.                                                 *)
LEMMA InitType == LInit => LoaderInv
<1>1. <<>> \in Seq(Segments) /\ <<1, 1>> \in (Nat \ {0}) \X (Nat \ {0})
  OBVIOUS
<1> QED BY <1>1, ZeroIsWord DEF LInit, LoaderInv

(* A new load: segments without names, not attached.                       *)
LEMMA StartLoadType == LoaderInv /\ StartLoad => LoaderInv'
<1> SUFFICES ASSUME LoaderInv, StartLoad PROVE LoaderInv'
  OBVIOUS
<1>1. PICK f \in Files, a \in Starts :
        /\ file' = f /\ base' = PageOf(a) /\ next' = PageOf(a)
        /\ seg' = init_mem(get_nsegments(symtab') + 1)
  BY DEF StartLoad
<1>2. a \in Nat /\ a \in Word
  BY LoaderAssumption, Sizes
<1>3. PageOf(a) \in Word
  BY <1>2, PageOfType, Sizes DEF Word
<1>4. get_nsegments(symtab') \in Nat
  <2> DEFINE T == {i \in DOMAIN SectionNames : is_in_symbols(SectionNames[i], symtab')}
  <2>1. DOMAIN SectionNames = 1 .. 4
    BY DEF SectionNames
  <2>0. 1 \in Int /\ 4 \in Int
    OBVIOUS
  <2>2. IsFiniteSet(1 .. 4)
    BY <2>0, FS_Interval, Zenon
  <2>3. IsFiniteSet(T)
    BY <2>1, <2>2, FS_Subset, Zenon
  <2> QED BY <2>3, FS_CardinalityType DEF get_nsegments
<1>5. <<>> \in Contents
  BY DEF Contents
<1>6. Unattached \in Segments /\ Unattached.content = FALSE
  BY <1>5, ZeroIsWord, SegmentType DEF Unattached, Segment
<1>7. seg' \in Seq(Segments) /\ \A k \in DOMAIN seg' : seg'[k].content = FALSE
  BY <1>1, <1>4, <1>6 DEF init_mem
<1>8. entry' \in (Nat \ {0}) \X (Nat \ {0}) /\ phase' = "sections" /\ gone' = gone
  BY DEF StartLoad
<1> QED BY <1>1, <1>3, <1>7, <1>8 DEF LoaderInv

(* A section has the types of the file.                                    *)
LEMMA LoadSectionType == LoaderInv /\ LoadSection => LoaderInv'
<1> SUFFICES ASSUME LoaderInv, LoadSection PROVE LoaderInv'
  OBVIOUS
<1> DEFINE name == SectionNames[section]
           s    == elf_load_section_in_memory(name)
<1>1. section \in DOMAIN SectionNames /\ file \in Files /\ phase = "sections"
  BY DEF LoaderInv, LoadSection
<1>2. s \in Segments /\ s.name \in ProgramNames
  BY <1>1, SectionLoaded DEF ProgramNames
<1>3. PageOf(Size(s) + Page) \in Int
  <2>1. Len(s.body) \in Nat
    BY <1>2 DEF Segments, Contents
  <2>2. Size(s) + Page \in Nat
    BY <2>1, LoaderAssumption DEF Size
  <2> QED BY <2>2, PageOfType
<1>4. (seg' = seg /\ next' = next)
      \/ ((\E k : seg' = [seg EXCEPT ![k] = s]) /\ next' = Unsigned(next + Advance(s)))
  BY DEF LoadSection
<1> HIDE DEF s, name
<1>5. next' \in Word
  <2>1. next \in Int /\ next \in Word
    BY Sizes DEF LoaderInv
  <2>2. next + Advance(s) \in Int
    BY <1>3, <2>1 DEF Advance
  <2> QED BY <1>4, <2>1, <2>2, UnsignedType
<1>6. seg' \in Seq(Segments)
      /\ \A k \in DOMAIN seg' : seg'[k].content => seg'[k].name \in ProgramNames
  <2>1. seg \in Seq(Segments)
        /\ \A k \in DOMAIN seg : seg[k].content => seg[k].name \in ProgramNames
    BY <1>1 DEF LoaderInv
  <2>2. ASSUME NEW k, seg' = [seg EXCEPT ![k] = s]
        PROVE  seg' \in Seq(Segments)
               /\ \A i \in DOMAIN seg' : seg'[i] = seg[i] \/ seg'[i] = s
    <3>1. seg' \in Seq(Segments) /\ DOMAIN seg' = DOMAIN seg
      BY <1>2, <2>1, <2>2, ExceptType
    <3>2. ASSUME NEW i \in DOMAIN seg' PROVE seg'[i] = seg[i] \/ seg'[i] = s
      BY <2>1, <2>2, <3>1, <3>2
    <3> QED BY <3>1, <3>2
  <2>3. ASSUME NEW k, seg' = [seg EXCEPT ![k] = s] PROVE DOMAIN seg' = DOMAIN seg
    BY <2>1, <2>3, <1>2, ExceptType
  <2> QED BY <1>2, <1>4, <2>1, <2>2, <2>3
<1>7. entry' = entry /\ phase' = phase /\ gone' = gone /\ file' = file /\ base' = base
  BY DEF LoadSection
<1> QED BY <1>1, <1>5, <1>6, <1>7 DEF LoaderInv

(* A segment of the memory is one of Segments.                             *)
LEMMA SegType ==
    ASSUME LoaderInv, NEW k \in DOMAIN seg
    PROVE  /\ seg[k] \in Segments
           /\ seg[k].start \in Word /\ seg[k].start \in Int /\ seg[k].body \in Contents
<1>1. seg[k] \in Segments
  BY DEF LoaderInv
<1>2. seg[k].start \in Word /\ seg[k].body \in Contents
  BY <1>1 DEF Segments
<1>3. Word \subseteq Int
  BY Sizes
<1> QED BY <1>1, <1>2, <1>3

(* The segment of an address is one that has it.                           *)
LEMMA SegmentHit ==
    ASSUME LoaderInv, NEW a, SegmentOf(a) # 0
    PROVE  LET k == SegmentOf(a)
           IN  k \in DOMAIN seg /\ seg[k].start <= a /\ a <= Unsigned(seg[k].start + Size(seg[k]))
<1> DEFINE hits == {k \in DOMAIN seg :
                      seg[k].start <= a /\ a <= Unsigned(seg[k].start + Size(seg[k]))}
           i == CHOOSE k \in hits : \A j \in hits : j <= k
<1>1. hits # {} /\ SegmentOf(a) = i
  BY DEF SegmentOf
<1>2. PICK m \in Nat : DOMAIN seg = 1 .. m
  BY DEF LoaderInv
<1>3. hits \in SUBSET (1 .. m)
  BY <1>2
<1>4. \E k \in hits : \A j \in hits : j <= k
  <2> HIDE DEF hits
  <2> QED
    BY <1>1, <1>2, <1>3, GreatestPosition
<1>5. i \in hits
  <2> HIDE DEF hits
  <2> QED
    BY <1>4
<1> QED
  BY <1>1, <1>5

(* An access finds a segment, or none.                                     *)
LEMMA SegmentFound ==
    ASSUME LoaderInv, NEW a PROVE SegmentOf(a) = 0 \/ SegmentOf(a) \in DOMAIN seg
BY SegmentHit

(* What an access reads is a word, or not known.                           *)
LEMMA LoadmemType == ASSUME LoaderInv, NEW a PROVE loadmem(a) \in Word \cup {Unknown}
<1> DEFINE k == SegmentOf(a)
           n == PositionOf(a, k)
<1>1. loadmem(a) \in {0, Unknown}
      \/ (k # 0 /\ n \in DOMAIN seg[k].body /\ loadmem(a) = seg[k].body[n])
  BY DEF loadmem
<1>2. k # 0 => seg[k].body \in Contents
  BY SegmentFound, SegType
<1> HIDE DEF k, n
<1> QED BY <1>1, <1>2, ZeroIsWord DEF Contents

(* storemem changes only what is in a segment.                             *)
LEMMA StorememTyped ==
    ASSUME LoaderInv, NEW a, NEW w \in Word \cup {Unknown}, storemem(a, w)
    PROVE  /\ seg' \in Seq(Segments) /\ DOMAIN seg' = DOMAIN seg
           /\ \A k \in DOMAIN seg : seg'[k].content = seg[k].content
                                  /\ seg'[k].name = seg[k].name
<1> DEFINE k == SegmentOf(a)
           n == PositionOf(a, k)
           s == [seg[k] EXCEPT !.body = [@ EXCEPT ![n] = w]]
<1>1. seg' = seg \/ (k # 0 /\ seg' = [seg EXCEPT ![k].body[n] = w])
  BY DEF storemem
<1>2. CASE seg' = seg
  BY <1>2 DEF LoaderInv
<1>3. CASE k # 0 /\ seg' = [seg EXCEPT ![k].body[n] = w]
  <2>1. k \in DOMAIN seg
    BY <1>3, SegmentFound
  <2> HIDE DEF k, n
  <2>2. seg[k] \in Segments /\ seg[k].body \in Seq(Word \cup {Unknown})
    BY <2>1, SegType DEF Contents
  <2>3. [seg[k].body EXCEPT ![n] = w] \in Contents
    BY <2>2, ExceptType DEF Contents
  <2>4. s \in Segments /\ s.content = seg[k].content /\ s.name = seg[k].name
    BY <2>2, <2>3 DEF Segments
  <2>5. seg' = [seg EXCEPT ![k] = s]
    BY <1>3
  <2> HIDE DEF s
  <2>6. seg \in Seq(Segments)
    BY DEF LoaderInv
  <2>7. seg' \in Seq(Segments) /\ DOMAIN seg' = DOMAIN seg
    BY <2>4, <2>5, <2>6, ExceptType
  <2>8. ASSUME NEW i \in DOMAIN seg
        PROVE  seg'[i].content = seg[i].content /\ seg'[i].name = seg[i].name
    <3>1. seg'[i] = IF i = k THEN s ELSE seg[i]
      BY <2>5, <2>6, <2>8
    <3> QED BY <2>4, <3>1
  <2> QED BY <2>7, <2>8
<1> QED BY <1>1, <1>2, <1>3

(* An entry of a section is one of the file.                               *)
LEMMA EntryType ==
    ASSUME LoaderInv, phase = "relocation", NEW k \in DOMAIN seg, NEW n \in DOMAIN Entries(k)
    PROVE  Entries(k)[n].offset \in Nat
<1>1. seg[k].content
  BY DEF Entries
<1>2. PICK m \in DOMAIN SectionNames : seg[k].name = SectionNames[m]
  BY <1>1 DEF LoaderInv, ProgramNames
<1> DEFINE name == <<"rel">> \o SectionNames[m]
           i == elf_extract_scn_by_name(file, name)
<1>3. Entries(k) = EntriesFor(file, SectionNames[m])
  BY <1>2 DEF Entries
<1>4. i # 0 /\ Entries(k) = file.sections[i].body
  BY <1>3 DEF EntriesFor
<1>5. file \in Files
  BY DEF LoaderInv
<1>6. i \in Matches(file, name)
  BY <1>4, <1>5, Found
<1> HIDE DEF i
<1>7. \A j \in DOMAIN file.sections[i].body : file.sections[i].body[j].offset \in Nat
  BY <1>5, <1>6, FilesAssumption
<1> QED BY <1>4, <1>7

(* An entry stores one word, or an unknown one, at its address.            *)
LEMMA ApplyStores ==
    ASSUME LoaderInv, NEW e, NEW p \in Word, Apply(e, p)
    PROVE  \E w \in Word \cup {Unknown} : storemem(p, w)
<1> DEFINE w  == loadmem(p)
           lo == loadmem(Unsigned(p + 4))
           s  == StartFor(e)
           v  == IF Unknown \in Operands(e.type, w, lo, s) THEN Unknown
                 ELSE Relocated(e.type, p, w, lo, s)
<1>1. w \in Word \cup {Unknown} /\ lo \in Word \cup {Unknown}
  BY LoadmemType
<1>2. s \in Word \cup {Unknown}
  BY SegType DEF StartFor
<1>3. storemem(p, v)
  BY DEF Apply
<1> HIDE DEF w, lo, s
<1>4. v \in Word \cup {Unknown}
  <2>1. CASE Unknown \in Operands(e.type, w, lo, s)
    BY <2>1
  <2>2. CASE Unknown \notin Operands(e.type, w, lo, s)
    <3>1. w # Unknown /\ (e.type \in Supported => s # Unknown)
          /\ (e.type = "HI16" => lo # Unknown)
      BY <2>2 DEF Operands
    <3>2. w \in Word /\ (e.type \in Supported => s \in Word)
          /\ (e.type = "HI16" => lo \in Word)
      BY <1>1, <1>2, <3>1
    <3>3. Relocated(e.type, p, w, lo, s) \in Word
      BY <3>2, RelocatedType
    <3> QED BY <2>2, <3>3
  <2> QED BY <2>1, <2>2
<1> HIDE DEF v
<1> QED BY <1>3, <1>4

(* An entry changes only what is in a segment.                             *)
LEMMA ApplyTyped ==
    ASSUME LoaderInv, NEW e, NEW p \in Word, Apply(e, p)
    PROVE  /\ seg' \in Seq(Segments) /\ DOMAIN seg' = DOMAIN seg
           /\ \A k \in DOMAIN seg : seg'[k].content = seg[k].content
                                  /\ seg'[k].name = seg[k].name
BY ApplyStores, StorememTyped

(* So does the step for it.                                                *)
LEMMA RelocateEntryType == LoaderInv /\ RelocateEntry => LoaderInv'
<1> SUFFICES ASSUME LoaderInv, RelocateEntry PROVE LoaderInv'
  OBVIOUS
<1> DEFINE k == entry[1]
           n == entry[2]
           e == Entries(k)[n]
           p == AddressOf(k, e)
<1>1. k \in Nat \ {0} /\ n \in Nat \ {0} /\ entry = <<k, n>> /\ phase = "relocation"
  BY DEF LoaderInv, RelocateEntry
<1>2. k \in DOMAIN seg /\ n \in DOMAIN Entries(k)
  BY <1>1 DEF LoaderInv, RelocateEntry
<1>3. entry' \in (Nat \ {0}) \X (Nat \ {0})
  BY <1>1 DEF RelocateEntry
<1>4. p \in Word
  <2>1. e.offset \in Nat /\ seg[k].start \in Int
    BY <1>1, <1>2, EntryType, SegType
  <2> HIDE DEF e
  <2> QED BY <2>1, UnsignedType DEF AddressOf
<1>5. (gone' \in {"signal", "exit"} /\ seg' = seg) \/ (Apply(e, p) /\ gone' = gone)
  BY DEF RelocateEntry
<1> HIDE DEF p, e
<1>6. /\ seg' \in Seq(Segments) /\ DOMAIN seg' = DOMAIN seg
      /\ \A i \in DOMAIN seg : seg'[i].content = seg[i].content /\ seg'[i].name = seg[i].name
  BY <1>4, <1>5, ApplyTyped DEF LoaderInv
<1>7. phase' = phase /\ file' = file /\ next' = next /\ base' = base
  BY DEF RelocateEntry
<1>8. gone' \in {"no", "exit", "signal"}
  BY <1>5 DEF LoaderInv
<1> HIDE DEF k, n
<1> QED BY <1>1, <1>3, <1>6, <1>7, <1>8 DEF LoaderInv

(* The stack holds words.                                                  *)
LEMMA AttachStackType == LoaderInv /\ AttachStack => LoaderInv'
<1> SUFFICES ASSUME LoaderInv, AttachStack PROVE LoaderInv'
  OBVIOUS
<1>1. PICK s \in StackSegments : \E k : seg' = [seg EXCEPT ![k] = s]
  BY DEF AttachStack
<1>2. <<>> \in Contents /\ [k \in 1 .. StackWords |-> 0] \in Contents
  BY LoaderAssumption, ZeroIsWord DEF Contents
<1>3. s \in Segments
  BY <1>2, ZeroIsWord, LoaderAssumption, SegmentType DEF StackSegments
<1>4. seg' \in Seq(Segments)
  BY <1>1, <1>3, ExceptType DEF LoaderInv
<1>5. phase' = "ready" /\ file' = file /\ next' = next /\ base' = base /\ entry' = entry
      /\ phase = "relocation" /\ gone' \in {"no", "signal"}
  BY DEF AttachStack
<1> QED BY <1>4, <1>5 DEF LoaderInv

(* LoaderInv is inductive.                                                 *)
LEMMA LoaderInvStep == LoaderInv /\ [LNext]_lvars => LoaderInv'
<1> SUFFICES ASSUME LoaderInv, [LNext]_lvars PROVE LoaderInv'
  OBVIOUS
<1>1. CASE SectionsDone
  BY <1>1 DEF SectionsDone, LoaderInv
<1>2. CASE NextSegment
  <2>1. entry' \in (Nat \ {0}) \X (Nat \ {0})
    BY <1>2 DEF NextSegment, LoaderInv
  <2> QED BY <1>2, <2>1 DEF NextSegment, LoaderInv
<1>3. CASE UNCHANGED lvars
  BY <1>3 DEF lvars, LoaderInv
<1> QED
  BY <1>1, <1>2, <1>3, StartLoadType, LoadSectionType, RelocateEntryType, AttachStackType
     DEF LNext

(* Whatever files are loaded, one after the other, and whatever their      *)
(* entries ask for, the segments lie in the address space and hold words.  *)
THEOREM ImageTyped == LSpec => []LTypeOK
BY LoaderInvStep, InitType, LoaderInvTypes, PTL DEF LSpec

-----------------------------------------------------------------------------
(* The places of the sections                                              *)

(* A sum over some of four numbers, as a fold that takes them one by one.  *)
FourSum(r, s) ==
    (IF 1 \in s THEN r[1] ELSE 0) + (IF 2 \in s THEN r[2] ELSE 0)
      + (IF 3 \in s THEN r[3] ELSE 0) + (IF 4 \in s THEN r[4] ELSE 0)

(* The sum over the sections before n, unrolled: the next term.            *)
LEMMA FourSumStep ==
    ASSUME NEW r \in [1 .. 4 -> Int], NEW s \in SUBSET (1 .. 4), NEW x \in s
    PROVE  FourSum(r, s) = r[x] + FourSum(r, s \ {x})
<1>1. r[1] \in Int /\ r[2] \in Int /\ r[3] \in Int /\ r[4] \in Int
  OBVIOUS
<1>2. x = 1 \/ x = 2 \/ x = 3 \/ x = 4
  OBVIOUS
<1> QED
  BY <1>1, <1>2 DEF FourSum

(* Any fold that adds up a set in some order has this sum.                 *)
LEMMA FoldSums ==
    ASSUME NEW r \in [1 .. 4 -> Int], NEW S \in SUBSET (1 .. 4), NEW iter,
           iter = CHOOSE g : g = [s \in SUBSET S |->
                         IF s = {} THEN 0
                         ELSE LET x == CHOOSE x \in s : TRUE
                              IN  r[x] + g[s \ {x}]]
    PROVE  iter[S] = FourSum(r, S)
<1> DEFINE g0 == [s \in SUBSET S |-> FourSum(r, s)]
           Step(g) == [s \in SUBSET S |->
                         IF s = {} THEN 0
                         ELSE LET x == CHOOSE x \in s : TRUE
                              IN  r[x] + g[s \ {x}]]
<1>1. g0 = Step(g0)
  <2>1. ASSUME NEW s \in SUBSET S
        PROVE  g0[s] = IF s = {} THEN 0
                       ELSE LET x == CHOOSE x \in s : TRUE IN r[x] + g0[s \ {x}]
    <3>1. CASE s = {}
      BY <3>1 DEF FourSum
    <3>2. CASE s # {}
      <4> DEFINE x == CHOOSE x \in s : TRUE
      <4>1. x \in s
        BY <3>2
      <4>2. s \ {x} \in SUBSET S
        OBVIOUS
      <4> HIDE DEF x
      <4>3. FourSum(r, s) = r[x] + FourSum(r, s \ {x})
        BY <4>1, FourSumStep
      <4>4. g0[s] = FourSum(r, s) /\ g0[s \ {x}] = FourSum(r, s \ {x})
        BY <4>2
      <4> HIDE DEF g0
      <4> QED
        BY <3>2, <4>3, <4>4 DEF x
    <3> QED
      BY <3>1, <3>2
  <2> QED
    BY <2>1
<1>2. iter = Step(iter)
  <2>1. iter = CHOOSE g : g = Step(g)
    BY Zenon
  <2> HIDE DEF Step
  <2> QED
    BY <1>1, <2>1, Zenon
<1> HIDE DEF g0
<1>3. ASSUME NEW s \in SUBSET S, \A x \in s : iter[s \ {x}] = FourSum(r, s \ {x})
      PROVE  iter[s] = FourSum(r, s)
  <2>1. iter[s] = IF s = {} THEN 0
                  ELSE LET x == CHOOSE x \in s : TRUE IN r[x] + iter[s \ {x}]
    BY <1>2
  <2>2. CASE s = {}
    BY <2>1, <2>2 DEF FourSum
  <2>3. CASE s # {}
    <3> DEFINE x == CHOOSE x \in s : TRUE
    <3>1. x \in s /\ iter[s] = r[x] + iter[s \ {x}]
      BY <2>1, <2>3
    <3> HIDE DEF x
    <3>2. iter[s \ {x}] = FourSum(r, s \ {x})
      BY <1>3, <3>1
    <3>3. s \in SUBSET (1 .. 4)
      OBVIOUS
    <3>4. FourSum(r, s) = r[x] + FourSum(r, s \ {x})
      BY <3>1, <3>3, FourSumStep
    <3> QED
      BY <3>1, <3>2, <3>4
  <2> QED
    BY <2>2, <2>3
<1> HIDE DEF Step
<1> DEFINE ones == [k \in 1 .. 4 |-> 1]
           size(s) == FourSum(ones, s)
<1>4. ASSUME NEW s \in SUBSET S
      PROVE  size(s) \in 0 .. 4 /\ \A x \in s : size(s \ {x}) = size(s) - 1
  <2>1. size(s) \in 0 .. 4
    BY DEF FourSum
  <2>2. ASSUME NEW x \in s PROVE size(s \ {x}) = size(s) - 1
    <3>1. ones \in [1 .. 4 -> Int] /\ ones[x] = 1 /\ s \in SUBSET (1 .. 4)
      OBVIOUS
    <3>2. FourSum(ones, s) = ones[x] + FourSum(ones, s \ {x})
      BY <3>1, FourSumStep
    <3>3. FourSum(ones, s \ {x}) \in Int
      BY DEF FourSum
    <3> QED
      BY <3>1, <3>2, <3>3
  <2> QED
    BY <2>1, <2>2
<1> HIDE DEF size
<1> DEFINE Upto(k) == \A s \in SUBSET S : size(s) <= k => iter[s] = FourSum(r, s)
<1>5. ASSUME NEW k \in Int, Upto(k - 1) PROVE Upto(k)
  <2> TAKE s \in SUBSET S
  <2> HAVE size(s) <= k
  <2>1. \A x \in s : s \ {x} \in SUBSET S /\ size(s \ {x}) <= k - 1
    BY <1>4
  <2>2. \A x \in s : iter[s \ {x}] = FourSum(r, s \ {x})
    BY <1>5, <2>1
  <2> QED
    BY <1>3, <2>2
<1>6. Upto(-1)
  BY <1>4
<1>7. Upto(0) /\ Upto(1) /\ Upto(2) /\ Upto(3) /\ Upto(4)
  <2> HIDE DEF Upto
  <2>1. /\ 0 - 1 = -1 /\ 1 - 1 = 0 /\ 2 - 1 = 1 /\ 3 - 1 = 2 /\ 4 - 1 = 3
    OBVIOUS
  <2>2. Upto(0)
    BY <1>5, <1>6, <2>1
  <2>3. Upto(1)
    BY <1>5, <2>1, <2>2
  <2>4. Upto(2)
    BY <1>5, <2>1, <2>3
  <2>5. Upto(3)
    BY <1>5, <2>1, <2>4
  <2> QED
    BY <1>5, <2>1, <2>2, <2>3, <2>4, <2>5
<1>8. S \in SUBSET S /\ size(S) <= 4
  BY <1>4
<1> QED
  BY <1>7, <1>8

(* The place of a section is the sum of the room of those before it.       *)
LEMMA PlaceIsSum ==
    ASSUME NEW f, NEW start, NEW n \in 1 .. 5,
           \A m \in 1 .. 4 : Abi!Room(f, SectionNames[m]) \in Int
    PROVE  Abi!Place(f, start, SectionNames, n) =
              start + FourSum([m \in 1 .. 4 |-> Abi!Room(f, SectionNames[m])], 1 .. (n - 1))
<1> DEFINE r == [m \in 1 .. 4 |-> Abi!Room(f, SectionNames[m])]
           S == 1 .. (n - 1)
           Step(g) == [s \in SUBSET S |->
                         IF s = {} THEN 0
                         ELSE LET x == CHOOSE x \in s : TRUE
                              IN  Abi!Room(f, SectionNames[x]) + g[s \ {x}]]
           StepR(g) == [s \in SUBSET S |->
                         IF s = {} THEN 0
                         ELSE LET x == CHOOSE x \in s : TRUE
                              IN  r[x] + g[s \ {x}]]
           iter == CHOOSE g : g = Step(g)
<1>1. Abi!Place(f, start, SectionNames, n) = start + iter[S]
  BY Zenon DEF Abi!Place, Abi!MapThenSumSet, Abi!MapThenFoldSet
<1>2. S \in SUBSET (1 .. 4) /\ r \in [1 .. 4 -> Int]
  OBVIOUS
<1>3. ASSUME NEW g PROVE Step(g) = StepR(g)
  <2>1. ASSUME NEW s \in SUBSET S, s # {}
        PROVE  Abi!Room(f, SectionNames[CHOOSE x \in s : TRUE]) = r[CHOOSE x \in s : TRUE]
    <3> DEFINE x == CHOOSE x \in s : TRUE
    <3>1. x \in s
      BY <2>1
    <3>2. x \in 1 .. 4
      BY <1>2, <3>1
    <3> HIDE DEF x
    <3>3. Abi!Room(f, SectionNames[x]) = r[x]
      BY <3>2
    <3> QED
      BY <3>3 DEF x
  <2> HIDE DEF S, r
  <2>2. ASSUME NEW s \in SUBSET S
        PROVE  (IF s = {} THEN 0
                ELSE LET x == CHOOSE x \in s : TRUE
                     IN  Abi!Room(f, SectionNames[x]) + g[s \ {x}])
             = (IF s = {} THEN 0
                ELSE LET x == CHOOSE x \in s : TRUE
                     IN  r[x] + g[s \ {x}])
    BY <2>1
  <2> QED
    BY <2>2
<1>4. iter = CHOOSE g : g = StepR(g)
  <2> HIDE DEF Step, StepR
  <2>1. \A g : (g = Step(g)) <=> (g = StepR(g))
    BY <1>3
  <2> QED
    BY <2>1, Zenon
<1> HIDE DEF iter
<1>5. iter[S] = FourSum(r, S)
  <2> HIDE DEF r, S
  <2> QED
  BY <1>2, <1>4, FoldSums, Zenon
<1> QED
  BY <1>1, <1>5

(* The places of the sections, one after the other.                        *)
LEMMA Places ==
    ASSUME NEW f, NEW start \in Int, \A m \in 1 .. 4 : Abi!Room(f, SectionNames[m]) \in Int
    PROVE  /\ Abi!Place(f, start, SectionNames, 1) = start
           /\ \A n \in 1 .. 5 : Abi!Place(f, start, SectionNames, n) \in Int
           /\ \A n \in 1 .. 4 :
                Abi!Place(f, start, SectionNames, n + 1)
                   = Abi!Place(f, start, SectionNames, n) + Abi!Room(f, SectionNames[n])
<1> DEFINE r == [m \in 1 .. 4 |-> Abi!Room(f, SectionNames[m])]
           At(n) == Abi!Place(f, start, SectionNames, n)
<1>1. r \in [1 .. 4 -> Int]
  OBVIOUS
<1>2. ASSUME NEW n \in 1 .. 5 PROVE At(n) = start + FourSum(r, 1 .. (n - 1))
  BY PlaceIsSum
<1>3. ASSUME NEW n \in 1 .. 4 PROVE Abi!Room(f, SectionNames[n]) = r[n]
  OBVIOUS
<1> HIDE DEF r, At
<1>4. r[1] \in Int /\ r[2] \in Int /\ r[3] \in Int /\ r[4] \in Int
  BY <1>1
<1>5. /\ At(1) = start
      /\ At(2) = start + r[1]
      /\ At(3) = start + (r[1] + r[2])
      /\ At(4) = start + (r[1] + r[2] + r[3])
      /\ At(5) = start + (r[1] + r[2] + r[3] + r[4])
  <2>1. 1 \in 1 .. 5 /\ 2 \in 1 .. 5 /\ 3 \in 1 .. 5 /\ 4 \in 1 .. 5 /\ 5 \in 1 .. 5
    OBVIOUS
  <2>2. /\ FourSum(r, 1 .. (1 - 1)) = 0
        /\ FourSum(r, 1 .. (2 - 1)) = r[1]
        /\ FourSum(r, 1 .. (3 - 1)) = r[1] + r[2]
        /\ FourSum(r, 1 .. (4 - 1)) = r[1] + r[2] + r[3]
        /\ FourSum(r, 1 .. (5 - 1)) = r[1] + r[2] + r[3] + r[4]
    BY <1>4 DEF FourSum
  <2> QED
    BY <1>2, <2>1, <2>2, <1>4
<1>6. At(1) = start /\ \A n \in 1 .. 5 : At(n) \in Int
  <2>1. \A n \in 1 .. 5 : n = 1 \/ n = 2 \/ n = 3 \/ n = 4 \/ n = 5
    OBVIOUS
  <2> QED
    BY <1>4, <1>5, <2>1
<1>7. ASSUME NEW n \in 1 .. 4 PROVE At(n + 1) = At(n) + r[n]
  <2>1. n = 1 \/ n = 2 \/ n = 3 \/ n = 4
    OBVIOUS
  <2> QED
    BY <1>4, <1>5, <2>1
<1> QED
  BY <1>3, <1>6, <1>7 DEF At

-----------------------------------------------------------------------------
(* The numbers of the segments                                             *)

Rank(S, n) == Cardinality({m \in S : m <= n})

(* How many members of a set are up to a number, one number after another. *)
LEMMA RankBasics ==
    ASSUME NEW S \in SUBSET (1 .. 4)
    PROVE  /\ \A n \in 0 .. 4 : Rank(S, n) \in Nat
           /\ Rank(S, 0) = 0 /\ Rank(S, 4) = Cardinality(S)
           /\ \A n \in 0 .. 3 : Rank(S, n + 1) = IF n + 1 \in S THEN Rank(S, n) + 1 ELSE Rank(S, n)
<1>1. IsFiniteSet(1 .. 4)
  <2>1. 1 \in Int /\ 4 \in Int
    OBVIOUS
  <2> QED
    BY <2>1, FS_Interval, Zenon
<1>2. ASSUME NEW n \in 0 .. 4 PROVE IsFiniteSet({m \in S : m <= n})
  <2>1. {m \in S : m <= n} \in SUBSET (1 .. 4)
    OBVIOUS
  <2> QED
    BY <1>1, <2>1, FS_Subset, Zenon
<1>3. \A n \in 0 .. 4 : Rank(S, n) \in Nat
  BY <1>2, FS_CardinalityType DEF Rank
<1>0. \A m \in S : m \in Int /\ m >= 1 /\ m <= 4
  OBVIOUS
<1>4. {m \in S : m <= 0} = {} /\ {m \in S : m <= 4} = S
  <2>1. \A m \in S : ~ (m <= 0)
    BY <1>0
  <2> QED
    BY <1>0, <2>1, Zenon
<1>5. Rank(S, 0) = 0 /\ Rank(S, 4) = Cardinality(S)
  BY <1>4, FS_EmptySet DEF Rank
<1>6. ASSUME NEW n \in 0 .. 3
      PROVE  Rank(S, n + 1) = IF n + 1 \in S THEN Rank(S, n) + 1 ELSE Rank(S, n)
  <2> DEFINE T == {m \in S : m <= n}
             U == {m \in S : m <= n + 1}
  <2>1. IsFiniteSet(T) /\ n + 1 \notin T
    BY <1>2
  <2>2. CASE n + 1 \in S
    <3>1. U = T \cup {n + 1}
      <4>1. \A m \in S : m <= n + 1 <=> m <= n \/ m = n + 1
        BY <1>0
      <4>2. n + 1 <= n + 1
        OBVIOUS
      <4> QED
        BY <2>2, <4>1, <4>2, Zenon
    <3> HIDE DEF T, U
    <3>2. Cardinality(U) = Cardinality(T) + 1
      BY <2>1, <3>1, FS_AddElement
    <3> QED
      BY <2>2, <3>2 DEF Rank, T, U
  <2>3. CASE n + 1 \notin S
    <3>1. U = T
      <4>1. \A m \in S : m <= n + 1 <=> m <= n \/ m = n + 1
        BY <1>0
      <4> QED
        BY <2>3, <4>1, Zenon
    <3> HIDE DEF T, U
    <3> QED
      BY <2>3, <3>1 DEF Rank, T, U
  <2> QED
    BY <2>2, <2>3
<1> QED
  BY <1>3, <1>5, <1>6

(* The rank grows at each member, so members have ranks of their own, from *)
(* 1 to the size of the set.                                               *)
LEMMA RankOrder ==
    ASSUME NEW S \in SUBSET (1 .. 4), NEW n \in S
    PROVE  /\ Rank(S, n) = Rank(S, n - 1) + 1
           /\ Rank(S, n) \in 1 .. Cardinality(S) /\ Cardinality(S) \in Nat
           /\ \A m \in S : m < n => Rank(S, m) < Rank(S, n)
<1> DEFINE c(k) == Rank(S, k)
<1>1. c(0) \in Nat /\ c(1) \in Nat /\ c(2) \in Nat /\ c(3) \in Nat /\ c(4) \in Nat
  BY RankBasics
<1>2. /\ c(1) = IF 1 \in S THEN c(0) + 1 ELSE c(0)
      /\ c(2) = IF 2 \in S THEN c(1) + 1 ELSE c(1)
      /\ c(3) = IF 3 \in S THEN c(2) + 1 ELSE c(2)
      /\ c(4) = IF 4 \in S THEN c(3) + 1 ELSE c(3)
      /\ c(4) = Cardinality(S)
  <2>1. \A k \in 0 .. 3 : Rank(S, k + 1) = IF k + 1 \in S THEN Rank(S, k) + 1 ELSE Rank(S, k)
    BY RankBasics
  <2>2. 0 + 1 = 1 /\ 1 + 1 = 2 /\ 2 + 1 = 3 /\ 3 + 1 = 4
    OBVIOUS
  <2> QED
    BY <2>1, <2>2, RankBasics
<1> HIDE DEF c
<1>3. \A k \in S : k \in {1, 2, 3, 4}
  OBVIOUS
<1>4. n - 1 \in {0, 1, 2, 3} /\ 1 - 1 = 0 /\ 2 - 1 = 1 /\ 3 - 1 = 2 /\ 4 - 1 = 3
  BY <1>3
<1>5. c(n) = c(n - 1) + 1 /\ c(n) \in 1 .. Cardinality(S) /\ Cardinality(S) \in Nat
  BY <1>1, <1>2, <1>3, <1>4
<1>6. ASSUME NEW m \in S, m < n PROVE c(m) < c(n)
  BY <1>1, <1>2, <1>3, <1>6
<1> QED
  BY <1>5, <1>6 DEF c

-----------------------------------------------------------------------------
(* The sections of a file                                                  *)

(* The four names, none empty, each a prefix of itself.                    *)
LEMMA FourNames == DOMAIN SectionNames = 1 .. 4 /\ \A n \in 1 .. 4 : SectionNames[n] # <<>>
BY DEF SectionNames

(* A name begins with itself.                                              *)
LEMMA PrefixOfItself == ASSUME NEW n \in 1 .. 4 PROVE IsPrefix(SectionNames[n], SectionNames[n])
<1>1. n = 1 \/ n = 2 \/ n = 3 \/ n = 4
  OBVIOUS
<1>2. /\ SectionNames[1] = <<"text">> /\ SectionNames[2] = <<"rodata">>
      /\ SectionNames[3] = <<"data">> /\ SectionNames[4] = <<"bss">>
  BY DEF SectionNames
<1>3. Len(SectionNames[n]) \in Nat
  BY <1>1, <1>2
<1> QED
  BY <1>3 DEF IsPrefix

(* A section that is the only one taken for its name is found by its name. *)
LEMMA OnlySection ==
    ASSUME NEW f \in Files, NEW n \in 1 .. 4, Cardinality(Matches(f, SectionNames[n])) <= 1,
           NEW i \in DOMAIN f.sections, f.sections[i].name = SectionNames[n]
    PROVE  /\ Matches(f, SectionNames[n]) = {i}
           /\ \A j \in DOMAIN f.sections : f.sections[j].name = SectionNames[n] => j = i
           /\ f.sections[i].body \in Seq(Word)
<1> DEFINE name == SectionNames[n]
           M == Matches(f, name)
<1>1. n \in DOMAIN SectionNames
  BY FourNames
<1>2. Len(f.sections) \in Nat /\ DOMAIN f.sections = 1 .. Len(f.sections)
  BY <1>1, FilesAssumption
<1>3. IsFiniteSet(M)
  <2>1. 1 \in Int /\ Len(f.sections) \in Int
    BY <1>2
  <2>2. IsFiniteSet(DOMAIN f.sections)
    BY <1>2, <2>1, FS_Interval, Zenon
  <2>3. M \in SUBSET DOMAIN f.sections
    BY DEF Matches
  <2> QED
    BY <2>2, <2>3, FS_Subset, Zenon
<1>4. i \in M
  BY PrefixOfItself DEF Matches
<1>5. ASSUME NEW j \in M PROVE j = i
  <2> SUFFICES ASSUME j # i PROVE FALSE
    OBVIOUS
  <2> DEFINE T == {i}
             U == T \cup {j}
  <2>1. IsFiniteSet(T) /\ Cardinality(T) = 1
    BY FS_Singleton
  <2>2. Cardinality(U) = 2
    <3>1. j \notin T
      BY <2>1
    <3> HIDE DEF T
    <3>2. Cardinality(T \cup {j}) = Cardinality(T) + 1
      BY <2>1, <3>1, FS_AddElement
    <3> QED
      BY <2>1, <3>2
  <2>3. U \in SUBSET M
    BY <1>4, <1>5
  <2> HIDE DEF U, M
  <2>4. Cardinality(U) <= Cardinality(M) /\ Cardinality(M) <= 1
    <3>1. Cardinality(U) <= Cardinality(M)
      BY <1>3, <2>3, FS_Subset
    <3> QED
      BY <3>1 DEF M
  <2>5. Cardinality(M) \in Nat
    BY <1>3, FS_CardinalityType
  <2> QED
    BY <2>2, <2>4, <2>5
<1>6. M = {i}
  BY <1>4, <1>5
<1>7. \A j \in DOMAIN f.sections : f.sections[j].name = name => j \in M
  BY PrefixOfItself DEF Matches
<1>8. f.sections[i].body \in Seq(Word)
  BY <1>1, <1>4, FilesAssumption
<1> QED
  BY <1>5, <1>6, <1>7, <1>8

(* The section of the ABI, and how much room it takes whole or cut short.  *)
CutBody(f, i) == IF f.sections[i].cut THEN <<>> ELSE f.sections[i].body

(* The section that has a name is the one the search finds, when no other  *)
(* is taken for it.                                                        *)
LEMMA SectionOf ==
    ASSUME NEW f \in Files, NEW n \in 1 .. 4, Cardinality(Matches(f, SectionNames[n])) <= 1,
           Abi!SectionNamed(f, SectionNames[n]) # 0
    PROVE  LET i == Abi!SectionNamed(f, SectionNames[n])
           IN  /\ i \in DOMAIN f.sections /\ f.sections[i].name = SectionNames[n]
               /\ Matches(f, SectionNames[n]) = {i}
               /\ f.sections[i].body \in Seq(Word)
               /\ Abi!Room(f, SectionNames[n]) = PageOf(4 * Len(f.sections[i].body) + Page)
               /\ Abi!Room(CutShort(f), SectionNames[n]) = PageOf(4 * Len(CutBody(f, i)) + Page)
<1> DEFINE name == SectionNames[n]
           i == Abi!SectionNamed(f, name)
           g == CutShort(f)
<1>1. i \in DOMAIN f.sections /\ f.sections[i].name = name
  BY DEF Abi!SectionNamed
<1> HIDE DEF i
<1>2. /\ Matches(f, name) = {i} /\ f.sections[i].body \in Seq(Word)
      /\ \A j \in DOMAIN f.sections : f.sections[j].name = name => j = i
  BY <1>1, OnlySection
<1>3. Abi!Room(f, name) = PageOf(4 * Len(f.sections[i].body) + Page)
  BY <1>1 DEF Abi!Room, Abi!BodyOf, PageOf, i
<1>4. /\ DOMAIN g.sections = DOMAIN f.sections
      /\ \A j \in DOMAIN f.sections : g.sections[j].name = f.sections[j].name
      /\ \A j \in DOMAIN f.sections : g.sections[j].body = CutBody(f, j)
  BY DEF CutShort, CutBody
<1> HIDE DEF g
<1>5. Abi!SectionNamed(g, name) = i
  BY <1>1, <1>2, <1>4 DEF Abi!SectionNamed
<1>6. i # 0
  BY DEF i
<1>7. Abi!Room(g, name) = PageOf(4 * Len(CutBody(f, i)) + Page)
  BY <1>1, <1>4, <1>5, <1>6 DEF Abi!Room, Abi!BodyOf, PageOf
<1> QED
  BY <1>1, <1>2, <1>3, <1>7 DEF i, g

(* One that is not there takes none.                                       *)
LEMMA NoSection ==
    ASSUME NEW f \in Files, NEW n \in 1 .. 4, Abi!SectionNamed(f, SectionNames[n]) = 0
    PROVE  /\ Abi!Room(f, SectionNames[n]) = 0
           /\ Abi!Room(CutShort(f), SectionNames[n]) = 0
<1> DEFINE name == SectionNames[n]
           g == CutShort(f)
<1>1. /\ DOMAIN g.sections = DOMAIN f.sections
      /\ \A j \in DOMAIN f.sections : g.sections[j].name = f.sections[j].name
  BY DEF CutShort
<1> HIDE DEF g
<1>2. (\E j \in DOMAIN g.sections : g.sections[j].name = name)
      <=> (\E j \in DOMAIN f.sections : f.sections[j].name = name)
  BY <1>1
<1>3. CASE ~ \E j \in DOMAIN f.sections : f.sections[j].name = name
  <2>1. Abi!SectionNamed(g, name) = 0
    BY <1>2, <1>3 DEF Abi!SectionNamed
  <2> QED
    BY <2>1 DEF Abi!Room, g
<1>4. ASSUME NEW j \in DOMAIN f.sections, f.sections[j].name = name PROVE FALSE
  <2>1. 0 \in DOMAIN f.sections
    BY <1>4 DEF Abi!SectionNamed
  <2>2. n \in DOMAIN SectionNames
    BY FourNames
  <2> QED
    BY <2>1, <2>2, FilesAssumption
<1> QED
  BY <1>3, <1>4

(* Cut short, a section takes no more room.                                *)
LEMMA RoomOrder ==
    ASSUME NEW k \in Nat
    PROVE  /\ PageOf(4 * k + Page) \in Nat
           /\ PageOf(4 * 0 + Page) <= PageOf(4 * k + Page)
<1>1. Page \in Nat \ {0}
  BY LoaderAssumption
<1> DEFINE x == 4 * k
<1>2. x \in Nat /\ 4 * 0 + Page = Page
  BY <1>1
<1> HIDE DEF x
<1>3. (1 * Page + x) % Page = x % Page
  <2>1. 1 \in Int /\ x \in Int
    BY <1>2
  <2> QED
    BY <1>1, <2>1, ModPlus
<1>4. x % Page \in 0 .. x
  BY <1>1, <1>2
<1>5. PageOf(x + Page) = x + Page - (x % Page)
  BY <1>1, <1>2, <1>3 DEF PageOf
<1>6. PageOf(x + Page) >= Page /\ PageOf(x + Page) \in Nat
  BY <1>1, <1>2, <1>4, <1>5
<1>7. PageOf(Page) \in 0 .. Page
  BY <1>1, PageOfType
<1> QED
  BY <1>1, <1>2, <1>6, <1>7 DEF x

-----------------------------------------------------------------------------
(* Sections and stack where they belong                                    *)

PlaceCut(n) == Abi!Place(CutShort(file), base, SectionNames, n)

(* The sections to load are among the four.                                *)
LEMMA WantedType == Wanted \in SUBSET (1 .. 4)
BY FourNames DEF Wanted

(* In a roomy address space no place wraps around.                         *)
LEMMA PlaceBounds ==
    ASSUME file \in Files, base \in Word, Roomy, Accounted
    PROVE  /\ PlaceCut(1) = base
           /\ \A n \in 1 .. 5 : PlaceCut(n) \in Word
           /\ \A n \in 1 .. 4 : PlaceCut(n + 1) = PlaceCut(n) + Abi!Room(CutShort(file), SectionNames[n])
<1> DEFINE r(n) == Abi!Room(file, SectionNames[n])
           c(n) == Abi!Room(CutShort(file), SectionNames[n])
           At(n) == PlaceOf(n)
           Cut(n) == PlaceCut(n)
<1>1. ASSUME NEW n \in 1 .. 4
      PROVE  r(n) \in Int /\ c(n) \in Int /\ 0 <= c(n) /\ c(n) <= r(n)
  <2>1. Cardinality(Matches(file, SectionNames[n])) <= 1
    BY FourNames DEF Accounted
  <2> DEFINE i == Abi!SectionNamed(file, SectionNames[n])
  <2>2. CASE i = 0
    <3>1. r(n) = 0 /\ c(n) = 0
      BY <2>2, NoSection
    <3> QED
      BY <3>1
  <2>3. CASE i # 0
    <3> DEFINE k == Len(file.sections[i].body)
               d == Len(CutBody(file, i))
    <3>1. r(n) = PageOf(4 * k + Page) /\ c(n) = PageOf(4 * d + Page)
          /\ file.sections[i].body \in Seq(Word)
      BY <2>1, <2>3, SectionOf
    <3>2. k \in Nat /\ (d = k \/ d = 0)
      BY <3>1 DEF CutBody
    <3> HIDE DEF k, d
    <3>3. PageOf(4 * k + Page) \in Nat /\ PageOf(4 * 0 + Page) \in Nat
          /\ PageOf(4 * 0 + Page) <= PageOf(4 * k + Page)
      BY <3>2, RoomOrder
    <3>4. c(n) = r(n) \/ c(n) = PageOf(4 * 0 + Page)
      BY <3>1, <3>2
    <3> HIDE DEF r, c
    <3> QED
      BY <3>1, <3>3, <3>4
  <2> QED
    BY <2>2, <2>3
<1>2. base \in Int
  BY Sizes
<1>3. /\ At(1) = base /\ \A n \in 1 .. 5 : At(n) \in Int
      /\ \A n \in 1 .. 4 : At(n + 1) = At(n) + r(n)
  <2>1. \A m \in 1 .. 4 : Abi!Room(file, SectionNames[m]) \in Int
    BY <1>1
  <2> QED
    BY <1>2, <2>1, Places DEF PlaceOf
<1>4. /\ Cut(1) = base /\ \A n \in 1 .. 5 : Cut(n) \in Int
      /\ \A n \in 1 .. 4 : Cut(n + 1) = Cut(n) + c(n)
  <2>1. \A m \in 1 .. 4 : Abi!Room(CutShort(file), SectionNames[m]) \in Int
    BY <1>1
  <2> QED
    BY <1>2, <2>1, Places DEF PlaceCut
<1>5. base > 0 /\ At(5) < StackStart
  BY FourNames DEF Roomy, SectionNames
<1> HIDE DEF r, c, At, Cut
<1>6. /\ At(2) = At(1) + r(1) /\ Cut(2) = Cut(1) + c(1)
      /\ At(3) = At(2) + r(2) /\ Cut(3) = Cut(2) + c(2)
      /\ At(4) = At(3) + r(3) /\ Cut(4) = Cut(3) + c(3)
      /\ At(5) = At(4) + r(4) /\ Cut(5) = Cut(4) + c(4)
  <2>1. 1 \in 1 .. 4 /\ 2 \in 1 .. 4 /\ 3 \in 1 .. 4 /\ 4 \in 1 .. 4
        /\ 1 + 1 = 2 /\ 2 + 1 = 3 /\ 3 + 1 = 4 /\ 4 + 1 = 5
    OBVIOUS
  <2> QED
    BY <1>3, <1>4, <2>1
<1>7. /\ r(1) \in Int /\ c(1) \in Int /\ 0 <= c(1) /\ c(1) <= r(1)
      /\ r(2) \in Int /\ c(2) \in Int /\ 0 <= c(2) /\ c(2) <= r(2)
      /\ r(3) \in Int /\ c(3) \in Int /\ 0 <= c(3) /\ c(3) <= r(3)
      /\ r(4) \in Int /\ c(4) \in Int /\ 0 <= c(4) /\ c(4) <= r(4)
  BY <1>1
<1>8. StackStart \in Int /\ StackStart < WordSize /\ WordSize \in Int
  BY LoaderAssumption, Sizes DEF Word
<1>9. ASSUME NEW n \in 1 .. 5 PROVE Cut(n) \in Word
  <2>1. n = 1 \/ n = 2 \/ n = 3 \/ n = 4 \/ n = 5
    OBVIOUS
  <2>2. Cut(n) \in Int /\ 0 <= Cut(n) /\ Cut(n) <= At(5)
    BY <1>2, <1>3, <1>4, <1>5, <1>6, <1>7, <2>1
  <2>3. At(5) \in Int
    BY <1>3
  <2> QED
    BY <1>5, <1>8, <2>2, <2>3 DEF Word
<1> QED
  BY <1>4, <1>9 DEF Cut, c

(* A segment that load has filled for section n.                           *)
Placed(s, n) ==
    /\ s.name = SectionNames[n]
    /\ IF file.sections[Abi!SectionNamed(file, s.name)].cut THEN s.body = <<>>
       ELSE s.start = PlaceCut(n)

(* What makes OthersInPlace inductive.                                     *)
PlacedInv ==
    /\ phase # "none" => symtab = elf_load_symtab(file) /\ section \in 1 .. 5
    /\ phase \in {"relocation", "ready"} => section = 5
    /\ phase # "none" /\ Roomy /\ Accounted =>
        /\ Len(seg) = Cardinality(Wanted) + 1
        /\ phase # "ready" =>
              \A k \in DOMAIN seg : seg[k].name = <<>> <=> k > Rank(Wanted, section - 1)
        /\ phase = "sections" => next = PlaceCut(section)
        /\ \A n \in Wanted : n < section => Placed(seg[Position(n)], n)

(* Relocation does not move a segment, and leaves an empty one empty.      *)
LEMMA StorememKeeps ==
    ASSUME LoaderInv, NEW a, NEW w, storemem(a, w)
    PROVE  \A k \in DOMAIN seg :
              /\ seg'[k].start = seg[k].start
              /\ seg[k].body = <<>> => seg'[k].body = <<>>
<1> DEFINE m == SegmentOf(a)
           p == PositionOf(a, m)
           s == [seg[m] EXCEPT !.body = [@ EXCEPT ![p] = w]]
<1>1. CASE seg' = seg
  BY <1>1
<1>2. CASE m # 0 /\ p \in DOMAIN seg[m].body /\ seg' = [seg EXCEPT ![m].body[p] = w]
  <2>1. m \in DOMAIN seg
    BY <1>2, SegmentFound
  <2> HIDE DEF m, p
  <2>2. seg' = [seg EXCEPT ![m] = s]
    BY <1>2
  <2>3. seg[m] \in Segments
    BY <2>1, SegType
  <2>4. s.start = seg[m].start
    BY <2>3 DEF Segments
  <2>5. seg[m].body # <<>>
    BY <1>2
  <2> HIDE DEF s
  <2> TAKE k \in DOMAIN seg
  <2>6. seg'[k] = IF k = m THEN s ELSE seg[k]
    BY <2>1, <2>2 DEF LoaderInv
  <2> QED
    BY <2>4, <2>5, <2>6
<1>3. seg' = seg \/ (m # 0 /\ p \in DOMAIN seg[m].body /\ seg' = [seg EXCEPT ![m].body[p] = w])
  BY DEF storemem
<1> QED
  BY <1>1, <1>2, <1>3

(* The first segment without a name, when a number of them have one.       *)
LEMMA FirstFree ==
    ASSUME LoaderInv, NEW d \in Nat, d < Len(seg),
           \A k \in DOMAIN seg : seg[k].name = <<>> <=> k > d
    PROVE  attach_scn_to_mem = d + 1
<1>1. DOMAIN seg = 1 .. Len(seg) /\ Len(seg) \in Nat
  BY DEF LoaderInv
<1>2. d + 1 \in DOMAIN seg /\ seg[d + 1].name = <<>>
  BY <1>1
<1>3. \A j \in 1 .. (d + 1 - 1) : seg[j].name # <<>>
  BY <1>1
<1>4. ASSUME NEW k \in DOMAIN seg, seg[k].name = <<>>,
             \A j \in 1 .. (k - 1) : seg[j].name # <<>>
      PROVE  k = d + 1
  <2>1. k > d /\ k \in Int
    BY <1>1, <1>4
  <2>2. ~ (d + 1 \in 1 .. (k - 1))
    BY <1>2, <1>4
  <2> QED
    BY <2>1, <2>2
<1> QED
  BY <1>2, <1>3, <1>4 DEF attach_scn_to_mem

(* The invariant of places holds before any load,                          *)
LEMMA PlacedInit == LInit => PlacedInv
BY DEF LInit, PlacedInv

(* What PlacedInv says stays true while nothing it is about changes.       *)
LEMMA PlacedKept ==
    ASSUME LoaderInv, PlacedInv, UNCHANGED <<file, base, symtab, section, next>>,
           DOMAIN seg' = DOMAIN seg, seg' \in Seq(Segments),
           \A k \in DOMAIN seg :
              /\ seg'[k].name = seg[k].name /\ seg'[k].start = seg[k].start
              /\ seg[k].body = <<>> => seg'[k].body = <<>>,
           \/ phase' = phase
           \/ phase = "sections" /\ phase' = "relocation" /\ section = 5
    PROVE  PlacedInv'
<1>1. /\ Roomy' <=> Roomy
      /\ Accounted' <=> Accounted
      /\ Wanted' = Wanted
  BY DEF Roomy, Accounted, PlaceOf, Wanted
<1>2. \A n : PlaceCut(n)' = PlaceCut(n) /\ Position(n)' = Position(n)
  BY <1>1 DEF PlaceCut, Position
<1>3. Len(seg') = Len(seg)
  BY DEF LoaderInv
<1>4. phase # "none" /\ Roomy /\ Accounted =>
        /\ Len(seg') = Cardinality(Wanted) + 1
        /\ phase' # "ready" =>
              \A k \in DOMAIN seg' : seg'[k].name = <<>> <=> k > Rank(Wanted, section - 1)
        /\ phase' = "sections" => next = PlaceCut(section)
  BY <1>3 DEF PlacedInv
<1>5. ASSUME phase # "none", Roomy, Accounted, NEW n \in Wanted, n < section
      PROVE  Placed(seg[Position(n)], n)'
  <2>1. Placed(seg[Position(n)], n)
    BY <1>5 DEF PlacedInv
  <2>2. Position(n) \in DOMAIN seg
    <3>1. Position(n) \in 1 .. Cardinality(Wanted) /\ Cardinality(Wanted) \in Nat
      BY WantedType, RankOrder DEF Position, Rank
    <3>2. Len(seg) = Cardinality(Wanted) + 1
      BY <1>5 DEF PlacedInv
    <3>3. DOMAIN seg = 1 .. Len(seg)
      BY DEF LoaderInv
    <3> QED
      BY <3>1, <3>2, <3>3
  <2> QED
    BY <1>2, <2>1, <2>2 DEF Placed
<1> QED
  BY <1>1, <1>2, <1>4, <1>5 DEF PlacedInv, Rank

(* The first section comes first, also after a step.                       *)
LEMMA FirstPlace == file \in Files /\ base \in Word /\ Roomy /\ Accounted => PlaceCut(1) = base
BY PlaceBounds

(* A section that comes first gets the place of the ABI.                   *)
LEMMA FirstPlaceNext ==
    (file \in Files /\ base \in Word /\ Roomy /\ Accounted => PlaceCut(1) = base)'
BY FirstPlace, PTL

(* A new load has nothing placed, and a segment for each section.          *)
LEMMA StartLoadPlaced == LoaderInv /\ StartLoad => PlacedInv'
<1> SUFFICES ASSUME LoaderInv, StartLoad PROVE PlacedInv'
  OBVIOUS
<1>1. PICK f \in Files, a \in Starts :
        /\ file' = f /\ base' = PageOf(a) /\ next' = PageOf(a)
        /\ symtab' = elf_load_symtab(f)
        /\ seg' = init_mem(get_nsegments(symtab') + 1)
  BY DEF StartLoad
<1>2. section' = 1 /\ phase' = "sections" /\ symtab' = elf_load_symtab(file')
  BY <1>1 DEF StartLoad
<1>3. LoaderInv'
  BY StartLoadType
<1> SUFFICES ASSUME Roomy', Accounted'
             PROVE  /\ Len(seg') = Cardinality(Wanted') + 1
                    /\ \A k \in DOMAIN seg' : seg'[k].name = <<>> <=> k > Rank(Wanted', section' - 1)
                    /\ next' = PlaceCut(section)'
  <2>1. \A n \in Wanted' : ~ (n < section')
    BY <1>2, FourNames DEF Wanted
  <2> QED
    BY <1>2, <2>1 DEF PlacedInv, Rank
<1>4. Wanted' = {i \in DOMAIN SectionNames : is_in_symbols(SectionNames[i], symtab')}
  BY DEF Accounted, Wanted
<1>5. Wanted' \in SUBSET (1 .. 4)
  BY <1>4, FourNames
<1>6. get_nsegments(symtab') = Cardinality(Wanted')
  BY <1>4 DEF get_nsegments
<1>7. Rank(Wanted', 0) = 0 /\ Cardinality(Wanted') \in Nat
  <2>1. Rank(Wanted', 4) \in Nat /\ Rank(Wanted', 4) = Cardinality(Wanted') /\ Rank(Wanted', 0) = 0
    BY <1>5, RankBasics
  <2> QED
    BY <2>1
<1>8. Len(seg') = Cardinality(Wanted') + 1 /\ \A k \in DOMAIN seg' : seg'[k].name = <<>> /\ k > 0
  BY <1>1, <1>6, <1>7 DEF init_mem, Unattached, Segment
<1>9. next' = PlaceCut(section)'
  <2>1. file' \in Files /\ base' \in Word
    BY <1>1, <1>3 DEF LoaderInv
  <2>2. (PlaceCut(1) = base)'
    BY <2>1, FirstPlaceNext
  <2> QED
    BY <1>1, <1>2, <2>2 DEF PlaceCut
<1> QED
  BY <1>2, <1>7, <1>8, <1>9

(* A section that has a symbol is read unless the file ends in it.         *)
LEMMA SectionRead ==
    ASSUME file \in Files, symtab = elf_load_symtab(file), Accounted, NEW n \in Wanted
    PROVE  LET i == Abi!SectionNamed(file, SectionNames[n])
               s == elf_load_section_in_memory(SectionNames[n])
           IN  /\ s.name = SectionNames[n]
               /\ Len(s.body) = Len(CutBody(file, i))
               /\ IF file.sections[i].cut THEN s.body = <<>> ELSE s.start = next
<1> DEFINE name == SectionNames[n]
           i == Abi!SectionNamed(file, name)
           s == elf_load_section_in_memory(name)
<1>1. n \in 1 .. 4 /\ i # 0 /\ Cardinality(Matches(file, name)) <= 1
  BY FourNames DEF Accounted, Wanted
<1>2. is_in_symbols(name, symtab)
  BY FourNames DEF Accounted, Wanted
<1>3. /\ i \in DOMAIN file.sections /\ Matches(file, name) = {i}
      /\ file.sections[i].body \in Seq(Word)
  BY <1>1, SectionOf
<1>4. elf_extract_section_names(file)
  <2>1. symtab.syms # <<>>
    BY <1>2 DEF is_in_symbols
  <2>2. elf_extract_symbol_table(file) # <<>>
    BY <2>1 DEF elf_load_symtab, Table
  <2>3. elf_extract_scn_by_name(file, <<"symtab">>) # 0
    BY <2>2 DEF elf_extract_symbol_table
  <2> QED
    BY <2>3 DEF elf_extract_scn_by_name
<1> HIDE DEF i
<1>5. elf_extract_scn_by_name(file, name) = IF file.sections[i].cut THEN 0 ELSE i
  <2>1. (CHOOSE k \in Matches(file, name) : \A j \in Matches(file, name) : k <= j) = i
    <3>1. i <= i
      <4>1. i \in Nat
        <5>1. n \in DOMAIN SectionNames
          BY <1>1, FourNames
        <5> QED
          BY <1>3, <5>1, FilesAssumption
      <4> QED
        BY <4>1
    <3> QED
      BY <1>3, <3>1
  <2> QED
    BY <1>3, <1>4, <2>1 DEF elf_extract_scn_by_name
<1>6. CASE file.sections[i].cut
  <2>1. s = Segment(name, 0, FALSE, <<>>)
    BY <1>5, <1>6 DEF elf_load_section_in_memory
  <2> QED
    BY <1>6, <2>1 DEF Segment, CutBody, i
<1>7. CASE ~ file.sections[i].cut
  <2> DEFINE b == file.sections[i].body
             filled == [j \in DOMAIN b |-> IF file.sections[i].bits THEN b[j] ELSE Unknown]
  <2>1. i # 0
    BY <1>1 DEF i
  <2>2. s = Segment(name, next, TRUE, filled)
    BY <1>5, <1>7, <2>1 DEF elf_load_section_in_memory, fill_mem_scn
  <2>3. Len(filled) = Len(b)
    <3> HIDE DEF b
    <3>1. b \in Seq(Word)
      BY <1>3 DEF b
    <3> QED
      BY <3>1
  <2> HIDE DEF filled
  <2> QED
    BY <1>7, <2>2, <2>3 DEF Segment, CutBody, i
<1> QED
  BY <1>6, <1>7

(* One section more: the first free segment is the one with its number.    *)
LEMMA LoadSectionPlaced == LoaderInv /\ PlacedInv /\ LoadSection => PlacedInv'
<1> SUFFICES ASSUME LoaderInv, PlacedInv, LoadSection PROVE PlacedInv'
  OBVIOUS
<1> DEFINE name == SectionNames[section]
           s == elf_load_section_in_memory(name)
           c == Abi!Room(CutShort(file), name)
<1>1. /\ phase = "sections" /\ phase' = phase /\ section \in 1 .. 4 /\ section' = section + 1
      /\ UNCHANGED <<file, base, symtab>> /\ file \in Files /\ base \in Word
      /\ symtab = elf_load_symtab(file)
  BY FourNames DEF LoadSection, LoaderInv, PlacedInv
<1>2. /\ Roomy' <=> Roomy
      /\ Accounted' <=> Accounted
      /\ Wanted' = Wanted
  BY <1>1 DEF Roomy, Accounted, PlaceOf, Wanted
<1>3. \A n : PlaceCut(n)' = PlaceCut(n) /\ Position(n)' = Position(n)
  BY <1>1, <1>2 DEF PlaceCut, Position
<1> SUFFICES ASSUME Roomy, Accounted
             PROVE  /\ Len(seg') = Cardinality(Wanted) + 1
                    /\ \A k \in DOMAIN seg' : seg'[k].name = <<>> <=> k > Rank(Wanted, section)
                    /\ next' = PlaceCut(section + 1)
                    /\ \A n \in Wanted : n < section + 1 => Placed(seg'[Position(n)], n)
  <2>1. section + 1 \in 1 .. 5 /\ section + 1 - 1 = section
    BY <1>1
  <2>2. phase' # "ready" /\ phase' # "relocation" /\ phase' # "none"
    BY <1>1
  <2> QED
    BY <1>1, <1>2, <1>3, <2>1, <2>2 DEF PlacedInv, Placed, Rank
<1>4. /\ Len(seg) = Cardinality(Wanted) + 1
      /\ \A k \in DOMAIN seg : seg[k].name = <<>> <=> k > Rank(Wanted, section - 1)
      /\ next = PlaceCut(section)
      /\ \A n \in Wanted : n < section => Placed(seg[Position(n)], n)
  BY <1>1 DEF PlacedInv
<1>5. /\ PlaceCut(section + 1) = PlaceCut(section) + c
      /\ PlaceCut(section) \in Word /\ PlaceCut(section + 1) \in Word
  <2>1. section \in 1 .. 5 /\ section + 1 \in 1 .. 5
    BY <1>1
  <2> QED
    BY <1>1, <2>1, PlaceBounds
<1>6. section - 1 \in 0 .. 3 /\ section - 1 + 1 = section /\ section \in Int
  BY <1>1
<1>7. /\ Rank(Wanted, section - 1) \in Nat
      /\ Rank(Wanted, section) =
            IF section \in Wanted THEN Rank(Wanted, section - 1) + 1 ELSE Rank(Wanted, section - 1)
  <2>1. section - 1 \in 0 .. 4
    BY <1>6
  <2>2. Rank(Wanted, section - 1 + 1) =
           IF section - 1 + 1 \in Wanted THEN Rank(Wanted, section - 1) + 1
           ELSE Rank(Wanted, section - 1)
    BY <1>6, WantedType, RankBasics
  <2> QED
    BY <1>6, <2>1, <2>2, WantedType, RankBasics
<1>8. \A n \in Wanted : n < section + 1 <=> n < section \/ n = section
  <2>1. \A n \in Wanted : n \in Int
    BY WantedType
  <2> QED
    BY <1>6, <2>1
<1>9. is_in_symbols(name, symtab) <=> section \in Wanted
  BY <1>1, FourNames DEF Accounted
<1>10. CASE section \notin Wanted
  <2>1. seg' = seg /\ next' = next
    BY <1>9, <1>10 DEF LoadSection
  <2>2. c = 0
    <3>1. Abi!SectionNamed(file, name) = 0
      BY <1>1, <1>10, FourNames DEF Wanted
    <3> QED
      BY <1>1, <3>1, NoSection
  <2> HIDE DEF c
  <2>3. PlaceCut(section + 1) = PlaceCut(section)
    <3>1. PlaceCut(section) \in Int
      <4>1. Word \subseteq Int
        BY Sizes
      <4> QED
        BY <1>5, <4>1, Zenon
    <3> QED
      BY <1>5, <2>2, <3>1
  <2>4. \A n \in Wanted : n # section
    BY <1>10
  <2> QED
    BY <1>4, <1>7, <1>8, <1>10, <2>1, <2>3, <2>4
<1>11. CASE section \in Wanted
  <2> DEFINE d == Rank(Wanted, section - 1)
             i == Abi!SectionNamed(file, name)
  <2>1. s.name = name /\ Len(s.body) = Len(CutBody(file, i))
        /\ IF file.sections[i].cut THEN s.body = <<>> ELSE s.start = next
    BY <1>1, <1>11, SectionRead
  <2>2. d + 1 \in 1 .. Cardinality(Wanted) /\ Cardinality(Wanted) \in Nat
        /\ \A m \in Wanted : m < section => Rank(Wanted, m) < d + 1
    BY <1>7, <1>11, WantedType, RankOrder
  <2>3. d \in Nat /\ d < Len(seg)
    BY <1>4, <1>7, <2>2
  <2>4. attach_scn_to_mem = d + 1
    BY <1>4, <2>3, FirstFree
  <2>5. seg' = [seg EXCEPT ![d + 1] = s] /\ next' = Unsigned(next + Advance(s))
    BY <1>9, <1>11, <2>4 DEF LoadSection
  <2>6. DOMAIN seg = 1 .. Len(seg) /\ Len(seg) \in Nat /\ d + 1 \in DOMAIN seg
    BY <1>4, <2>2 DEF LoaderInv
  <2>7. /\ Len(seg') = Len(seg) /\ DOMAIN seg' = DOMAIN seg
        /\ \A k \in DOMAIN seg : seg'[k] = IF k = d + 1 THEN s ELSE seg[k]
    <3>1. seg \in Seq(Segments)
      BY DEF LoaderInv
    <3> HIDE DEF s, d
    <3> QED
      BY <2>5, <2>6, <3>1
  <2>8. next' = PlaceCut(section + 1)
    <3>1. c = PageOf(4 * Len(CutBody(file, i)) + Page)
      <4>1. Cardinality(Matches(file, name)) <= 1 /\ Abi!SectionNamed(file, name) # 0
        BY <1>1, <1>11, FourNames DEF Accounted, Wanted
      <4> QED
        BY <1>1, <4>1, SectionOf
    <3>2. Advance(s) = c
      BY <2>1, <3>1 DEF Advance, Size
    <3>3. next' = Unsigned(PlaceCut(section + 1))
      BY <1>4, <1>5, <2>5, <3>2
    <3>4. PlaceCut(section + 1) \in 0 .. (WordSize - 1)
      BY <1>5 DEF Word
    <3> QED
      BY <3>3, <3>4, Sizes, SmallMod DEF Unsigned
  <2>9. ASSUME NEW k \in DOMAIN seg' PROVE seg'[k].name = <<>> <=> k > Rank(Wanted, section)
    <3>1. k \in Int /\ Rank(Wanted, section) = d + 1 /\ d \in Int
      BY <1>7, <1>11, <2>3, <2>6, <2>7, <2>9
    <3>2. name # <<>>
      BY <1>1, FourNames
    <3>3. CASE k = d + 1
      <4>1. seg'[k] = s
        BY <2>6, <2>7, <3>3
      <4>2. ~ (k > d + 1)
        BY <3>1, <3>3
      <4> QED
        BY <2>1, <3>1, <3>2, <4>1, <4>2
    <3>4. CASE k # d + 1
      <4>1. seg'[k] = seg[k]
        BY <2>7, <2>9, <3>4
      <4>2. seg[k].name = <<>> <=> k > d
        BY <1>4, <2>7, <2>9
      <4> HIDE DEF d
      <4> QED
        BY <3>1, <3>4, <4>1, <4>2
    <3> QED
      BY <3>3, <3>4
  <2>10. ASSUME NEW n \in Wanted, n < section \/ n = section
         PROVE  Placed(seg'[Position(n)], n)
    <3>1. Position(n) = Rank(Wanted, n)
      BY DEF Position, Rank
    <3>2. CASE n = section
      <4>1. seg'[Position(n)] = s
        BY <1>7, <1>11, <2>6, <2>7, <3>1, <3>2
      <4> QED
        BY <1>4, <2>1, <3>2, <4>1 DEF Placed
    <3>3. CASE n < section
      <4>1. Position(n) \in 1 .. Cardinality(Wanted) /\ Position(n) < d + 1
        BY <2>2, <3>1, <3>3, WantedType, RankOrder
      <4>2. Position(n) \in DOMAIN seg /\ Position(n) # d + 1
        BY <1>4, <2>2, <2>3, <2>6, <4>1
      <4> QED
        BY <1>4, <2>7, <3>3, <4>2
    <3> QED
      BY <2>10, <3>2, <3>3
  <2> QED
    BY <1>4, <1>8, <2>7, <2>8, <2>9, <2>10
<1> QED
  BY <1>10, <1>11

(* Relocation changes words alone.                                         *)
LEMMA RelocateEntryPlaced == LoaderInv /\ PlacedInv /\ RelocateEntry => PlacedInv'
<1> SUFFICES ASSUME LoaderInv, PlacedInv, RelocateEntry PROVE PlacedInv'
  OBVIOUS
<1>1. UNCHANGED <<file, base, symtab, section, next, phase>>
  BY DEF RelocateEntry
<1>2. LoaderInv'
  BY RelocateEntryType
<1>3. \/ seg' = seg
      \/ \E e, p : Apply(e, p)
  BY DEF RelocateEntry
<1>4. CASE seg' = seg
  <2>1. \A k \in DOMAIN seg :
              /\ seg'[k].name = seg[k].name /\ seg'[k].start = seg[k].start
              /\ seg[k].body = <<>> => seg'[k].body = <<>>
    BY <1>4
  <2>2. seg' \in Seq(Segments)
    BY <1>2 DEF LoaderInv
  <2> QED
    BY <1>1, <1>4, <2>1, <2>2, PlacedKept
<1>5. CASE \E e, p : Apply(e, p)
  <2>1. PICK a, w : storemem(a, w)
    BY <1>5 DEF Apply
  <2>2. DOMAIN seg' = DOMAIN seg /\ \A k \in DOMAIN seg : seg'[k].name = seg[k].name
    <3>1. seg \in Seq(Segments)
      BY DEF LoaderInv
    <3>2. seg' = seg \/ \E k, n : seg' = [seg EXCEPT ![k].body[n] = w]
      BY <2>1 DEF storemem
    <3>3. ASSUME NEW k, NEW n, seg' = [seg EXCEPT ![k].body[n] = w]
          PROVE  DOMAIN seg' = DOMAIN seg /\ \A j \in DOMAIN seg : seg'[j].name = seg[j].name
      <4> DEFINE s == [seg[k] EXCEPT !.body = [@ EXCEPT ![n] = w]]
      <4>1. seg' = [seg EXCEPT ![k] = s]
        BY <3>3
      <4>2. k \in DOMAIN seg => s.name = seg[k].name
        BY SegType DEF Segments
      <4> HIDE DEF s
      <4>3. DOMAIN seg' = DOMAIN seg
        BY <4>1
      <4>4. ASSUME NEW j \in DOMAIN seg PROVE seg'[j].name = seg[j].name
        BY <4>1, <4>2
      <4> QED
        BY <4>3, <4>4
    <3> QED
      BY <3>2, <3>3
  <2>3. \A k \in DOMAIN seg :
              /\ seg'[k].name = seg[k].name /\ seg'[k].start = seg[k].start
              /\ seg[k].body = <<>> => seg'[k].body = <<>>
    BY <2>1, <2>2, StorememKeeps
  <2>4. seg' \in Seq(Segments)
    BY <1>2 DEF LoaderInv
  <2> QED
    BY <1>1, <2>2, <2>3, <2>4, PlacedKept
<1> QED
  BY <1>3, <1>4, <1>5

(* Steps that leave the segments alone.                                    *)
LEMMA QuietPlaced ==
    ASSUME LoaderInv, PlacedInv, UNCHANGED lvars \/ SectionsDone \/ NextSegment
    PROVE  PlacedInv'
<1>1. UNCHANGED <<file, base, symtab, section, next, seg>>
  BY DEF lvars, SectionsDone, NextSegment
<1>2. \/ phase' = phase
      \/ phase = "sections" /\ phase' = "relocation" /\ section = 5
  <2>1. SectionsDone => section = 5
    <3>1. section \in 1 .. 5 /\ section \notin 1 .. 4 => section = 5
      OBVIOUS
    <3> QED
      BY <3>1, FourNames DEF SectionsDone, PlacedInv
  <2> QED
    BY <2>1 DEF lvars, SectionsDone, NextSegment
<1>3. seg' \in Seq(Segments) /\ DOMAIN seg' = DOMAIN seg
      /\ \A k \in DOMAIN seg :
              /\ seg'[k].name = seg[k].name /\ seg'[k].start = seg[k].start
              /\ seg[k].body = <<>> => seg'[k].body = <<>>
  BY <1>1 DEF LoaderInv
<1> QED
  BY <1>1, <1>2, <1>3, PlacedKept

(* The stack comes after the sections.                                     *)
LEMMA AttachStackPlaced == LoaderInv /\ PlacedInv /\ AttachStack => PlacedInv'
<1> SUFFICES ASSUME LoaderInv, PlacedInv, AttachStack PROVE PlacedInv'
  OBVIOUS
<1>1. /\ phase = "relocation" /\ phase' = "ready" /\ section = 5
      /\ UNCHANGED <<file, base, symtab, section, next>>
  BY DEF AttachStack, PlacedInv
<1>2. /\ Roomy' <=> Roomy
      /\ Accounted' <=> Accounted
      /\ Wanted' = Wanted
  BY <1>1 DEF Roomy, Accounted, PlaceOf, Wanted
<1>3. \A n : PlaceCut(n)' = PlaceCut(n) /\ Position(n)' = Position(n)
  BY <1>1, <1>2 DEF PlaceCut, Position
<1> SUFFICES ASSUME Roomy, Accounted
             PROVE  /\ Len(seg') = Cardinality(Wanted) + 1
                    /\ \A n \in Wanted : n < 5 => Placed(seg'[Position(n)], n)
  BY <1>1, <1>2, <1>3 DEF PlacedInv, Placed
<1>4. /\ Len(seg) = Cardinality(Wanted) + 1
      /\ \A k \in DOMAIN seg : seg[k].name = <<>> <=> k > Rank(Wanted, section - 1)
      /\ \A n \in Wanted : n < 5 => Placed(seg[Position(n)], n)
  BY <1>1 DEF PlacedInv
<1> DEFINE d == Cardinality(Wanted)
<1>5. section - 1 = 4 /\ Rank(Wanted, 4) = d /\ d \in Nat
  <2>1. Rank(Wanted, 4) = d /\ Rank(Wanted, 4) \in Nat
    BY WantedType, RankBasics
  <2> QED
    BY <1>1, <2>1
<1>6. attach_scn_to_mem = d + 1
  <2>1. \A k \in DOMAIN seg : seg[k].name = <<>> <=> k > d
    BY <1>4, <1>5
  <2>2. d < Len(seg)
    BY <1>4, <1>5
  <2> QED
    BY <1>5, <2>1, <2>2, FirstFree
<1>7. PICK s : seg' = [seg EXCEPT ![d + 1] = s]
  BY <1>6 DEF AttachStack
<1>8. Len(seg') = Len(seg) /\ \A k \in DOMAIN seg : k # d + 1 => seg'[k] = seg[k]
  BY <1>7 DEF LoaderInv
<1>9. ASSUME NEW n \in Wanted PROVE Position(n) \in DOMAIN seg /\ Position(n) # d + 1
  <2>1. Position(n) \in 1 .. d
    BY WantedType, RankOrder DEF Position, Rank
  <2>2. DOMAIN seg = 1 .. d + 1
    BY <1>4 DEF LoaderInv
  <2> HIDE DEF d
  <2> QED
    BY <1>5, <2>1, <2>2
<1> QED
  BY <1>4, <1>8, <1>9

(* A section the file ends in costs that section only, whatever is loaded  *)
(* at whatever address.                                                    *)
THEOREM OthersStay == LSpec => []OthersInPlace
<1>1. LoaderInv /\ [LNext]_lvars => LoaderInv'
  BY LoaderInvStep
<1>2. LoaderInv /\ PlacedInv /\ [LNext]_lvars => PlacedInv'
  BY StartLoadPlaced, LoadSectionPlaced, RelocateEntryPlaced, QuietPlaced, AttachStackPlaced
     DEF LNext
<1>3. PlacedInv => OthersInPlace
  <2> SUFFICES ASSUME PlacedInv, phase \in {"relocation", "ready"}, Roomy, Accounted,
                      NEW n \in Wanted
               PROVE  Placed(seg[Position(n)], n)
    BY DEF OthersInPlace, Placed, PlaceCut
  <2>1. n < section
    <3>1. n \in 1 .. 4 /\ section = 5
      BY WantedType DEF PlacedInv
    <3> QED
      BY <3>1
  <2> QED
    BY <2>1 DEF PlacedInv
<1> QED
  BY <1>1, <1>2, <1>3, InitType, PlacedInit, PTL DEF LSpec

-----------------------------------------------------------------------------
(* Bits of words                                                           *)

(* Two digits of base 2 that make the same number above the same base.     *)
LEMMA TopDigit ==
    ASSUME NEW P \in Nat \ {0}, NEW q \in 0 .. (P - 1), NEW r \in 0 .. (P - 1),
           NEW b \in {0, 1}, NEW c \in {0, 1}, q + P * b = r + P * c
    PROVE  q = r /\ b = c
<1>1. P * 0 = 0 /\ P * 1 = P
  OBVIOUS
<1>2. CASE b = 0 /\ c = 0
  BY <1>1, <1>2
<1>3. CASE b = 0 /\ c = 1
  BY <1>1, <1>3
<1>4. CASE b = 1 /\ c = 0
  BY <1>1, <1>4
<1>5. CASE b = 1 /\ c = 1
  BY <1>1, <1>5
<1> QED
  BY <1>2, <1>3, <1>4, <1>5

(* A number up to bit k is the number below it and the bit.                *)
LEMMA DigitStep ==
    ASSUME NEW x \in Int, NEW k \in BitNumbers
    PROVE  /\ 2^k \in Nat \ {0} /\ 2^(k + 1) \in Nat \ {0}
           /\ Bit(x, k) \in {0, 1} /\ x % 2^k \in 0 .. (2^k - 1)
           /\ x % 2^(k + 1) = (x % 2^k) + 2^k * Bit(x, k)
<1> DEFINE P == 2^k
           Q == 2^(k + 1)
           a == x \div P
           r == x % P
           c == a \div 2
           b == a % 2
<1>1. k \in 0 .. WordBits /\ k + 1 \in 0 .. WordBits /\ k \in 0 .. (WordBits - 1)
  BY WidthsAssumption DEF BitNumbers
<1>2. P \in Nat \ {0} /\ Q = 2 * P
  BY <1>1, WidthsAssumption, PowersAssumption
<1> HIDE DEF P, Q
<1>3. a \in Int /\ r \in 0 .. (P - 1) /\ x = P * a + r
  BY <1>2, DivMod
<1> HIDE DEF a, r
<1>4. c \in Int /\ b \in {0, 1} /\ a = 2 * c + b
  BY <1>3
<1> HIDE DEF c, b
<1>5. P * b + r \in 0 .. (2 * P - 1)
  <2>1. P * 0 = 0 /\ P * 1 = P
    BY <1>2
  <2>2. CASE b = 0
    BY <1>2, <1>3, <2>1, <2>2
  <2>3. CASE b = 1
    BY <1>2, <1>3, <2>1, <2>3
  <2> QED
    BY <1>4, <2>2, <2>3
<1>6. x = c * (2 * P) + (P * b + r)
  <2>1. P * a = P * (2 * c) + P * b
    BY <1>2, <1>3, <1>4
  <2>2. P * (2 * c) = c * (2 * P)
    BY <1>2, <1>4
  <2>3. P * b \in Int /\ P * a \in Int
    BY <1>2, <1>3, <1>4
  <2> QED
    BY <1>2, <1>3, <1>4, <2>1, <2>2, <2>3
<1>7. x % Q = P * b + r
  <2> DEFINE M == 2 * P
             e == P * b + r
  <2>1. M \in Nat \ {0} /\ e \in 0 .. (M - 1) /\ x = c * M + e /\ c \in Int
    BY <1>2, <1>4, <1>5, <1>6
  <2> HIDE DEF M, e
  <2>2. x % M = e
    BY <2>1, ModUnique
  <2> QED
    BY <1>2, <2>2 DEF M, e
<1>8. Bit(x, k) = b
  BY DEF Bit, b, a, P
<1>9. Q \in Nat \ {0} /\ P * b \in Int
  BY <1>2, <1>4
<1>10. x % Q = r + P * b
  BY <1>3, <1>7, <1>9
<1> QED
  BY <1>2, <1>3, <1>4, <1>8, <1>9, <1>10 DEF P, Q, r

(* Numbers that are equal below bit n have the same bits there.            *)
LEMMA SameDigits ==
    ASSUME NEW x \in Int, NEW y \in Int, NEW n \in 0 .. WordBits, x % 2^n = y % 2^n
    PROVE  \A k \in 0 .. (n - 1) : Bit(x, k) = Bit(y, k)
<1> DEFINE Same(k) == x % 2^k = y % 2^k
<1>1. ASSUME NEW k \in 0 .. (n - 1), Same(k + 1)
      PROVE  Same(k) /\ Bit(x, k) = Bit(y, k)
  <2>1. k \in BitNumbers
    BY WidthsAssumption DEF BitNumbers
  <2> DEFINE P == 2^k
             q == x % P
             r == y % P
             b == Bit(x, k)
             c == Bit(y, k)
  <2>2. /\ P \in Nat \ {0} /\ q \in 0 .. (P - 1) /\ r \in 0 .. (P - 1)
        /\ b \in {0, 1} /\ c \in {0, 1} /\ q + P * b = r + P * c
    BY <1>1, <2>1, DigitStep
  <2> HIDE DEF P, q, r, b, c
  <2>3. q = r /\ b = c
    BY <2>2, TopDigit
  <2> QED
    BY <2>3 DEF q, r, b, c, P
<1>2. Same(n)
  OBVIOUS
<1>3. \A k \in 0 .. n : Same(k)
  <2> SUFFICES ASSUME NEW l \in 0 .. n, ~Same(l) PROVE FALSE
    OBVIOUS
  <2> HIDE DEF Same
  <2> DEFINE T == {i \in 0 .. n : ~Same(n - i)}
  <2>1. n \in Nat /\ n - l \in 0 .. n /\ n - (n - l) = l
    BY WidthsAssumption
  <2>2. n - l \in T /\ T \in SUBSET Nat
    BY <2>1
  <2>3. PICK m \in T : \A j \in T : ~ (j < m)
    BY <2>2, LeastPosition
  <2>4. m \in 0 .. n /\ ~Same(n - m) /\ n - 0 = n
    BY <2>1, <2>3
  <2>5. m # 0
    BY <1>2, <2>4
  <2>6. m - 1 \in 0 .. n /\ m - 1 < m /\ n - m \in 0 .. (n - 1) /\ n - (m - 1) = n - m + 1
    BY <2>1, <2>4, <2>5
  <2>7. Same(n - m + 1)
    BY <2>3, <2>6
  <2> QED
    BY <1>1, <2>4, <2>6, <2>7
<1> HIDE DEF Same
<1>4. ASSUME NEW k \in 0 .. (n - 1) PROVE Bit(x, k) = Bit(y, k)
  <2>1. k + 1 \in 0 .. n
    BY WidthsAssumption
  <2> QED
    BY <1>1, <1>3, <2>1
<1> QED
  BY <1>4

(* Numbers whose bits add up below bit n add up there.                     *)
LEMMA DigitsAdd ==
    ASSUME NEW x \in Int, NEW y \in Int, NEW z \in Int, NEW n \in 0 .. WordBits,
           \A k \in 0 .. (n - 1) : Bit(z, k) = Bit(x, k) + Bit(y, k)
    PROVE  z % 2^n = (x % 2^n) + (y % 2^n)
<1> DEFINE Adds(k) == z % 2^k = (x % 2^k) + (y % 2^k)
<1>1. Adds(0)
  BY PowersAssumption
<1>2. ASSUME NEW k \in 0 .. (n - 1), Adds(k) PROVE Adds(k + 1)
  <2>1. k \in BitNumbers
    BY WidthsAssumption DEF BitNumbers
  <2> DEFINE P == 2^k
             Q == 2^(k + 1)
             a == Bit(x, k)
             b == Bit(y, k)
  <2>2. /\ P \in Nat \ {0} /\ a \in {0, 1} /\ b \in {0, 1}
        /\ x % P \in Int /\ y % P \in Int
        /\ x % Q = (x % P) + P * a /\ y % Q = (y % P) + P * b
        /\ z % Q = (z % P) + P * Bit(z, k)
    BY <2>1, DigitStep
  <2>3. Bit(z, k) = a + b
    OBVIOUS
  <2>4. z % P = (x % P) + (y % P)
    BY <1>2
  <2> HIDE DEF a, b, P, Q
  <2>5. P * (a + b) = P * a + P * b /\ P * a \in Int /\ P * b \in Int
    BY <2>2
  <2> DEFINE xp == x % P
             yp == y % P
             pa == P * a
             pb == P * b
  <2>6. z % Q = (xp + yp) + (pa + pb)
    BY <2>2, <2>3, <2>4, <2>5
  <2>7. xp \in Int /\ yp \in Int /\ pa \in Int /\ pb \in Int
    BY <2>2, <2>5
  <2>8. x % Q = xp + pa /\ y % Q = yp + pb
    BY <2>2
  <2> HIDE DEF xp, yp, pa, pb
  <2>9. z % Q = (x % Q) + (y % Q)
    BY <2>6, <2>7, <2>8
  <2> QED
    BY <2>9 DEF Q
<1>3. Adds(n)
  <2> SUFFICES ASSUME ~Adds(n) PROVE FALSE
    OBVIOUS
  <2> HIDE DEF Adds
  <2> DEFINE T == {i \in 0 .. n : ~Adds(i)}
  <2>1. n \in T /\ T \in SUBSET Nat
    BY WidthsAssumption
  <2>2. PICK m \in T : \A j \in T : ~ (j < m)
    BY <2>1, LeastPosition
  <2>3. m # 0 /\ m \in 0 .. n
    BY <1>1, <2>2
  <2>4. m - 1 \in 0 .. (n - 1) /\ m - 1 \in 0 .. n /\ m - 1 < m /\ m - 1 + 1 = m
    BY <2>3
  <2>5. Adds(m - 1)
    BY <2>2, <2>4
  <2> QED
    BY <1>2, <2>2, <2>4, <2>5
<1> QED
  BY <1>3

(* The bits of a bitwise or.                                               *)
LEMMA OrBits ==
    ASSUME NEW x \in Int, NEW y \in Int
    PROVE  \A k \in BitNumbers :
              /\ Bit(x, k) \in {0, 1} /\ Bit(y, k) \in {0, 1}
              /\ Bit(Or(x, y), k) = IF Bit(x, k) = 1 THEN 1 ELSE Bit(y, k)
<1> DEFINE f == [k \in BitNumbers |-> IF Bit(x, k) = 1 THEN 1 ELSE Bit(y, k)]
<1>1. ASSUME NEW k \in BitNumbers PROVE Bit(x, k) \in {0, 1} /\ Bit(y, k) \in {0, 1}
  BY DigitStep
<1>2. f \in [BitNumbers -> 0 .. 1]
  BY <1>1
<1>3. PICK z \in SWord : \A k \in BitNumbers : Bit(z, k) = f[k]
  BY <1>2, PatternsAssumption
<1>4. \A k \in BitNumbers : Bit(WordOf(f), k) = f[k]
  BY <1>3 DEF WordOf
<1> QED
  BY <1>1, <1>4 DEF Or

(* An or with a number that has no bit in common is a sum, below bit n,    *)
(* and so is one with a number equal to that below bit n.                  *)
LEMMA DisjointOr ==
    ASSUME NEW x \in Int, NEW s \in Int, NEW y \in Int, NEW n \in 0 .. WordBits,
           y % 2^n = s % 2^n, \A k \in BitNumbers : Bit(x, k) * Bit(s, k) = 0
    PROVE  Or(x, y) % 2^n = (x + s) % 2^n
<1> DEFINE z == Or(x, y)
           P == 2^n
<1>1. z \in Int /\ P \in Nat \ {0}
  BY OrType, WidthsAssumption
<1>2. ASSUME NEW k \in 0 .. (n - 1) PROVE Bit(z, k) = Bit(x, k) + Bit(s, k)
  <2>1. k \in BitNumbers
    BY WidthsAssumption DEF BitNumbers
  <2>2. Bit(y, k) = Bit(s, k)
    BY SameDigits
  <2>3. Bit(z, k) = IF Bit(x, k) = 1 THEN 1 ELSE Bit(s, k)
    BY <2>1, <2>2, OrBits
  <2>4. Bit(x, k) \in {0, 1} /\ Bit(s, k) \in {0, 1} /\ Bit(x, k) * Bit(s, k) = 0
    BY <2>1, DigitStep
  <2> HIDE DEF z
  <2> QED
    BY <2>3, <2>4
<1> HIDE DEF z
<1>3. z % P = (x % P) + (s % P)
  BY <1>1, <1>2, DigitsAdd
<1> HIDE DEF P
<1> DEFINE a == x % P
           b == s % P
           q == x \div P
           r == s \div P
<1>4. /\ a \in Int /\ b \in Int /\ q \in Int /\ r \in Int
      /\ x = P * q + a /\ s = P * r + b
  BY <1>1, DivMod
<1>5. a + b \in 0 .. (P - 1)
  BY <1>1, <1>3, DivMod
<1> HIDE DEF a, b, q, r
<1>6. x + s = (q + r) * P + (a + b)
  BY <1>1, <1>4
<1>7. ((q + r) * P + (a + b)) % P = a + b
  <2> DEFINE e == a + b
  <2>1. e \in 0 .. (P - 1) /\ q + r \in Int
    BY <1>4, <1>5
  <2> HIDE DEF e
  <2>2. ((q + r) * P + e) % P = e
    BY <1>1, <2>1, ModUnique
  <2> QED
    BY <2>2 DEF e
<1> QED
  BY <1>3, <1>6, <1>7 DEF P, a, b, z

-----------------------------------------------------------------------------
(* What an entry of each type makes of a word, for load and for the ABI    *)

(* The bits below a region, and a multiple of it added.                    *)
LEMMA RegionSize ==
    /\ 4 * TargetSize \in Nat \ {0} /\ 2^(WordBits - RegionBits) = 4 * TargetSize
    /\ WordBits - RegionBits \in 0 .. WordBits
BY Sizes, TargetAssumption, WidthsAssumption

(* The field of a jump depends on the address within its region only.      *)
LEMMA SameField ==
    ASSUME NEW a \in Int, NEW b \in Int, a % (4 * TargetSize) = b % (4 * TargetSize)
    PROVE  (a \div 4) % TargetSize = (b \div 4) % TargetSize
<1> DEFINE R == 4 * TargetSize
<1>1. R \in Nat \ {0} /\ TargetSize \in Nat \ {0}
  BY RegionSize, Sizes
<1>2. ASSUME NEW x \in Int
      PROVE  (x \div 4) % TargetSize = (x % R) \div 4
  <2> DEFINE q == x \div R
             r == x % R
             u == r \div 4
             v == r % 4
  <2>1. q \in Int /\ r \in 0 .. (R - 1) /\ x = R * q + r
    BY <1>1, DivMod
  <2>2. r \in Int /\ r < 4 * TargetSize /\ r >= 0
    BY <1>1, <2>1
  <2> HIDE DEF q, r, R
  <2>3. u \in Int /\ v \in 0 .. 3 /\ r = 4 * u + v /\ u >= 0
    BY <2>2
  <2> HIDE DEF u, v
  <2>4. u \in 0 .. (TargetSize - 1)
    BY <1>1, <2>2, <2>3
  <2>5. x = (q * TargetSize + u) * 4 + v
    BY <1>1, <2>1, <2>3 DEF R
  <2>6. q * TargetSize + u \in Int
    BY <1>1, <2>1, <2>4
  <2>7. x \div 4 = q * TargetSize + u
    <3> DEFINE d == q * TargetSize + u
    <3>1. x = d * 4 + v /\ d \in Int
      BY <2>5, <2>6
    <3> HIDE DEF d
    <3>2. (d * 4 + v) \div 4 = d
      BY <2>3, <3>1, ModUnique
    <3> QED
      BY <3>1, <3>2 DEF d
  <2>8. (q * TargetSize + u) % TargetSize = u
    BY <1>1, <2>1, <2>4, ModUnique
  <2> QED
    BY <2>7, <2>8 DEF u, r
<1> QED
  BY <1>2

(* A jump: load or-s the target with the place, the ABI adds them.         *)
LEMMA JumpLinked ==
    ASSUME NEW p \in Word, NEW w \in Word, NEW s \in Word, NEW lo,
           \A k \in BitNumbers : Bit(4 * (w % TargetSize), k) * Bit(s, k) = 0
    PROVE  Relocated("26", p, w, lo, s) =
              w - (w % TargetSize)
                + (((Abi!Within(p, 4 * (w % TargetSize)) + s) \div 4) % TargetSize)
<1> DEFINE R == 4 * TargetSize
           t == w % TargetSize
           x == 4 * t
           y == Unsigned(Region(p) + s)
           z == Or(x, y)
           g == Abi!Within(p, x) + s
           n == WordBits - RegionBits
<1>1. p \in Int /\ w \in Int /\ s \in Int
  <2>1. Word \subseteq Int
    BY Sizes
  <2> QED
    BY <2>1
<1>2. R \in Nat \ {0} /\ 2^n = R /\ n \in 0 .. WordBits /\ TargetSize \in Nat \ {0}
      /\ WordSize \in Nat \ {0} /\ WordSize % R = 0
  BY RegionSize, Sizes, TargetAssumption
<1>3. t \in Int /\ x \in Int /\ t * 4 = x
  BY <1>1, <1>2
<1>4. PICK c \in Nat : WordSize = c * R
  <2> HIDE DEF R
  <2> QED
    BY <1>2, ExactQuotient
<1> HIDE DEF R, t, n
<1>5. ASSUME NEW v \in Int PROVE Unsigned(v) % R = v % R
  <2> DEFINE d == v \div WordSize
             m == v % WordSize
  <2>1. d \in Int /\ m \in Int /\ v = WordSize * d + m
    BY <1>2, <1>5, DivMod
  <2> HIDE DEF d, m
  <2>2. v = (c * d) * R + m /\ c * d \in Int
    BY <1>2, <1>4, <2>1
  <2>3. v % R = m % R
    <3> DEFINE k == c * d
    <3>1. v = k * R + m /\ k \in Int
      BY <2>2
    <3> HIDE DEF k
    <3>2. (k * R + m) % R = m % R
      BY <1>2, <2>1, <3>1, ModPlus
    <3> QED
      BY <3>1, <3>2
  <2> QED
    BY <2>3 DEF Unsigned, m
<1>6. ASSUME NEW v \in Int PROVE (p - (p % R) + v) % R = v % R
  <2> DEFINE d == p \div R
             m == p % R
  <2>1. d \in Int /\ m \in Int /\ p = R * d + m
    BY <1>1, <1>2, DivMod
  <2> HIDE DEF d, m
  <2>2. p - m + v = d * R + v
    BY <1>2, <1>6, <2>1
  <2>3. (d * R + v) % R = v % R
    BY <1>2, <1>6, <2>1, ModPlus
  <2> QED
    BY <2>2, <2>3 DEF m
<1>7. p % R \in Int
  BY <1>1, <1>2
<1>8. y % R = s % R /\ y \in Int
  <2>1. Region(p) + s = p - (p % R) + s
    BY <1>2 DEF Region, n
  <2>2. p - (p % R) + s \in Int
    BY <1>1, <1>7
  <2>3. y \in Word /\ Word \subseteq Int
    BY <2>1, <2>2, UnsignedType, Sizes
  <2> QED
    BY <1>1, <1>5, <1>6, <2>1, <2>2, <2>3
<1> HIDE DEF y
<1>9. z % R = (x + s) % R /\ z \in Int
  <2>1. \A k \in BitNumbers : Bit(x, k) * Bit(s, k) = 0
    BY DEF t
  <2> HIDE DEF x
  <2>2. y % 2^n = s % 2^n
    BY <1>2, <1>8
  <2>3. Or(x, y) % 2^n = (x + s) % 2^n
    <3>1. x \in Int
      BY <1>3
    <3>2. y \in Int
      BY <1>8
    <3>3. s \in Int
      BY <1>1
    <3>4. n \in 0 .. WordBits
      BY <1>2
    <3> QED
      BY <2>1, <2>2, <3>1, <3>2, <3>3, <3>4, DisjointOr, Zenon
  <2> QED
    BY <1>2, <1>3, <1>8, <2>3, OrType
<1> HIDE DEF z
<1>10. Unsigned(z) \in Int /\ Unsigned(z) % R = (x + s) % R
  <2>1. Unsigned(z) \in Word /\ Word \subseteq Int
    BY <1>9, UnsignedType, Sizes
  <2>2. Unsigned(z) % R = z % R
    BY <1>5, <1>9
  <2> QED
    BY <1>9, <2>1, <2>2, Zenon
<1>11. g \in Int /\ g % R = (x + s) % R
  <2>1. g = p - (p % R) + (x + s)
    <3>1. g = (p - (p % R) + x) + s
      BY DEF Abi!Within, Abi!TargetSize, TargetSize, R
    <3> HIDE DEF g, x
    <3> QED
      BY <1>1, <1>3, <1>7, <3>1
  <2>2. x + s \in Int
    BY <1>1, <1>3
  <2> HIDE DEF g, x
  <2> QED
    BY <1>1, <1>6, <1>7, <2>1, <2>2
<1> HIDE DEF g
<1>12. (Unsigned(z) \div 4) % TargetSize = (g \div 4) % TargetSize
  BY <1>10, <1>11, SameField DEF R
<1>13. Relocated("26", p, w, lo, s) = w - t + ((Unsigned(z) \div 4) % TargetSize)
  <2>1. Relocated("26", p, w, lo, s) =
          w - (w % TargetSize)
            + ((Unsigned(Or((w % TargetSize) * 4, Unsigned(Region(p) + s))) \div 4) % TargetSize)
    BY DEF Relocated
  <2> QED
    BY <1>3, <2>1 DEF t, z, y
<1> QED
  BY <1>12, <1>13 DEF t, g

(* The carry of a number is that of the word it wraps to.                  *)
LEMMA CarryWraps == ASSUME NEW x \in Int PROVE Carried(Unsigned(x)) = Carried(x)
<1> DEFINE q == x \div WordSize
           y == x % WordSize
           h == SignHalf(LowHalf(x))
           d == (y - h) \div HalfSize
           e == (y - h) % HalfSize
           k == q * HalfSize
<1>1. q \in Int /\ y \in Int /\ x = WordSize * q + y
  <2>1. WordSize \in Nat \ {0}
    BY Sizes
  <2> QED
    BY <2>1, DivMod
<1> HIDE DEF q, y
<1>2. k \in Int /\ x = k * HalfSize + y
  BY <1>1, Sizes
<1> HIDE DEF k
<1>3. LowHalf(x) = LowHalf(y) /\ LowHalf(x) \in Int
  <2>1. (k * HalfSize + y) % HalfSize = y % HalfSize
    BY <1>1, <1>2, Sizes, ModPlus
  <2> QED
    BY <1>2, <2>1, LowHalfType, Sizes DEF LowHalf
<1>4. h \in Int
  BY <1>3, SignHalfType
<1> HIDE DEF h
<1>5. d \in Int /\ e \in 0 .. (HalfSize - 1) /\ y - h = HalfSize * d + e
  BY <1>1, <1>4, Sizes, DivMod
<1> HIDE DEF d, e
<1>6. x - h = (k + d) * HalfSize + e
  BY <1>1, <1>2, <1>4, <1>5, Sizes
<1>7. (x - h) \div HalfSize = k + d
  <2> DEFINE c == k + d
  <2>1. c \in Int
    BY <1>2, <1>5
  <2> HIDE DEF c
  <2>2. (c * HalfSize + e) \div HalfSize = c
    BY <1>5, <2>1, Sizes, ModUnique
  <2> QED
    BY <1>6, <2>2 DEF c
<1>8. LowHalf(k + d) = LowHalf(d)
  BY <1>1, <1>2, <1>5, Sizes, ModPlus DEF LowHalf, k
<1>9. Carried(x) = LowHalf(k + d)
  BY <1>7 DEF Carried, h
<1>10. Carried(y) = LowHalf(d)
  BY <1>3 DEF Carried, d, h
<1> QED
  BY <1>8, <1>9, <1>10 DEF Unsigned, y

(* The upper half of an address, when it was zero before.                  *)
LEMMA UpperLinked ==
    ASSUME NEW w \in Word, NEW s \in Word, NEW lo \in Word, NEW p, LowHalf(w) = 0
    PROVE  LET addend == (w % HalfSize) * HalfSize + Abi!Signed(lo % HalfSize)
               sum == Unsigned(addend + s)
           IN  Relocated("HI16", p, w, lo, s) =
                  Abi!High(w) + (((sum - Abi!Signed(sum % HalfSize)) \div HalfSize) % HalfSize)
<1> DEFINE l == SignHalf(LowHalf(lo))
           addend == (w % HalfSize) * HalfSize + Abi!Signed(lo % HalfSize)
           sum == Unsigned(addend + s)
<1>1. w \in Int /\ s \in Int /\ lo \in Int
  <2>1. Word \subseteq Int
    BY Sizes
  <2> QED
    BY <2>1
<1>2. l \in Int
  BY <1>1, LowHalfType, SignHalfType, Sizes
<1>3. \A h : Abi!Signed(h) = SignHalf(h)
  BY DEF Abi!Signed, SignHalf, Abi!HalfSize, HalfSize
<1>4. addend = l
  <2>1. w % HalfSize = 0 /\ 0 * HalfSize = 0
    BY Sizes DEF LowHalf
  <2>2. Abi!Signed(lo % HalfSize) = l
    BY <1>3 DEF LowHalf
  <2> HIDE DEF l
  <2> QED
    BY <1>2, <2>1, <2>2
<1>5. Relocated("HI16", p, w, lo, s) = w - LowHalf(w) + Carried(l + s)
  BY DEF Relocated
<1>6. Carried(sum) = Carried(l + s)
  <2>1. l + s \in Int
    BY <1>1, <1>2
  <2> HIDE DEF addend, l
  <2> QED
    BY <1>4, <2>1, CarryWraps
<1>7. Carried(sum) = ((sum - Abi!Signed(sum % HalfSize)) \div HalfSize) % HalfSize
  <2> HIDE DEF sum
  <2> QED
    BY <1>3 DEF Carried, LowHalf
<1>8. Abi!High(w) = w - LowHalf(w)
  BY DEF Abi!High, LowHalf, Abi!HalfSize, HalfSize
<1> HIDE DEF sum, l, addend
<1>9. Relocated("HI16", p, w, lo, s) =
         Abi!High(w) + (((sum - Abi!Signed(sum % HalfSize)) \div HalfSize) % HalfSize)
  BY <1>5, <1>6, <1>7, <1>8
<1> QED
  BY <1>9 DEF sum, addend

(* The lower half.                                                         *)
LEMMA LowerLinked ==
    ASSUME NEW w \in Word, NEW s \in Word, NEW lo, NEW p
    PROVE  Relocated("LO16", p, w, lo, s) = Abi!High(w) + ((w + s) % HalfSize)
<1> DEFINE d == w \div HalfSize
           e == w % HalfSize
           h == SignHalf(e)
<1>1. w \in Int /\ s \in Int
  <2>1. Word \subseteq Int
    BY Sizes
  <2> QED
    BY <2>1
<1>2. d \in Int /\ e \in Int /\ w = HalfSize * d + e
  BY <1>1, Sizes, DivMod
<1>3. h \in {e, e - HalfSize}
  BY DEF SignHalf
<1> HIDE DEF d, e, h
<1>4. PICK k \in Int : w + s = k * HalfSize + (h + s)
  <2>1. CASE h = e
    <3>1. w + s = d * HalfSize + (h + s)
      BY <1>1, <1>2, <2>1, Sizes
    <3> QED
      BY <1>2, <3>1
  <2>2. CASE h = e - HalfSize
    <3>1. w + s = (d + 1) * HalfSize + (h + s)
      BY <1>1, <1>2, <2>2, Sizes
    <3>2. d + 1 \in Int
      BY <1>2
    <3> QED
      BY <3>1, <3>2
  <2> QED
    BY <1>3, <2>1, <2>2
<1>5. (w + s) % HalfSize = (h + s) % HalfSize
  <2>1. h + s \in Int
    BY <1>1, <1>2, <1>3, Sizes
  <2> QED
    BY <1>4, <2>1, Sizes, ModPlus
<1>6. Relocated("LO16", p, w, lo, s) = w - LowHalf(w) + LowHalf(SignHalf(LowHalf(w)) + s)
  BY DEF Relocated
<1>7. Abi!High(w) = w - LowHalf(w)
  BY DEF Abi!High, LowHalf, Abi!HalfSize, HalfSize
<1> QED
  BY <1>5, <1>6, <1>7 DEF LowHalf, h, e

(* Whatever the type of an entry that is supported, load makes of the word *)
(* what the ABI does, under the conditions on its operands that load does  *)
(* not check.                                                              *)
LEMMA EntryLinked ==
    ASSUME NEW es, NEW m, NEW body, NEW p \in Word, NEW s \in Word, NEW lo \in Word \cup {Unknown},
           es[m].type \in Supported,
           body[es[m].offset \div 4 + 1] \in Word,
           es[m].type = "26" =>
              \A k \in BitNumbers :
                 Bit(4 * (body[es[m].offset \div 4 + 1] % TargetSize), k) * Bit(s, k) = 0,
           es[m].type = "HI16" =>
              /\ LowHalf(body[es[m].offset \div 4 + 1]) = 0
              /\ lo \in Word /\ lo = body[es[Abi!Completion(es, m)].offset \div 4 + 1]
    PROVE  Relocated(es[m].type, p, body[es[m].offset \div 4 + 1], lo, s) = Abi!Link(es, m, body, p, s)
<1> DEFINE type == es[m].type
           w == body[es[m].offset \div 4 + 1]
           l == body[es[Abi!Completion(es, m)].offset \div 4 + 1]
           a == (w % HalfSize) * HalfSize + Abi!Signed(l % HalfSize)
           sum == Unsigned(a + s)
           V32 == Unsigned(w + s)
           V26 == w - (w % TargetSize) + (((Abi!Within(p, 4 * (w % TargetSize)) + s) \div 4) % TargetSize)
           VHi == Abi!High(w) + (((sum - Abi!Signed(sum % HalfSize)) \div HalfSize) % HalfSize)
           VLo == Abi!High(w) + ((w + s) % HalfSize)
<1>1. Abi!Link(es, m, body, p, s) =
         CASE type = "32" -> V32 [] type = "26" -> V26 [] type = "HI16" -> VHi [] type = "LO16" -> VLo
  BY DEF Abi!Link, Abi!HalfSize, HalfSize, Abi!TargetSize, TargetSize, Abi!Unsigned, Unsigned
<1>2. CASE type = "32"
  <2>1. Relocated(type, p, w, lo, s) = Unsigned(s + w)
    BY <1>2 DEF Relocated
  <2>2. s + w = w + s
    <3>1. Word \subseteq Int
      BY Sizes
    <3>2. s \in Int /\ w \in Int
      BY <3>1
    <3> HIDE DEF w
    <3> QED
      BY <3>2
  <2> HIDE DEF w, V26, VHi, VLo
  <2>3. Abi!Link(es, m, body, p, s) = V32
    BY <1>1, <1>2
  <2> QED
    BY <2>1, <2>2, <2>3 DEF V32, w
<1>3. CASE type = "26"
  <2>1. Relocated("26", p, w, lo, s) = V26
    BY <1>3, JumpLinked
  <2> HIDE DEF w, V32, V26, VHi, VLo
  <2>2. Abi!Link(es, m, body, p, s) = V26
    BY <1>1, <1>3
  <2> QED
    BY <1>3, <2>1, <2>2 DEF w
<1>4. CASE type = "HI16"
  <2>1. lo = l
    BY <1>4
  <2>2. Relocated("HI16", p, w, lo, s) = VHi
    <3>1. lo \in Word /\ LowHalf(w) = 0
      BY <1>4
    <3> HIDE DEF l, w
    <3>2. LET addend == (w % HalfSize) * HalfSize + Abi!Signed(lo % HalfSize)
               sum1 == Unsigned(addend + s)
           IN  Relocated("HI16", p, w, lo, s) =
                  Abi!High(w) + (((sum1 - Abi!Signed(sum1 % HalfSize)) \div HalfSize) % HalfSize)
      BY <3>1, UpperLinked DEF w
    <3> QED
      BY <2>1, <3>2, Zenon
  <2> HIDE DEF w, V32, V26, VHi, VLo
  <2>3. Abi!Link(es, m, body, p, s) = VHi
    BY <1>1, <1>4
  <2> QED
    BY <1>4, <2>2, <2>3 DEF w
<1>5. CASE type = "LO16"
  <2>1. Relocated("LO16", p, w, lo, s) = VLo
    BY LowerLinked
  <2> HIDE DEF w, V32, V26, VHi, VLo
  <2>2. Abi!Link(es, m, body, p, s) = VLo
    BY <1>1, <1>5
  <2> QED
    BY <1>5, <2>1, <2>2 DEF w
<1> QED
  BY <1>2, <1>3, <1>4, <1>5 DEF Supported

-----------------------------------------------------------------------------
(* The image of a file                                                     *)

(* Every number up to the size of a set is the rank of a member.           *)
LEMMA RankOnto ==
    ASSUME NEW S \in SUBSET (1 .. 4), NEW k \in 1 .. Cardinality(S)
    PROVE  \E n \in S : Rank(S, n) = k
<1> DEFINE c(i) == Rank(S, i)
<1>1. c(0) = 0 /\ c(1) \in Nat /\ c(2) \in Nat /\ c(3) \in Nat /\ c(4) = Cardinality(S)
      /\ c(4) \in Nat
  BY RankBasics
<1>2. /\ c(1) = IF 1 \in S THEN c(0) + 1 ELSE c(0)
      /\ c(2) = IF 2 \in S THEN c(1) + 1 ELSE c(1)
      /\ c(3) = IF 3 \in S THEN c(2) + 1 ELSE c(2)
      /\ c(4) = IF 4 \in S THEN c(3) + 1 ELSE c(3)
  <2>1. \A i \in 0 .. 3 : Rank(S, i + 1) = IF i + 1 \in S THEN Rank(S, i) + 1 ELSE Rank(S, i)
    BY RankBasics
  <2>2. 0 + 1 = 1 /\ 1 + 1 = 2 /\ 2 + 1 = 3 /\ 3 + 1 = 4
    OBVIOUS
  <2> QED
    BY <2>1, <2>2
<1> HIDE DEF c
<1>3. k \in Int /\ 1 <= k /\ k <= c(4)
  BY <1>1
<1>4. \/ 1 \in S /\ c(1) = k
      \/ 2 \in S /\ c(2) = k
      \/ 3 \in S /\ c(3) = k
      \/ 4 \in S /\ c(4) = k
  BY <1>1, <1>2, <1>3
<1> QED
  BY <1>4 DEF c

(* A section with a greater number comes later.                            *)
LEMMA RankLater ==
    ASSUME NEW S \in SUBSET (1 .. 4), NEW m \in S, NEW n \in S
    PROVE  /\ Rank(S, n) < Rank(S, m) => n < m
           /\ Rank(S, n) = Rank(S, m) => n = m
<1>1. m \in Int /\ n \in Int
  OBVIOUS
<1>2. /\ Rank(S, n) \in Int /\ Rank(S, m) \in Int
      /\ m < n => Rank(S, m) < Rank(S, n)
      /\ n < m => Rank(S, n) < Rank(S, m)
  <2>1. Rank(S, n) \in 1 .. Cardinality(S) /\ Rank(S, m) \in 1 .. Cardinality(S)
    BY RankOrder
  <2>2. /\ m < n => Rank(S, m) < Rank(S, n)
        /\ n < m => Rank(S, n) < Rank(S, m)
    BY RankOrder
  <2> QED
    BY <2>1, <2>2
<1> QED
  BY <1>1, <1>2

(* The four names are different.                                           *)
LEMMA DifferentNames ==
    ASSUME NEW m \in 1 .. 4, NEW n \in 1 .. 4, SectionNames[m] = SectionNames[n]
    PROVE  m = n
<1>1. /\ SectionNames[1][1] = "text" /\ SectionNames[2][1] = "rodata"
      /\ SectionNames[3][1] = "data" /\ SectionNames[4][1] = "bss"
  BY DEF SectionNames
<1>2. (m = 1 \/ m = 2 \/ m = 3 \/ m = 4) /\ (n = 1 \/ n = 2 \/ n = 3 \/ n = 4)
  OBVIOUS
<1>3. SectionNames[m][1] = SectionNames[n][1]
  OBVIOUS
<1> QED
  BY <1>1, <1>2, <1>3

(* What ImageLinked asks of a file and its place.                          *)
Fit == Roomy /\ Readable /\ Relocatable

(* A section that ImageLinked is about is read whole, with its entries.    *)
LEMMA SectionWhole ==
    ASSUME file \in Files, Readable, NEW n \in Wanted
    PROVE  LET name == SectionNames[n]
               i == Abi!SectionNamed(file, name)
               es == EntriesOf(n)
           IN  /\ n \in 1 .. 4 /\ i # 0 /\ i \in DOMAIN file.sections
               /\ file.sections[i].name = name
               /\ Program(n) \in Seq(Word)
               /\ elf_load_section_in_memory(name) = Segment(name, next, TRUE, Program(n))
               /\ Abi!Room(file, name) = PageOf(4 * Len(Program(n)) + Page)
               /\ EntriesFor(file, name) = es
               /\ Len(es) \in Nat /\ DOMAIN es = 1 .. Len(es)
               /\ \A j \in DOMAIN es : es[j].offset \in Nat /\ es[j].offset % 4 = 0
<1> DEFINE name == SectionNames[n]
           i == Abi!SectionNamed(file, name)
           rel == <<"rel">> \o name
           r == Abi!SectionNamed(file, rel)
           es == EntriesOf(n)
           b == Program(n)
<1>1. n \in 1 .. 4 /\ n \in DOMAIN SectionNames /\ i # 0
  BY FourNames DEF Wanted
<1>2. i \in DOMAIN file.sections /\ file.sections[i].name = name
  BY <1>1 DEF Abi!SectionNamed
<1>3. b = file.sections[i].body
  BY <1>1 DEF Program, Abi!BodyOf
<1>4. elf_extract_scn_by_name(file, name) = i /\ elf_extract_scn_by_name(file, rel) = r
  BY <1>1 DEF Readable
<1>5. b \in Seq(Word)
  <2>1. i \in Matches(file, name)
    BY <1>1, <1>4, Found
  <2> HIDE DEF i
  <2> QED
    BY <1>1, <1>3, <2>1, FilesAssumption
<1>6. elf_load_section_in_memory(name) = Segment(name, next, TRUE, b)
  <2> DEFINE filled == [j \in DOMAIN b |-> IF file.sections[i].bits THEN b[j] ELSE Unknown]
  <2>1. elf_load_section_in_memory(name) = Segment(name, next, TRUE, filled)
    BY <1>1, <1>3, <1>4 DEF elf_load_section_in_memory, fill_mem_scn
  <2>2. filled = b
    <3>1. b # <<>> => file.sections[i].bits
      BY <1>1 DEF Readable
    <3> HIDE DEF b
    <3>2. CASE b = <<>>
      BY <3>2
    <3>3. CASE b # <<>>
      <4>1. filled = [j \in DOMAIN b |-> b[j]]
        BY <3>1, <3>3
      <4> QED
        BY <1>5, <4>1
    <3> QED
      BY <3>2, <3>3
  <2> HIDE DEF filled
  <2> QED
    BY <2>1, <2>2
<1>7. Abi!Room(file, name) = PageOf(4 * Len(b) + Page)
  BY <1>1 DEF Abi!Room, PageOf, Program
<1>8. EntriesFor(file, name) = es
  BY <1>4 DEF EntriesFor, EntriesOf, Abi!BodyOf
<1>9. /\ Len(es) \in Nat /\ DOMAIN es = 1 .. Len(es)
      /\ \A j \in DOMAIN es : es[j].offset \in Nat /\ es[j].offset % 4 = 0
  <2>1. CASE r = 0
    <3>1. es = <<>>
      BY <2>1 DEF EntriesOf, Abi!BodyOf
    <3> HIDE DEF es
    <3> QED
      BY <3>1
  <2>2. CASE r # 0
    <3>1. es = file.sections[r].body
      BY <2>2 DEF EntriesOf, Abi!BodyOf
    <3>2. r \in Matches(file, rel)
      BY <1>4, <2>2, Found
    <3> HIDE DEF r, es
    <3> QED
      BY <1>1, <3>1, <3>2, FilesAssumption
  <2> QED
    BY <2>1, <2>2
<1> QED
  BY <1>1, <1>2, <1>5, <1>6, <1>7, <1>8, <1>9

-----------------------------------------------------------------------------
(* The places and the symbols of a file that fits                          *)

(* The places of the sections of a file that fits, none of which wraps.    *)
LEMMA PlacesFit ==
    ASSUME file \in Files, base \in Word, Roomy, Readable
    PROVE  /\ base > 0 /\ PlaceOf(1) = base
           /\ \A n \in 1 .. 5 : /\ PlaceOf(n) \in Int /\ base <= PlaceOf(n)
                                /\ PlaceOf(n) < StackStart /\ PlaceOf(n) \in Word
           /\ \A n \in 1 .. 4 : PlaceOf(n + 1) = PlaceOf(n) + Abi!Room(file, SectionNames[n])
           /\ \A n \in 1 .. 4 : n \notin Wanted => PlaceOf(n + 1) = PlaceOf(n)
           /\ \A n \in Wanted : \A m \in 1 .. 5 :
                 m > n => PlaceOf(n) + 4 * Len(Program(n)) < PlaceOf(m)
<1> DEFINE r(n) == Abi!Room(file, SectionNames[n])
           z(n) == 4 * Len(Program(n))
           At(n) == PlaceOf(n)
<1>1. ASSUME NEW n \in 1 .. 4
      PROVE  /\ r(n) \in Int /\ 0 <= r(n)
             /\ n \notin Wanted => r(n) = 0
             /\ n \in Wanted => z(n) \in Int /\ 0 <= z(n) /\ z(n) < r(n)
  <2>1. CASE n \notin Wanted
    <3>1. Abi!SectionNamed(file, SectionNames[n]) = 0
      BY <2>1, FourNames DEF Wanted
    <3>2. r(n) = 0
      BY <3>1, NoSection
    <3> QED
      BY <2>1, <3>2
  <2>2. CASE n \in Wanted
    <3> DEFINE k == Len(Program(n))
    <3>1. r(n) = PageOf(4 * k + Page) /\ Program(n) \in Seq(Word)
      BY <2>2, SectionWhole
    <3>2. k \in Nat /\ z(n) = 4 * k
      BY <3>1
    <3>3. Page \in Nat \ {0}
      BY LoaderAssumption
    <3> HIDE DEF k, z, r
    <3>4. PageOf(4 * k + Page) = 4 * k + Page - ((4 * k + Page) % Page)
          /\ (4 * k + Page) % Page \in 0 .. (Page - 1)
      BY <3>2, <3>3 DEF PageOf
    <3> QED
      BY <2>2, <3>1, <3>2, <3>3, <3>4
  <2> QED
    BY <2>1, <2>2
<1>2. base \in Int /\ Word \subseteq Int
  BY Sizes
<1>3. /\ At(1) = base /\ \A n \in 1 .. 5 : At(n) \in Int
      /\ \A n \in 1 .. 4 : At(n + 1) = At(n) + r(n)
  <2>1. \A m \in 1 .. 4 : Abi!Room(file, SectionNames[m]) \in Int
    BY <1>1
  <2> QED
    BY <1>2, <2>1, Places DEF PlaceOf
<1>4. base > 0 /\ At(5) < StackStart
  BY FourNames DEF Roomy, SectionNames
<1>5. StackStart \in Int /\ StackStart < WordSize /\ WordSize \in Int
  BY LoaderAssumption, Sizes DEF Word
<1> HIDE DEF r, z, At
<1>6. /\ At(2) = At(1) + r(1) /\ At(3) = At(2) + r(2)
      /\ At(4) = At(3) + r(3) /\ At(5) = At(4) + r(4)
  <2>1. 1 \in 1 .. 4 /\ 2 \in 1 .. 4 /\ 3 \in 1 .. 4 /\ 4 \in 1 .. 4
        /\ 1 + 1 = 2 /\ 2 + 1 = 3 /\ 3 + 1 = 4 /\ 4 + 1 = 5
    OBVIOUS
  <2> QED
    BY <1>3, <2>1
<1>7. /\ r(1) \in Int /\ 0 <= r(1) /\ r(2) \in Int /\ 0 <= r(2)
      /\ r(3) \in Int /\ 0 <= r(3) /\ r(4) \in Int /\ 0 <= r(4)
  BY <1>1
<1>8. At(1) \in Int /\ At(2) \in Int /\ At(3) \in Int /\ At(4) \in Int /\ At(5) \in Int
  BY <1>3
<1>9. ASSUME NEW n \in 1 .. 5
      PROVE  base <= At(n) /\ At(n) < StackStart /\ At(n) \in Word
  <2>1. n = 1 \/ n = 2 \/ n = 3 \/ n = 4 \/ n = 5
    OBVIOUS
  <2>2. At(n) \in Int /\ base <= At(n) /\ At(n) <= At(5)
    BY <1>2, <1>3, <1>6, <1>7, <1>8, <2>1
  <2> QED
    BY <1>2, <1>4, <1>5, <1>8, <2>2 DEF Word
<1>10. ASSUME NEW n \in 1 .. 4, n \notin Wanted PROVE At(n + 1) = At(n)
  <2>1. r(n) = 0 /\ At(n + 1) = At(n) + r(n) /\ At(n) \in Int
    BY <1>1, <1>3, <1>10
  <2> QED
    BY <2>1
<1>11. ASSUME NEW n \in Wanted, NEW m \in 1 .. 5, m > n
       PROVE  At(n) + z(n) < At(m)
  <2>1. n \in 1 .. 4
    BY WantedType
  <2>2. n = 1 \/ n = 2 \/ n = 3 \/ n = 4
    BY <2>1
  <2>3. m = 1 \/ m = 2 \/ m = 3 \/ m = 4 \/ m = 5
    OBVIOUS
  <2>4. z(n) \in Int /\ z(n) < r(n)
    BY <1>1, <2>1
  <2>5. At(n) + r(n) <= At(m)
    BY <1>6, <1>7, <1>8, <1>11, <2>2, <2>3
  <2>6. At(n) \in Int /\ r(n) \in Int /\ At(m) \in Int
    BY <1>1, <1>3, <2>1
  <2> QED
    BY <2>4, <2>5, <2>6
<1> QED
  BY <1>3, <1>4, <1>9, <1>10, <1>11 DEF At, r, z

(* What an entry of such a file is about: a section that is loaded, whose  *)
(* number is that of its symbol.                                           *)
LEMMA SymbolPlace ==
    ASSUME file \in Files, Fit, symtab = elf_load_symtab(file),
           NEW n \in Wanted, NEW j \in DOMAIN EntriesOf(n)
    PROVE  LET e == EntriesOf(n)[j]
           IN  /\ symtab.syms[e.sym + 1].type = "section"
               /\ \E m \in Wanted :
                     Position(m) = e.sym /\ Abi!SymbolAt(file, base, SectionNames, e) = PlaceOf(m)
<1> DEFINE e == EntriesOf(n)[j]
           k == e.sym + 1
<1>1. OwnNumber(e)
  BY DEF Fit, Relocatable
<1> HIDE DEF e
<1>2. k \in DOMAIN file.symbols /\ file.symbols[k].type = "section"
  BY <1>1 DEF OwnNumber
<1>3. PICK m \in Wanted : /\ Abi!SectionNamed(file, SectionNames[m]) = file.symbols[k].shndx
                          /\ Position(m) = e.sym
  BY <1>1 DEF OwnNumber
<1>4. Abi!SymbolAt(file, base, SectionNames, e) = PlaceOf(m)
  <2> DEFINE i == file.symbols[k].shndx
             c == CHOOSE c \in DOMAIN SectionNames : SectionNames[c] = file.sections[i].name
  <2>1. i # 0 /\ m \in DOMAIN SectionNames
    BY <1>3 DEF Wanted
  <2>2. file.sections[i].name = SectionNames[m]
    BY <1>3, <2>1 DEF Abi!SectionNamed
  <2>3. c \in DOMAIN SectionNames /\ SectionNames[c] = SectionNames[m]
    BY <2>1, <2>2
  <2> HIDE DEF c
  <2>4. c = m
    BY <2>1, <2>3, FourNames, DifferentNames
  <2>5. Abi!SymbolAt(file, base, SectionNames, e) = Abi!Place(file, base, SectionNames, c)
    BY DEF Abi!SymbolAt, c
  <2> QED
    BY <2>4, <2>5 DEF PlaceOf
<1>5. symtab.syms[k].type = "section"
  <2>1. k \in Nat \ {0}
    <3>1. Position(m) \in 1 .. Cardinality(Wanted) /\ Cardinality(Wanted) \in Nat
      BY WantedType, RankOrder DEF Position, Rank
    <3> QED
      BY <1>3, <3>1
  <2> HIDE DEF k
  <2>2. TypeOf(file, k) = "section"
    <3> DEFINE known == {l \in 1 .. k : file.symbols[l].type \in KnownTypes}
               t == CHOOSE t \in known : \A l \in known : l <= t
    <3>1. k \in known /\ \A l \in known : l <= k /\ l \in Int
      BY <1>2, <2>1 DEF KnownTypes
    <3>2. t \in known /\ \A l \in known : l <= t
      BY <3>1
    <3>3. TypeOf(file, k) = file.symbols[t].type
      BY <3>1 DEF TypeOf
    <3> HIDE DEF known, t
    <3>4. t = k
      BY <2>1, <3>1, <3>2
    <3> QED
      BY <1>2, <3>3, <3>4
  <2>3. elf_extract_symbol_table(file) = file.symbols /\ elf_extract_symbol_table(file) # <<>>
    <3>1. n \in DOMAIN SectionNames /\ is_in_symbols(SectionNames[n], symtab)
      BY DEF Fit, Readable, Wanted
    <3>2. symtab.syms # <<>>
      BY <3>1 DEF is_in_symbols
    <3>3. elf_extract_symbol_table(file) # <<>>
      BY <3>2 DEF elf_load_symtab, Table
    <3> QED
      BY <3>3 DEF elf_extract_symbol_table
  <2>4. symtab.fresh
    BY DEF Fit, Readable
  <2>5. symtab.syms = [l \in DOMAIN file.symbols |-> new_sym32(file, l)]
    BY <2>3, <2>4 DEF elf_load_symtab, Table
  <2> QED
    BY <1>2, <2>2, <2>5 DEF new_sym32
<1> QED
  BY <1>3, <1>4, <1>5 DEF e

-----------------------------------------------------------------------------
(* The image of a file while it is made                                    *)

(* Section n with the entries before e relocated: e[1] is the number of a  *)
(* segment, and e[2] that of an entry for it.                              *)
Done(n, m, e) == Position(n) < e[1] \/ (Position(n) = e[1] /\ m < e[2])
EntryAt(n, j) == {m \in DOMAIN EntriesOf(n) : EntriesOf(n)[m].offset = 4 * (j - 1)}
LinkedOf(n) == Abi!Linked(file, base, SectionNames, n)
SoFar(n, e) ==
    [j \in DOMAIN Program(n) |->
        IF \E m \in EntryAt(n, j) : Done(n, m, e) THEN LinkedOf(n)[j] ELSE Program(n)[j]]
Image(n, e) == Segment(SectionNames[n], PlaceOf(n), TRUE, SoFar(n, e))

(* The segments of a file that fits, before the stack is there.            *)
Filled ==
    /\ phase = "sections" => entry = <<1, 1>> /\ next = PlaceOf(section)
    /\ \A n \in Wanted : n < section => seg[Position(n)] = Image(n, entry)
    /\ \A k \in DOMAIN seg : k > Rank(Wanted, section - 1) => seg[k] = Unattached
    /\ entry[1] <= Len(seg)

(* What makes ImageLinked inductive.                                       *)
ImageInv ==
    /\ phase # "none" => symtab = elf_load_symtab(file) /\ section \in 1 .. 5
    /\ phase \in {"relocation", "ready"} => section = 5
    /\ phase \in {"none", "sections"} => gone = "no"
    /\ phase # "none" => base = 0 \/ base > 4
    /\ phase # "none" /\ Fit =>
        /\ gone = "no" /\ Len(seg) = Cardinality(Wanted) + 1
        /\ phase # "ready" => Filled
        /\ phase = "ready" => ImageLinked

(* The conditions on a file are about the file and where it goes alone.    *)
LEMMA SameFile ==
    ASSUME UNCHANGED <<file, base, symtab>>
    PROVE  /\ Fit' <=> Fit
           /\ Wanted' = Wanted
           /\ \A n : PlaceOf(n)' = PlaceOf(n) /\ Position(n)' = Position(n)
           /\ \A n : Program(n)' = Program(n) /\ EntriesOf(n)' = EntriesOf(n)
           /\ \A n, e : SoFar(n, e)' = SoFar(n, e)
           /\ \A n, e : Image(n, e)' = Image(n, e)
<1>1. Wanted' = Wanted
  BY DEF Wanted
<1>2. \A n : PlaceOf(n)' = PlaceOf(n) /\ Position(n)' = Position(n)
  BY <1>1 DEF PlaceOf, Position
<1>3. \A n : Program(n)' = Program(n) /\ EntriesOf(n)' = EntriesOf(n) /\ LinkedOf(n)' = LinkedOf(n)
  BY DEF Program, EntriesOf, LinkedOf
<1>4. Roomy' <=> Roomy
  BY <1>2 DEF Roomy
<1>5. Readable' <=> Readable
  BY <1>1, <1>3 DEF Readable
<1>6. Relocatable' <=> Relocatable
  <2>1. \A e : OwnNumber(e)' <=> OwnNumber(e)
    BY <1>1, <1>2 DEF OwnNumber
  <2>2. \A n, e : AddendOf(n, e)' = AddendOf(n, e)
    BY <1>3 DEF AddendOf
  <2>3. \A es, n, j : SmallPair(es, n, j)' <=> SmallPair(es, n, j)
    BY <2>2 DEF SmallPair
  <2>4. \A n, e : Apart(n, e)' <=> Apart(n, e)
    BY <2>2 DEF Apart
  <2>5. \A es, n, j : OwnWord(es, n, j)' <=> OwnWord(es, n, j)
    BY <1>3 DEF OwnWord
  <2> QED
    BY <1>1, <1>3, <2>1, <2>3, <2>4, <2>5 DEF Relocatable
<1>7. \A n, m, e : Done(n, m, e)' <=> Done(n, m, e)
  BY <1>2 DEF Done
<1>8. \A n, j : EntryAt(n, j)' = EntryAt(n, j)
  BY <1>3 DEF EntryAt
<1>9. \A n, e : SoFar(n, e)' = SoFar(n, e)
  BY <1>3, <1>7, <1>8 DEF SoFar
<1>10. \A n, e : Image(n, e)' = Image(n, e)
  BY <1>2, <1>9 DEF Image
<1> QED
  BY <1>1, <1>2, <1>3, <1>4, <1>5, <1>6, <1>9, <1>10 DEF Fit

-----------------------------------------------------------------------------
(* An entry of a file that is being relocated                              *)

(* The segments of a file that is being relocated.                         *)
Relocating ==
    /\ LoaderInv /\ ImageInv /\ Fit /\ phase = "relocation"

(* What is known of each segment then.                                     *)
LEMMA RelocatingFacts ==
    ASSUME Relocating
    PROVE  LET d == Cardinality(Wanted)
           IN  /\ d \in Nat /\ DOMAIN seg = 1 .. (d + 1) /\ Len(seg) = d + 1
               /\ Roomy /\ Readable /\ Relocatable
               /\ file \in Files /\ base \in Word /\ base > 4
               /\ symtab = elf_load_symtab(file)
               /\ seg[d + 1] = Unattached
               /\ \A n \in Wanted : Position(n) \in 1 .. d /\ seg[Position(n)] = Image(n, entry)
               /\ \A k \in 1 .. d : \E n \in Wanted : Position(n) = k
<1> DEFINE d == Cardinality(Wanted)
<1>1. Rank(Wanted, 4) = d /\ d \in Nat
  <2>1. Rank(Wanted, 4) = d /\ Rank(Wanted, 4) \in Nat
    BY WantedType, RankBasics
  <2> QED
    BY <2>1
<1>2. Len(seg) = d + 1 /\ Filled /\ section = 5 /\ symtab = elf_load_symtab(file)
      /\ (base = 0 \/ base > 4)
  BY DEF Relocating, ImageInv
<1>3. DOMAIN seg = 1 .. (d + 1) /\ file \in Files /\ base \in Word
  BY <1>2 DEF Relocating, LoaderInv
<1>4. Roomy /\ Readable /\ Relocatable /\ base > 0
  BY DEF Relocating, Fit, Roomy
<1>5. seg[d + 1] = Unattached
  <2>1. section - 1 = 4
    BY <1>2
  <2>2. d + 1 \in 1 .. (d + 1) /\ d + 1 > d
    BY <1>1
  <2> QED
    BY <1>1, <1>2, <1>3, <2>1, <2>2 DEF Filled
<1>6. ASSUME NEW n \in Wanted PROVE Position(n) \in 1 .. d /\ seg[Position(n)] = Image(n, entry)
  <2>1. n < section
    BY <1>2, WantedType
  <2> QED
    BY <1>2, <2>1, WantedType, RankOrder DEF Filled, Position, Rank
<1>7. ASSUME NEW k \in 1 .. d PROVE \E n \in Wanted : Position(n) = k
  BY WantedType, RankOnto DEF Position, Rank
<1>8. base > 4
  BY <1>2, <1>4
<1> QED
  BY <1>1, <1>2, <1>3, <1>4, <1>5, <1>6, <1>7, <1>8

(* Only an access to address 0 can find a segment that is not attached.    *)
LEMMA NoFault ==
    ASSUME Relocating, NEW a \in Int, a # 0
    PROVE  ~ Faults(a)
<1> SUFFICES ASSUME Faults(a) PROVE FALSE
  OBVIOUS
<1> DEFINE k == SegmentOf(a)
           d == Cardinality(Wanted)
<1>1. k # 0 /\ ~ seg[k].content
  BY DEF Faults
<1>2. k \in DOMAIN seg /\ seg[k].start <= a /\ a <= Unsigned(seg[k].start + Size(seg[k]))
  BY <1>1, SegmentHit DEF Relocating
<1> HIDE DEF k
<1>3. k = d + 1
  <2>1. k \in 1 .. d \/ k = d + 1
    BY <1>2, RelocatingFacts
  <2>2. ASSUME k \in 1 .. d PROVE FALSE
    <3>1. PICK n \in Wanted : Position(n) = k
      BY <2>2, RelocatingFacts
    <3>2. seg[k] = Image(n, entry)
      BY <3>1, RelocatingFacts
    <3> QED
      BY <1>1, <3>2 DEF Image, Segment
  <2> QED
    BY <2>1, <2>2
<1>4. seg[k].start = 0 /\ Size(seg[k]) = 0
  <2>1. seg[k] = Unattached
    BY <1>3, RelocatingFacts
  <2> QED
    BY <2>1 DEF Unattached, Segment, Size
<1>5. Unsigned(seg[k].start + Size(seg[k])) = 0
  BY <1>4, Sizes DEF Unsigned
<1>6. 0 <= a /\ a <= 0
  BY <1>2, <1>4, <1>5
<1> QED
  BY <1>6

(* A word of a section is read and written where it was put, and holds     *)
(* what the entries before have made of it.                                *)
LEMMA WordOfSection ==
    ASSUME Relocating, NEW n \in Wanted, NEW j \in DOMAIN Program(n)
    PROVE  LET k == Position(n)
               a == PlaceOf(n) + 4 * (j - 1)
           IN  /\ j \in Nat \ {0} /\ a \in Word /\ a \in Int /\ a > 4 /\ a + 4 \in Word
               /\ DOMAIN seg[k].body = DOMAIN Program(n)
               /\ SegmentOf(a) = k /\ PositionOf(a, k) = j /\ k # 0
               /\ loadmem(a) = SoFar(n, entry)[j]
               /\ Program(n)[j] \in Word
<1> DEFINE k == Position(n)
           d == Cardinality(Wanted)
           a == PlaceOf(n) + 4 * (j - 1)
           b == Program(n)
           hits == {i \in DOMAIN seg : seg[i].start <= a /\ a <= Unsigned(seg[i].start + Size(seg[i]))}
<1>1. /\ d \in Nat /\ DOMAIN seg = 1 .. (d + 1) /\ Roomy /\ Readable
      /\ file \in Files /\ base \in Word /\ base > 4 /\ seg[d + 1] = Unattached
  BY RelocatingFacts
<1>2. k \in 1 .. d /\ seg[k] = Image(n, entry)
  BY RelocatingFacts
<1>3. b \in Seq(Word) /\ n \in 1 .. 4
  BY <1>1, SectionWhole
<1>4. j \in 1 .. Len(b) /\ Len(b) \in Nat /\ b[j] \in Word
  <2> HIDE DEF b
  <2> QED
    BY <1>3 DEF b
<1>5. StackStart \in Int /\ StackStart < WordSize /\ WordSize \in Int /\ base \in Int /\ Word \subseteq Int
  <2>1. Word \subseteq Int
    BY Sizes
  <2> QED
    BY <1>1, <2>1, LoaderAssumption, Sizes DEF Word
<1>6. /\ \A m \in 1 .. 5 : PlaceOf(m) \in Int /\ base <= PlaceOf(m) /\ PlaceOf(m) < StackStart
      /\ \A i \in Wanted : \A m \in 1 .. 5 : m > i => PlaceOf(i) + 4 * Len(Program(i)) < PlaceOf(m)
  BY <1>1, PlacesFit
<1>7. ASSUME NEW i \in Wanted
      PROVE  /\ PlaceOf(i) \in Int /\ base <= PlaceOf(i) /\ Len(Program(i)) \in Nat
             /\ PlaceOf(i) + 4 * Len(Program(i)) \in Word
             /\ PlaceOf(i) + 4 * Len(Program(i)) < StackStart
             /\ seg[Position(i)].start = PlaceOf(i)
             /\ Size(seg[Position(i)]) = 4 * Len(Program(i))
             /\ Unsigned(seg[Position(i)].start + Size(seg[Position(i)])) = PlaceOf(i) + 4 * Len(Program(i))
  <2> DEFINE l == Len(Program(i))
             q == PlaceOf(i)
  <2>1. i \in 1 .. 4 /\ Program(i) \in Seq(Word)
    BY <1>1, SectionWhole
  <2>2. l \in Nat /\ DOMAIN Program(i) = 1 .. l
    BY <2>1
  <2>3. q \in Int /\ base <= q /\ q + 4 * l < PlaceOf(5) /\ PlaceOf(5) < StackStart /\ PlaceOf(5) \in Int
    BY <1>6, <2>1
  <2>4. seg[Position(i)] = Image(i, entry)
    BY RelocatingFacts
  <2>5. Len(SoFar(i, entry)) = l
    <3> DEFINE f == SoFar(i, entry)
    <3>1. DOMAIN f = 1 .. l
      BY <2>2 DEF SoFar
    <3> HIDE DEF f, l
    <3> QED
      BY <2>2, <3>1 DEF f
  <2>6. seg[Position(i)].start = q /\ Size(seg[Position(i)]) = 4 * l
    BY <2>4, <2>5 DEF Image, Segment, Size
  <2> HIDE DEF l, q
  <2>7. q + 4 * l \in 0 .. (WordSize - 1) /\ q + 4 * l < StackStart
    BY <1>1, <1>5, <2>2, <2>3
  <2>8. Unsigned(q + 4 * l) = q + 4 * l
    BY <2>7, Sizes, SmallMod DEF Unsigned
  <2> QED
    BY <2>2, <2>3, <2>6, <2>7, <2>8 DEF l, q, Word
<1>8. /\ PlaceOf(n) \in Int /\ PlaceOf(n) <= a /\ a + 4 <= PlaceOf(n) + 4 * Len(b)
      /\ a \in Int /\ a >= base
  <2> HIDE DEF b
  <2>1. PlaceOf(n) \in Int /\ base <= PlaceOf(n) /\ base \in Int
    BY <1>5, <1>7
  <2> QED
    BY <1>4, <2>1
<1>9. a \in Word /\ a > 4 /\ a + 4 \in Word
  <2>1. PlaceOf(n) + 4 * Len(b) < StackStart /\ PlaceOf(n) + 4 * Len(b) \in Int
    BY <1>5, <1>7
  <2> HIDE DEF a, b
  <2> QED
    BY <1>1, <1>5, <1>8, <2>1 DEF Word
<1>10. k \in hits
  <2>1. PlaceOf(n) + 4 * Len(b) = Unsigned(seg[k].start + Size(seg[k])) /\ seg[k].start = PlaceOf(n)
        /\ PlaceOf(n) + 4 * Len(b) \in Int
    BY <1>5, <1>7
  <2>2. k \in DOMAIN seg
    BY <1>1, <1>2
  <2> HIDE DEF a, b, k
  <2>3. a <= PlaceOf(n) + 4 * Len(b)
    BY <1>8, <2>1
  <2> QED
    BY <1>8, <2>1, <2>2, <2>3
<1>11. ASSUME NEW i \in hits PROVE i = k
  <2>1. i \in 1 .. d \/ i = d + 1
    BY <1>1
  <2>2. seg[i].start <= a /\ a <= Unsigned(seg[i].start + Size(seg[i]))
    OBVIOUS
  <2> HIDE DEF hits, a, b
  <2>3. ASSUME i = d + 1 PROVE FALSE
    <3>1. seg[i].start = 0 /\ Size(seg[i]) = 0
      BY <1>1, <2>3 DEF Unattached, Segment, Size
    <3>2. Unsigned(seg[i].start + Size(seg[i])) = 0
      BY <3>1, Sizes DEF Unsigned
    <3> QED
      BY <1>8, <1>9, <2>2, <3>2
  <2>4. CASE i \in 1 .. d
    <3>1. PICK m \in Wanted : Position(m) = i
      BY <2>4, RelocatingFacts
    <3>2. PlaceOf(m) <= a /\ a <= PlaceOf(m) + 4 * Len(Program(m))
      BY <1>7, <2>2, <3>1
    <3>3. m \in 1 .. 4 /\ m \in Int /\ n \in Int
      BY <1>3, WantedType
    <3>4. PlaceOf(m) \in Int /\ PlaceOf(m) + 4 * Len(Program(m)) \in Int
          /\ PlaceOf(n) + 4 * Len(b) \in Int
      BY <1>5, <1>7
    <3>5. ASSUME m > n PROVE FALSE
      <4>1. PlaceOf(n) + 4 * Len(b) < PlaceOf(m)
        BY <1>6, <3>3, <3>5 DEF b
      <4> QED
        BY <1>8, <3>2, <3>4, <4>1
    <3>6. ASSUME n > m PROVE FALSE
      <4>1. PlaceOf(m) + 4 * Len(Program(m)) < PlaceOf(n)
        BY <1>3, <1>6, <3>6
      <4> QED
        BY <1>8, <3>2, <3>4, <4>1
    <3>7. m = n
      BY <3>3, <3>5, <3>6
    <3> QED
      BY <3>1, <3>7
  <2> QED
    BY <2>1, <2>3, <2>4
<1>12. SegmentOf(a) = k
  <2>1. SegmentOf(a) = IF hits = {} THEN 0 ELSE CHOOSE i \in hits : \A l \in hits : l <= i
    BY DEF SegmentOf
  <2>2. k <= k
    BY <1>2
  <2> HIDE DEF hits, a, k
  <2>3. hits = {k}
    BY <1>10, <1>11
  <2> QED
    BY <2>1, <2>2, <2>3
<1>13. PositionOf(a, k) = j
  <2>1. seg[k].start = PlaceOf(n)
    BY <1>7
  <2>2. PositionOf(a, k) = (a - PlaceOf(n)) \div 4 + 1
    BY <2>1 DEF PositionOf
  <2>3. a - PlaceOf(n) = 4 * (j - 1) /\ j \in Nat
    <3> HIDE DEF b
    <3> QED
      BY <1>4, <1>8
  <2> HIDE DEF a, k
  <2> QED
    BY <2>2, <2>3
<1>14. seg[k].body = SoFar(n, entry) /\ DOMAIN seg[k].body = DOMAIN b
  BY <1>2 DEF Image, Segment, SoFar
<1>15. loadmem(a) = SoFar(n, entry)[j]
  <2>1. k # 0 /\ j \in DOMAIN seg[k].body
    BY <1>2, <1>14
  <2> HIDE DEF a, k
  <2> QED
    BY <1>12, <1>13, <1>14, <2>1 DEF loadmem
<1> QED
  BY <1>2, <1>4, <1>8, <1>9, <1>12, <1>13, <1>14, <1>15

(* The word an entry is for, which no other entry is for.                  *)
LEMMA WordOfEntry ==
    ASSUME Relocating, NEW n \in Wanted, NEW m \in DOMAIN EntriesOf(n)
    PROVE  LET es == EntriesOf(n)
               j == es[m].offset \div 4 + 1
               p == PlaceOf(n) + 4 * (j - 1)
           IN  /\ m \in Nat /\ j \in DOMAIN Program(n) /\ es[m].offset = 4 * (j - 1)
               /\ EntryAt(n, j) = {m}
               /\ LinkedOf(n)[j] =
                    Abi!Link(es, m, Program(n), p, Abi!SymbolAt(file, base, SectionNames, es[m]))
<1> DEFINE es == EntriesOf(n)
           o == es[m].offset
           j == o \div 4 + 1
           p == PlaceOf(n) + 4 * (j - 1)
<1>1. file \in Files /\ Readable /\ Relocatable
  BY RelocatingFacts
<1>2. /\ Len(es) \in Nat /\ DOMAIN es = 1 .. Len(es)
      /\ \A i \in DOMAIN es : es[i].offset \in Nat /\ es[i].offset % 4 = 0
  BY <1>1, SectionWhole
<1>3. j \in DOMAIN Program(n) /\ \A i \in DOMAIN es : es[i].offset = es[m].offset => i = m
  BY <1>1 DEF Relocatable, OwnWord
<1>4. o = 4 * (j - 1) /\ m \in Nat
  <2>1. o \in Nat /\ o % 4 = 0 /\ m \in Nat
    BY <1>2
  <2> HIDE DEF o
  <2> QED
    BY <2>1
<1>5. EntryAt(n, j) = {m}
  <2>1. EntryAt(n, j) = {i \in DOMAIN es : es[i].offset = o}
    BY <1>4 DEF EntryAt
  <2>2. \A i \in DOMAIN es : es[i].offset = o <=> i = m
    BY <1>3
  <2>3. m \in DOMAIN es
    OBVIOUS
  <2> HIDE DEF es, o, j
  <2> QED
    BY <2>1, <2>2, <2>3
<1>6. LinkedOf(n)[j] = Abi!Link(es, m, Program(n), p, Abi!SymbolAt(file, base, SectionNames, es[m]))
  <2> DEFINE q(i) == PlaceOf(n) + es[i].offset
             At(i) == {l \in DOMAIN es : es[l].offset = 4 * (i - 1)}
             S(l) == Abi!SymbolAt(file, base, SectionNames, es[l])
             b == Program(n)
  <2>1. LinkedOf(n) = [i \in DOMAIN b |->
            IF At(i) = {} THEN b[i]
            ELSE LET l == CHOOSE l \in At(i) : TRUE
                 IN  Abi!Link(es, l, b, q(l), S(l))]
    BY DEF LinkedOf, Abi!Linked, PlaceOf, Program, EntriesOf
  <2>2. At(j) = {m}
    BY <1>5 DEF EntryAt
  <2>3. (CHOOSE l \in At(j) : TRUE) = m /\ At(j) # {}
    <3> HIDE DEF At
    <3> QED
      BY <2>2
  <2>4. q(m) = p
    BY <1>4
  <2> HIDE DEF At, S, b, q, es, p, j
  <2>5. LinkedOf(n)[j] = LET l == CHOOSE l \in At(j) : TRUE
                         IN  Abi!Link(es, l, b, q(l), S(l))
    <3>1. j \in DOMAIN b
      BY <1>3 DEF b
    <3> QED
      BY <2>1, <2>3, <3>1
  <2>6. LinkedOf(n)[j] = Abi!Link(es, m, b, p, S(m))
    BY <2>3, <2>4, <2>5
  <2> QED
    BY <2>6 DEF S, b
<1> QED
  BY <1>3, <1>4, <1>5, <1>6

(* A word that no entry before e is for is as it was in the file.          *)
LEMMA NotYet ==
    ASSUME NEW n, NEW j \in DOMAIN Program(n), NEW e, \A m \in EntryAt(n, j) : ~ Done(n, m, e)
    PROVE  SoFar(n, e)[j] = Program(n)[j]
BY DEF SoFar

(* One entry more: its word is what the ABI makes of it.                   *)
LEMMA OneMore ==
    ASSUME Relocating, NEW n \in Wanted, NEW m \in DOMAIN EntriesOf(n)
    PROVE  LET k == Position(n)
               j == EntriesOf(n)[m].offset \div 4 + 1
           IN  /\ SoFar(n, <<k, m + 1>>) = [SoFar(n, <<k, m>>) EXCEPT ![j] = LinkedOf(n)[j]]
               /\ \A i \in Wanted : i # n => SoFar(i, <<k, m + 1>>) = SoFar(i, <<k, m>>)
<1> DEFINE k == Position(n)
           j == EntriesOf(n)[m].offset \div 4 + 1
           before == SoFar(n, <<k, m>>)
           after == SoFar(n, <<k, m + 1>>)
<1>1. /\ m \in Nat /\ j \in DOMAIN Program(n)
      /\ EntriesOf(n)[m].offset = 4 * (j - 1)
      /\ EntryAt(n, j) = {m}
  BY WordOfEntry
<1>2. file \in Files /\ Readable /\ n \in 1 .. 4 /\ \A i \in Wanted : i \in 1 .. 4
  BY RelocatingFacts, WantedType
<1>3. \A l \in DOMAIN EntriesOf(n) : l \in Int
  <2>1. Len(EntriesOf(n)) \in Nat /\ DOMAIN EntriesOf(n) = 1 .. Len(EntriesOf(n))
    BY <1>2, SectionWhole
  <2> QED
    BY <2>1
<1>4. \A i \in Wanted : Position(i) \in Int
  <2>1. \A i \in Wanted : Position(i) \in 1 .. Cardinality(Wanted)
    BY RelocatingFacts
  <2> QED
    BY <2>1
<1>5. ASSUME NEW l \in DOMAIN EntriesOf(n)
      PROVE  Done(n, l, <<k, m + 1>>) <=> Done(n, l, <<k, m>>) \/ l = m
  <2>1. Done(n, l, <<k, m + 1>>) <=> k < k \/ l < m + 1
    BY DEF Done
  <2>2. Done(n, l, <<k, m>>) <=> k < k \/ l < m
    BY DEF Done
  <2>3. k \in Int /\ l \in Int
    BY <1>3, <1>4
  <2> HIDE DEF k
  <2> QED
    BY <1>1, <2>1, <2>2, <2>3
<1>6. after = [before EXCEPT ![j] = LinkedOf(n)[j]]
  <2>1. DOMAIN before = DOMAIN Program(n) /\ after = [i \in DOMAIN Program(n) |-> after[i]]
    BY DEF SoFar
  <2>2. before = [i \in DOMAIN Program(n) |-> before[i]]
    BY DEF SoFar
  <2>3. after[j] = LinkedOf(n)[j]
    <3>1. \E l \in EntryAt(n, j) : Done(n, l, <<k, m + 1>>)
      BY <1>1, <1>5
    <3> QED
      BY <1>1, <3>1 DEF SoFar
  <2>4. ASSUME NEW i \in DOMAIN Program(n), i # j PROVE after[i] = before[i]
    <3>1. ASSUME NEW l \in EntryAt(n, i)
          PROVE  Done(n, l, <<k, m + 1>>) <=> Done(n, l, <<k, m>>)
      <4>1. l \in DOMAIN EntriesOf(n) /\ EntriesOf(n)[l].offset = 4 * (i - 1)
        BY DEF EntryAt
      <4>2. i \in Int /\ j \in Int
        <5>1. Program(n) \in Seq(Word)
          BY <1>2, SectionWhole
        <5>2. DOMAIN Program(n) \subseteq Int
          BY <5>1
        <5> QED
          BY <1>1, <5>2
      <4> HIDE DEF j
      <4>3. l # m
        BY <1>1, <2>4, <4>1, <4>2
      <4> QED
        BY <1>5, <4>1, <4>3
    <3> QED
      BY <3>1 DEF SoFar
  <2> HIDE DEF after, before, j
  <2> QED
    BY <1>1, <2>1, <2>2, <2>3, <2>4
<1>7. ASSUME NEW i \in Wanted, i # n
      PROVE  SoFar(i, <<k, m + 1>>) = SoFar(i, <<k, m>>)
  <2>1. Position(i) # k
    BY <1>7, WantedType, RankLater DEF Position, Rank
  <2>2. \A l : Done(i, l, <<k, m + 1>>) <=> Done(i, l, <<k, m>>)
    BY <2>1 DEF Done
  <2> QED
    BY <2>2 DEF SoFar
<1> QED
  BY <1>6, <1>7

(* The value load stores for an entry: that of the ABI.                    *)
LEMMA EntryStored ==
    ASSUME Relocating, NEW n \in Wanted, NEW m \in DOMAIN EntriesOf(n), entry = <<Position(n), m>>
    PROVE  LET e == EntriesOf(n)[m]
               j == e.offset \div 4 + 1
               p == PlaceOf(n) + 4 * (j - 1)
           IN  /\ ~ Faults(p) /\ \A a \in ReadBy(e.type, p) : ~ Faults(a)
               /\ Apply(e, p) => storemem(p, LinkedOf(n)[j])
<1> DEFINE k == Position(n)
           es == EntriesOf(n)
           e == es[m]
           b == Program(n)
           j == e.offset \div 4 + 1
           p == PlaceOf(n) + 4 * (j - 1)
           s == Abi!SymbolAt(file, base, SectionNames, e)
           w == loadmem(p)
           lo == loadmem(Unsigned(p + 4))
           c == Abi!Completion(es, m)
<1>1. /\ LoaderInv /\ file \in Files /\ Roomy /\ Readable /\ Relocatable /\ Fit /\ base \in Word
      /\ symtab = elf_load_symtab(file) /\ DOMAIN seg = 1 .. (Cardinality(Wanted) + 1)
      /\ Cardinality(Wanted) \in Nat
  BY RelocatingFacts DEF Relocating
<1>2. /\ m \in Nat /\ j \in DOMAIN b /\ e.offset = 4 * (j - 1) /\ EntryAt(n, j) = {m}
      /\ LinkedOf(n)[j] = Abi!Link(es, m, b, p, s)
  BY WordOfEntry
<1>3. /\ j \in Nat \ {0} /\ p \in Word /\ p \in Int /\ p > 4 /\ p + 4 \in Word
      /\ w = SoFar(n, entry)[j] /\ b[j] \in Word
  BY <1>2, WordOfSection
<1>4. w = b[j]
  <2>1. ~ Done(n, m, entry)
    <3>1. k \in Int
      BY RelocatingFacts
    <3> HIDE DEF k
    <3>2. Done(n, m, entry) <=> k < k \/ m < m
      BY DEF Done, k
    <3> QED
      BY <1>2, <3>1, <3>2
  <2> QED
    BY <1>2, <1>3, <2>1, NotYet
<1>5. /\ e.type \in Supported /\ (e.type = "HI16" => SmallPair(es, n, m))
      /\ (e.type = "26" => Apart(n, e))
  BY <1>1 DEF Relocatable
<1>6. PICK i \in Wanted : Position(i) = e.sym /\ s = PlaceOf(i)
  BY <1>1, SymbolPlace
<1>7. StartFor(e) = s /\ s \in Word
  <2>1. e.sym \in DOMAIN seg /\ seg[e.sym] = Image(i, entry)
    <3>1. e.sym \in 1 .. Cardinality(Wanted) /\ seg[e.sym] = Image(i, entry)
      BY <1>6, RelocatingFacts
    <3> HIDE DEF e
    <3> QED
      BY <1>1, <3>1
  <2>2. i \in 1 .. 5
    BY WantedType
  <2>3. PlaceOf(i) \in Word
    BY <1>1, <2>2, PlacesFit
  <2> HIDE DEF e, s
  <2> QED
    BY <1>6, <2>1, <2>3 DEF StartFor, Image, Segment
<1>8. lo \in Word \cup {Unknown}
  BY <1>1, LoadmemType
<1>9. ASSUME e.type = "HI16"
      PROVE  LowHalf(b[j]) = 0 /\ lo \in Word /\ lo = b[es[c].offset \div 4 + 1]
  <2> DEFINE jj == es[c].offset \div 4 + 1
  <2>1. SmallPair(es, n, m)
    BY <1>5, <1>9
  <2>2. LowHalf(b[j]) = 0
    BY <2>1 DEF SmallPair, AddendOf
  <2>3. Len(es) \in Nat /\ DOMAIN es = 1 .. Len(es)
    BY <1>1, SectionWhole
  <2>4. c \in Abi!Completes(es, m)
    <3> DEFINE C == Abi!Completes(es, m)
    <3>1. C # {} /\ C \subseteq Nat
      <4>1. C \subseteq (m + 1) .. Len(es)
        BY DEF Abi!Completes
      <4> HIDE DEF C
      <4>2. m + 1 \in Nat
        BY <1>2
      <4>3. (m + 1) .. Len(es) \subseteq Nat
        BY <4>2
      <4>4. C # {}
        BY <2>1 DEF SmallPair, C
      <4> QED
        BY <4>1, <4>3, <4>4
    <3> HIDE DEF C
    <3>2. PICK x \in C : \A y \in C : ~ (y < x)
      BY <3>1, LeastPosition
    <3>3. \A y \in C : x <= y
      BY <3>1, <3>2
    <3>4. (CHOOSE x1 \in C : \A y \in C : x1 <= y) \in C
      BY <3>3
    <3> QED
      BY <3>4 DEF Abi!Completion, C
  <2> HIDE DEF c
  <2>5. c \in DOMAIN es /\ c > m /\ c \in Int
    <3>1. c \in (m + 1) .. Len(es)
      BY <2>4 DEF Abi!Completes
    <3> HIDE DEF es
    <3> QED
      BY <1>2, <2>3, <3>1
  <2>6. es[c].offset = e.offset + 4
    BY <2>1 DEF SmallPair, c
  <2>7. /\ jj \in DOMAIN b /\ es[c].offset = 4 * (jj - 1) /\ EntryAt(n, jj) = {c}
    BY <2>5, WordOfEntry
  <2>8. PlaceOf(n) + 4 * (jj - 1) = p + 4
    <3>1. PlaceOf(n) \in Int
      <4>1. n \in 1 .. 5
        BY WantedType
      <4> QED
        BY <1>1, <4>1, PlacesFit
    <3>2. 4 * (jj - 1) = 4 * (j - 1) + 4
      BY <1>2, <2>6, <2>7
    <3>3. 4 * (j - 1) \in Int
      <4> HIDE DEF j
      <4> QED
        BY <1>3
    <3> HIDE DEF j, jj
    <3> QED
      BY <3>1, <3>2, <3>3
  <2>9. Unsigned(p + 4) = p + 4
    <3> HIDE DEF p
    <3>1. p + 4 \in 0 .. (WordSize - 1)
      BY <1>3 DEF Word
    <3> QED
      BY <3>1, Sizes, SmallMod DEF Unsigned
  <2>10. lo = SoFar(n, entry)[jj] /\ b[jj] \in Word
    <3>1. loadmem(PlaceOf(n) + 4 * (jj - 1)) = SoFar(n, entry)[jj] /\ b[jj] \in Word
      BY <2>7, WordOfSection
    <3> HIDE DEF jj, p, b
    <3> QED
      BY <2>8, <2>9, <3>1
  <2>11. ~ Done(n, c, entry)
    <3>1. k \in Int
      BY RelocatingFacts
    <3> HIDE DEF k
    <3>2. Done(n, c, entry) <=> k < k \/ c < m
      BY DEF Done, k
    <3> QED
      BY <1>2, <2>5, <3>1, <3>2
  <2>12. SoFar(n, entry)[jj] = b[jj]
    BY <2>7, <2>11, NotYet
  <2> HIDE DEF jj, b, lo
  <2>13. lo = b[jj] /\ lo \in Word
    BY <2>10, <2>12
  <2> QED
    BY <2>2, <2>13 DEF jj
<1>10. ASSUME e.type = "26"
       PROVE  \A q \in BitNumbers : Bit(4 * (b[j] % TargetSize), q) * Bit(s, q) = 0
  BY <1>5, <1>10 DEF Apart, AddendOf
<1>11. Relocated(e.type, p, b[j], lo, s) = Abi!Link(es, m, b, p, s)
  <2> HIDE DEF lo, s, p, es, b
  <2>1. es[m].type \in Supported /\ p \in Word /\ s \in Word /\ lo \in Word \cup {Unknown}
    BY <1>3, <1>5, <1>7, <1>8
  <2>2. b[es[m].offset \div 4 + 1] \in Word
    BY <1>3
  <2>3. es[m].type = "26" =>
           \A q \in BitNumbers :
              Bit(4 * (b[es[m].offset \div 4 + 1] % TargetSize), q) * Bit(s, q) = 0
    BY <1>10
  <2>4. es[m].type = "HI16" =>
           /\ LowHalf(b[es[m].offset \div 4 + 1]) = 0
           /\ lo \in Word /\ lo = b[es[Abi!Completion(es, m)].offset \div 4 + 1]
    BY <1>9
  <2> QED
    BY <2>1, <2>2, <2>3, <2>4, EntryLinked, Zenon
<1>12. Unknown \notin Operands(e.type, w, lo, s)
  <2>1. Unknown \notin Word
    BY DEF Unknown, Word
  <2>2. w \in Word /\ s \in Word /\ (e.type = "HI16" => lo \in Word)
    BY <1>3, <1>4, <1>7, <1>9
  <2> HIDE DEF w, lo, s, e
  <2> QED
    BY <2>1, <2>2 DEF Operands
<1>13. Apply(e, p) => storemem(p, LinkedOf(n)[j])
  <2>1. Apply(e, p) => storemem(p, IF Unknown \in Operands(e.type, w, lo, StartFor(e)) THEN Unknown
                                   ELSE Relocated(e.type, p, w, lo, StartFor(e)))
    BY DEF Apply
  <2> HIDE DEF w, lo, s, p
  <2> QED
    BY <1>2, <1>4, <1>7, <1>11, <1>12, <2>1
<1>14. ASSUME NEW a \in ReadBy(e.type, p) PROVE ~ Faults(a)
  <2>1. a \in {p, Unsigned(p + 4), Unsigned(p - 4)}
    BY DEF ReadBy
  <2> HIDE DEF p
  <2>2. Unsigned(p + 4) = p + 4 /\ Unsigned(p - 4) = p - 4
    <3>1. p + 4 \in 0 .. (WordSize - 1) /\ p - 4 \in 0 .. (WordSize - 1)
      BY <1>3, Sizes DEF Word
    <3> QED
      BY <3>1, Sizes, SmallMod DEF Unsigned
  <2>3. a \in Int /\ a # 0
    BY <1>3, <2>1, <2>2
  <2> QED
    BY <2>3, NoFault
<1>15. ~ Faults(p)
  <2> HIDE DEF p
  <2>1. p # 0
    BY <1>3
  <2> QED
    BY <1>3, <2>1, NoFault
<1> QED
  BY <1>13, <1>14, <1>15

(* The entries that are done next are those of the file.                   *)
LEMMA NextEntries ==
    ASSUME Relocating, entry[1] < Len(seg)
    PROVE  \E n \in Wanted :
              /\ entry = <<Position(n), entry[2]>> /\ entry[2] \in Nat \ {0}
              /\ Entries(entry[1]) = IF Program(n) = <<>> THEN <<>> ELSE EntriesOf(n)
<1> DEFINE d == Cardinality(Wanted)
<1>1. PICK k \in Nat \ {0}, m \in Nat \ {0} : entry = <<k, m>>
  BY DEF Relocating, LoaderInv
<1>2. d \in Nat /\ Len(seg) = d + 1 /\ file \in Files /\ Readable
  BY RelocatingFacts
<1>3. k \in 1 .. d
  <2>1. k < Len(seg)
    BY <1>1
  <2> HIDE DEF d
  <2> QED
    BY <1>2, <2>1
<1>4. PICK n \in Wanted : Position(n) = k
  BY <1>3, RelocatingFacts
<1>5. seg[k] = Image(n, entry)
  BY <1>4, RelocatingFacts
<1>6. EntriesFor(file, SectionNames[n]) = EntriesOf(n) /\ Program(n) \in Seq(Word)
  BY <1>2, SectionWhole
<1>7. seg[k].name = SectionNames[n] /\ seg[k].content /\ seg[k].body = SoFar(n, entry)
  BY <1>5 DEF Image, Segment
<1>8. SoFar(n, entry) = <<>> <=> Program(n) = <<>>
  <2> DEFINE f == SoFar(n, entry)
             b == Program(n)
  <2>1. DOMAIN f = DOMAIN b /\ f = [j \in DOMAIN b |-> f[j]]
    BY DEF SoFar
  <2> HIDE DEF f, b
  <2>2. f = <<>> => b = <<>>
    BY <1>6, <2>1 DEF b
  <2>3. b = <<>> => f = <<>>
    BY <2>1
  <2> QED
    BY <2>2, <2>3 DEF f, b
<1>9. Entries(k) = IF Program(n) = <<>> THEN <<>> ELSE EntriesOf(n)
  BY <1>6, <1>7, <1>8 DEF Entries
<1> QED
  BY <1>1, <1>4, <1>9

(* Relocating an entry makes the image of one more.                        *)
LEMMA RelocateEntryImage == LoaderInv /\ ImageInv /\ RelocateEntry => ImageInv'
<1> SUFFICES ASSUME LoaderInv, ImageInv, RelocateEntry PROVE ImageInv'
  OBVIOUS
<1>1. /\ UNCHANGED <<file, base, symtab, section, next, phase>> /\ phase = "relocation"
      /\ gone = "no" /\ entry[1] < Len(seg) /\ entry[2] \in DOMAIN Entries(entry[1])
      /\ entry' = [entry EXCEPT ![2] = @ + 1]
  BY DEF RelocateEntry
<1>2. /\ Fit' <=> Fit
      /\ Wanted' = Wanted
      /\ \A n : Position(n)' = Position(n)
      /\ \A n, e : Image(n, e)' = Image(n, e)
  BY <1>1, SameFile
<1> SUFFICES ASSUME Fit PROVE gone' = "no" /\ Len(seg') = Cardinality(Wanted) + 1 /\ Filled'
  BY <1>1, <1>2 DEF ImageInv
<1>3. Relocating
  BY <1>1 DEF Relocating
<1> DEFINE d == Cardinality(Wanted)
           k == entry[1]
           m == entry[2]
<1>4. /\ d \in Nat /\ DOMAIN seg = 1 .. (d + 1) /\ Len(seg) = d + 1
      /\ file \in Files /\ base \in Word /\ Roomy /\ Readable
      /\ symtab = elf_load_symtab(file) /\ seg[d + 1] = Unattached
      /\ \A n \in Wanted : Position(n) \in 1 .. d /\ seg[Position(n)] = Image(n, entry)
  BY <1>3, RelocatingFacts
<1>5. PICK n \in Wanted : /\ entry = <<Position(n), m>> /\ m \in Nat \ {0}
                          /\ Entries(k) = IF Program(n) = <<>> THEN <<>> ELSE EntriesOf(n)
  BY <1>1, <1>3, NextEntries
<1>6. m \in DOMAIN EntriesOf(n) /\ Entries(k) = EntriesOf(n) /\ k = Position(n)
  <2>1. DOMAIN <<>> = {}
    OBVIOUS
  <2>2. k = Position(n)
    BY <1>5
  <2> HIDE DEF k, m
  <2> QED
    BY <1>1, <1>5, <2>1, <2>2 DEF k, m
<1> DEFINE e == EntriesOf(n)[m]
           j == e.offset \div 4 + 1
           p == PlaceOf(n) + 4 * (j - 1)
<1>7. /\ j \in DOMAIN Program(n) /\ e.offset = 4 * (j - 1)
  BY <1>3, <1>6, WordOfEntry
<1>8. /\ p \in Word /\ SegmentOf(p) = k /\ PositionOf(p, k) = j /\ k # 0
      /\ DOMAIN seg[k].body = DOMAIN Program(n)
  BY <1>3, <1>6, <1>7, WordOfSection
<1>9. AddressOf(k, Entries(k)[m]) = p
  <2>1. seg[k].start = PlaceOf(n)
    <3>1. seg[Position(n)] = Image(n, entry)
      BY <1>4
    <3>2. seg[k] = Image(n, entry)
      BY <1>6, <3>1
    <3> HIDE DEF k
    <3> QED
      BY <3>2 DEF Image, Segment
  <2>2. Entries(k)[m] = e
    BY <1>6
  <2>3. AddressOf(k, Entries(k)[m]) = Unsigned(p)
    BY <1>7, <2>1, <2>2 DEF AddressOf
  <2> HIDE DEF p
  <2>4. p \in 0 .. (WordSize - 1)
    BY <1>8 DEF Word
  <2> QED
    BY <2>3, <2>4, Sizes, SmallMod DEF Unsigned
<1>10. ~ Faults(p) /\ (\A a \in ReadBy(e.type, p) : ~ Faults(a))
       /\ (Apply(e, p) => storemem(p, LinkedOf(n)[j]))
  BY <1>3, <1>5, <1>6, EntryStored
<1>11. symtab.syms[e.sym + 1].type = "section"
  BY <1>4, <1>6, SymbolPlace
<1>12. Apply(e, p) /\ gone' = gone
  <2>1. Entries(k)[m] = e
    BY <1>6
  <2> HIDE DEF e, p
  <2> QED
    BY <1>9, <1>10, <1>11, <2>1 DEF RelocateEntry
<1> HIDE DEF k
<1>13. seg' = [seg EXCEPT ![k].body[j] = LinkedOf(n)[j]]
  <2>1. storemem(p, LinkedOf(n)[j])
    BY <1>10, <1>12
  <2> HIDE DEF e, p, j
  <2>2. j \in DOMAIN seg[k].body
    BY <1>7, <1>8
  <2> QED
    BY <1>8, <2>1, <2>2 DEF storemem
<1> DEFINE before == SoFar(n, entry)
           after == SoFar(n, entry')
<1>14. entry = <<k, m>> /\ entry' = <<k, m + 1>>
  <2> HIDE DEF m
  <2>1. entry = <<k, m>>
    BY <1>5, <1>6
  <2> QED
    BY <1>1, <2>1
<1>15. /\ after = [before EXCEPT ![j] = LinkedOf(n)[j]]
       /\ \A i \in Wanted : i # n => SoFar(i, entry') = SoFar(i, entry)
  <2> HIDE DEF m, j
  <2> QED
    BY <1>3, <1>6, <1>14, OneMore DEF j
<1> HIDE DEF e, p, j, before, after, m, d
<1> DEFINE new == Segment(SectionNames[n], PlaceOf(n), TRUE, after)
<1>16. k \in 1 .. d /\ k \in DOMAIN seg /\ k # d + 1 /\ seg[k] = Segment(SectionNames[n], PlaceOf(n), TRUE, before)
  <2>1. k \in 1 .. d /\ seg[k] = Image(n, entry)
    BY <1>4, <1>6
  <2>2. k \in DOMAIN seg /\ k # d + 1
    BY <1>4, <2>1
  <2> QED
    BY <2>1, <2>2 DEF Image, before
<1>17. seg' = [seg EXCEPT ![k] = new]
  <2> DEFINE r == Segment(SectionNames[n], PlaceOf(n), TRUE, before)
  <2>1. [seg[k] EXCEPT !.body = [@ EXCEPT ![j] = LinkedOf(n)[j]]] = new
    <3>1. [r EXCEPT !.body = after] = new
      <4> DEFINE c == TRUE
                 name == SectionNames[n]
                 a == PlaceOf(n)
      <4> HIDE DEF c, name, a
      <4>1. [Segment(name, a, c, before) EXCEPT !.body = after] = Segment(name, a, c, after)
        BY DEF Segment
      <4> QED
        BY <4>1, Zenon DEF c, name, a, r, new
    <3>2. seg[k] = r /\ seg[k].body = before
      BY <1>16 DEF Segment
    <3> HIDE DEF r, new
    <3> QED
      BY <1>15, <3>1, <3>2
  <2> HIDE DEF new
  <2> QED
    BY <1>13, <2>1
<1>18. new = Image(n, entry')
  BY DEF Image, after
<1> HIDE DEF new
<1>19. /\ Len(seg') = Len(seg) /\ DOMAIN seg' = DOMAIN seg
       /\ \A i \in DOMAIN seg : seg'[i] = IF i = k THEN new ELSE seg[i]
  <2>1. seg \in Seq(Segments)
    BY DEF LoaderInv
  <2> QED
    BY <1>16, <1>17, <2>1
<1>20. ASSUME NEW i \in Wanted PROVE seg'[Position(i)] = Image(i, entry')
  <2>1. Position(i) \in DOMAIN seg
    <3>1. Position(i) \in 1 .. d
      BY <1>4
    <3> QED
      BY <1>4, <3>1
  <2>2. CASE i = n
    BY <1>6, <1>18, <1>19, <2>1, <2>2
  <2>3. CASE i # n
    <3>1. Position(i) # k
      BY <1>6, <2>3, WantedType, RankLater DEF Position, Rank
    <3>2. seg'[Position(i)] = Image(i, entry)
      BY <1>4, <1>19, <2>1, <3>1
    <3>3. SoFar(i, entry') = SoFar(i, entry)
      BY <1>15, <2>3
    <3> QED
      BY <3>2, <3>3 DEF Image
  <2> QED
    BY <2>2, <2>3
<1>21. ASSUME NEW i \in DOMAIN seg', i > Rank(Wanted, section - 1) PROVE seg'[i] = Unattached
  <2>1. Rank(Wanted, section - 1) = d
    <3>1. section = 5
      BY <1>1 DEF ImageInv
    <3>2. section - 1 = 4
      BY <3>1
    <3> QED
      BY <3>2, WantedType, RankBasics DEF d
  <2>2. i = d + 1
    BY <1>4, <1>19, <1>21, <2>1
  <2> QED
    BY <1>4, <1>16, <1>19, <2>2
<1>22. entry'[1] <= Len(seg')
  <2>1. entry'[1] = k
    BY <1>14
  <2> QED
    BY <1>4, <1>16, <1>19, <2>1
<1>23. Filled'
  <2>1. phase' # "sections"
    BY <1>1
  <2>2. \A i \in Wanted' : i < section' => seg'[Position(i)'] = Image(i, entry)'
    <3>1. \A i \in Wanted : Image(i, entry)' = Image(i, entry')
      BY <1>1, <1>2 DEF Image, SoFar, Done, EntryAt, LinkedOf, PlaceOf, Program, EntriesOf
    <3> QED
      BY <1>2, <1>20, <3>1
  <2>3. \A i \in DOMAIN seg' : i > Rank(Wanted', section' - 1) => seg'[i] = Unattached
    BY <1>1, <1>2, <1>21
  <2> QED
    BY <1>22, <2>1, <2>2, <2>3 DEF Filled, Rank
<1> QED
  BY <1>1, <1>4, <1>12, <1>19, <1>23 DEF d

(* What Filled says stays true while files and segments stay the same and  *)
(* no section has more of its entries done.                                *)
LEMMA FilledKept ==
    ASSUME ImageInv, Fit, phase # "none", phase # "ready", Filled, UNCHANGED <<file, base, symtab, seg, section>>,
           phase' = "relocation", entry'[1] <= Len(seg),
           \A n \in Wanted : n < section => SoFar(n, entry') = SoFar(n, entry)
    PROVE  Filled'
<1>1. /\ Wanted' = Wanted
      /\ \A n : Position(n)' = Position(n)
      /\ \A n, e : Image(n, e)' = Image(n, e)
  BY SameFile
<1>2. ASSUME NEW n \in Wanted, n < section PROVE seg[Position(n)] = Image(n, entry)'
  <2>1. Image(n, entry)' = Image(n, entry')
    BY <1>1 DEF Image, SoFar, Done, EntryAt, LinkedOf, PlaceOf, Program, EntriesOf
  <2>2. Image(n, entry') = Image(n, entry)
    BY <1>2 DEF Image
  <2> QED
    BY <1>2, <2>1, <2>2 DEF Filled
<1> QED
  BY <1>1, <1>2 DEF Filled, Rank

-----------------------------------------------------------------------------
(* The other steps of a load                                               *)

(* All entries of a segment done, none of the next is.                     *)
LEMMA NextSegmentImage == LoaderInv /\ ImageInv /\ NextSegment => ImageInv'
<1> SUFFICES ASSUME LoaderInv, ImageInv, NextSegment PROVE ImageInv'
  OBVIOUS
<1>1. /\ UNCHANGED <<file, base, symtab, seg, section, next, phase, gone>> /\ phase = "relocation"
      /\ gone = "no" /\ entry[1] < Len(seg) /\ entry[2] \notin DOMAIN Entries(entry[1])
      /\ entry' = <<entry[1] + 1, 1>>
  BY DEF NextSegment
<1>2. (Fit' <=> Fit) /\ Wanted' = Wanted
  BY <1>1, SameFile
<1> SUFFICES ASSUME Fit PROVE Len(seg) = Cardinality(Wanted) + 1 /\ Filled'
  BY <1>1, <1>2 DEF ImageInv
<1>3. Relocating /\ Filled /\ Len(seg) = Cardinality(Wanted) + 1
  BY <1>1 DEF Relocating, ImageInv
<1>4. file \in Files /\ Readable /\ \A i \in Wanted : Position(i) \in Int
  <2>1. \A i \in Wanted : Position(i) \in 1 .. Cardinality(Wanted)
    BY <1>3, RelocatingFacts
  <2> QED
    BY <1>3, <2>1, RelocatingFacts
<1> DEFINE k == entry[1]
           m == entry[2]
<1>5. PICK n \in Wanted : /\ entry = <<Position(n), m>> /\ m \in Nat \ {0}
                          /\ Entries(k) = IF Program(n) = <<>> THEN <<>> ELSE EntriesOf(n)
  BY <1>1, <1>3, NextEntries
<1>6. entry = <<k, m>> /\ entry' = <<k + 1, 1>> /\ k = Position(n) /\ k \in Int
  <2>1. k = Position(n)
    BY <1>5
  <2> HIDE DEF m
  <2>2. entry = <<k, m>> /\ entry' = <<k + 1, 1>>
    BY <1>1, <1>5, <2>1
  <2> QED
    BY <1>4, <2>1, <2>2
<1> HIDE DEF k, m
<1>7. ASSUME NEW i \in Wanted, NEW l \in DOMAIN EntriesOf(i)
      PROVE  /\ Done(i, l, entry) => Done(i, l, entry')
             /\ Done(i, l, entry') /\ ~ Done(i, l, entry) => i = n /\ Program(n) = <<>>
  <2>1. l \in Nat /\ l >= 1 /\ DOMAIN EntriesOf(i) = 1 .. Len(EntriesOf(i))
        /\ Len(EntriesOf(i)) \in Nat
    <3>1. Len(EntriesOf(i)) \in Nat /\ DOMAIN EntriesOf(i) = 1 .. Len(EntriesOf(i))
      BY <1>4, SectionWhole
    <3> QED
      BY <3>1
  <2>2. Done(i, l, entry') <=> Position(i) < k + 1 \/ (Position(i) = k + 1 /\ l < 1)
    BY <1>6 DEF Done
  <2>3. Done(i, l, entry) <=> Position(i) < k \/ (Position(i) = k /\ l < m)
    BY <1>6 DEF Done
  <2>4. Position(i) \in Int
    BY <1>4
  <2>5. Done(i, l, entry') <=> Position(i) < k \/ Position(i) = k
    BY <1>6, <2>1, <2>2, <2>4
  <2>6. ASSUME Position(i) = k, ~ (l < m) PROVE i = n /\ Program(n) = <<>>
    <3>1. i = n
      BY <1>6, <2>6, WantedType, RankLater DEF Position, Rank
    <3>2. m \notin DOMAIN Entries(k)
      BY <1>1 DEF k, m
    <3>3. m \in DOMAIN EntriesOf(n)
      BY <1>5, <2>1, <2>6, <3>1
    <3> QED
      BY <1>5, <3>1, <3>2, <3>3
  <2> QED
    BY <2>3, <2>5, <2>6
<1>8. ASSUME NEW i \in Wanted PROVE SoFar(i, entry') = SoFar(i, entry)
  <2>1. CASE i = n /\ Program(n) = <<>>
    <3>1. DOMAIN Program(i) = {}
      BY <2>1
    <3> QED
      BY <3>1 DEF SoFar
  <2>2. CASE ~ (i = n /\ Program(n) = <<>>)
    <3>1. \A l \in DOMAIN EntriesOf(i) : Done(i, l, entry') <=> Done(i, l, entry)
      BY <1>7, <2>2
    <3> QED
      BY <3>1 DEF SoFar, EntryAt
  <2> QED
    BY <2>1, <2>2
<1>9. entry'[1] <= Len(seg)
  <2>1. Len(seg) \in Int
    BY DEF LoaderInv
  <2>2. k < Len(seg) /\ entry'[1] = k + 1
    BY <1>1, <1>6 DEF k
  <2> QED
    BY <1>6, <2>1, <2>2
<1> QED
  BY <1>1, <1>3, <1>8, <1>9, FilledKept

(* After the sections their entries.                                       *)
LEMMA SectionsDoneImage == LoaderInv /\ ImageInv /\ SectionsDone => ImageInv'
<1> SUFFICES ASSUME LoaderInv, ImageInv, SectionsDone PROVE ImageInv'
  OBVIOUS
<1>1. /\ UNCHANGED <<file, base, symtab, seg, section, next, entry, gone>>
      /\ phase = "sections" /\ phase' = "relocation" /\ section \notin DOMAIN SectionNames
  BY DEF SectionsDone
<1>2. section = 5
  <2>1. section \in 1 .. 5 /\ section \notin 1 .. 4
    BY <1>1, FourNames DEF ImageInv
  <2> QED
    BY <2>1
<1>3. (Fit' <=> Fit) /\ Wanted' = Wanted
  BY <1>1, SameFile
<1>4. Fit => Filled'
  <2> SUFFICES ASSUME Fit PROVE Filled'
    OBVIOUS
  <2>1. Filled
    BY <1>1 DEF ImageInv
  <2>2. entry'[1] <= Len(seg)
    BY <1>1, <2>1 DEF Filled
  <2> QED
    BY <1>1, <2>1, <2>2, FilledKept
<1> QED
  BY <1>1, <1>2, <1>3, <1>4 DEF ImageInv

(* Nothing happens.                                                        *)
LEMMA StutterImage == ImageInv /\ UNCHANGED lvars => ImageInv'
<1> SUFFICES ASSUME ImageInv, UNCHANGED lvars PROVE ImageInv'
  OBVIOUS
<1>1. UNCHANGED <<file, base, symtab, seg, section, next, entry, phase, sp, gone>>
  BY DEF lvars
<1>2. /\ Fit' <=> Fit
      /\ Wanted' = Wanted
      /\ \A n : PlaceOf(n)' = PlaceOf(n) /\ Position(n)' = Position(n)
      /\ \A n, e : Image(n, e)' = Image(n, e)
  BY <1>1, SameFile
<1>3. Filled' <=> Filled
  <2>1. \A n : Image(n, entry)' = Image(n, entry)
    BY <1>1, <1>2 DEF Image, SoFar, Done, EntryAt, LinkedOf, PlaceOf, Program, EntriesOf
  <2> QED
    BY <1>1, <1>2, <2>1 DEF Filled, Rank
<1>4. Fit => (ImageLinked' <=> ImageLinked)
  BY <1>1, <1>2 DEF ImageLinked, Fit, SegmentOf
<1> QED
  BY <1>1, <1>2, <1>3, <1>4 DEF ImageInv

(* The first section of a file that fits comes first, also after a step.   *)
LEMMA FitFirst == file \in Files /\ base \in Word /\ Fit => PlaceOf(1) = base
BY PlacesFit DEF Fit

LEMMA FitFirstNext == (file \in Files /\ base \in Word /\ Fit => PlaceOf(1) = base)'
BY FitFirst, PTL

(* A page that is not at 0 is above the reach of a relocation from there.  *)
LEMMA PageAbove == ASSUME NEW a \in Word PROVE PageOf(a) = 0 \/ PageOf(a) > 4
<1>1. a \in Nat /\ Page \in Nat /\ Page > 4
  BY LoaderAssumption, Sizes DEF Word
<1>2. a = Page * (a \div Page) + (a % Page) /\ a % Page \in Int /\ a \div Page \in Int
  BY <1>1, DivMod
<1>3. a \div Page >= 0
  BY <1>1
<1> DEFINE q == a \div Page
<1>4. PageOf(a) = Page * q
  <2> DEFINE x == Page * q
             r == a % Page
  <2>1. a = x + r /\ x \in Int /\ r \in Int
    BY <1>1, <1>2
  <2>2. PageOf(a) = a - r
    BY DEF PageOf
  <2> HIDE DEF x, r
  <2> QED
    BY <2>1, <2>2 DEF x
<1> HIDE DEF q
<1>5. q = 0 \/ q >= 1
  BY <1>2, <1>3 DEF q
<1>6. CASE q = 0
  BY <1>1, <1>4, <1>6
<1>7. CASE q >= 1
  <2>1. PageOf(a) >= Page
    BY <1>1, <1>2, <1>4, <1>7 DEF q
  <2>2. PageOf(a) \in Int
    BY <1>1, <1>2, <1>4 DEF q
  <2> QED
    BY <1>1, <2>1, <2>2
<1> QED
  BY <1>5, <1>6, <1>7

(* A new load has a segment for each section, and nothing in it.           *)
LEMMA StartLoadImage == LoaderInv /\ StartLoad => ImageInv'
<1> SUFFICES ASSUME LoaderInv, StartLoad PROVE ImageInv'
  OBVIOUS
<1>1. PICK f \in Files, a \in Starts :
        /\ file' = f /\ base' = PageOf(a) /\ next' = PageOf(a)
        /\ symtab' = elf_load_symtab(f)
        /\ seg' = init_mem(get_nsegments(symtab') + 1)
  BY DEF StartLoad
<1>2. /\ section' = 1 /\ phase' = "sections" /\ symtab' = elf_load_symtab(file')
      /\ entry' = <<1, 1>> /\ gone' = "no"
  BY <1>1 DEF StartLoad
<1>3. LoaderInv'
  BY StartLoadType
<1>4. base' = 0 \/ base' > 4
  <2>1. a \in Word
    BY LoaderAssumption
  <2> QED
    BY <1>1, <2>1, PageAbove
<1> SUFFICES ASSUME Fit' PROVE Len(seg') = Cardinality(Wanted') + 1 /\ Filled'
  BY <1>2, <1>4 DEF ImageInv
<1>5. Wanted' = {i \in DOMAIN SectionNames : is_in_symbols(SectionNames[i], symtab')}
  <2>1. (Readable)'
    BY DEF Fit
  <2>2. \A n \in DOMAIN SectionNames : is_in_symbols(SectionNames[n], symtab') <=> n \in Wanted'
    BY <2>1 DEF Readable
  <2>3. Wanted' \subseteq DOMAIN SectionNames
    BY DEF Wanted
  <2> QED
    BY <2>2, <2>3
<1>6. get_nsegments(symtab') = Cardinality(Wanted')
  BY <1>5 DEF get_nsegments
<1>7. Cardinality(Wanted') \in Nat
  <2>1. Wanted' \in SUBSET (1 .. 4)
    BY <1>5, FourNames
  <2>2. Rank(Wanted', 4) \in Nat /\ Rank(Wanted', 4) = Cardinality(Wanted')
    BY <2>1, RankBasics
  <2> QED
    BY <2>2
<1>8. Len(seg') = Cardinality(Wanted') + 1 /\ \A k \in DOMAIN seg' : seg'[k] = Unattached
  BY <1>1, <1>6, <1>7 DEF init_mem
<1>9. next' = PlaceOf(section)'
  <2>1. file' \in Files /\ base' \in Word
    BY <1>1, <1>3 DEF LoaderInv
  <2>2. (PlaceOf(1) = base)'
    BY <2>1, FitFirstNext
  <2> QED
    BY <1>1, <1>2, <2>2 DEF PlaceOf
<1>10. \A n \in Wanted' : ~ (n < section')
  BY <1>2, FourNames DEF Wanted
<1>11. entry'[1] <= Len(seg')
  BY <1>2, <1>7, <1>8
<1> QED
  BY <1>2, <1>8, <1>9, <1>10, <1>11 DEF Filled

(* The segments that have something are the first ones.                    *)
LEMMA FilledNames ==
    ASSUME LoaderInv, ImageInv, Fit, Filled, phase # "none", NEW k \in DOMAIN seg
    PROVE  seg[k].name = <<>> <=> k > Rank(Wanted, section - 1)
<1> DEFINE S == {m \in Wanted : m <= section - 1}
<1>1. S \in SUBSET (1 .. 4) /\ Cardinality(S) = Rank(Wanted, section - 1)
  BY WantedType DEF Rank
<1>2. section \in 1 .. 5
  BY DEF ImageInv
<1>3. CASE k > Rank(Wanted, section - 1)
  BY <1>3 DEF Filled, Unattached, Segment
<1>4. CASE ~ (k > Rank(Wanted, section - 1))
  <2>1. k \in 1 .. Cardinality(S)
    <3>1. Rank(S, 4) = Cardinality(S) /\ Rank(S, 4) \in Nat
      BY <1>1, RankBasics
    <3>2. k \in Nat /\ k >= 1
      BY DEF LoaderInv
    <3> HIDE DEF S
    <3> QED
      BY <1>1, <1>4, <3>1, <3>2
  <2>2. PICK n \in S : Rank(S, n) = k
    <3> HIDE DEF S
    <3> QED
      BY <1>1, <2>1, RankOnto
  <2>3. n \in Wanted /\ n \in 1 .. 4 /\ n <= section - 1
    BY WantedType
  <2>4. Position(n) = k
    <3>1. {m \in S : m <= n} = {m \in Wanted : m <= n}
      <4>1. \A m \in Wanted : m <= n => m <= section - 1
        <5>1. \A m \in Wanted : m \in Int
          BY WantedType
        <5> QED
          BY <1>2, <2>3, <5>1
      <4> QED
        BY <4>1, Zenon
    <3> QED
      BY <2>2, <3>1 DEF Position, Rank
  <2>5. n < section
    BY <1>2, <2>3
  <2>6. seg[k].name = SectionNames[n]
    <3>1. seg[Position(n)] = Image(n, entry)
      BY <2>3, <2>5 DEF Filled
    <3> QED
      BY <2>4, <3>1 DEF Image, Segment
  <2> QED
    BY <1>4, <2>3, <2>6, FourNames
<1> QED
  BY <1>3, <1>4

(* A section more in memory, as it is in the file.                         *)
LEMMA LoadSectionImage == LoaderInv /\ ImageInv /\ LoadSection => ImageInv'
<1> SUFFICES ASSUME LoaderInv, ImageInv, LoadSection PROVE ImageInv'
  OBVIOUS
<1> DEFINE name == SectionNames[section]
           s == elf_load_section_in_memory(name)
<1>1. /\ phase = "sections" /\ phase' = phase /\ section \in 1 .. 4 /\ section' = section + 1
      /\ UNCHANGED <<file, base, symtab, entry, gone>> /\ file \in Files /\ base \in Word
      /\ gone = "no" /\ section' \in 1 .. 5
  BY FourNames DEF LoadSection, LoaderInv, ImageInv
<1>2. /\ Fit' <=> Fit
      /\ Wanted' = Wanted
      /\ \A n : PlaceOf(n)' = PlaceOf(n) /\ Position(n)' = Position(n)
      /\ \A n, e : Image(n, e)' = Image(n, e)
  BY <1>1, SameFile
<1> SUFFICES ASSUME Fit PROVE Len(seg') = Cardinality(Wanted) + 1 /\ Filled'
  BY <1>1, <1>2 DEF ImageInv
<1>3. /\ Filled /\ Len(seg) = Cardinality(Wanted) + 1 /\ Roomy /\ Readable /\ entry = <<1, 1>>
      /\ next = PlaceOf(section)
  BY <1>1 DEF ImageInv, Fit, Filled
<1>4. \A n : Image(n, entry)' = Image(n, entry)
  BY <1>1, <1>2 DEF Image, SoFar, Done, EntryAt, LinkedOf, PlaceOf, Program, EntriesOf
<1> SUFFICES ASSUME TRUE
             PROVE  /\ Len(seg') = Cardinality(Wanted) + 1
                    /\ next' = PlaceOf(section + 1)
                    /\ \A n \in Wanted : n < section + 1 => seg'[Position(n)] = Image(n, entry)
                    /\ \A k \in DOMAIN seg' : k > Rank(Wanted, section) => seg'[k] = Unattached
  <2>1. section' - 1 = section
    BY <1>1
  <2>2. next' = PlaceOf(section)'
    BY <1>1, <1>2 DEF PlaceOf
  <2>3. entry'[1] <= Len(seg')
    <3>1. entry[1] <= Len(seg)
      BY <1>3 DEF Filled
    <3>2. Len(seg') = Len(seg)
      BY <1>3
    <3> QED
      BY <1>1, <3>1, <3>2
  <2> QED
    BY <1>1, <1>2, <1>3, <1>4, <2>1, <2>2, <2>3 DEF Filled, Rank
<1>5. is_in_symbols(name, symtab) <=> section \in Wanted
  BY <1>1, <1>3, FourNames DEF Readable
<1>6. /\ section - 1 \in 0 .. 3 /\ (section - 1) + 1 = section
      /\ Rank(Wanted, section) =
            IF section \in Wanted THEN Rank(Wanted, section - 1) + 1 ELSE Rank(Wanted, section - 1)
  <2>1. section - 1 \in 0 .. 3 /\ (section - 1) + 1 = section
    BY <1>1
  <2> QED
    BY <2>1, WantedType, RankBasics
<1>7. \A n \in Wanted : n < section + 1 <=> n < section \/ n = section
  <2>1. \A n \in Wanted : n \in Int
    BY WantedType
  <2> QED
    BY <1>1, <2>1
<1>8. CASE section \notin Wanted
  <2>1. seg' = seg /\ next' = next
    BY <1>5, <1>8 DEF LoadSection
  <2>2. PlaceOf(section + 1) = PlaceOf(section)
    BY <1>1, <1>3, <1>8, PlacesFit
  <2>3. \A n \in Wanted : n # section
    BY <1>8
  <2> QED
    BY <1>3, <1>6, <1>7, <1>8, <2>1, <2>2, <2>3 DEF Filled
<1>9. CASE section \in Wanted
  <2> DEFINE d == Rank(Wanted, section - 1)
             b == Program(section)
  <2>1. s = Segment(name, next, TRUE, b) /\ b \in Seq(Word)
        /\ Abi!Room(file, name) = PageOf(4 * Len(b) + Page)
    BY <1>1, <1>3, <1>9, SectionWhole
  <2>2. d + 1 \in 1 .. Cardinality(Wanted) /\ Cardinality(Wanted) \in Nat
        /\ \A m \in Wanted : m < section => Rank(Wanted, m) < d + 1
    BY <1>6, <1>9, WantedType, RankOrder
  <2>3. d \in Nat /\ d < Len(seg)
    <3>1. d \in Nat
      BY <1>6, WantedType, RankBasics
    <3> HIDE DEF d
    <3> QED
      BY <1>3, <2>2, <3>1
  <2>4. attach_scn_to_mem = d + 1
    <3>1. \A k \in DOMAIN seg : seg[k].name = <<>> <=> k > d
      BY <1>1, <1>3, FilledNames
    <3> QED
      BY <2>3, <3>1, FirstFree
  <2>5. seg' = [seg EXCEPT ![d + 1] = s] /\ next' = Unsigned(next + Advance(s))
    BY <1>5, <1>9, <2>4 DEF LoadSection
  <2>6. DOMAIN seg = 1 .. Len(seg) /\ Len(seg) \in Nat /\ d + 1 \in DOMAIN seg
    BY <1>3, <2>2 DEF LoaderInv
  <2>7. /\ Len(seg') = Len(seg) /\ DOMAIN seg' = DOMAIN seg
        /\ \A k \in DOMAIN seg : seg'[k] = IF k = d + 1 THEN s ELSE seg[k]
    <3>1. seg \in Seq(Segments)
      BY DEF LoaderInv
    <3> HIDE DEF s, d
    <3> QED
      BY <2>5, <2>6, <3>1
  <2>8. next' = PlaceOf(section + 1)
    <3>1. Advance(s) = Abi!Room(file, name)
      BY <2>1 DEF Advance, Size, Segment
    <3>2. PlaceOf(section + 1) = PlaceOf(section) + Abi!Room(file, name)
      BY <1>1, <1>3, PlacesFit
    <3>3. next' = Unsigned(PlaceOf(section + 1))
      BY <1>3, <2>5, <3>1, <3>2
    <3>4. PlaceOf(section + 1) \in 0 .. (WordSize - 1)
      <4>1. section + 1 \in 1 .. 5
        BY <1>1
      <4> QED
        BY <1>1, <1>3, <4>1, PlacesFit DEF Word
    <3> QED
      BY <3>3, <3>4, Sizes, SmallMod DEF Unsigned
  <2>9. ASSUME NEW k \in DOMAIN seg', k > Rank(Wanted, section) PROVE seg'[k] = Unattached
    <3>1. k \in Int /\ Rank(Wanted, section) = d + 1 /\ d \in Int
      BY <1>6, <1>9, <2>3, <2>6, <2>7, <2>9
    <3> HIDE DEF d
    <3>2. k # d + 1 /\ k > d
      BY <2>9, <3>1
    <3> QED
      BY <1>3, <2>7, <2>9, <3>2 DEF Filled, d
  <2>10. Image(section, entry) = s
    <3>1. \A m \in DOMAIN EntriesOf(section) : ~ Done(section, m, entry)
      <4>1. Position(section) \in Int /\ Position(section) >= 1
        <5>1. Position(section) = d + 1
          BY <1>6, <1>9 DEF Position, Rank
        <5> HIDE DEF d
        <5> QED
          BY <2>3, <5>1
      <4>2. \A m \in DOMAIN EntriesOf(section) : m >= 1 /\ m \in Int
        <5>1. Len(EntriesOf(section)) \in Nat
              /\ DOMAIN EntriesOf(section) = 1 .. Len(EntriesOf(section))
          BY <1>1, <1>3, <1>9, SectionWhole
        <5> QED
          BY <5>1
      <4>3. entry[1] = 1 /\ entry[2] = 1
        BY <1>3
      <4> QED
        BY <4>1, <4>2, <4>3 DEF Done
    <3>2. \A j : EntryAt(section, j) \subseteq DOMAIN EntriesOf(section)
      BY DEF EntryAt
    <3>3. SoFar(section, entry) = [j \in DOMAIN b |-> b[j]]
      BY <3>1, <3>2 DEF SoFar
    <3>4. SoFar(section, entry) = b
      <4> HIDE DEF b
      <4> QED
        BY <2>1, <3>3
    <3> QED
      BY <1>3, <2>1, <3>4 DEF Image
  <2>11. ASSUME NEW n \in Wanted, n < section \/ n = section
         PROVE  seg'[Position(n)] = Image(n, entry)
    <3>1. Position(n) = Rank(Wanted, n)
      BY DEF Position, Rank
    <3>2. CASE n = section
      <4>1. Position(n) = d + 1
        BY <1>6, <1>9, <3>1, <3>2
      <4> QED
        BY <2>6, <2>7, <2>10, <3>2, <4>1
    <3>3. CASE n < section
      <4>1. Position(n) \in 1 .. Cardinality(Wanted) /\ Position(n) < d + 1
        BY <2>2, <3>1, <3>3, WantedType, RankOrder
      <4>2. Position(n) \in DOMAIN seg /\ Position(n) # d + 1
        BY <1>3, <2>2, <2>3, <2>6, <4>1
      <4> QED
        BY <1>3, <2>7, <3>3, <4>2 DEF Filled
    <3> QED
      BY <2>11, <3>2, <3>3
  <2> QED
    BY <1>3, <1>7, <2>7, <2>8, <2>9, <2>11
<1> QED
  BY <1>8, <1>9

(* With every entry of a section done, it is what the ABI makes of it.     *)
LEMMA AllDone ==
    ASSUME NEW n \in Wanted, NEW e, Position(n) < e[1]
    PROVE  SoFar(n, e) = LinkedOf(n)
<1> DEFINE b == Program(n)
           es == EntriesOf(n)
           At(j) == {m \in DOMAIN es : es[m].offset = 4 * (j - 1)}
           V(j) == LET m == CHOOSE m \in At(j) : TRUE
                   IN  Abi!Link(es, m, b, PlaceOf(n) + es[m].offset,
                                Abi!SymbolAt(file, base, SectionNames, es[m]))
<1>1. LinkedOf(n) = [j \in DOMAIN b |-> IF At(j) = {} THEN b[j] ELSE V(j)]
  BY DEF LinkedOf, Abi!Linked, PlaceOf, Program, EntriesOf
<1>2. \A j : EntryAt(n, j) = At(j)
  BY DEF EntryAt
<1>3. \A m : Done(n, m, e)
  BY DEF Done
<1> HIDE DEF At, V, b
<1>4. SoFar(n, e) = [j \in DOMAIN b |-> IF At(j) = {} THEN b[j] ELSE LinkedOf(n)[j]]
  BY <1>2, <1>3 DEF SoFar, b
<1>5. \A j \in DOMAIN b : At(j) = {} => LinkedOf(n)[j] = b[j]
  BY <1>1
<1>6. SoFar(n, e) = [j \in DOMAIN b |-> LinkedOf(n)[j]]
  BY <1>4, <1>5
<1>7. LinkedOf(n) = [j \in DOMAIN b |-> LinkedOf(n)[j]]
  BY <1>1
<1> QED
  BY <1>6, <1>7

(* The stack comes last, and the top of it is found there.                 *)
LEMMA AttachStackImage == LoaderInv /\ ImageInv /\ AttachStack => ImageInv'
<1> SUFFICES ASSUME LoaderInv, ImageInv, AttachStack PROVE ImageInv'
  OBVIOUS
<1>1. /\ phase = "relocation" /\ phase' = "ready" /\ section = 5
      /\ UNCHANGED <<file, base, symtab, section, next, entry>>
      /\ gone = "no" /\ entry[1] = Len(seg) /\ sp' = StackTop
      /\ symtab.fresh => gone' = "no"
  BY DEF AttachStack, ImageInv
<1>2. /\ Fit' <=> Fit
      /\ Wanted' = Wanted
      /\ \A n : PlaceOf(n)' = PlaceOf(n) /\ Position(n)' = Position(n)
      /\ \A n, e : Image(n, e)' = Image(n, e)
  BY <1>1, SameFile
<1> DEFINE d == Cardinality(Wanted)
<1> SUFFICES ASSUME Fit
             PROVE  /\ gone' = "no" /\ Len(seg') = d + 1
                    /\ \A n \in Wanted :
                          LET s == seg'[Position(n)]
                          IN  /\ s.name = SectionNames[n] /\ s.start = PlaceOf(n)
                              /\ s.body = LinkedOf(n)
                    /\ seg'[Len(seg')].content => (SegmentOf(sp))' = Len(seg')
  BY <1>1, <1>2 DEF ImageInv, ImageLinked, LinkedOf
<1>3. Relocating
  BY <1>1 DEF Relocating
<1>4. /\ d \in Nat /\ DOMAIN seg = 1 .. (d + 1) /\ Len(seg) = d + 1 /\ Readable
      /\ \A n \in Wanted : Position(n) \in 1 .. d /\ seg[Position(n)] = Image(n, entry)
  BY <1>3, RelocatingFacts
<1>5. gone' = "no"
  BY <1>1, <1>4 DEF Readable
<1>6. attach_scn_to_mem = d + 1
  <2>1. Filled /\ section - 1 = 4 /\ Rank(Wanted, 4) = d
    <3>1. Filled
      BY <1>1 DEF ImageInv
    <3>2. Rank(Wanted, 4) = d
      BY WantedType, RankBasics
    <3> QED
      BY <1>1, <3>1, <3>2
  <2>2. \A k \in DOMAIN seg : seg[k].name = <<>> <=> k > d
    BY <1>1, <2>1, FilledNames
  <2>3. d < Len(seg)
    BY <1>4
  <2> QED
    BY <1>4, <2>2, <2>3, FirstFree
<1>7. PICK s \in StackSegments : seg' = [seg EXCEPT ![d + 1] = s]
  BY <1>6 DEF AttachStack
<1> HIDE DEF d
<1>8. /\ Len(seg') = d + 1 /\ DOMAIN seg' = 1 .. (d + 1) /\ seg'[d + 1] = s
      /\ \A k \in 1 .. d : seg'[k] = seg[k]
  <2>1. seg \in Seq(Segments)
    BY DEF LoaderInv
  <2> QED
    BY <1>4, <1>7, <2>1
<1>9. ASSUME NEW n \in Wanted
      PROVE  LET t == seg'[Position(n)]
             IN  t.name = SectionNames[n] /\ t.start = PlaceOf(n) /\ t.body = LinkedOf(n)
  <2>1. Position(n) \in 1 .. d /\ seg'[Position(n)] = Image(n, entry)
    BY <1>4, <1>8
  <2>2. Position(n) < entry[1]
    BY <1>1, <1>4, <2>1
  <2>3. SoFar(n, entry) = LinkedOf(n)
    BY <2>2, AllDone
  <2> QED
    BY <2>1, <2>3 DEF Image, Segment
<1>10. ASSUME s.content PROVE (SegmentOf(sp))' = d + 1
  <2> DEFINE hits == {k \in DOMAIN seg' :
                         seg'[k].start <= StackTop
                         /\ StackTop <= Unsigned(seg'[k].start + Size(seg'[k]))}
  <2>1. (SegmentOf(sp))' = IF hits = {} THEN 0 ELSE CHOOSE k \in hits : \A j \in hits : j <= k
    BY <1>1 DEF SegmentOf, Size
  <2>2. s = Segment(<<"stack">>, StackStart, TRUE, [k \in 1 .. StackWords |-> 0])
    BY <1>10 DEF StackSegments, Segment
  <2>3. s.start = StackStart /\ Size(s) = 4 * StackWords
    <3>1. Len([k \in 1 .. StackWords |-> 0]) = StackWords
      BY LoaderAssumption
    <3> QED
      BY <2>2, <3>1 DEF Segment, Size
  <2>4. StackStart + 4 * StackWords \in 0 .. (WordSize - 1)
    BY LoaderAssumption DEF Word
  <2>5. Unsigned(StackStart + 4 * StackWords) = StackStart + 4 * StackWords
    BY <2>4, Sizes, SmallMod DEF Unsigned
  <2>6. StackStart <= StackTop /\ StackTop <= StackStart + 4 * StackWords
    BY LoaderAssumption, <2>4
  <2>7. d + 1 \in hits
    <3>1. d + 1 \in DOMAIN seg' /\ seg'[d + 1] = s
      BY <1>4, <1>8
    <3> QED
      BY <2>3, <2>5, <2>6, <3>1
  <2>8. \A j \in hits : j <= d + 1 /\ j \in Int
    BY <1>8
  <2> HIDE DEF hits
  <2> DEFINE c == CHOOSE k \in hits : \A j \in hits : j <= k
  <2>9. c \in hits /\ \A j \in hits : j <= c
    <3>1. \A j \in hits : j <= d + 1
      BY <2>8
    <3> QED
      BY <2>7, <3>1
  <2> HIDE DEF c
  <2>10. c = d + 1
    BY <1>4, <2>7, <2>8, <2>9
  <2> QED
    BY <2>1, <2>7, <2>10 DEF c
<1> QED
  BY <1>5, <1>8, <1>9, <1>10

(* The invariant of images holds before any load.                          *)
LEMMA ImageInit == LInit => ImageInv
BY DEF LInit, ImageInv

(* load makes of any file what the ABI does, at any address, whatever was  *)
(* loaded before, if it is one that Readable and Relocatable describe.     *)
THEOREM ImageRight == LSpec => []ImageLinked
<1>1. LoaderInv /\ [LNext]_lvars => LoaderInv'
  BY LoaderInvStep
<1>2. LoaderInv /\ ImageInv /\ [LNext]_lvars => ImageInv'
  BY StartLoadImage, LoadSectionImage, SectionsDoneImage, RelocateEntryImage, NextSegmentImage,
     AttachStackImage, StutterImage DEF LNext
<1>3. LoaderInv /\ ImageInv => ImageLinked
  <2> SUFFICES ASSUME LoaderInv, ImageInv, ~ ImageLinked PROVE FALSE
    OBVIOUS
  <2>1. Fit /\ (phase = "ready" \/ gone # "no")
    BY DEF ImageLinked, Fit
  <2>2. phase = "none" \/ phase # "none"
    OBVIOUS
  <2> QED
    BY <2>1, <2>2 DEF ImageInv
<1> QED
  BY <1>1, <1>2, <1>3, InitType, ImageInit, PTL DEF LSpec

-----------------------------------------------------------------------------
(* Where relocation writes                                                 *)

(* The sections that have a symbol, and how many have been loaded.         *)
Listed == {n \in DOMAIN SectionNames : is_in_symbols(SectionNames[n], symtab)}
Taken == Rank(Listed, section - 1)

(* The segments lie one after the other, from q[1] on, were it not for the *)
(* end of the address space: the next one is at q[Taken + 1].              *)
Chain(q) ==
    /\ q[1] = base /\ next = Unsigned(q[Taken + 1])
    /\ \A k \in 1 .. Taken : /\ q[k + 1] = q[k] + Advance(seg[k]) /\ seg[k].name # <<>>
                             /\ seg[k].content => seg[k].start = Unsigned(q[k])

(* What makes RelocatesInPlace inductive.                                  *)
ChainInv ==
    phase \in {"sections", "relocation"} =>
        /\ section \in 1 .. 5 /\ Len(seg) = Cardinality(Listed) + 1
        /\ \A k \in DOMAIN seg : k > Taken => seg[k].name = <<>> /\ ~ seg[k].content
        /\ \E q \in [1 .. 5 -> Int] : Chain(q)

(* No rank is above the number of members.                                 *)
LEMMA RankAtMost ==
    ASSUME NEW S \in SUBSET (1 .. 4), NEW n \in 0 .. 4
    PROVE  Rank(S, n) <= Cardinality(S)
<1> DEFINE c(i) == Rank(S, i)
<1>1. c(0) = 0 /\ c(1) \in Nat /\ c(2) \in Nat /\ c(3) \in Nat /\ c(4) \in Nat /\ c(4) = Cardinality(S)
  BY RankBasics
<1>2. c(0) <= c(1) /\ c(1) <= c(2) /\ c(2) <= c(3) /\ c(3) <= c(4)
  <2>1. \A i \in 0 .. 3 : Rank(S, i + 1) = IF i + 1 \in S THEN Rank(S, i) + 1 ELSE Rank(S, i)
    BY RankBasics
  <2>2. 0 + 1 = 1 /\ 1 + 1 = 2 /\ 2 + 1 = 3 /\ 3 + 1 = 4
    OBVIOUS
  <2>3. \A i \in 0 .. 3 : Rank(S, i) \in Nat
    BY RankBasics
  <2> QED
    BY <2>1, <2>2, <2>3
<1> HIDE DEF c
<1>3. n = 0 \/ n = 1 \/ n = 2 \/ n = 3 \/ n = 4
  OBVIOUS
<1>4. c(n) <= c(4)
  BY <1>1, <1>2, <1>3
<1> QED
  BY <1>1, <1>4 DEF c

(* What is loaded is counted from 0 to 4.                                  *)
LEMMA TakenType ==
    ASSUME section \in 1 .. 5
    PROVE  /\ Listed \in SUBSET (1 .. 4)
           /\ Taken \in 0 .. 4 /\ Cardinality(Listed) \in 0 .. 4
<1>1. Listed \in SUBSET (1 .. 4)
  BY FourNames DEF Listed
<1>2. ASSUME NEW n \in 0 .. 4 PROVE Rank(Listed, n) \in 0 .. 4
  <2> DEFINE c(i) == Rank(Listed, i)
  <2>1. c(0) = 0 /\ c(1) \in Nat /\ c(2) \in Nat /\ c(3) \in Nat /\ c(4) \in Nat
    BY <1>1, RankBasics
  <2>2. /\ c(1) = IF 1 \in Listed THEN c(0) + 1 ELSE c(0)
        /\ c(2) = IF 2 \in Listed THEN c(1) + 1 ELSE c(1)
        /\ c(3) = IF 3 \in Listed THEN c(2) + 1 ELSE c(2)
        /\ c(4) = IF 4 \in Listed THEN c(3) + 1 ELSE c(3)
    <3>1. \A i \in 0 .. 3 : Rank(Listed, i + 1) = IF i + 1 \in Listed THEN Rank(Listed, i) + 1 ELSE Rank(Listed, i)
      BY <1>1, RankBasics
    <3>2. 0 + 1 = 1 /\ 1 + 1 = 2 /\ 2 + 1 = 3 /\ 3 + 1 = 4
      OBVIOUS
    <3> QED
      BY <3>1, <3>2
  <2> HIDE DEF c
  <2>3. n = 0 \/ n = 1 \/ n = 2 \/ n = 3 \/ n = 4
    OBVIOUS
  <2>4. c(n) \in Nat /\ c(n) <= 4
    BY <2>1, <2>2, <2>3
  <2> QED
    BY <2>4 DEF c
<1>3. section - 1 \in 0 .. 4 /\ Rank(Listed, 4) = Cardinality(Listed) /\ 4 \in 0 .. 4
  BY <1>1, RankBasics
<1> QED
  BY <1>1, <1>2, <1>3 DEF Taken

(* A new load has no segment in place.                                     *)
LEMMA StartLoadChain == LoaderInv /\ StartLoad => ChainInv'
<1> SUFFICES ASSUME LoaderInv, StartLoad PROVE ChainInv'
  OBVIOUS
<1>1. PICK f \in Files, a \in Starts :
        /\ base' = PageOf(a) /\ next' = PageOf(a)
        /\ seg' = init_mem(get_nsegments(symtab') + 1)
  BY DEF StartLoad
<1>2. section' = 1
  BY DEF StartLoad
<1>3. LoaderInv'
  BY StartLoadType
<1>4. Listed' \in SUBSET (1 .. 4) /\ get_nsegments(symtab') = Cardinality(Listed')
  BY FourNames DEF Listed, get_nsegments
<1>5. Taken' = 0 /\ Cardinality(Listed') \in Nat
  <2>1. Rank(Listed', 0) = 0 /\ Rank(Listed', 4) = Cardinality(Listed') /\ Rank(Listed', 4) \in Nat
    BY <1>4, RankBasics
  <2>2. section' - 1 = 0
    BY <1>2
  <2> QED
    BY <2>1, <2>2 DEF Taken, Rank
<1>6. /\ Len(seg') = Cardinality(Listed') + 1
      /\ \A k \in DOMAIN seg' : seg'[k].name = <<>> /\ ~ seg'[k].content
  BY <1>1, <1>4, <1>5 DEF init_mem, Unattached, Segment
<1>7. base' \in 0 .. (WordSize - 1)
  BY <1>3 DEF LoaderInv, Word
<1>8. PICK q \in [1 .. 5 -> Int] : q[1] = base'
  <2> DEFINE g == [i \in 1 .. 5 |-> base']
  <2>1. g \in [1 .. 5 -> Int] /\ g[1] = base'
    BY <1>7
  <2> QED
    BY <2>1
<1>9. next' = Unsigned(q[1])
  <2>1. Unsigned(base') = base'
    BY <1>7, Sizes, SmallMod DEF Unsigned
  <2> QED
    BY <1>1, <1>8, <2>1
<1>10. Chain(q)'
  <2>1. Taken' + 1 = 1 /\ 1 .. Taken' = {}
    BY <1>5
  <2> QED
    BY <1>8, <1>9, <2>1 DEF Chain
<1> QED
  BY <1>2, <1>6, <1>8, <1>10 DEF ChainInv

(* A section more at the end of the chain.                                 *)
LEMMA LoadSectionChain == LoaderInv /\ ChainInv /\ LoadSection => ChainInv'
<1> SUFFICES ASSUME LoaderInv, ChainInv, LoadSection PROVE ChainInv'
  OBVIOUS
<1> DEFINE name == SectionNames[section]
           s == elf_load_section_in_memory(name)
           t == Taken
           d == Cardinality(Listed)
<1>1. /\ phase = "sections" /\ section \in 1 .. 4 /\ section' = section + 1 /\ section' \in 1 .. 5
      /\ UNCHANGED <<file, base, symtab>> /\ section \in 1 .. 5 /\ file \in Files
  BY FourNames DEF LoadSection, LoaderInv
<1>2. PICK q \in [1 .. 5 -> Int] : Chain(q)
  BY <1>1 DEF ChainInv
<1>3. /\ Len(seg) = d + 1
      /\ \A k \in DOMAIN seg : k > t => seg[k].name = <<>> /\ ~ seg[k].content
  BY <1>1 DEF ChainInv
<1>4. Listed' = Listed
  BY <1>1 DEF Listed
<1>5. Listed \in SUBSET (1 .. 4) /\ t \in 0 .. 4 /\ d \in 0 .. 4
  BY <1>1, TakenType
<1>6. Taken' = Rank(Listed, section) /\ (section \in Listed <=> is_in_symbols(name, symtab))
  <2>1. section' - 1 = section
    BY <1>1
  <2> QED
    BY <1>1, <1>4, <2>1, FourNames DEF Taken, Rank, Listed
<1>7. Rank(Listed, section) = IF section \in Listed THEN t + 1 ELSE t
  <2>1. section - 1 \in 0 .. 3 /\ (section - 1) + 1 = section
    BY <1>1
  <2> QED
    BY <1>5, <2>1, RankBasics DEF Taken
<1>8. CASE section \notin Listed
  <2>1. seg' = seg /\ next' = next /\ Taken' = t
    BY <1>6, <1>7, <1>8 DEF LoadSection
  <2>2. Chain(q)'
    <3>1. Advance(seg[1])' = Advance(seg'[1])
      OBVIOUS
    <3> QED
      BY <1>1, <1>2, <2>1 DEF Chain, Advance, PageOf, Size
  <2> QED
    BY <1>1, <1>3, <1>4, <2>1, <2>2 DEF ChainInv
<1>9. CASE section \in Listed
  <2>1. t + 1 \in 1 .. d /\ Taken' = t + 1
    <3>1. Rank(Listed, section) \in 1 .. d
      BY <1>5, <1>9, RankOrder
    <3> QED
      BY <1>6, <1>7, <1>9, <3>1
  <2>2. s \in Segments /\ s.name = name /\ name # <<>>
    <3>1. section \in DOMAIN SectionNames
      BY <1>1, FourNames
    <3> QED
      BY <1>1, <3>1, SectionLoaded, FourNames
  <2>3. s.content => s.start = next
    BY DEF elf_load_section_in_memory, fill_mem_scn, Segment
  <2>4. attach_scn_to_mem = t + 1
    <3>1. \A k \in DOMAIN seg : seg[k].name = <<>> <=> k > t
      <4>1. ASSUME NEW k \in DOMAIN seg, ~ (k > t) PROVE seg[k].name # <<>>
        <5>1. k \in 1 .. t
          <6>1. k \in Nat /\ k >= 1
            BY DEF LoaderInv
          <6> HIDE DEF t
          <6> QED
            BY <1>5, <4>1, <6>1
        <5> QED
          BY <1>2, <5>1 DEF Chain
      <4> QED
        BY <1>3, <4>1
    <3>2. t \in Nat /\ t < Len(seg)
      <4> HIDE DEF t, d
      <4> QED
        BY <1>3, <1>5, <2>1
    <3> QED
      BY <3>1, <3>2, FirstFree
  <2>5. seg' = [seg EXCEPT ![t + 1] = s] /\ next' = Unsigned(next + Advance(s))
    BY <1>6, <1>9, <2>4 DEF LoadSection
  <2> HIDE DEF s, t, d
  <2>6. /\ Len(seg') = Len(seg) /\ DOMAIN seg' = DOMAIN seg /\ DOMAIN seg = 1 .. (d + 1)
        /\ \A k \in DOMAIN seg : seg'[k] = IF k = t + 1 THEN s ELSE seg[k]
    <3>1. seg \in Seq(Segments)
      BY DEF LoaderInv
    <3> QED
      BY <1>3, <2>5, <3>1
  <2>7. t + 1 \in 1 .. 4 /\ t + 2 \in 1 .. 5 /\ t + 1 \in 1 .. 5 /\ q[t + 1] \in Int /\ 1 # t + 2 /\ (t + 1) + 1 = t + 2
    BY <1>5, <2>1
  <2>8. Advance(s) \in Int
    <3> DEFINE n == Len(s.body)
    <3>1. n \in Nat
      BY <2>2 DEF Segments, Contents
    <3>2. Size(s) = 4 * n
      BY DEF Size
    <3> HIDE DEF n
    <3>3. Size(s) + Page \in Nat
      BY <3>1, <3>2, LoaderAssumption
    <3> QED
      BY <3>3, PageOfType DEF Advance
  <2>9. PICK r \in [1 .. 5 -> Int] :
           \A i \in 1 .. 5 : r[i] = IF i = t + 2 THEN q[t + 1] + Advance(s) ELSE q[i]
    <3> DEFINE f == [i \in 1 .. 5 |-> IF i = t + 2 THEN q[t + 1] + Advance(s) ELSE q[i]]
    <3>1. f \in [1 .. 5 -> Int]
      BY <2>7, <2>8
    <3> QED
      BY <3>1
  <2>10. next' = Unsigned(r[t + 2])
    <3>1. next = Unsigned(q[t + 1])
      BY <1>2 DEF Chain, t
    <3>2. r[t + 2] = q[t + 1] + Advance(s)
      BY <2>7, <2>9
    <3> DEFINE x == q[t + 1]
               y == Advance(s)
    <3>3. Unsigned(Unsigned(x) + y) = Unsigned(x + y)
      <4>1. x \in Int /\ y \in Int
        BY <2>7, <2>8
      <4> HIDE DEF x, y
      <4>2. WordSize \in Nat \ {0}
        BY Sizes
      <4> QED
        BY <4>1, <4>2, ModSum DEF Unsigned
    <3> QED
      BY <2>5, <3>1, <3>2, <3>3
  <2>11. ASSUME NEW k \in 1 .. (t + 1)
         PROVE  /\ r[k + 1] = r[k] + Advance(seg'[k]) /\ seg'[k].name # <<>>
                /\ seg'[k].content => seg'[k].start = Unsigned(r[k])
    <3>1. k \in DOMAIN seg /\ k + 1 \in 1 .. 5 /\ k \in 1 .. 5 /\ k # t + 2
      BY <1>5, <2>1, <2>6, <2>7
    <3>2. CASE k = t + 1
      <4>1. seg'[k] = s /\ r[k] = q[t + 1] /\ r[k + 1] = q[t + 1] + Advance(s)
        BY <2>6, <2>7, <2>9, <3>1, <3>2
      <4>2. next = Unsigned(q[t + 1])
        BY <1>2 DEF Chain, t
      <4> QED
        BY <2>2, <2>3, <4>1, <4>2
    <3>3. CASE k # t + 1
      <4>1. k \in 1 .. t /\ k + 1 # t + 2
        BY <1>5, <3>3
      <4>2. seg'[k] = seg[k] /\ r[k] = q[k] /\ r[k + 1] = q[k + 1]
        BY <2>6, <2>9, <3>1, <3>3, <4>1
      <4>3. /\ q[k + 1] = q[k] + Advance(seg[k]) /\ seg[k].name # <<>>
            /\ seg[k].content => seg[k].start = Unsigned(q[k])
        BY <1>2, <4>1 DEF Chain, t
      <4> QED
        BY <4>2, <4>3
    <3> QED
      BY <3>2, <3>3
  <2>12. Chain(r)'
    <3>1. r[1] = base'
      BY <1>1, <1>2, <2>7, <2>9 DEF Chain
    <3>2. next' = Unsigned(r[Taken' + 1])
      BY <2>1, <2>7, <2>10
    <3> QED
      BY <2>1, <2>11, <3>1, <3>2 DEF Chain, Advance, PageOf, Size
  <2>13. ASSUME NEW k \in DOMAIN seg', k > Taken' PROVE seg'[k].name = <<>> /\ ~ seg'[k].content
    <3>1. k \in Int /\ t \in Int
      BY <1>5, <2>6
    <3>2. k # t + 1 /\ k > t
      BY <2>1, <2>13, <3>1
    <3> QED
      BY <1>3, <2>6, <3>2 DEF t
  <2> QED
    BY <1>1, <1>3, <1>4, <2>6, <2>9, <2>12, <2>13 DEF ChainInv, d
<1> QED
  BY <1>8, <1>9

(* Relocation leaves every segment where and as long as it is.             *)
LEMMA StorememShape ==
    ASSUME LoaderInv, NEW a, NEW w \in Word \cup {Unknown}, storemem(a, w)
    PROVE  /\ DOMAIN seg' = DOMAIN seg /\ Len(seg') = Len(seg)
           /\ \A k \in DOMAIN seg :
                 /\ seg'[k].name = seg[k].name /\ seg'[k].content = seg[k].content
                 /\ seg'[k].start = seg[k].start /\ Size(seg'[k]) = Size(seg[k])
<1>1. /\ seg' \in Seq(Segments) /\ DOMAIN seg' = DOMAIN seg
      /\ \A k \in DOMAIN seg : seg'[k].content = seg[k].content /\ seg'[k].name = seg[k].name
  BY StorememTyped
<1>2. \A k \in DOMAIN seg : seg'[k].start = seg[k].start
  BY StorememKeeps
<1>3. Len(seg') = Len(seg)
  BY <1>1 DEF LoaderInv
<1>4. ASSUME NEW k \in DOMAIN seg PROVE Len(seg'[k].body) = Len(seg[k].body)
  <2> DEFINE m == SegmentOf(a)
             p == PositionOf(a, m)
  <2>1. seg' = seg \/ seg' = [seg EXCEPT ![m].body[p] = w]
    BY DEF storemem
  <2>2. seg[k].body \in Seq(Word \cup {Unknown}) /\ seg[k] \in Segments
    BY SegType DEF Contents
  <2>3. [seg[k].body EXCEPT ![p] = w] \in Seq(Word \cup {Unknown})
        /\ DOMAIN [seg[k].body EXCEPT ![p] = w] = DOMAIN seg[k].body
    BY <2>2, ExceptType
  <2>4. Len([seg[k].body EXCEPT ![p] = w]) = Len(seg[k].body)
    <3> DEFINE f == seg[k].body
               g == [f EXCEPT ![p] = w]
    <3>1. f \in Seq(Word \cup {Unknown}) /\ g \in Seq(Word \cup {Unknown}) /\ DOMAIN g = DOMAIN f
      BY <2>2, <2>3
    <3> HIDE DEF f, g
    <3>2. Len(f) = Len(g)
      BY <3>1
    <3> QED
      BY <3>2 DEF f, g
  <2> HIDE DEF m, p
  <2>5. seg'[k].body = seg[k].body \/ seg'[k].body = [seg[k].body EXCEPT ![p] = w]
    <3>1. CASE seg' = seg
      BY <3>1
    <3>2. CASE seg' = [seg EXCEPT ![m].body[p] = w]
      <4> DEFINE s == [seg[m] EXCEPT !.body = [@ EXCEPT ![p] = w]]
      <4>1. seg' = [seg EXCEPT ![m] = s]
        BY <3>2
      <4>2. k = m => s.body = [seg[k].body EXCEPT ![p] = w]
        BY <2>2 DEF Segments
      <4> HIDE DEF s
      <4>3. seg'[k] = IF k = m THEN s ELSE seg[k]
        BY <1>4, <4>1
      <4> QED
        BY <4>2, <4>3
    <3> QED
      BY <2>1, <3>1, <3>2
  <2> QED
    BY <2>4, <2>5
<1> QED
  BY <1>1, <1>2, <1>3, <1>4 DEF Size

(* What an entry does, if anything: one word is stored, at an address that *)
(* is in no segment that cannot be read.                                   *)
LEMMA EntryStores ==
    ASSUME LoaderInv, RelocateEntry, seg' # seg
    PROVE  LET k == entry[1]
               e == Entries(k)[entry[2]]
               p == AddressOf(k, e)
           IN  /\ k \in DOMAIN seg /\ entry[2] \in DOMAIN Entries(k) /\ e.offset \in Nat
               /\ ~ Faults(p)
               /\ \E w \in Word \cup {Unknown} : storemem(p, w)
<1> DEFINE k == entry[1]
           e == Entries(k)[entry[2]]
           p == AddressOf(k, e)
<1>1. k \in DOMAIN seg /\ entry[2] \in DOMAIN Entries(k) /\ phase = "relocation"
  BY DEF LoaderInv, RelocateEntry
<1>2. e.offset \in Nat
  BY <1>1, EntryType
<1>3. p \in Word
  <2>1. seg[k].start \in Int
    BY <1>1, SegType
  <2> HIDE DEF e, k
  <2> QED
    BY <1>2, <2>1, UnsignedType DEF AddressOf
<1>4. ~ Faults(p) /\ Apply(e, p)
  BY DEF RelocateEntry
<1> HIDE DEF e, p, k
<1>5. \E w \in Word \cup {Unknown} : storemem(p, w)
  BY <1>3, <1>4, ApplyStores
<1> QED
  BY <1>1, <1>2, <1>4, <1>5 DEF e, p, k

(* What ChainInv says stays true while the segments stay where they are.   *)
LEMMA ChainKept ==
    ASSUME ChainInv, phase \in {"sections", "relocation"},
           UNCHANGED <<base, symtab, section, next>>,
           DOMAIN seg' = DOMAIN seg, Len(seg') = Len(seg), DOMAIN seg = 1 .. Len(seg), Len(seg) \in Nat,
           \A k \in DOMAIN seg :
                 /\ seg'[k].name = seg[k].name /\ seg'[k].content = seg[k].content
                 /\ seg'[k].start = seg[k].start /\ Size(seg'[k]) = Size(seg[k])
    PROVE  ChainInv'
<1>1. /\ section \in 1 .. 5 /\ Len(seg) = Cardinality(Listed) + 1
      /\ \A k \in DOMAIN seg : k > Taken => seg[k].name = <<>> /\ ~ seg[k].content
  BY DEF ChainInv
<1>2. PICK q \in [1 .. 5 -> Int] : Chain(q)
  BY DEF ChainInv
<1>3. Listed' = Listed /\ Taken' = Taken
  BY DEF Listed, Taken, Rank
<1>4. Taken \in 0 .. 4 /\ Cardinality(Listed) \in 0 .. 4 /\ Taken <= Cardinality(Listed)
  <2>1. Taken \in 0 .. 4 /\ Cardinality(Listed) \in 0 .. 4 /\ Listed \in SUBSET (1 .. 4)
    BY <1>1, TakenType
  <2>2. Taken <= Cardinality(Listed)
    BY <1>1, <2>1, RankAtMost DEF Taken
  <2> QED
    BY <2>1, <2>2
<1>5. 1 .. Taken \subseteq DOMAIN seg
  <2> DEFINE t == Taken
             d == Cardinality(Listed)
  <2>1. DOMAIN seg = 1 .. (d + 1) /\ t \in Int /\ d \in Int /\ t <= d
    BY <1>1, <1>4
  <2> HIDE DEF t, d
  <2> QED
    BY <2>1 DEF t
<1>6. Chain(q)'
  <2>1. \A k \in 1 .. Taken : Advance(seg'[k]) = Advance(seg[k])
    BY <1>5 DEF Advance
  <2>2. ASSUME NEW k \in 1 .. Taken
        PROVE  /\ q[k + 1] = q[k] + Advance(seg'[k]) /\ seg'[k].name # <<>>
               /\ seg'[k].content => seg'[k].start = Unsigned(q[k])
    <3>1. /\ q[k + 1] = q[k] + Advance(seg[k]) /\ seg[k].name # <<>>
          /\ seg[k].content => seg[k].start = Unsigned(q[k])
      BY <1>2 DEF Chain
    <3>2. k \in DOMAIN seg
      BY <1>5
    <3> QED
      BY <2>1, <3>1, <3>2
  <2>3. q[1] = base /\ next = Unsigned(q[Taken + 1])
    BY <1>2 DEF Chain
  <2> QED
    BY <1>3, <2>2, <2>3 DEF Chain, Advance, PageOf, Size
<1> QED
  BY <1>1, <1>2, <1>3, <1>6 DEF ChainInv

(* ChainInv is inductive.                                                  *)
LEMMA ChainStep == LoaderInv /\ ChainInv /\ [LNext]_lvars => ChainInv'
<1> SUFFICES ASSUME LoaderInv, ChainInv, [LNext]_lvars PROVE ChainInv'
  OBVIOUS
<1>0. DOMAIN seg = 1 .. Len(seg) /\ Len(seg) \in Nat
  BY DEF LoaderInv
<1>1. ASSUME UNCHANGED <<base, symtab, section, next, seg>>,
             phase \in {"sections", "relocation"}
      PROVE  ChainInv'
  BY <1>0, <1>1, ChainKept
<1>2. CASE SectionsDone
  BY <1>1, <1>2 DEF SectionsDone
<1>3. CASE NextSegment
  BY <1>1, <1>3 DEF NextSegment
<1>4. CASE UNCHANGED lvars
  <2>1. CASE phase \in {"sections", "relocation"}
    BY <1>1, <1>4, <2>1 DEF lvars
  <2>2. CASE phase \notin {"sections", "relocation"}
    BY <1>4, <2>2 DEF lvars, ChainInv
  <2> QED
    BY <2>1, <2>2
<1>5. CASE RelocateEntry
  <2>1. UNCHANGED <<base, symtab, section, next>> /\ phase = "relocation"
    BY <1>5 DEF RelocateEntry
  <2>2. CASE seg' = seg
    BY <1>1, <2>1, <2>2
  <2>3. CASE seg' # seg
    <3>1. \E p : \E w \in Word \cup {Unknown} : storemem(p, w)
      BY <1>5, <2>3, EntryStores
    <3>2. /\ DOMAIN seg' = DOMAIN seg /\ Len(seg') = Len(seg)
          /\ \A k \in DOMAIN seg :
                 /\ seg'[k].name = seg[k].name /\ seg'[k].content = seg[k].content
                 /\ seg'[k].start = seg[k].start /\ Size(seg'[k]) = Size(seg[k])
      BY <3>1, StorememShape
    <3> QED
      BY <1>0, <2>1, <3>2, ChainKept
  <2> QED
    BY <2>2, <2>3
<1>6. CASE AttachStack
  BY <1>6 DEF AttachStack, ChainInv
<1> QED
  BY <1>2, <1>3, <1>4, <1>5, <1>6, StartLoadChain, LoadSectionChain DEF LNext

(* Two numbers less than a modulus apart are equal if their remainders are.*)
LEMMA SameRemainder ==
    ASSUME NEW M \in Nat \ {0}, NEW x \in Int, NEW y \in Int,
           x % M = y % M, x - y < M, y - x < M
    PROVE  x = y
<1> DEFINE c == x \div M
           d == y \div M
<1>1. c \in Int /\ x = M * c + (x % M) /\ x % M \in Int /\ d \in Int /\ y = M * d + (y % M)
  BY DivMod
<1> HIDE DEF c, d
<1>2. x - y = M * (c - d)
  BY <1>1
<1>3. ASSUME NEW k \in Int, k >= 1 PROVE M * k >= M
  BY <1>3
<1>4. ASSUME NEW k \in Int, k <= -1 PROVE M * k <= -M
  BY <1>4
<1>5. c - d = 0
  <2>1. c - d \in Int
    BY <1>1
  <2> QED
    BY <1>2, <1>3, <1>4, <2>1
<1> QED
  BY <1>1, <1>5

(* Segments that are in place take room one after the other, and less than *)
(* the address space.                                                      *)
LEMMA ChainApart ==
    ASSUME LoaderInv, ChainInv, phase = "relocation", Moderate,
           NEW q \in [1 .. 5 -> Int], Chain(q),
           NEW k \in 1 .. Taken, NEW l \in 1 .. Taken
    PROVE  /\ q[k] \in Int /\ q[l] \in Int
           /\ Size(seg[k]) \in Nat /\ Size(seg[l]) \in Nat
           /\ Size(seg[l]) < WordSize /\ Size(seg[k]) < WordSize
           /\ k < l => /\ q[k] + Size(seg[k]) < q[l]
                       /\ q[l] + Size(seg[l]) < q[k] + WordSize
<1> DEFINE a(i) == Advance(seg[i])
           z(i) == Size(seg[i])
           t == Taken
<1>1. t \in 0 .. 4
  BY TakenType DEF ChainInv
<1>2. 1 .. t \subseteq DOMAIN seg
  <2> DEFINE d == Cardinality(Listed)
  <2>1. section \in 1 .. 5 /\ Len(seg) = d + 1
    BY DEF ChainInv
  <2>2. d \in 0 .. 4 /\ Listed \in SUBSET (1 .. 4) /\ section - 1 \in 0 .. 4
    BY <2>1, TakenType
  <2>3. t <= d
    BY <2>2, RankAtMost DEF Taken
  <2>4. DOMAIN seg = 1 .. Len(seg)
    BY DEF LoaderInv
  <2> HIDE DEF t, d
  <2> QED
    BY <1>1, <2>1, <2>2, <2>3, <2>4
<1>3. ASSUME NEW i \in 1 .. t
      PROVE  /\ q[i + 1] = q[i] + a(i) /\ a(i) \in Int
             /\ z(i) \in Nat /\ z(i) < a(i) /\ 4 * a(i) <= WordSize
  <2>1. q[i + 1] = q[i] + a(i)
    BY DEF Chain
  <2>2. i \in DOMAIN seg
    BY <1>2
  <2>3. seg[i].body \in Seq(Word \cup {Unknown})
    BY <2>2, SegType DEF Contents
  <2> DEFINE n == Len(seg[i].body)
  <2>4. n \in Nat /\ z(i) = 4 * n
    BY <2>3 DEF Size
  <2>5. 4 * (z(i) + Page) <= WordSize
    BY <2>2 DEF Moderate
  <2>6. a(i) = PageOf(z(i) + Page)
    BY DEF Advance
  <2> HIDE DEF n, a, z
  <2>7. Page \in Nat \ {0} /\ z(i) \in Nat
    BY <2>4, LoaderAssumption
  <2>8. a(i) = z(i) + Page - ((z(i) + Page) % Page) /\ (z(i) + Page) % Page \in 0 .. (Page - 1)
    BY <2>6, <2>7 DEF PageOf
  <2> QED
    BY <2>1, <2>5, <2>7, <2>8, Sizes
<1> HIDE DEF a, z
<1>4. /\ 1 <= t => q[2] = q[1] + a(1) /\ a(1) \in Int /\ z(1) \in Nat /\ z(1) < a(1) /\ 4 * a(1) <= WordSize
      /\ 2 <= t => q[3] = q[2] + a(2) /\ a(2) \in Int /\ z(2) \in Nat /\ z(2) < a(2) /\ 4 * a(2) <= WordSize
      /\ 3 <= t => q[4] = q[3] + a(3) /\ a(3) \in Int /\ z(3) \in Nat /\ z(3) < a(3) /\ 4 * a(3) <= WordSize
      /\ 4 <= t => q[5] = q[4] + a(4) /\ a(4) \in Int /\ z(4) \in Nat /\ z(4) < a(4) /\ 4 * a(4) <= WordSize
  <2>1. 1 + 1 = 2 /\ 2 + 1 = 3 /\ 3 + 1 = 4 /\ 4 + 1 = 5
    OBVIOUS
  <2> HIDE DEF t
  <2>2. /\ 1 <= t => 1 \in 1 .. t
        /\ 2 <= t => 2 \in 1 .. t
        /\ 3 <= t => 3 \in 1 .. t
        /\ 4 <= t => 4 \in 1 .. t
    BY <1>1
  <2> QED
    BY <1>3, <2>1, <2>2
<1>5. q[1] \in Int /\ q[2] \in Int /\ q[3] \in Int /\ q[4] \in Int /\ q[5] \in Int
  OBVIOUS
<1>6. WordSize \in Nat \ {0}
  BY Sizes
<1>7. z(k) \in Nat /\ z(l) \in Nat /\ z(k) < WordSize /\ z(l) < WordSize /\ q[k] \in Int /\ q[l] \in Int
  <2>1. k \in 1 .. 5 /\ l \in 1 .. 5 /\ k \in 1 .. t /\ l \in 1 .. t
    BY <1>1
  <2>2. q[k] \in Int /\ q[l] \in Int
    BY <2>1
  <2>3. z(k) \in Nat /\ z(k) < a(k) /\ 4 * a(k) <= WordSize /\ a(k) \in Int
    BY <1>3
  <2>4. z(l) \in Nat /\ z(l) < a(l) /\ 4 * a(l) <= WordSize /\ a(l) \in Int
    BY <1>3
  <2> QED
    BY <1>6, <2>2, <2>3, <2>4
<1>8. ASSUME k < l PROVE q[k] + z(k) < q[l] /\ q[l] + z(l) < q[k] + WordSize
  <2> HIDE DEF t
  <2>1. k \in Int /\ l \in Int /\ 1 <= k /\ k < l /\ l <= t /\ t <= 4 /\ t \in Int
    BY <1>1, <1>8 DEF t
  <2>2. \/ k = 1 /\ l = 2
        \/ k = 1 /\ l = 3
        \/ k = 1 /\ l = 4
        \/ k = 2 /\ l = 3
        \/ k = 2 /\ l = 4
        \/ k = 3 /\ l = 4
    BY <2>1
  <2>3. CASE k = 1 /\ l = 2
    BY <1>4, <1>5, <1>6, <2>1, <2>3
  <2>4. CASE k = 1 /\ l = 3
    BY <1>4, <1>5, <1>6, <2>1, <2>4
  <2>5. CASE k = 1 /\ l = 4
    BY <1>4, <1>5, <1>6, <2>1, <2>5
  <2>6. CASE k = 2 /\ l = 3
    BY <1>4, <1>5, <1>6, <2>1, <2>6
  <2>7. CASE k = 2 /\ l = 4
    BY <1>4, <1>5, <1>6, <2>1, <2>7
  <2>8. CASE k = 3 /\ l = 4
    BY <1>4, <1>5, <1>6, <2>1, <2>8
  <2> QED
    BY <2>2, <2>3, <2>4, <2>5, <2>6, <2>7, <2>8
<1> QED
  BY <1>7, <1>8 DEF z

(* The address of an entry that is not beyond its segment is found there,  *)
(* at its word, or in a segment that cannot be read.                       *)
LEMMA EntryLands ==
    ASSUME LoaderInv, ChainInv, phase = "relocation", Moderate,
           NEW k \in DOMAIN seg, seg[k].content, NEW o \in Nat, o <= Size(seg[k]),
           SegmentOf(Unsigned(seg[k].start + o)) # 0, ~ Faults(Unsigned(seg[k].start + o))
    PROVE  /\ SegmentOf(Unsigned(seg[k].start + o)) = k
           /\ PositionOf(Unsigned(seg[k].start + o), k) = o \div 4 + 1
<1> DEFINE p == Unsigned(seg[k].start + o)
           l == SegmentOf(p)
<1>1. PICK q \in [1 .. 5 -> Int] : Chain(q)
  BY DEF ChainInv
<1>2. ASSUME NEW i \in DOMAIN seg, seg[i].content
      PROVE  i \in 1 .. Taken /\ seg[i].start = Unsigned(q[i])
  <2>1. ~ (i > Taken)
    BY <1>2 DEF ChainInv
  <2>2. i \in Nat /\ i >= 1
    BY DEF LoaderInv
  <2>3. Taken \in 0 .. 4
    BY TakenType DEF ChainInv
  <2> DEFINE t == Taken
  <2>4. i \in 1 .. t
    <3>1. t \in Int /\ ~ (i > t)
      BY <2>1, <2>3
    <3> HIDE DEF t
    <3> QED
      BY <2>2, <3>1
  <2> QED
    BY <1>1, <1>2, <2>4 DEF Chain
<1>3. /\ l \in DOMAIN seg /\ seg[l].start <= p /\ p <= Unsigned(seg[l].start + Size(seg[l]))
      /\ seg[l].content
  BY SegmentHit DEF Faults
<1>4. k \in 1 .. Taken /\ l \in 1 .. Taken
      /\ seg[k].start = Unsigned(q[k]) /\ seg[l].start = Unsigned(q[l])
  BY <1>2, <1>3
<1> DEFINE zk == Size(seg[k])
           zl == Size(seg[l])
           sk == seg[k].start
           sl == seg[l].start
<1>5. /\ q[k] \in Int /\ q[l] \in Int /\ zk \in Nat /\ zl \in Nat /\ zk < WordSize /\ zl < WordSize
      /\ k < l => q[k] + zk < q[l] /\ q[l] + zl < q[k] + WordSize
      /\ l < k => q[l] + zl < q[k] /\ q[k] + zk < q[l] + WordSize
  <2> HIDE DEF l
  <2> QED
    BY <1>1, <1>4, ChainApart
<1>6. WordSize \in Nat \ {0} /\ k \in Int /\ l \in Int
  BY <1>3, Sizes DEF LoaderInv
<1>7. sk \in 0 .. (WordSize - 1) /\ sl \in 0 .. (WordSize - 1)
  BY <1>3, SegType DEF Word
<1>8. p = (q[k] + o) % WordSize
  <2>1. p = (sk + o) % WordSize /\ sk = q[k] % WordSize
    BY <1>4 DEF Unsigned
  <2>2. o \in Int /\ q[k] \in Int
    BY <1>5
  <2> DEFINE x == q[k]
  <2>3. x \in Int
    BY <2>2
  <2> HIDE DEF p, sk, x
  <2>4. WordSize \in Nat \ {0}
    BY <1>6
  <2>5. o \in Int
    BY <2>2
  <2>6. ((x % WordSize) + o) % WordSize = (x + o) % WordSize
    BY <2>3, <2>4, <2>5, ModSum
  <2> QED
    BY <2>1, <2>6, Zenon DEF x
<1>9. p \in 0 .. (WordSize - 1)
  <2>1. q[k] + o \in Int
    BY <1>5
  <2> HIDE DEF p
  <2> QED
    BY <1>6, <1>8, <2>1
<1>10. p - sl \in Int /\ 0 <= p - sl /\ p - sl <= zl
  <2>1. sl <= p /\ p <= (sl + zl) % WordSize
    BY <1>3 DEF Unsigned
  <2> HIDE DEF p, l, sl, zl
  <2>2. CASE sl + zl < WordSize
    <3>1. sl + zl \in 0 .. (WordSize - 1)
      BY <1>5, <1>6, <1>7, <2>2
    <3>2. (sl + zl) % WordSize = sl + zl
      BY <1>6, <3>1, SmallMod
    <3> QED
      BY <1>5, <1>6, <1>7, <1>9, <2>1, <3>2
  <2>3. CASE ~ (sl + zl < WordSize)
    <3> DEFINE x == sl + zl - WordSize
    <3>1. x \in 0 .. (WordSize - 1) /\ x < sl /\ sl + zl = 1 * WordSize + x
      BY <1>5, <1>6, <1>7, <2>3
    <3> HIDE DEF x
    <3>2. (1 * WordSize + x) % WordSize = x
      <4>1. WordSize \in Nat \ {0} /\ 1 \in Int /\ x \in 0 .. (WordSize - 1)
        BY <1>6, <3>1
      <4> QED
        BY <4>1, ModUnique, Zenon
    <3>3. p <= x
      BY <2>1, <3>1, <3>2
    <3> QED
      BY <1>6, <1>7, <1>9, <2>1, <3>1, <3>3
  <2> QED
    BY <2>2, <2>3
<1> DEFINE t == p - sl
<1>11. (q[l] + t) % WordSize = (q[k] + o) % WordSize
  <2>1. sl = q[l] % WordSize
    BY <1>4 DEF Unsigned
  <2>2. t \in Int /\ sl + t = p /\ p % WordSize = p
    <3>1. p % WordSize = p
      <4> HIDE DEF p
      <4> QED
        BY <1>6, <1>9, SmallMod
    <3> HIDE DEF p, sl
    <3> QED
      BY <1>7, <1>9, <1>10, <3>1
  <2> HIDE DEF t, sl, p, l
  <2>3. ((q[l] % WordSize) + t) % WordSize = (q[l] + t) % WordSize
    BY <1>5, <1>6, <2>2, ModSum
  <2> QED
    BY <1>8, <2>1, <2>2, <2>3
<1>12. l = k
  <2>1. t \in Int /\ 0 <= t /\ t <= zl
    BY <1>10
  <2>2. o <= zk
    OBVIOUS
  <2> HIDE DEF t, sl, sk, p, l, zk, zl
  <2>3. ASSUME k < l PROVE FALSE
    <3>1. q[k] + o < q[l] + t /\ q[l] + t < q[k] + o + WordSize
      BY <1>5, <1>6, <2>1, <2>2, <2>3
    <3>2. q[l] + t \in Int /\ q[k] + o \in Int
      BY <1>5, <2>1
    <3>3. (q[l] + t) - (q[k] + o) < WordSize /\ (q[k] + o) - (q[l] + t) < WordSize
      BY <1>6, <3>1, <3>2
    <3>4. q[l] + t = q[k] + o
      BY <1>6, <1>11, <3>2, <3>3, SameRemainder
    <3> QED
      BY <3>1, <3>2, <3>4
  <2>4. ASSUME l < k PROVE FALSE
    <3>1. q[l] + t < q[k] + o /\ q[k] + o < q[l] + t + WordSize
      BY <1>5, <1>6, <2>1, <2>2, <2>4
    <3>2. q[l] + t \in Int /\ q[k] + o \in Int
      BY <1>5, <2>1
    <3>3. (q[l] + t) - (q[k] + o) < WordSize /\ (q[k] + o) - (q[l] + t) < WordSize
      BY <1>6, <3>1, <3>2
    <3>4. q[l] + t = q[k] + o
      BY <1>6, <1>11, <3>2, <3>3, SameRemainder
    <3> QED
      BY <3>1, <3>2, <3>4
  <2> QED
    BY <1>6, <2>3, <2>4
<1>13. p - sk = o
  <2>1. p - sk \in Int /\ 0 <= p - sk /\ p - sk <= zk
    BY <1>10, <1>12
  <2>2. (q[k] + (p - sk)) % WordSize = (q[k] + o) % WordSize
    BY <1>11, <1>12
  <2>3. o <= zk
    OBVIOUS
  <2> DEFINE u == p - sk
  <2> HIDE DEF p, sk, zk, l, u
  <2>4. u \in Int /\ 0 <= u /\ u <= zk /\ (q[k] + u) % WordSize = (q[k] + o) % WordSize
    BY <2>1, <2>2 DEF u
  <2>5. q[k] + u \in Int /\ q[k] + o \in Int
        /\ (q[k] + u) - (q[k] + o) < WordSize /\ (q[k] + o) - (q[k] + u) < WordSize
    <3> DEFINE x == q[k]
    <3>1. x \in Int /\ zk \in Nat /\ zk < WordSize
      BY <1>5
    <3>2. WordSize \in Nat
      BY <1>6
    <3>3. u \in Int /\ 0 <= u /\ u <= zk /\ o <= zk
      BY <2>3, <2>4
    <3> HIDE DEF x
    <3>4. x + u \in Int /\ x + o \in Int /\ (x + u) - (x + o) < WordSize /\ (x + o) - (x + u) < WordSize
      BY <3>1, <3>2, <3>3
    <3> QED
      BY <3>4 DEF x
  <2>6. q[k] + u = q[k] + o
    BY <1>6, <2>4, <2>5, SameRemainder
  <2>7. u = o
    BY <1>5, <2>4, <2>6
  <2> QED
    BY <2>7 DEF u
<1> HIDE DEF p, l
<1> QED
  BY <1>12, <1>13 DEF PositionOf, l, p

(* An entry that is not beyond its segment changes one word of it, the one *)
(* it names, or none, wherever the segments lie, for any object files.     *)
THEOREM EntriesInPlace == LSpec => RelocatesInPlace
<1> DEFINE InPlace ==
        phase = "relocation" /\ seg' # seg /\ entry'[2] > entry[2] /\ Moderate =>
            LET k == entry[1]
                e == Entries(k)[entry[2]]
                j == e.offset \div 4 + 1
            IN  e.offset <= Size(seg[k]) =>
                    \A l \in DOMAIN seg : \A i \in DOMAIN seg[l].body :
                        seg'[l].body[i] # seg[l].body[i] => l = k /\ i = j
<1>1. LoaderInv /\ [LNext]_lvars => LoaderInv'
  BY LoaderInvStep
<1>2. LInit => ChainInv
  BY DEF LInit, ChainInv
<1>3. LoaderInv /\ ChainInv /\ [LNext]_lvars => ChainInv'
  BY ChainStep
<1>4. LoaderInv /\ ChainInv /\ LNext => InPlace
  <2> SUFFICES ASSUME LoaderInv, ChainInv, LNext, phase = "relocation", seg' # seg,
                      entry'[2] > entry[2], Moderate
               PROVE  InPlace
    OBVIOUS
  <2> DEFINE k == entry[1]
             e == Entries(k)[entry[2]]
             j == e.offset \div 4 + 1
             p == AddressOf(k, e)
  <2>1. RelocateEntry
    <3>1. ~ StartLoad /\ ~ LoadSection /\ ~ SectionsDone /\ ~ NextSegment
      BY DEF StartLoad, LoadSection, SectionsDone, NextSegment
    <3>2. ASSUME AttachStack PROVE FALSE
      <4>1. entry' = entry /\ entry[2] \in Nat
        BY <3>2 DEF AttachStack, LoaderInv
      <4>2. entry[2] > entry[2]
        BY <4>1
      <4> QED
        BY <4>1, <4>2
    <3> QED
      BY <3>1, <3>2 DEF LNext
  <2>2. /\ k \in DOMAIN seg /\ entry[2] \in DOMAIN Entries(k) /\ e.offset \in Nat
        /\ ~ Faults(p) /\ \E w \in Word \cup {Unknown} : storemem(p, w)
    BY <2>1, EntryStores
  <2>3. PICK w : storemem(p, w)
    BY <2>2
  <2>4. seg[k].content
    BY <2>2 DEF Entries
  <2>5. SegmentOf(p) # 0 /\ seg' = [seg EXCEPT ![SegmentOf(p)].body[PositionOf(p, SegmentOf(p))] = w]
    BY <2>3 DEF storemem
  <2> SUFFICES ASSUME e.offset <= Size(seg[k]), NEW l \in DOMAIN seg, NEW i \in DOMAIN seg[l].body,
                      seg'[l].body[i] # seg[l].body[i]
               PROVE  l = k /\ i = j
    BY DEF InPlace
  <2>6. p = Unsigned(seg[k].start + e.offset)
    BY DEF AddressOf
  <2>7. SegmentOf(p) = k /\ PositionOf(p, k) = j
    <3> DEFINE o == e.offset
    <3>1. o \in Nat /\ o <= Size(seg[k]) /\ p = Unsigned(seg[k].start + o)
      BY <2>2, <2>6
    <3> HIDE DEF o, p, k
    <3> QED
      BY <2>2, <2>4, <2>5, <3>1, EntryLands DEF o, k
  <2>8. seg' = [seg EXCEPT ![k].body[j] = w]
    BY <2>5, <2>7
  <2> HIDE DEF p, k, j
  <2>9. l = k
    <3>1. ASSUME l # k PROVE FALSE
      <4>1. seg'[l] = seg[l]
        BY <2>8, <3>1
      <4> QED
        BY <4>1
    <3> QED
      BY <3>1
  <2>10. i = j
    <3>1. ASSUME i # j PROVE FALSE
      <4> DEFINE b == seg[k].body
                 c == [b EXCEPT ![j] = w]
      <4>1. seg'[k].body = c
        <5>1. seg[k] \in Segments
          BY <2>2, SegType
        <5>2. [seg[k] EXCEPT !.body = [@ EXCEPT ![j] = w]].body = c
          BY <5>1 DEF Segments
        <5>3. seg'[k] = [seg[k] EXCEPT !.body = [@ EXCEPT ![j] = w]]
          BY <2>2, <2>8
        <5> QED
          BY <5>2, <5>3
      <4>2. i \in DOMAIN b
        BY <2>9
      <4>3. c[i] = b[i]
        <5> HIDE DEF b
        <5> QED
          BY <3>1, <4>2
      <4> QED
        BY <2>9, <4>1, <4>3
    <3> QED
      BY <3>1
  <2> QED
    BY <2>9, <2>10
<1>5. [LNext]_lvars /\ LoaderInv /\ ChainInv => [InPlace]_lvars
  BY <1>4
<1> QED
  BY <1>1, <1>2, <1>3, <1>5, InitType, PTL DEF LSpec, RelocatesInPlace

=============================================================================
