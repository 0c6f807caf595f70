---------------------------- MODULE MemoryProofs ----------------------------
(***************************************************************************)
(* Proofs about Memory: the types, that load lays the segments apart, and  *)
(* that memory implements the byte store, whatever the sizes are.          *)
(***************************************************************************)
EXTENDS Memory, Numbers, SequenceTheorems

(* The distance Advance puts between two sections: more than the size of   *)
(* the first, by at most a page.                                           *)
LEMMA AdvanceBounds ==
    ASSUME NEW s, Size(s) \in Nat
    PROVE  /\ Advance(s) \in Nat
           /\ Size(s) < Advance(s) /\ Advance(s) <= Size(s) + Page
<1>1. Page \in Nat \ {0}
  BY SizesAssumption
<1> DEFINE n == Size(s) + Page
<1>2. n \in Nat
  BY <1>1
<1>3. n % Page \in 0 .. (Page - 1)
  BY <1>1, <1>2
<1>4. Advance(s) = n - (n % Page)
  BY DEF Advance, PageOf
<1> QED
  BY <1>1, <1>2, <1>3, <1>4

(* A segment is a record of a name, a start, the upper half of the start   *)
(* and a sequence of bytes.                                                *)
Segments ==
    [name : 1 .. Stack, start : 0 .. (AddrSpace - 1), high : {0, -1}, content : Seq(Byte)]

(* Only the last segment of a memory that is ready is a stack; the others  *)
(* are no larger than a section may be.                                    *)
Shape ==
    /\ phase \in {"none", "loading", "ready"} /\ wild \in BOOLEAN
    /\ section \in 1 .. (NbSections + 1)
    /\ base \in 0 .. (AddrSpace - 1) /\ next \in 0 .. (AddrSpace - 1)
    /\ seg \in Seq(Segments)
    /\ phase = "none" => seg = <<>>
    /\ phase = "ready" => seg # <<>>
    /\ \A i \in 1 .. Len(seg) :
        /\ seg[i].name = Stack <=> (i = Len(seg) /\ phase = "ready")
        /\ seg[i].name # Stack => Size(seg[i]) <= MaxContent
        /\ seg[i].start + Size(seg[i]) < AddrSpace \/ seg[i].name # Stack

(* With room for the sections, the next one starts beyond the ones that    *)
(* are there, and there is room for it and those that may follow.          *)
Apart ==
    Roomy /\ phase # "none" =>
        /\ next + (NbSections + 1 - section) * (MaxContent + Page) <= Half
        /\ \A i \in 1 .. Len(seg) :
            seg[i].name # Stack => seg[i].start + Size(seg[i]) < next
        /\ SegmentsApart

MInv == Shape /\ Apart

-----------------------------------------------------------------------------
LEMMA ConstantTypes ==
    /\ AddrSpace \in Nat /\ Half \in Nat /\ 2 * Half = AddrSpace /\ Half < AddrSpace
    /\ Page \in Nat \ {0} /\ NbSections \in Nat \ {0} /\ Stack = NbSections + 1
    /\ MaxContent \in Nat /\ StackStart \in Half .. (AddrSpace - 1)
<1>1. /\ Page \in Nat \ {0} /\ NbSections \in Nat \ {0} /\ StackSize \in Nat
      /\ AddrSpace \in Nat /\ AddrSpace % 2 = 0
  BY SizesAssumption
<1>2. Half \in Nat /\ 2 * Half = AddrSpace
  BY <1>1 DEF Half
<1>3. StackStart \in Half .. (AddrSpace - 1)
  BY SizesAssumption
<1>4. Half < AddrSpace
  BY <1>1, <1>2, <1>3
<1> QED
  BY <1>1, <1>2, <1>3, <1>4, ContentsAssumption DEF Stack

(* numero_segment answers none or a segment that exists.                   *)
LEMMA NumeroSegmentRange ==
    ASSUME Shape, seg # <<>>, NEW a \in 0 .. (AddrSpace - 1), NEW n \in NumeroSegment(a)
    PROVE  n \in 0 .. Len(seg)
<1> DEFINE hits == {i \in 1 .. (Len(seg) - 1) : seg[i].start <= a /\ a < seg[i + 1].start}
<1>1. Len(seg) \in Nat
  BY DEF Shape
<1>2. CASE hits # {}
  <2>1. hits \in SUBSET Nat
    BY <1>1
  <2>2. \A i, j \in hits : ~ (j < i) => i <= j
    BY <1>1
  <2>3. \E i \in hits : \A j \in hits : i <= j
    BY <1>2, <2>1, <2>2, LeastPosition
  <2>4. n = CHOOSE i \in hits : \A j \in hits : i <= j
    BY <1>2 DEF NumeroSegment
  <2>5. n \in hits
    BY <2>3, <2>4
  <2> QED
    BY <1>1, <2>5
<1>3. CASE hits = {}
  <2>1. n \in {0, Len(seg)}
    BY <1>3 DEF NumeroSegment
  <2> QED
    BY <1>1, <2>1
<1> QED
  BY <1>2, <1>3

(* loadmem and storemem too.                                               *)
LEMMA LoadmemSegmentRange ==
    ASSUME Shape, NEW a \in 0 .. (AddrSpace - 1)
    PROVE  LoadmemSegment(a) \in 0 .. Len(seg)
<1> DEFINE hits == {i \in 1 .. Len(seg) :
                        seg[i].start <= a /\ a <= Wrap(seg[i].start + Size(seg[i]))}
<1>1. Len(seg) \in Nat /\ hits \in SUBSET (1 .. Len(seg))
  BY DEF Shape
<1>2. CASE hits # {}
  <2>1. \E i \in hits : \A j \in hits : j <= i
    BY <1>1, <1>2, GreatestPosition
  <2>2. LoadmemSegment(a) = CHOOSE i \in hits : \A j \in hits : j <= i
    BY <1>2 DEF LoadmemSegment
  <2>3. LoadmemSegment(a) \in hits
    BY <2>1, <2>2
  <2> QED
    BY <1>1, <2>3
<1>3. CASE hits = {}
  <2>1. LoadmemSegment(a) = 0
    BY <1>3 DEF LoadmemSegment
  <2> QED
    BY <1>1, <2>1
<1> QED
  BY <1>2, <1>3

-----------------------------------------------------------------------------
(* What an access leaves as it is: where the segments are and how large.   *)
SameLayout ==
    /\ Len(seg') = Len(seg) /\ UNCHANGED <<phase, base, section, next>>
    /\ \A i \in 1 .. Len(seg) :
        /\ seg'[i].name = seg[i].name /\ seg'[i].start = seg[i].start
        /\ seg'[i].high = seg[i].high /\ Size(seg'[i]) = Size(seg[i])

(* A write keeps the layout and stores bytes.                              *)
LEMMA WritesStep ==
    ASSUME Shape, NEW op, NEW a, NEW arg, NEW n \in 1 .. Len(seg), NEW k \in Int,
           NEW bytes \in Seq(Byte), Writes(op, a, arg, n, k, bytes)
    PROVE  Shape' /\ SameLayout
<1> DEFINE at == k .. (k + Len(bytes) - 1)
           old == seg[n].content
           new == [j \in DOMAIN old |-> IF j \in at THEN bytes[j - k + 1] ELSE old[j]]
<1>1. UNCHANGED <<phase, base, section, next>>
  BY DEF Writes
<1>2. seg \in Seq(Segments) /\ Len(seg) \in Nat /\ seg[n] \in Segments
  BY DEF Shape
<1>3. old \in Seq(Byte) /\ Len(old) \in Nat /\ DOMAIN old = 1 .. Len(old)
  BY <1>2 DEF Segments
<1>4. Len(bytes) \in Nat /\ \A j \in 1 .. Len(bytes) : bytes[j] \in Byte
  OBVIOUS
<1>5. \A j \in 1 .. Len(old) : old[j] \in Byte
  BY <1>3
<1>6. \A j \in 1 .. Len(old) : new[j] \in Byte
  BY <1>3, <1>4, <1>5
<1>7. new \in [1 .. Len(old) -> Byte]
  BY <1>3, <1>6
<1>8. new \in Seq(Byte) /\ Len(new) = Len(old)
  BY <1>3, <1>7, SeqDef, LenProperties
<1> HIDE DEF new
<1>9. CASE seg' = [seg EXCEPT ![n].content = new] /\ wild' = wild
  <2>1. seg' = [seg EXCEPT ![n] = [seg[n] EXCEPT !.content = new]]
    BY <1>9
  <2>2. [seg[n] EXCEPT !.content = new] \in Segments
    BY <1>2, <1>8 DEF Segments
  <2>3. seg' \in Seq(Segments) /\ Len(seg') = Len(seg)
    BY <1>2, <2>1, <2>2
  <2>4. \A i \in 1 .. Len(seg) :
            /\ seg'[i].name = seg[i].name /\ seg'[i].start = seg[i].start
            /\ seg'[i].high = seg[i].high /\ Size(seg'[i]) = Size(seg[i])
    <3>1. /\ [seg[n] EXCEPT !.content = new].name = seg[n].name
          /\ [seg[n] EXCEPT !.content = new].start = seg[n].start
          /\ [seg[n] EXCEPT !.content = new].high = seg[n].high
          /\ [seg[n] EXCEPT !.content = new].content = new
      BY <1>2 DEF Segments
    <3>2. seg'[n] = [seg[n] EXCEPT !.content = new]
      BY <1>2, <2>1
    <3>3. \A i \in 1 .. Len(seg) : i # n => seg'[i] = seg[i]
      BY <1>2, <2>1
    <3> QED
      BY <1>8, <3>1, <3>2, <3>3 DEF Size
  <2>5. SameLayout
    BY <1>1, <2>3, <2>4 DEF SameLayout
  <2>6. seg' = <<>> <=> seg = <<>>
    BY <1>2, <2>3
  <2> QED
    BY <1>1, <1>2, <1>9, <2>3, <2>4, <2>5, <2>6 DEF Shape
<1>10. CASE UNCHANGED seg /\ wild' = TRUE
  BY <1>1, <1>10 DEF Shape, SameLayout, Size
<1>11. CASE at \subseteq 1 .. Size(seg[n])
  BY <1>9, <1>11 DEF Writes, new
<1>12. CASE ~ (at \subseteq 1 .. Size(seg[n]))
  BY <1>10, <1>12 DEF Writes
<1> QED
  BY <1>11, <1>12

(* A step that changes no segment.                                         *)
LEMMA QuietStep ==
    ASSUME Shape, UNCHANGED <<seg, phase, base, section, next>>, wild' \in BOOLEAN
    PROVE  Shape' /\ SameLayout
BY DEF Shape, SameLayout, Size

LEMMA ReadsStep ==
    ASSUME Shape, NEW op, NEW a, NEW arg, NEW bytes, NEW oks, Reads(op, a, arg, bytes, oks)
    PROVE  Shape' /\ SameLayout
BY QuietStep DEF Reads

LEMMA RefusedStep ==
    ASSUME Shape, NEW op, NEW a, NEW arg, Refused(op, a, arg)
    PROVE  Shape' /\ SameLayout
BY QuietStep DEF Refused, Shape

LEMMA LostStep ==
    ASSUME Shape, NEW op, NEW a, NEW arg, Lost(op, a, arg)
    PROVE  Shape' /\ SameLayout
BY QuietStep DEF Lost

(* The commands and the instructions are reads, writes and refusals.       *)
LEMMA CommandStep ==
    ASSUME Shape, Command
    PROVE  Shape' /\ SameLayout
<1>1. seg # <<>>
  BY DEF Command, SetByte, SetWord, AssertByte, AssertWord, DispMem, DisasmRange,
         DisasmPlus, Ready, Shape
<1>2. \A a \in Addresses : \A n \in NumeroSegment(a) : n # 0 => n \in 1 .. Len(seg)
  BY <1>1, NumeroSegmentRange, ArgumentsAssumption DEF Shape
<1>3. \A n \in 1 .. Len(seg) : \A a \in Addresses : CommandPos(n, a) \in Int
  <2>1. \A n \in 1 .. Len(seg) : seg[n] \in Segments
    BY DEF Shape
  <2>2. \A n \in 1 .. Len(seg) : Start64(seg[n]) \in Int
    <3>1. \A h \in {0, -1} : h * AddrSpace \in Int
      BY ConstantTypes
    <3> QED
      BY <2>1, <3>1, ConstantTypes DEF Segments, Start64
  <2>3. \A a \in Addresses : Signed(a) \in Int
    BY ConstantTypes, ArgumentsAssumption DEF Signed
  <2> QED
    BY <2>2, <2>3 DEF CommandPos
<1>4. CASE SetByte
  <2>1. PICK a \in Addresses, v \in ByteArgs : \E n \in NumeroSegment(a) :
            IF n = 0 \/ v > ByteRange THEN Refused("set", a, <<v>>)
            ELSE Writes("set", a, <<v>>, n, CommandPos(n, a), <<ToByte(v)>>)
    BY <1>4 DEF SetByte
  <2>2. PICK n \in NumeroSegment(a) :
            IF n = 0 \/ v > ByteRange THEN Refused("set", a, <<v>>)
            ELSE Writes("set", a, <<v>>, n, CommandPos(n, a), <<ToByte(v)>>)
    BY <2>1
  <2>3. ToByte(v) \in Byte
    BY SizesAssumption, ArgumentsAssumption DEF ToByte, Byte
  <2>4. <<ToByte(v)>> \in Seq(Byte)
    BY <2>3
  <2>5. CASE n = 0 \/ v > ByteRange
    BY <2>2, <2>5, RefusedStep
  <2>6. CASE ~ (n = 0 \/ v > ByteRange)
    BY <1>2, <1>3, <2>2, <2>4, <2>6, WritesStep
  <2> QED
    BY <2>5, <2>6
<1>5. CASE SetWord
  <2>1. PICK a \in Addresses, w \in Words : \E n \in NumeroSegment(a) :
            IF n = 0 THEN Refused("set", a, w)
            ELSE Writes("set", a, w, n, CommandPos(n, a), w)
    BY <1>5 DEF SetWord
  <2>2. PICK n \in NumeroSegment(a) :
            IF n = 0 THEN Refused("set", a, w)
            ELSE Writes("set", a, w, n, CommandPos(n, a), w)
    BY <2>1
  <2>3. w \in Seq(Byte)
    BY ArgumentsAssumption, SeqDef
  <2>4. CASE n = 0
    BY <2>2, <2>4, RefusedStep
  <2>5. CASE n # 0
    BY <1>2, <1>3, <2>2, <2>3, <2>5, WritesStep
  <2> QED
    BY <2>4, <2>5
<1>6. CASE AssertByte
  BY <1>6, ReadsStep, RefusedStep DEF AssertByte
<1>7. CASE AssertWord
  BY <1>7, ReadsStep DEF AssertWord
<1>8. CASE DispMem
  BY <1>8, ReadsStep, RefusedStep, LostStep DEF DispMem
<1>9. CASE DisasmRange
  BY <1>9, ReadsStep, RefusedStep DEF DisasmRange, Disassemble
<1>10. CASE DisasmPlus
  BY <1>10, ReadsStep, RefusedStep, LostStep DEF DisasmPlus, Disassemble
<1> QED
  BY <1>4, <1>5, <1>6, <1>7, <1>8, <1>9, <1>10 DEF Command

LEMMA StoreStep ==
    ASSUME Shape, NEW op, NEW a \in Addresses, NEW bytes \in Seq(Byte), Store(op, a, bytes)
    PROVE  Shape' /\ SameLayout
<1> DEFINE n == LoadmemSegment(a)
<1>1. n \in 0 .. Len(seg) /\ Len(seg) \in Nat
  BY LoadmemSegmentRange, ArgumentsAssumption DEF Shape
<1>2. CASE n = 0
  BY <1>2, RefusedStep DEF Store
<1>3. CASE n # 0
  <2>1. n \in 1 .. Len(seg) /\ seg[n] \in Segments
    BY <1>1, <1>3 DEF Shape
  <2>2. CpuPos(n, a) \in Int
    BY <2>1, ArgumentsAssumption, ConstantTypes DEF CpuPos, Segments
  <2> QED
    BY <1>3, <2>1, <2>2, WritesStep DEF Store
<1> QED
  BY <1>2, <1>3

LEMMA InstructionStep ==
    ASSUME Shape, Instruction
    PROVE  Shape' /\ SameLayout
<1>1. CASE LoadByte
  BY <1>1, ReadsStep DEF LoadByte, Load
<1>2. CASE LoadWord
  BY <1>2, ReadsStep, RefusedStep DEF LoadWord, Load
<1>3. CASE StoreByte
  <2>1. PICK a \in Addresses, b \in Byte : Store("SB", a, <<b>>)
    BY <1>3 DEF StoreByte
  <2>2. <<b>> \in Seq(Byte)
    OBVIOUS
  <2> QED
    BY <2>1, <2>2, StoreStep
<1>4. CASE StoreWord
  <2>1. PICK a \in Addresses, w \in Words :
            IF a % 4 # 0 THEN Refused("SW", a, w) ELSE Store("SW", a, w)
    BY <1>4 DEF StoreWord
  <2>2. w \in Seq(Byte)
    BY ArgumentsAssumption, SeqDef
  <2> QED
    BY <2>1, <2>2, StoreStep, RefusedStep
<1> QED
  BY <1>1, <1>2, <1>3, <1>4 DEF Instruction

-----------------------------------------------------------------------------
(* An access keeps the segments apart: the layout is what it was.          *)
LEMMA SameLayoutApart ==
    ASSUME Shape, Apart, SameLayout
    PROVE  Apart'
BY DEF Shape, Apart, SameLayout, SegmentsApart, Roomy

LEMMA StartLoadStep ==
    ASSUME MInv, StartLoad
    PROVE  MInv'
<1>1. PICK a \in LoadAddresses : base' = PageOf(a)
  BY DEF StartLoad
<1>2. PageOf(a) \in 0 .. (AddrSpace - 1)
  <2>1. a \in 0 .. (AddrSpace - 1) /\ Page \in Nat \ {0} /\ AddrSpace \in Nat
    BY ArgumentsAssumption, ConstantTypes
  <2>2. a % Page \in 0 .. a
    BY <2>1
  <2> QED
    BY <2>1, <2>2 DEF PageOf
<1>3. seg' = <<>> /\ phase' = "loading" /\ section' = 1 /\ next' = base' /\ wild' = wild
  BY DEF StartLoad
<1>4. Shape'
  BY <1>1, <1>2, <1>3, ConstantTypes DEF MInv, Shape
<1>5. Apart'
  <2>1. NbSections + 1 - 1 = NbSections
    BY ConstantTypes
  <2> QED
    BY <1>3, <2>1 DEF Apart, SegmentsApart, Roomy
<1> QED
  BY <1>4, <1>5 DEF MInv

(* The stack comes last and starts in the upper half, or at 0.             *)
LEMMA AttachStackStep ==
    ASSUME MInv, AttachStack
    PROVE  MInv'
<1>1. PICK s \in StackSegments : seg' = Append(seg, s)
  BY DEF AttachStack
<1>2. /\ phase = "loading" /\ section > NbSections /\ phase' = "ready"
      /\ UNCHANGED <<base, section, next, wild>>
  BY DEF AttachStack
<1>3. /\ s \in Segments /\ s.name = Stack /\ s.start \in {0, StackStart}
      /\ s.start + Size(s) < AddrSpace
  <2>1. [k \in 1 .. StackSize |-> 0] \in Seq(Byte)
    <3>1. 0 \in Byte /\ StackSize \in Nat
      BY SizesAssumption DEF Byte
    <3> QED
      BY <3>1, SeqDef
  <2>2. <<>> \in Seq(Byte) /\ Stack \in 1 .. Stack /\ {0, StackStart} \subseteq 0 .. (AddrSpace - 1)
    BY ConstantTypes
  <2> DEFINE zeros == [k \in 1 .. StackSize |-> 0]
  <2> HIDE DEF zeros
  <2>3. \A high \in {0, -1} : Segment(Stack, StackStart, high, zeros) \in Segments
    BY <2>1, <2>2 DEF zeros, Segment, Segments
  <2>4. Segment(Stack, 0, 0, <<>>) \in Segments
    BY <2>2 DEF Segment, Segments
  <2>5. CASE \E high \in {0, -1} : s = Segment(Stack, StackStart, high, zeros)
    <3>1. Len(zeros) = StackSize /\ StackStart + StackSize < AddrSpace
      BY SizesAssumption DEF zeros
    <3> QED
      BY <2>3, <2>5, <3>1 DEF Segment, Size
  <2>6. CASE s = Segment(Stack, 0, 0, <<>>)
    <3>1. 0 + Len(<<>>) < AddrSpace
      BY ConstantTypes
    <3> QED
      BY <2>4, <2>6, <3>1 DEF Segment, Size
  <2> QED
    BY <1>1, <2>5, <2>6 DEF StackSegments, zeros
<1>4. seg \in Seq(Segments) /\ Len(seg) \in Nat
  BY DEF MInv, Shape
<1>5. /\ seg' \in Seq(Segments) /\ Len(seg') = Len(seg) + 1
      /\ seg'[Len(seg) + 1] = s /\ \A i \in 1 .. Len(seg) : seg'[i] = seg[i]
  BY <1>1, <1>3, <1>4, AppendProperties
<1>6. \A i \in 1 .. Len(seg) : seg[i].name # Stack
  BY <1>2 DEF MInv, Shape
<1>7. Shape'
  <2>1. seg' # <<>>
    BY <1>4, <1>5
  <2>2. \A i \in 1 .. (Len(seg) + 1) : i \in 1 .. Len(seg) \/ i = Len(seg) + 1
    BY <1>4
  <2>3. \A i \in 1 .. Len(seg') :
            /\ seg'[i].name = Stack <=> i = Len(seg')
            /\ seg'[i].name # Stack => Size(seg'[i]) <= MaxContent
            /\ seg'[i].start + Size(seg'[i]) < AddrSpace \/ seg'[i].name # Stack
    BY <1>3, <1>4, <1>5, <1>6, <2>2 DEF MInv, Shape
  <2> QED
    BY <1>2, <1>5, <2>1, <2>3 DEF MInv, Shape
<1>8. Apart'
  <2>1. SUFFICES ASSUME Roomy
                 PROVE  Apart'
    BY <1>2 DEF Apart, Roomy
  <2>2. /\ next + (NbSections + 1 - section) * (MaxContent + Page) <= Half
        /\ \A i \in 1 .. Len(seg) : seg[i].start + Size(seg[i]) < next
        /\ SegmentsApart
    BY <1>2, <1>6, <2>1 DEF MInv, Apart
  <2>3. section = NbSections + 1 /\ next \in Nat
    BY <1>2, ConstantTypes DEF MInv, Shape
  <2>4. next <= StackStart
    <3>1. (NbSections + 1 - section) * (MaxContent + Page) = 0
      BY <2>3, ConstantTypes
    <3> QED
      BY <2>2, <2>3, <3>1, ConstantTypes
  <2>5. \A i \in 1 .. Len(seg) :
            seg[i].start \in Nat /\ Size(seg[i]) \in Nat /\ seg[i].start + Size(seg[i]) < StackStart
    <3>1. \A i \in 1 .. Len(seg) : seg[i].start \in Nat /\ Size(seg[i]) \in Nat
      <4>1. \A i \in 1 .. Len(seg) : seg[i] \in Segments
        BY <1>4
      <4>2. \A t \in Segments : t.start \in Nat /\ Len(t.content) \in Nat
        BY ConstantTypes DEF Segments
      <4> QED
        BY <4>1, <4>2 DEF Size
    <3> QED
      BY <2>2, <2>3, <2>4, <3>1, ConstantTypes
  <2>6. SegmentsApart'
    <3> SUFFICES ASSUME NEW i \in 1 .. Len(seg'), NEW j \in 1 .. Len(seg'), i < j,
                        seg'[j].name = Stack => seg'[j].start = StackStart
                 PROVE  seg'[i].start + Size(seg'[i]) < seg'[j].start
      BY DEF SegmentsApart
    <3>1. i \in 1 .. Len(seg) /\ (j \in 1 .. Len(seg) \/ j = Len(seg) + 1)
      BY <1>4, <1>5
    <3>2. CASE j \in 1 .. Len(seg)
      BY <1>5, <1>6, <2>1, <2>2, <3>1, <3>2 DEF SegmentsApart
    <3>3. CASE j = Len(seg) + 1
      BY <1>3, <1>5, <2>5, <3>1, <3>3
    <3> QED
      BY <3>1, <3>2, <3>3
  <2>7. \A i \in 1 .. Len(seg') :
            seg'[i].name # Stack => seg'[i].start + Size(seg'[i]) < next
    BY <1>3, <1>4, <1>5, <2>2
  <2> QED
    BY <1>2, <2>2, <2>6, <2>7 DEF Apart
<1> QED
  BY <1>7, <1>8 DEF MInv

(* The part of load that advances next_segment_start: with room for the    *)
(* sections that are left the addition does not wrap.                      *)
LEMMA RoomLeft ==
    ASSUME NEW left \in Nat, NEW p \in Nat, NEW d \in Nat, d <= MaxContent + Page,
           p + (left + 1) * (MaxContent + Page) <= Half
    PROVE  Wrap(p + d) = p + d /\ (p + d) + left * (MaxContent + Page) <= Half
<1> DEFINE room == MaxContent + Page
<1>1. room \in Nat
  BY ConstantTypes
<1>2. (left + 1) * room = left * room + room /\ left * room \in Nat
  BY <1>1
<1>3. (p + d) + left * room <= Half
  BY <1>1, <1>2, ConstantTypes
<1>4. p + d \in 0 .. (AddrSpace - 1)
  BY <1>1, <1>2, <1>3, ConstantTypes
<1>5. Wrap(p + d) = p + d
  BY <1>4, ConstantTypes DEF Wrap
<1> QED
  BY <1>3, <1>5

(* A section that the file has is put beyond the others, and the next one  *)
(* beyond its end.                                                         *)
LEMMA LoadSectionStep ==
    ASSUME MInv, LoadSection
    PROVE  MInv'
<1>1. /\ phase = "loading" /\ section \in 1 .. NbSections /\ section' = section + 1
      /\ UNCHANGED <<phase, base, wild>>
  BY ConstantTypes DEF LoadSection, MInv, Shape
<1>2. /\ seg \in Seq(Segments) /\ Len(seg) \in Nat /\ next \in 0 .. (AddrSpace - 1)
      /\ NbSections - section \in Nat
      /\ NbSections + 1 - section = (NbSections - section) + 1
      /\ NbSections + 1 - section' = NbSections - section
  BY <1>1, ConstantTypes DEF MInv, Shape
<1>3. \A i \in 1 .. Len(seg) : seg[i].name # Stack
  BY <1>1 DEF MInv, Shape
<1>4. Roomy => /\ next + ((NbSections - section) + 1) * (MaxContent + Page) <= Half
               /\ \A i \in 1 .. Len(seg) : seg[i].start + Size(seg[i]) < next
               /\ SegmentsApart
  BY <1>1, <1>2, <1>3 DEF MInv, Apart
<1>5. CASE UNCHANGED <<seg, next>>
  <2>1. Shape'
    BY <1>1, <1>5, ConstantTypes DEF MInv, Shape
  <2>2. Apart'
    <3> SUFFICES ASSUME Roomy
                 PROVE  Apart'
      BY <1>1 DEF Apart, Roomy
    <3>1. next + (NbSections - section) * (MaxContent + Page) <= Half
      <4>1. Wrap(next + 0) = next + 0 /\ (next + 0) + (NbSections - section) * (MaxContent + Page) <= Half
        <5>1. 0 \in Nat /\ next \in Nat /\ 0 <= MaxContent + Page
          BY <1>2, ConstantTypes
        <5> QED
          BY <1>2, <1>4, <5>1, RoomLeft
      <4> QED
        BY <1>2, <4>1
    <3> QED
      BY <1>1, <1>2, <1>3, <1>4, <1>5, <3>1 DEF Apart, SegmentsApart
  <2> QED
    BY <2>1, <2>2 DEF MInv
<1>6. CASE \E c \in Contents :
             /\ seg' = Append(seg, Segment(section, next, 0, c))
             /\ next' = Wrap(next + Advance(Segment(section, next, 0, c)))
  <2>1. PICK c \in Contents :
             /\ seg' = Append(seg, Segment(section, next, 0, c))
             /\ next' = Wrap(next + Advance(Segment(section, next, 0, c)))
    BY <1>6
  <2> DEFINE s == Segment(section, next, 0, c)
  <2>2. c \in Seq(Byte) /\ Len(c) <= MaxContent /\ Len(c) \in Nat
    BY ContentsAssumption
  <2>3. /\ s \in Segments /\ s.name = section /\ s.start = next /\ Size(s) = Len(c)
    BY <1>1, <1>2, <2>2, ConstantTypes DEF Segment, Segments, Size
  <2> HIDE DEF s
  <2>4. /\ seg' \in Seq(Segments) /\ Len(seg') = Len(seg) + 1
        /\ seg'[Len(seg) + 1] = s /\ \A i \in 1 .. Len(seg) : seg'[i] = seg[i]
    BY <1>2, <2>1, <2>3, AppendProperties DEF s
  <2>5. \A i \in 1 .. Len(seg') : i \in 1 .. Len(seg) \/ i = Len(seg) + 1
    BY <1>2, <2>4
  <2>6. /\ Advance(s) \in Nat /\ Len(c) < Advance(s) /\ Advance(s) <= MaxContent + Page
    BY <2>2, <2>3, AdvanceBounds, ConstantTypes
  <2>7. next' = Wrap(next + Advance(s)) /\ next' \in 0 .. (AddrSpace - 1)
    BY <1>2, <2>1, <2>6, ConstantTypes DEF s, Wrap
  <2>8. section # Stack
    BY <1>1, ConstantTypes
  <2>9. \A i \in 1 .. Len(seg') : seg'[i].name # Stack /\ Size(seg'[i]) <= MaxContent
    BY <1>3, <2>2, <2>3, <2>4, <2>5, <2>8 DEF MInv, Shape
  <2>10. Shape'
    BY <1>1, <2>4, <2>7, <2>9, ConstantTypes DEF MInv, Shape
  <2>11. Apart'
    <3> SUFFICES ASSUME Roomy
                 PROVE  Apart'
      BY <1>1 DEF Apart, Roomy
    <3>1. /\ next' = next + Advance(s)
          /\ next' + (NbSections - section) * (MaxContent + Page) <= Half
      BY <1>2, <1>4, <2>6, <2>7, RoomLeft
    <3>2. \A i \in 1 .. Len(seg) : seg[i].start \in Nat /\ Size(seg[i]) \in Nat
      <4>1. \A i \in 1 .. Len(seg) : seg[i] \in Segments
        BY <1>2
      <4>2. \A t \in Segments : t.start \in Nat /\ Len(t.content) \in Nat
        BY ConstantTypes DEF Segments
      <4> QED
        BY <4>1, <4>2 DEF Size
    <3>3. \A i \in 1 .. Len(seg') : seg'[i].start + Size(seg'[i]) < next'
      <4>1. \A i \in 1 .. Len(seg) : seg[i].start + Size(seg[i]) < next'
        BY <1>2, <1>4, <2>6, <3>1, <3>2
      <4>2. s.start + Size(s) < next'
        BY <1>2, <2>2, <2>3, <2>6, <3>1
      <4> QED
        BY <2>4, <2>5, <4>1, <4>2
    <3>4. SegmentsApart'
      <4> SUFFICES ASSUME NEW i \in 1 .. Len(seg'), NEW j \in 1 .. Len(seg'), i < j
                   PROVE  seg'[i].start + Size(seg'[i]) < seg'[j].start
        BY DEF SegmentsApart
      <4>1. i \in 1 .. Len(seg)
        BY <1>2, <2>4
      <4>2. CASE j \in 1 .. Len(seg)
        BY <1>3, <1>4, <2>4, <4>1, <4>2 DEF SegmentsApart
      <4>3. CASE j = Len(seg) + 1
        BY <1>4, <2>3, <2>4, <4>1, <4>3
      <4> QED
        BY <2>5, <4>2, <4>3
    <3> QED
      BY <1>2, <3>1, <3>3, <3>4 DEF Apart
  <2> QED
    BY <2>10, <2>11 DEF MInv
<1> QED
  BY <1>5, <1>6 DEF LoadSection

-----------------------------------------------------------------------------
LEMMA MInvInit == MInit => MInv
<1> SUFFICES ASSUME MInit
             PROVE  MInv
  OBVIOUS
<1>1. 0 \in 0 .. (AddrSpace - 1) /\ 1 \in 1 .. (NbSections + 1)
  BY ConstantTypes
<1>2. seg = <<>> /\ seg \in Seq(Segments) /\ Len(seg) = 0 /\ 1 .. Len(seg) = {}
  BY DEF MInit
<1>3. Shape
  BY <1>1, <1>2 DEF MInit, Shape
<1>4. Apart
  BY DEF MInit, Apart
<1> QED
  BY <1>3, <1>4 DEF MInv

LEMMA MInvStep == MInv /\ [MNext]_mvars => MInv'
<1> SUFFICES ASSUME MInv, [MNext]_mvars
             PROVE  MInv'
  OBVIOUS
<1>1. CASE Command \/ Instruction
  BY <1>1, CommandStep, InstructionStep, SameLayoutApart DEF MInv
<1>2. CASE UNCHANGED mvars
  BY <1>2, QuietStep, SameLayoutApart DEF MInv, Shape, mvars
<1> QED
  BY <1>1, <1>2, StartLoadStep, LoadSectionStep, AttachStackStep DEF MNext

(* The types of Memory, for every address space, page, file and sequence   *)
(* of loads and accesses (commande.c:20-128, mem.c, asm.c:387-467).        *)
THEOREM MemoryTypes == MSpec => []MTypeOK
<1>1. MInv => MTypeOK
  <2> SUFFICES ASSUME MInv
               PROVE  MTypeOK
    OBVIOUS
  <2>1. \A i \in 1 .. Len(seg) : seg[i] \in Segments
    BY DEF MInv, Shape
  <2>2. \A i \in 1 .. Len(seg) :
            /\ seg[i].content \in Seq(Byte) /\ seg[i].start \in 0 .. (AddrSpace - 1)
            /\ seg[i].name \in 1 .. Stack
    BY <2>1 DEF Segments
  <2> QED
    BY <2>2 DEF MInv, Shape, MTypeOK
<1> QED
  BY MInvInit, MInvStep, <1>1, PTL DEF MSpec

(* load (commande.c:72-119) leaves a gap after every segment, for every    *)
(* load address that leaves room in the lower half of the address space.   *)
THEOREM LayoutApart == MSpec => []SegmentsApart
<1>1. MInv => SegmentsApart
  BY DEF MInv, Apart, Shape, SegmentsApart
<1> QED
  BY MInvInit, MInvStep, <1>1, PTL DEF MSpec

-----------------------------------------------------------------------------
(* What the two searches find in a memory with room for its sections.      *)

(* A sum below WordSize does not wrap.                                     *)
LEMMA WrapSmall ==
    ASSUME NEW n \in Int
    PROVE  /\ 0 <= n /\ n < AddrSpace => Wrap(n) = n
           /\ n < 0 /\ 0 <= n + AddrSpace => Wrap(n) = n + AddrSpace
<1>1. AddrSpace \in Nat \ {0}
  BY ConstantTypes
<1> QED
  BY <1>1 DEF Wrap

(* A segment of a ready memory, in numbers.                                *)
LEMMA SegmentFacts ==
    ASSUME MInv, phase = "ready"
    PROVE  /\ Len(seg) \in Nat \ {0}
           /\ \A i \in 1 .. Len(seg) :
                /\ seg[i].start \in Nat /\ Size(seg[i]) \in Nat
                /\ i # Len(seg) <=> seg[i].name # Stack
           /\ Roomy => \A i \in 1 .. Len(seg) :
                seg[i].name # Stack => seg[i].start + Size(seg[i]) < Half
<1>1. seg \in Seq(Segments) /\ Len(seg) \in Nat /\ seg # <<>>
  BY DEF MInv, Shape
<1>2. Len(seg) # 0
  BY <1>1
<1>3. \A i \in 1 .. Len(seg) : seg[i] \in Segments
  BY <1>1
<1>4. \A t \in Segments : t.start \in Nat /\ Len(t.content) \in Nat
  BY ConstantTypes DEF Segments
<1>5. \A i \in 1 .. Len(seg) : seg[i].start \in Nat /\ Size(seg[i]) \in Nat
  BY <1>3, <1>4 DEF Size
<1>6. Roomy => next <= Half
  <2>1. SUFFICES ASSUME Roomy
                 PROVE  next <= Half
    OBVIOUS
  <2> DEFINE left == NbSections + 1 - section
  <2>2. left \in Nat /\ MaxContent + Page \in Nat /\ next \in Nat
    BY ConstantTypes DEF MInv, Shape
  <2>3. next + left * (MaxContent + Page) <= Half
    BY <2>1 DEF MInv, Apart
  <2>4. left * (MaxContent + Page) \in Nat
    BY <2>2
  <2> HIDE DEF left
  <2> QED
    BY <2>2, <2>3, <2>4, ConstantTypes
<1>7. Roomy => \A i \in 1 .. Len(seg) :
          seg[i].name # Stack => seg[i].start + Size(seg[i]) < Half
  <2>1. next \in Nat
    BY ConstantTypes DEF MInv, Shape
  <2> QED
    BY <1>5, <1>6, <2>1, ConstantTypes DEF MInv, Apart
<1> QED
  BY <1>1, <1>2, <1>5, <1>7 DEF MInv, Shape

(* numero_segment finds a section from any of its addresses, if what comes *)
(* next is a section or the stack where load wants it.                     *)
LEMMA NumeroOfSpan ==
    ASSUME MInv, Roomy, phase = "ready", NEW i \in 1 .. (Len(seg) - 1),
           seg[i + 1].name = Stack => seg[i + 1].start = StackStart,
           NEW a \in Span(seg[i])
    PROVE  NumeroSegment(a) = {i}
<1> DEFINE hits == {h \in 1 .. (Len(seg) - 1) : seg[h].start <= a /\ a < seg[h + 1].start}
<1>1. /\ Len(seg) \in Nat /\ i \in 1 .. Len(seg) /\ i + 1 \in 1 .. Len(seg)
      /\ \A h \in 1 .. Len(seg) : seg[h].start \in Nat /\ Size(seg[h]) \in Nat
  BY SegmentFacts
<1>2. a \in Nat /\ seg[i].start <= a /\ a < seg[i].start + Size(seg[i])
  BY <1>1 DEF Span
<1>3. \A g, h \in 1 .. Len(seg) :
          g < h /\ (seg[h].name = Stack => seg[h].start = StackStart)
              => seg[g].start + Size(seg[g]) < seg[h].start
  BY DEF MInv, Apart, Shape, SegmentsApart
<1>4. i \in hits
  <2>1. seg[i].start + Size(seg[i]) < seg[i + 1].start
    BY <1>1, <1>3
  <2> QED
    BY <1>1, <1>2, <2>1
<1>5. \A h \in hits : ~ (h < i)
  <2> SUFFICES ASSUME NEW h \in hits, h < i
               PROVE  FALSE
    OBVIOUS
  <2>1. h + 1 \in 1 .. Len(seg) /\ (h + 1 = i \/ h + 1 < i) /\ a < seg[h + 1].start
    BY <1>1
  <2>2. CASE h + 1 = i
    BY <1>1, <1>2, <2>1, <2>2
  <2>3. CASE h + 1 < i
    <3>1. seg[i].name # Stack
      BY <1>1, SegmentFacts
    <3>2. seg[h + 1].start + Size(seg[h + 1]) < seg[i].start
      BY <1>1, <1>3, <2>1, <2>3, <3>1
    <3> QED
      BY <1>1, <1>2, <2>1, <3>2
  <2> QED
    BY <2>1, <2>2, <2>3
<1>6. \A h \in hits : i <= h
  BY <1>1, <1>5
<1>7. \A m \in hits : (\A h \in hits : m <= h) => m = i
  <2>1. hits \subseteq Nat
    BY <1>1
  <2> QED
    BY <1>4, <1>6, <2>1
<1>8. (CHOOSE m \in hits : \A h \in hits : m <= h) = i
  <2> HIDE DEF hits
  <2> QED
    BY <1>4, <1>6, <1>7
<1>9. hits # {}
  BY <1>4
<1> QED
  BY <1>8, <1>9 DEF NumeroSegment

(* loadmem and storemem find every segment from any of its addresses.      *)
LEMMA LoadmemOfSpan ==
    ASSUME MInv, LaidOut, NEW i \in 1 .. Len(seg), NEW a \in Span(seg[i])
    PROVE  LoadmemSegment(a) = i
<1> DEFINE hits == {h \in 1 .. Len(seg) :
                        seg[h].start <= a /\ a <= Wrap(seg[h].start + Size(seg[h]))}
<1>1. /\ Len(seg) \in Nat /\ phase = "ready"
      /\ \A h \in 1 .. Len(seg) : seg[h].start \in Nat /\ Size(seg[h]) \in Nat
  BY SegmentFacts DEF LaidOut
<1>2. a \in Nat /\ seg[i].start <= a /\ a < seg[i].start + Size(seg[i])
  BY <1>1 DEF Span
<1>3. \A g, h \in 1 .. Len(seg) : g < h => seg[g].start + Size(seg[g]) < seg[h].start
  <2>1. \A h \in 1 .. Len(seg) : seg[h].name = Stack => seg[h].start = StackStart
    BY <1>1 DEF MInv, Shape, LaidOut
  <2> QED
    BY <1>1, <2>1 DEF MInv, Apart, LaidOut, SegmentsApart
<1>4. \A h \in 1 .. Len(seg) : Wrap(seg[h].start + Size(seg[h])) = seg[h].start + Size(seg[h])
  <2>1. \A h \in 1 .. Len(seg) : seg[h].start + Size(seg[h]) < AddrSpace
    BY <1>1, SegmentFacts, ConstantTypes DEF MInv, Shape, LaidOut
  <2> QED
    BY <1>1, <2>1, WrapSmall
<1>5. i \in hits
  BY <1>1, <1>2, <1>4
<1>6. \A h \in hits : h = i
  <2> SUFFICES ASSUME NEW h \in hits, h # i
               PROVE  FALSE
    OBVIOUS
  <2>1. h \in 1 .. Len(seg) /\ seg[h].start <= a /\ a <= seg[h].start + Size(seg[h])
    BY <1>4
  <2>2. CASE h < i
    BY <1>1, <1>2, <1>3, <2>1, <2>2
  <2>3. CASE i < h
    BY <1>1, <1>2, <1>3, <2>1, <2>3
  <2> QED
    BY <1>1, <2>1, <2>2, <2>3
<1>7. (CHOOSE m \in hits : \A h \in hits : h <= m) = i
  <2> HIDE DEF hits
  <2>1. i <= i
    BY <1>1
  <2>2. \E m \in hits : \A h \in hits : h <= m
    BY <1>5, <1>6, <2>1
  <2>3. (CHOOSE m \in hits : \A h \in hits : h <= m) \in hits
    BY <2>2
  <2> QED
    BY <1>6, <2>3
<1>8. hits # {}
  BY <1>5
<1> QED
  BY <1>7, <1>8 DEF LoadmemSegment

(* The two ways to find a segment agree on what is in one (commande.c:1220 *)
(* and asm.c:387, 430).                                                    *)
THEOREM SearchesAgree == MSpec => []ViewsAgree
<1>1. MInv => ViewsAgree
  <2> SUFFICES ASSUME MInv, LaidOut, NEW i \in 1 .. Len(seg), NEW a \in Span(seg[i])
               PROVE  LoadmemSegment(a) = i /\ (i # Len(seg) => NumeroSegment(a) = {i})
    BY DEF ViewsAgree
  <2>1. LoadmemSegment(a) = i
    BY LoadmemOfSpan
  <2>2. CASE i # Len(seg)
    <3>1. phase = "ready" /\ Roomy /\ Len(seg) \in Nat
      BY SegmentFacts DEF LaidOut
    <3>2. i \in 1 .. (Len(seg) - 1) /\ i + 1 \in 1 .. Len(seg)
      BY <2>2, <3>1
    <3>3. seg[i + 1].name = Stack => seg[i + 1].start = StackStart
      BY <3>1, <3>2 DEF MInv, Shape, LaidOut
    <3> QED
      BY <2>1, <3>1, <3>2, <3>3, NumeroOfSpan
  <2> QED
    BY <2>1, <2>2
<1> QED
  BY MInvInit, MInvStep, <1>1, PTL DEF MSpec

(* The unsigned comparison of IsInText, on a .text in the lower half.      *)
LEMMA OffsetInText ==
    ASSUME NEW start \in Nat, NEW size \in Nat, start + size < Half,
           NEW a \in 0 .. (AddrSpace - 1)
    PROVE  Wrap(a - start) < size <=> a \in start .. (start + size - 1)
<1>1. AddrSpace \in Nat /\ Half \in Nat /\ Half < AddrSpace /\ a \in Nat /\ a < AddrSpace
  BY ConstantTypes
<1>2. CASE a < start
  <2>1. a - start \in Int /\ a - start < 0 /\ 0 <= (a - start) + AddrSpace
    BY <1>1, <1>2
  <2>2. Wrap(a - start) = (a - start) + AddrSpace
    BY <2>1, WrapSmall
  <2> QED
    BY <1>1, <1>2, <2>2
<1>3. CASE start <= a
  <2>1. a - start \in Int /\ 0 <= a - start /\ a - start < AddrSpace
    BY <1>1, <1>3
  <2>2. Wrap(a - start) = a - start
    BY <2>1, WrapSmall
  <2> QED
    BY <1>1, <1>3, <2>2
<1> QED
  BY <1>1, <1>2, <1>3

(* IsInText (commande.c:584) tells exactly whether an address is in .text. *)
THEOREM TextFound == MSpec => []TextSeen
<1>1. MInv => TextSeen
  <2> SUFFICES ASSUME MInv, phase = "ready", Roomy, seg[1].name = 1,
                      seg[Len(seg)].start = StackStart \/ Len(seg) > 2,
                      NEW a \in 0 .. (AddrSpace - 1)
               PROVE  \A yes \in IsInText(a) : yes <=> a \in Span(seg[1])
    BY DEF TextSeen
  <2>1. /\ Len(seg) \in Nat /\ Len(seg) > 1
        /\ seg[1].start \in Nat /\ Size(seg[1]) \in Nat
        /\ seg[1].start + Size(seg[1]) < Half
    <3>1. 1 # Stack /\ Len(seg) \in Nat /\ 1 \in 1 .. Len(seg)
      BY SegmentFacts, ConstantTypes
    <3>2. Len(seg) # 1
      BY <3>1, SegmentFacts
    <3>3. Len(seg) > 1
      <4>1. \A n \in Nat : 1 \in 1 .. n /\ n # 1 => n > 1
        OBVIOUS
      <4> QED
        BY <3>1, <3>2, <4>1
    <3> QED
      BY <3>1, <3>3, SegmentFacts
  <2>2. Wrap(a - seg[1].start) < Size(seg[1]) <=> a \in Span(seg[1])
    BY <2>1, OffsetInText DEF Span
  <2>3. a \in Span(seg[1]) => NumeroSegment(a) = {1}
    <3> SUFFICES ASSUME a \in Span(seg[1])
                 PROVE  NumeroSegment(a) = {1}
      OBVIOUS
    <3>1. 1 \in 1 .. (Len(seg) - 1)
      BY <2>1
    <3>2. seg[1 + 1].name = Stack => seg[1 + 1].start = StackStart
      <4>1. 2 \in 1 .. Len(seg) /\ 1 + 1 = 2
        BY <2>1
      <4>2. CASE Len(seg) > 2
        <5>1. 2 # Len(seg)
          <6>1. \A n \in Nat : n > 2 => 2 # n
            OBVIOUS
          <6> QED
            BY <2>1, <4>2, <6>1
        <5> QED
          BY <4>1, <5>1, SegmentFacts
      <4>3. CASE seg[Len(seg)].start = StackStart
        <5>1. seg[2].name = Stack => 2 = Len(seg)
          BY <4>1, SegmentFacts
        <5> QED
          BY <4>1, <4>3, <5>1
      <4> QED
        BY <4>2, <4>3
    <3> QED
      BY <3>1, <3>2, NumeroOfSpan
  <2>4. \A n \in NumeroSegment(a) :
            (n # 0 /\ Wrap(a - seg[1].start) < Size(seg[1])) <=> a \in Span(seg[1])
    BY <2>2, <2>3
  <2> QED
    BY <2>4, Zenon DEF IsInText
<1> QED
  BY MInvInit, MInvStep, <1>1, PTL DEF MSpec
-----------------------------------------------------------------------------
(* The refinement of the byte store.                                       *)
(* The sections have no upper half of a start; only the stack may.         *)
SectionsLow == \A i \in 1 .. Len(seg) : seg[i].name # Stack => seg[i].high = 0

(* While load runs it is the last operation.                               *)
LoadAnswers == phase = "loading" => done.op = "load"

(* What the refinement needs beside the layout.                            *)
RInv == MInv /\ SectionsLow /\ LoadAnswers

(* Nothing is loaded at the start.                                         *)
LEMMA RInvInit == MInit => RInv
<1> SUFFICES ASSUME MInit
             PROVE  RInv
  OBVIOUS
<1>1. MInv
  BY MInvInit
<1>2. seg = <<>> /\ 1 .. Len(seg) = {} /\ phase = "none"
  BY DEF MInit
<1> QED
  BY <1>1, <1>2 DEF RInv, SectionsLow, LoadAnswers

(* Every step keeps the invariant of the refinement.                       *)
LEMMA RInvStep == RInv /\ [MNext]_mvars => RInv'
<1> SUFFICES ASSUME RInv, [MNext]_mvars
             PROVE  SectionsLow' /\ LoadAnswers'
  BY MInvStep DEF RInv
<1>1. CASE Command \/ Instruction
  <2>1. SameLayout
    BY <1>1, CommandStep, InstructionStep DEF RInv, MInv
  <2>2. phase = "ready"
    BY <1>1 DEF Command, SetByte, SetWord, AssertByte, AssertWord, DispMem, DisasmRange,
        DisasmPlus, Instruction, LoadByte, LoadWord, StoreByte, StoreWord, Ready
  <2> QED
    BY <2>1, <2>2 DEF SameLayout, RInv, SectionsLow, LoadAnswers
<1>2. CASE UNCHANGED mvars
  BY <1>2 DEF mvars, RInv, SectionsLow, LoadAnswers
<1>3. CASE StartLoad
  BY <1>3 DEF StartLoad, SectionsLow, LoadAnswers, Answer
<1>4. CASE LoadSection
  <2>1. LoadAnswers'
    BY <1>4 DEF LoadSection, RInv, LoadAnswers
  <2>2. SectionsLow'
    <3>1. CASE UNCHANGED seg
      BY <3>1 DEF SectionsLow, RInv
    <3>2. CASE \E c \in Contents : seg' = Append(seg, Segment(section, next, 0, c))
      <4>1. PICK c \in Contents : seg' = Append(seg, Segment(section, next, 0, c))
        BY <3>2
      <4>2. Segment(section, next, 0, c).high = 0
        BY DEF Segment
      <4>3. /\ Len(seg') = Len(seg) + 1 /\ Len(seg) \in Nat
            /\ seg'[Len(seg) + 1] = Segment(section, next, 0, c)
            /\ \A i \in 1 .. Len(seg) : seg'[i] = seg[i]
        <5>1. seg \in Seq(Segments \cup {Segment(section, next, 0, c)}) /\ Len(seg) \in Nat
          BY DEF RInv, MInv, Shape
        <5> QED
          BY <4>1, <5>1, AppendProperties
      <4> QED
        BY <4>2, <4>3 DEF SectionsLow, RInv
    <3> QED
      BY <1>4, <3>1, <3>2 DEF LoadSection
  <2> QED
    BY <2>1, <2>2
<1>5. CASE AttachStack
  <2>1. LoadAnswers'
    BY <1>5 DEF AttachStack, LoadAnswers
  <2>2. SectionsLow'
    <3>1. PICK s \in StackSegments : seg' = Append(seg, s)
      BY <1>5 DEF AttachStack
    <3>2. s.name = Stack
      BY <3>1 DEF StackSegments, Segment
    <3>3. /\ Len(seg') = Len(seg) + 1 /\ Len(seg) \in Nat
          /\ seg'[Len(seg) + 1] = s /\ \A i \in 1 .. Len(seg) : seg'[i] = seg[i]
      <4>1. seg \in Seq(Segments \cup {s}) /\ Len(seg) \in Nat
        BY DEF RInv, MInv, Shape
      <4> QED
        BY <3>1, <4>1, AppendProperties
    <3> QED
      BY <3>2, <3>3 DEF SectionsLow, RInv
  <2> QED
    BY <2>1, <2>2
<1> QED
  BY <1>1, <1>2, <1>3, <1>4, <1>5 DEF MNext

-----------------------------------------------------------------------------
(* A memory as load means it to be, in numbers: the sections are in order  *)
(* in the lower half, with a gap after each, and the stack is above them.  *)
LEMMA LaidFacts ==
    ASSUME RInv, LaidOut
    PROVE  /\ Len(seg) \in Nat \ {0}
           /\ \A i \in 1 .. Len(seg) :
                /\ seg[i].start \in Nat /\ Size(seg[i]) \in Nat
                /\ seg[i].start + Size(seg[i]) < AddrSpace
                /\ seg[i].high \in {0, -1}
                /\ seg[i].content \in Seq(Byte)
                /\ i # Len(seg) => seg[i].start + Size(seg[i]) < Half /\ seg[i].high = 0
           /\ seg[Len(seg)].start >= Half
           /\ \A i, j \in 1 .. Len(seg) : i < j => seg[i].start + Size(seg[i]) < seg[j].start
<1>1. /\ Len(seg) \in Nat \ {0} /\ phase = "ready" /\ Roomy
      /\ \A i \in 1 .. Len(seg) : /\ seg[i].start \in Nat /\ Size(seg[i]) \in Nat
                                  /\ i # Len(seg) <=> seg[i].name # Stack
                                  /\ seg[i].name # Stack => seg[i].start + Size(seg[i]) < Half
  BY SegmentFacts DEF RInv, LaidOut
<1>2. \A i \in 1 .. Len(seg) : seg[i].high \in {0, -1} /\ seg[i].content \in Seq(Byte)
  <2>1. \A i \in 1 .. Len(seg) : seg[i] \in Segments
    BY DEF RInv, MInv, Shape
  <2> QED
    BY <2>1 DEF Segments
<1>3. \A i \in 1 .. Len(seg) : seg[i].start + Size(seg[i]) < AddrSpace
  BY <1>1, ConstantTypes DEF RInv, MInv, Shape
<1>4. seg[Len(seg)].start >= Half
  BY ConstantTypes DEF LaidOut
<1>5. \A i, j \in 1 .. Len(seg) : i < j => seg[i].start + Size(seg[i]) < seg[j].start
  <2>1. \A h \in 1 .. Len(seg) : seg[h].name = Stack => seg[h].start = StackStart
    BY <1>1 DEF LaidOut
  <2> QED
    BY <1>1, <2>1 DEF RInv, MInv, Apart, SegmentsApart
<1> QED
  BY <1>1, <1>2, <1>3, <1>4, <1>5 DEF RInv, SectionsLow

(* No address is in two segments, and the one after the end of a segment   *)
(* is in none.                                                             *)
LEMMA OneSegment ==
    ASSUME RInv, LaidOut, NEW i \in 1 .. Len(seg), NEW j \in 1 .. Len(seg),
           NEW a \in Int, a \in Span(seg[i])
    PROVE  /\ a \in Span(seg[j]) => i = j
           /\ seg[j].start + Size(seg[j]) \notin Span(seg[i])
<1>1. /\ seg[i].start \in Nat /\ Size(seg[i]) \in Nat
      /\ seg[j].start \in Nat /\ Size(seg[j]) \in Nat
      /\ i < j => seg[i].start + Size(seg[i]) < seg[j].start
      /\ j < i => seg[j].start + Size(seg[j]) < seg[i].start
      /\ i < j \/ j < i \/ i = j
  BY LaidFacts
<1> QED
  BY <1>1 DEF Span

(* What Bytes is, at the addresses of a segment.                           *)
BytesMeet ==
    /\ \A a \in DOMAIN Bytes : \E i \in 1 .. Len(seg) : a \in Span(seg[i])
    /\ \A i \in 1 .. Len(seg) : \A a \in Span(seg[i]) :
          /\ a \in DOMAIN Bytes /\ Bytes[a] \in Byte
          /\ Bytes[a] = seg[i].content[a - seg[i].start + 1]
    /\ Bytes = [a \in DOMAIN Bytes |-> Bytes[a]]

(* The byte of an address of a segment, seen from the segment.             *)
LEMMA BytesAt == RInv /\ LaidOut => BytesMeet
<1> SUFFICES ASSUME RInv, LaidOut
             PROVE  BytesMeet
  OBVIOUS
<1> DEFINE D == UNION {Span(seg[i]) : i \in 1 .. Len(seg)}
           Of(a) == CHOOSE i \in 1 .. Len(seg) : a \in Span(seg[i])
<1>1. Bytes = [a \in D |-> seg[Of(a)].content[a - seg[Of(a)].start + 1]]
  BY DEF Bytes
<1>2. DOMAIN Bytes = D
  BY <1>1
<1>3. \A a : a \in D <=> \E i \in 1 .. Len(seg) : a \in Span(seg[i])
  OBVIOUS
<1>4. ASSUME NEW i \in 1 .. Len(seg), NEW a \in Span(seg[i])
      PROVE  /\ a \in D /\ Bytes[a] \in Byte
             /\ Bytes[a] = seg[i].content[a - seg[i].start + 1]
  <2>1. seg[i].start \in Nat /\ Size(seg[i]) \in Nat /\ seg[i].content \in Seq(Byte)
    BY LaidFacts
  <2>2. a \in Int /\ a - seg[i].start + 1 \in 1 .. Len(seg[i].content)
    BY <2>1, <1>4 DEF Span, Size
  <2>3. Of(a) \in 1 .. Len(seg) /\ a \in Span(seg[Of(a)])
    BY <1>4
  <2>4. Of(a) = i
    BY <1>4, <2>2, <2>3, OneSegment
  <2>5. Bytes[a] = seg[i].content[a - seg[i].start + 1]
    BY <1>1, <1>4, <2>4
  <2>6. seg[i].content[a - seg[i].start + 1] \in Byte
    BY <2>1, <2>2
  <2> QED
    BY <1>4, <2>5, <2>6
<1>5. Bytes = [a \in DOMAIN Bytes |-> Bytes[a]]
  BY <1>1, <1>2
<1> HIDE DEF D
<1> QED
  BY <1>2, <1>3, <1>4, <1>5 DEF BytesMeet

(* The same after a step.                                                  *)
LEMMA BytesAtNext == RInv' /\ LaidOut' => BytesMeet'
BY BytesAt, PTL

(* Consecutive addresses that exist are in one segment.                    *)
LEMMA RunInSegment ==
    ASSUME RInv, LaidOut, NEW i \in 1 .. Len(seg), NEW a \in Int, NEW b \in Int,
           a \in Span(seg[i]), a .. b \subseteq DOMAIN Bytes
    PROVE  a .. b \subseteq Span(seg[i])
<1> DEFINE end == seg[i].start + Size(seg[i])
<1>1. /\ seg[i].start \in Nat /\ Size(seg[i]) \in Nat /\ end \in Nat
      /\ seg[i].start <= a /\ a < end
  BY LaidFacts DEF Span
<1>2. end \notin DOMAIN Bytes
  BY <1>1, BytesAt, OneSegment DEF BytesMeet
<1>3. b < end
  BY <1>1, <1>2
<1> QED
  BY <1>1, <1>3 DEF Span

-----------------------------------------------------------------------------
(* What an operation may read or write, and whether it all exists.         *)
Reach(d) == Bytewise!Extent(d)
InReach(d) == Reach(d) \subseteq DOMAIN Bytes
BytesFrom(a, n) == [k \in 1 .. n |-> Bytes[a + k - 1]]

(* An operation that changes no segment, seen as one of the byte store.    *)
Quiet == UNCHANGED <<seg, phase, base, wild>>

(* A step that changes no segment changes no byte.                         *)
LEMMA QuietStore ==
    ASSUME RInv, LaidOut, ~wild, Quiet
    PROVE  /\ LaidOut' /\ ~wild'
           /\ (IF LaidOut' THEN Bytes' ELSE <<>>) = (IF LaidOut THEN Bytes ELSE <<>>)
           /\ (wild' \/ ~LaidOut') = (wild \/ ~LaidOut)
<1>1. seg' = seg /\ phase' = phase /\ base' = base /\ wild' = wild
  BY DEF Quiet
<1>2. Bytes' = Bytes
  BY <1>1 DEF Bytes, Span, Size
<1>3. LaidOut' = LaidOut
  BY <1>1 DEF LaidOut, Roomy
<1> QED
  BY <1>1, <1>2, <1>3

(* An access that is refused is one of ByteStore, or stutters.             *)
LEMMA RefuseLands ==
    ASSUME RInv, LaidOut, ~wild, Quiet, Bytewise!MayRefuse(done'), ~done'.ok
    PROVE  Bytewise!BNext
<1>1. Bytewise!Refuse(done')
  BY QuietStore DEF Bytewise!Refuse
<1> QED
  BY <1>1 DEF Bytewise!BNext

(* So is an access outside of every segment.                               *)
LEMMA BeyondLands ==
    ASSUME RInv, LaidOut, ~wild, Quiet \/ wild', done'.op # "load",
           ~Bytewise!Misaligned(done'),
           ~InReach(done') \/ (done'.op \in Bytewise!Commands /\ \E a \in Reach(done') : a >= Half)
    PROVE  Bytewise!BNext
<1>1. wild' \/ ~LaidOut' \/ (/\ (IF LaidOut' THEN Bytes' ELSE <<>>) = (IF LaidOut THEN Bytes ELSE <<>>)
                             /\ (wild' \/ ~LaidOut') = (wild \/ ~LaidOut))
  BY QuietStore
<1>2. InReach(done') <=> Bytewise!Exists(done')
  BY DEF Bytewise!Exists, InReach, Reach
<1>3. Bytewise!Beyond(done')
  BY <1>1, <1>2 DEF Bytewise!Beyond, Reach, Half, Bytewise!Half
<1> QED
  BY <1>3 DEF Bytewise!BNext

(* A read that answers is one of ByteStore.                                *)
LEMMA GetLands ==
    ASSUME RInv, LaidOut, ~wild, Quiet, InReach(done'), done'.op \in {"LB", "LW", "disp"},
           ~Bytewise!Misaligned(done'),
           done'.bytes = BytesFrom(done'.a, IF done'.op = "LB" THEN 1
                                            ELSE IF done'.op = "LW" THEN 4
                                            ELSE done'.arg[1] - done'.a + 1)
    PROVE  Bytewise!BNext
<1>1. Bytewise!Exists(done')
  BY DEF Bytewise!Exists, InReach, Reach
<1>2. \A a, n : Bytewise!At(a, n) = BytesFrom(a, n)
  BY DEF Bytewise!At, BytesFrom
<1>3. Bytewise!Get(done')
  BY <1>1, <1>2, QuietStore DEF Bytewise!Get
<1> QED
  BY <1>3 DEF Bytewise!BNext

(* So is a listing,                                                        *)
LEMMA ListLands ==
    ASSUME RInv, LaidOut, ~wild, Quiet, InReach(done'), done'.op = "disasm", done'.ok,
           Len(done'.bytes) % 4 = 0,
           done'.bytes = BytesFrom(Bytewise!FirstWord(done'), Len(done'.bytes))
    PROVE  Bytewise!BNext
<1>1. Bytewise!Exists(done')
  BY DEF Bytewise!Exists, InReach, Reach
<1>2. \A a, n : Bytewise!At(a, n) = BytesFrom(a, n)
  BY DEF Bytewise!At, BytesFrom
<1>3. Bytewise!List(done')
  BY <1>1, <1>2, QuietStore DEF Bytewise!List
<1> QED
  BY <1>3 DEF Bytewise!BNext

(* and a comparison.                                                       *)
LEMMA TestLands ==
    ASSUME RInv, LaidOut, ~wild, Quiet, InReach(done'), done'.op = "assert",
           done'.ok = (done'.arg = BytesFrom(done'.a, Len(done'.arg)))
    PROVE  Bytewise!BNext
<1>1. Bytewise!Exists(done')
  BY DEF Bytewise!Exists, InReach, Reach
<1>2. \A a, n : Bytewise!At(a, n) = BytesFrom(a, n)
  BY DEF Bytewise!At, BytesFrom
<1>3. Bytewise!Test(done')
  BY <1>1, <1>2, QuietStore DEF Bytewise!Test
<1> QED
  BY <1>3 DEF Bytewise!BNext

(* An access that ends the process, likewise.                              *)
LEMMA DieLands ==
    ASSUME RInv, LaidOut, ~wild, done'.op = "disasm", wild'
    PROVE  Bytewise!BNext
BY DEF Bytewise!Die, Bytewise!BNext

(* A write is one of ByteStore.                                            *)
LEMMA PutLands ==
    ASSUME RInv, LaidOut, ~wild, LaidOut', ~wild', InReach(done'), done'.ok,
           done'.op \in {"set", "SB", "SW"}, ~Bytewise!Misaligned(done'),
           Bytes' = [x \in DOMAIN Bytes |->
                        IF x \in Reach(done') THEN done'.arg[x - done'.a + 1] % ByteRange
                        ELSE Bytes[x]]
    PROVE  Bytewise!BNext
<1>1. Bytewise!Exists(done')
  BY DEF Bytewise!Exists, InReach, Reach
<1>2. Bytewise!Put(done')
  BY <1>1 DEF Bytewise!Put, Reach
<1> QED
  BY <1>2 DEF Bytewise!BNext

-----------------------------------------------------------------------------
(* What numero_segment answers of a laid out memory.                       *)
LEMMA NumeroFrom ==
    ASSUME RInv, LaidOut, NEW a \in 0 .. (AddrSpace - 1), NEW n \in NumeroSegment(a), n # 0
    PROVE  n \in 1 .. Len(seg) /\ seg[n].start <= a /\ (n # Len(seg) => a < seg[n + 1].start)
<1> DEFINE hits == {i \in 1 .. (Len(seg) - 1) : seg[i].start <= a /\ a < seg[i + 1].start}
<1>1. Len(seg) \in Nat \ {0}
  BY LaidFacts
<1>2. CASE hits # {}
  <2>1. hits \in SUBSET Nat /\ \A i, j \in hits : ~ (j < i) => i <= j
    BY <1>1
  <2>2. \E i \in hits : \A j \in hits : i <= j
    BY <1>2, <2>1, LeastPosition
  <2>3. n = CHOOSE i \in hits : \A j \in hits : i <= j
    BY <1>2 DEF NumeroSegment
  <2>4. n \in hits
    BY <2>2, <2>3
  <2> QED
    BY <1>1, <2>4
<1>3. CASE hits = {}
  BY <1>1, <1>3 DEF NumeroSegment
<1> QED
  BY <1>2, <1>3

(* An address of a section is found by the commands, at its own position.  *)
LEMMA LowFound ==
    ASSUME RInv, LaidOut, NEW i \in 1 .. Len(seg), NEW a \in Span(seg[i]), a < Half
    PROVE  /\ i # Len(seg) /\ NumeroSegment(a) = {i}
           /\ \A x \in Span(seg[i]) : /\ x \in Nat /\ x < Half /\ Signed(x) = x
                                      /\ CommandPos(i, x) = x - seg[i].start + 1
<1>1. /\ Len(seg) \in Nat \ {0} /\ seg[i].start \in Nat /\ Size(seg[i]) \in Nat
      /\ seg[Len(seg)].start >= Half /\ a \in Int /\ seg[i].start <= a
      /\ i # Len(seg) => seg[i].start + Size(seg[i]) < Half /\ seg[i].high = 0
  BY LaidFacts DEF Span
<1>2. i # Len(seg)
  BY <1>1, ConstantTypes
<1>3. i \in 1 .. (Len(seg) - 1) /\ i + 1 \in 1 .. Len(seg)
  BY <1>1, <1>2
<1>4. MInv /\ phase = "ready" /\ Roomy
  BY DEF RInv, LaidOut
<1>5. seg[i + 1].name = Stack => seg[i + 1].start = StackStart
  BY <1>3, <1>4, SegmentFacts DEF LaidOut
<1>6. NumeroSegment(a) = {i}
  BY <1>3, <1>4, <1>5, NumeroOfSpan
<1>7. ASSUME NEW x \in Span(seg[i])
      PROVE  /\ x \in Nat /\ x < Half /\ Signed(x) = x
             /\ CommandPos(i, x) = x - seg[i].start + 1
  <2>1. x \in Nat /\ x < Half
    BY <1>1, <1>2, ConstantTypes DEF Span
  <2>2. Signed(x) = x
    BY <2>1, ConstantTypes DEF Signed
  <2>3. Start64(seg[i]) = seg[i].start
    BY <1>1, <1>2, ConstantTypes DEF Start64
  <2> QED
    BY <2>1, <2>2, <2>3 DEF CommandPos
<1> QED
  BY <1>2, <1>6, <1>7

(* A position the commands compute is in the content of a segment that     *)
(* starts before the address only if it is the position of the address.    *)
LEMMA CommandPosIn ==
    ASSUME RInv, LaidOut, NEW n \in 1 .. Len(seg), NEW a \in 0 .. (AddrSpace - 1),
           seg[n].start <= a
    PROVE  /\ CommandPos(n, a) \in Int
           /\ CommandPos(n, a) \in 1 .. Size(seg[n]) => CommandPos(n, a) = a - seg[n].start + 1
<1>1. /\ seg[n].start \in Nat /\ Size(seg[n]) \in Nat /\ seg[n].high \in {0, -1}
      /\ seg[n].start + Size(seg[n]) < AddrSpace
      /\ n # Len(seg) => seg[n].high = 0
      /\ seg[Len(seg)].start >= Half
  BY LaidFacts
<1>2. AddrSpace \in Nat /\ Half \in Nat /\ 2 * Half = AddrSpace
  BY ConstantTypes
<1>3. Start64(seg[n]) = IF seg[n].high = 0 THEN seg[n].start ELSE seg[n].start - AddrSpace
  BY <1>1, <1>2 DEF Start64
<1>4. Signed(a) = IF a >= Half THEN a - AddrSpace ELSE a
  BY DEF Signed
<1>5. CASE seg[n].high = 0
  BY <1>1, <1>2, <1>3, <1>4, <1>5 DEF CommandPos
<1>6. CASE seg[n].high # 0
  <2>1. n = Len(seg) /\ a >= Half
    BY <1>1, <1>2, <1>6
  <2> QED
    BY <1>1, <1>2, <1>3, <1>4, <1>6, <2>1 DEF CommandPos
<1> QED
  BY <1>5, <1>6

(* What is read inside of a segment are the bytes of the store.            *)
LEMMA ReadInside ==
    ASSUME RInv, LaidOut, NEW n \in 1 .. Len(seg), NEW a \in Int, NEW len \in Int,
           a .. (a + len - 1) \subseteq Span(seg[n])
    PROVE  /\ Read(n, a - seg[n].start + 1, len) = BytesFrom(a, len)
           /\ ~Stray(BytesFrom(a, len))
           /\ \A k \in 1 .. len : BytesFrom(a, len)[k] \in Byte
<1> DEFINE pos == a - seg[n].start + 1
<1>1. seg[n].start \in Nat /\ Size(seg[n]) \in Nat /\ n # 0
  BY LaidFacts
<1>2. ASSUME NEW j \in 1 .. len
      PROVE  /\ pos + j - 1 \in 1 .. Size(seg[n])
             /\ a + j - 1 \in Span(seg[n])
             /\ pos + j - 1 = (a + j - 1) - seg[n].start + 1
  <2>1. a + j - 1 \in a .. (a + len - 1)
    OBVIOUS
  <2>2. a + j - 1 \in Span(seg[n])
    BY <2>1
  <2>3. seg[n].start <= a + j - 1 /\ a + j - 1 <= seg[n].start + Size(seg[n]) - 1
    BY <1>1, <2>2 DEF Span
  <2> DEFINE st == seg[n].start
             sz == Size(seg[n])
  <2>4. st \in Nat /\ sz \in Nat /\ st <= a + j - 1 /\ a + j - 1 <= st + sz - 1
    BY <1>1, <2>3
  <2> HIDE DEF st, sz
  <2>5. (a - st + 1) + j - 1 \in 1 .. sz /\ (a - st + 1) + j - 1 = (a + j - 1) - st + 1
    BY <2>4
  <2> QED
    BY <2>2, <2>5 DEF st, sz
<1>3. \A j \in 1 .. len : /\ Bytes[a + j - 1] = seg[n].content[pos + j - 1]
                          /\ Bytes[a + j - 1] \in Byte
  BY <1>2, BytesAt DEF BytesMeet
<1>4. Read(n, pos, len) = BytesFrom(a, len)
  BY <1>1, <1>2, <1>3 DEF Read, BytesFrom
<1>5. \A k \in 1 .. len : BytesFrom(a, len)[k] \in Byte
  BY <1>3 DEF BytesFrom
<1>6. DOMAIN BytesFrom(a, len) = 1 .. len
  BY DEF BytesFrom
<1>7. Unknown \notin Byte
  BY SizesAssumption DEF Unknown, Byte
<1> QED
  BY <1>4, <1>5, <1>6, <1>7 DEF Stray

(* A write, by a command or an instruction, is one of the byte store: it   *)
(* is enough that it goes to its address whenever that address exists.     *)
LEMMA WriteLands ==
    ASSUME RInv, LaidOut, ~wild,
           NEW op \in {"set", "SB", "SW"}, NEW a \in 0 .. (AddrSpace - 1), NEW arg,
           NEW n \in 1 .. Len(seg), NEW k \in Int, NEW bytes \in Seq(Byte),
           Writes(op, a, arg, n, k, bytes),
           op = "SW" => a % 4 = 0,
           Len(arg) = Len(bytes), Len(bytes) >= 1,
           \A j \in 1 .. Len(bytes) : bytes[j] = arg[j] % ByteRange,
           k \in 1 .. Size(seg[n]) => k = a - seg[n].start + 1,
           \A i \in 1 .. Len(seg) :
               a \in Span(seg[i]) /\ (op = "set" => a < Half) => n = i /\ k = a - seg[n].start + 1
    PROVE  Bytewise!BNext
<1> DEFINE len == Len(bytes)
           at == k .. (k + len - 1)
           d == done'
<1>1. done' = Answer(op, a, arg, <<>>, TRUE)
  BY DEF Writes
<1>2. d.op = op /\ d.a = a /\ d.arg = arg /\ d.ok = TRUE
  BY <1>1 DEF Answer
<1>3. len \in Nat /\ a \in Int /\ len >= 1
  OBVIOUS
<1> HIDE DEF len
<1>4. Reach(d) = a .. (a + len - 1)
  BY <1>2 DEF Reach, Bytewise!Extent, len
<1>5. ~Bytewise!Misaligned(d)
  BY <1>2 DEF Bytewise!Misaligned
<1>6. seg[n].start \in Nat /\ Size(seg[n]) \in Nat /\ seg[n].content \in Seq(Byte)
  BY LaidFacts
<1>7. CASE at \subseteq 1 .. Size(seg[n])
  <2>1. k = a - seg[n].start + 1
    <3>1. k \in at
      BY <1>3
    <3> QED
      BY <1>7, <3>1
  <2>2. Reach(d) \subseteq Span(seg[n])
    <3> SUFFICES ASSUME NEW x \in a .. (a + len - 1)
                 PROVE  x \in Span(seg[n])
      BY <1>4
    <3>1. x - seg[n].start + 1 \in at
      <4> DEFINE st == seg[n].start
      <4>1. st \in Nat /\ k = a - st + 1
        BY <1>6, <2>1
      <4> HIDE DEF st
      <4>2. x \in Int /\ a <= x /\ x <= a + len - 1
        BY <1>3
      <4>3. k <= x - st + 1 /\ x - st + 1 <= k + len - 1
        BY <1>3, <4>1, <4>2
      <4> QED
        BY <1>3, <4>1, <4>2, <4>3 DEF st
    <3>2. x - seg[n].start + 1 \in 1 .. Size(seg[n])
      BY <1>7, <3>1
    <3> QED
      BY <1>3, <1>6, <3>2 DEF Span
  <2>3. InReach(d)
    BY <2>2, BytesAt DEF BytesMeet, InReach
  <2>4. Shape /\ Shape' /\ SameLayout
    BY WritesStep DEF RInv, MInv
  <2>5. wild' = wild /\ seg' = [seg EXCEPT ![n].content =
                 [j \in DOMAIN seg[n].content |->
                    IF j \in at THEN bytes[j - k + 1] ELSE seg[n].content[j]]]
    BY <1>7 DEF Writes, len
  <2>6. LaidOut'
    BY <2>4, LaidFacts DEF SameLayout, LaidOut, Roomy
  <2>7. RInv'
    <3>1. MInv'
      BY <2>4, SameLayoutApart DEF RInv, MInv
    <3>2. SectionsLow' /\ LoadAnswers'
      BY <2>4 DEF SameLayout, RInv, SectionsLow, LoadAnswers, LaidOut
    <3> QED
      BY <3>1, <3>2 DEF RInv
  <2>8. /\ Len(seg') = Len(seg)
        /\ \A i \in 1 .. Len(seg) : Span(seg'[i]) = Span(seg[i]) /\ seg'[i].start = seg[i].start
    BY <2>4 DEF SameLayout, Span
  <2>9. BytesMeet /\ BytesMeet'
    BY <2>6, <2>7, BytesAt, BytesAtNext
  <2>10. /\ \A x \in DOMAIN Bytes' : \E i \in 1 .. Len(seg) : x \in Span(seg[i])
         /\ \A i \in 1 .. Len(seg) : \A x \in Span(seg[i]) :
              /\ x \in DOMAIN Bytes'
              /\ Bytes'[x] = seg'[i].content[x - seg[i].start + 1]
         /\ Bytes' = [x \in DOMAIN Bytes' |-> Bytes'[x]]
    BY <2>8, <2>9 DEF BytesMeet
  <2>11. DOMAIN Bytes' = DOMAIN Bytes
    BY <2>9, <2>10 DEF BytesMeet
  <2>12. ASSUME NEW x \in DOMAIN Bytes
         PROVE  Bytes'[x] = IF x \in Reach(d) THEN d.arg[x - d.a + 1] % ByteRange ELSE Bytes[x]
    <3>1. PICK i \in 1 .. Len(seg) : x \in Span(seg[i])
      BY <2>9 DEF BytesMeet
    <3> DEFINE st == seg[i].start
               pos == x - st + 1
    <3>2. /\ st \in Nat /\ Size(seg[i]) \in Nat /\ seg[i].content \in Seq(Byte)
          /\ x \in Int /\ st <= x /\ x <= st + Size(seg[i]) - 1
      BY <3>1, LaidFacts DEF Span
    <3>3. Bytes'[x] = seg'[i].content[pos] /\ Bytes[x] = seg[i].content[pos]
      BY <2>9, <2>10, <3>1 DEF BytesMeet
    <3>4. CASE i = n
      <4>1. pos \in DOMAIN seg[n].content
        BY <3>2, <3>4 DEF Size
      <4>2. seg'[n].content = [j \in DOMAIN seg[n].content |->
                    IF j \in at THEN bytes[j - k + 1] ELSE seg[n].content[j]]
        <5> DEFINE new == [j \in DOMAIN seg[n].content |->
                              IF j \in at THEN bytes[j - k + 1] ELSE seg[n].content[j]]
        <5>1. seg \in Seq(Segments) /\ seg[n] \in Segments
          BY <2>4 DEF Shape
        <5>2. seg' = [seg EXCEPT ![n].content = new]
          BY <2>5
        <5> HIDE DEF new
        <5>3. seg'[n] = [seg[n] EXCEPT !.content = new]
          BY <5>1, <5>2
        <5>4. seg'[n].content = new
          BY <5>1, <5>3 DEF Segments
        <5> QED
          BY <5>4 DEF new
      <4>3. Bytes'[x] = IF pos \in at THEN bytes[pos - k + 1] ELSE Bytes[x]
        BY <3>3, <3>4, <4>1, <4>2
      <4>4. k = a - st + 1
        BY <2>1, <3>4
      <4> HIDE DEF st
      <4>5. pos \in at <=> x \in a .. (a + len - 1)
        BY <1>3, <3>2, <4>4
      <4>6. pos - k + 1 = x - a + 1
        BY <1>3, <3>2, <4>4
      <4>7. x \in a .. (a + len - 1) => x - a + 1 \in 1 .. Len(bytes)
        BY <1>3, <3>2 DEF len
      <4>8. x \in a .. (a + len - 1) => bytes[x - a + 1] = arg[x - a + 1] % ByteRange
        BY <4>7
      <4> QED
        BY <1>2, <1>4, <4>3, <4>5, <4>6, <4>8
    <3>5. CASE i # n
      <4>1. seg'[i] = seg[i]
        BY <2>5, <3>5 DEF RInv, MInv, Shape
      <4>2. x \notin Span(seg[n])
        BY <3>1, <3>2, <3>5, OneSegment
      <4>3. x \notin Reach(d)
        BY <2>2, <4>2
      <4> QED
        BY <3>3, <4>1, <4>3
    <3> QED
      BY <3>4, <3>5
  <2>13. Bytes' = [x \in DOMAIN Bytes |->
                      IF x \in Reach(d) THEN d.arg[x - d.a + 1] % ByteRange ELSE Bytes[x]]
    BY <2>10, <2>11, <2>12
  <2>14. ~wild'
    BY <2>5
  <2> QED
    BY <1>2, <1>5, <2>3, <2>6, <2>13, <2>14, PutLands
<1>8. CASE ~ (at \subseteq 1 .. Size(seg[n]))
  <2>1. wild'
    BY <1>8 DEF Writes, len
  <2>2. ~InReach(d) \/ (op = "set" /\ \E x \in Reach(d) : x >= Half)
    <3> SUFFICES ASSUME InReach(d), op = "set" => \A x \in Reach(d) : ~ (x >= Half)
                 PROVE  FALSE
      OBVIOUS
    <3>1. a \in Reach(d)
      BY <1>3, <1>4
    <3>2. op = "set" => a < Half
      BY <1>3, <3>1, ConstantTypes
    <3>3. PICK i \in 1 .. Len(seg) : a \in Span(seg[i])
      BY <3>1, BytesAt DEF InReach, BytesMeet
    <3>4. i = n /\ k = a - seg[n].start + 1
      BY <3>2, <3>3
    <3>5. a .. (a + len - 1) \subseteq Span(seg[n])
      <4>1. a .. (a + len - 1) \subseteq DOMAIN Bytes
        BY <1>4 DEF InReach
      <4>2. a + len - 1 \in Int /\ a \in Span(seg[n])
        BY <1>3, <3>3, <3>4
      <4> QED
        BY <1>3, <4>1, <4>2, RunInSegment
    <3>6. a + len - 1 \in Span(seg[n])
      <4>1. a + len - 1 \in a .. (a + len - 1)
        BY <1>3
      <4> QED
        BY <3>5, <4>1
    <3> DEFINE st == seg[n].start
               sz == Size(seg[n])
    <3>7. /\ st \in Nat /\ sz \in Nat /\ k = a - st + 1
          /\ st <= a /\ a + len - 1 <= st + sz - 1
      BY <1>6, <3>3, <3>4, <3>6 DEF Span
    <3> HIDE DEF st, sz
    <3>8. k >= 1 /\ k + len - 1 <= sz
      BY <1>3, <3>7
    <3>9. at \subseteq 1 .. sz
      BY <1>3, <3>7, <3>8
    <3> QED
      BY <1>8, <3>9 DEF sz
  <2> QED
    BY <1>2, <1>5, <2>1, <2>2, BeyondLands DEF Bytewise!Commands
<1> QED
  BY <1>7, <1>8

-----------------------------------------------------------------------------
(* What a command reads of addresses that exist, in the lower half.        *)
LEMMA CommandReads ==
    ASSUME RInv, LaidOut, NEW a \in 0 .. (AddrSpace - 1), NEW n \in NumeroSegment(a),
           a < Half, a \in DOMAIN Bytes
    PROVE  /\ n \in 1 .. Len(seg) /\ n # 0 /\ a \in Span(seg[n])
           /\ CommandPos(n, a) = a - seg[n].start + 1
           /\ \A len \in Nat : a .. (a + len - 1) \subseteq DOMAIN Bytes =>
                /\ a .. (a + len - 1) \subseteq Span(seg[n])
                /\ Read(n, CommandPos(n, a), len) = BytesFrom(a, len)
                /\ ~Stray(BytesFrom(a, len))
                /\ \A k \in 1 .. len : BytesFrom(a, len)[k] \in Byte
<1>1. PICK i \in 1 .. Len(seg) : a \in Span(seg[i])
  BY BytesAt DEF BytesMeet
<1>2. NumeroSegment(a) = {i} /\ CommandPos(i, a) = a - seg[i].start + 1
  BY <1>1, LowFound
<1>3. n = i
  BY <1>2
<1>4. n # 0
  BY <1>1, <1>3, LaidFacts
<1>5. ASSUME NEW len \in Nat, a .. (a + len - 1) \subseteq DOMAIN Bytes
      PROVE  /\ a .. (a + len - 1) \subseteq Span(seg[n])
             /\ Read(n, CommandPos(n, a), len) = BytesFrom(a, len)
             /\ ~Stray(BytesFrom(a, len))
             /\ \A k \in 1 .. len : BytesFrom(a, len)[k] \in Byte
  <2>1. a \in Int /\ a + len - 1 \in Int
    OBVIOUS
  <2>2. a .. (a + len - 1) \subseteq Span(seg[n])
    BY <1>1, <1>3, <1>5, <2>1, RunInSegment
  <2>3. n \in 1 .. Len(seg) /\ CommandPos(n, a) = a - seg[n].start + 1
    BY <1>2, <1>3
  <2>4. len \in Int
    BY <1>5
  <2>5. /\ Read(n, a - seg[n].start + 1, len) = BytesFrom(a, len)
        /\ ~Stray(BytesFrom(a, len))
        /\ \A k \in 1 .. len : BytesFrom(a, len)[k] \in Byte
    BY <2>1, <2>2, <2>3, <2>4, ReadInside
  <2> QED
    BY <2>2, <2>3, <2>5
<1> QED
  BY <1>1, <1>2, <1>3, <1>4, <1>5

(* An operation that only reads leaves the memory as it is, unless it goes *)
(* astray.                                                                 *)
LEMMA ReadsQuiet ==
    ASSUME RInv, ~wild, NEW op, NEW a, NEW arg, NEW bytes, NEW oks,
           Reads(op, a, arg, bytes, oks)
    PROVE  /\ Quiet \/ wild'
           /\ ~Stray(bytes) => Quiet
           /\ done'.op = op /\ done'.a = a /\ done'.arg = arg /\ done'.bytes = bytes
           /\ done'.ok \in oks
<1>1. wild = FALSE
  BY DEF RInv, MInv, Shape
<1>2. wild' \in (IF Stray(bytes) THEN BOOLEAN ELSE {FALSE}) /\ UNCHANGED <<seg, phase, base>>
  BY DEF Reads
<1>3. PICK ok \in oks : done' = Answer(op, a, arg, bytes, ok)
  BY DEF Reads
<1>4. /\ done'.op = op /\ done'.a = a /\ done'.arg = arg /\ done'.bytes = bytes
      /\ done'.ok \in oks
  BY <1>3 DEF Answer
<1>5. wild' = TRUE \/ wild' = FALSE
  BY <1>2
<1>6. ~Stray(bytes) => wild' = FALSE
  BY <1>2
<1>7. wild' = FALSE => Quiet
  BY <1>1, <1>2 DEF Quiet
<1> QED
  BY <1>4, <1>5, <1>6, <1>7

(* A refused access changes no segment.                                    *)
LEMMA RefusedQuiet ==
    ASSUME NEW op, NEW a, NEW arg, Refused(op, a, arg)
    PROVE  /\ Quiet
           /\ done'.op = op /\ done'.a = a /\ done'.arg = arg /\ done'.bytes = <<>>
           /\ done'.ok = FALSE
BY DEF Refused, Quiet, Answer

(* A position a command computes for a write.                              *)
LEMMA CommandWrites ==
    ASSUME RInv, LaidOut, ~wild, NEW a \in 0 .. (AddrSpace - 1), NEW n \in NumeroSegment(a),
           n # 0, NEW arg, NEW bytes \in Seq(Byte),
           Writes("set", a, arg, n, CommandPos(n, a), bytes),
           Len(arg) = Len(bytes), Len(bytes) >= 1,
           \A j \in 1 .. Len(bytes) : bytes[j] = arg[j] % ByteRange
    PROVE  Bytewise!BNext
<1>1. n \in 1 .. Len(seg) /\ seg[n].start <= a
  BY NumeroFrom
<1>2. /\ CommandPos(n, a) \in Int
      /\ CommandPos(n, a) \in 1 .. Size(seg[n]) => CommandPos(n, a) = a - seg[n].start + 1
  BY <1>1, CommandPosIn
<1>3. ASSUME NEW i \in 1 .. Len(seg), a \in Span(seg[i]), a < Half
      PROVE  n = i /\ CommandPos(n, a) = a - seg[n].start + 1
  <2>1. n = i
    BY <1>3, LowFound
  <2> QED
    BY <1>3, <2>1, LowFound
<1>4. "set" \in {"set", "SB", "SW"} /\ "set" # "SW"
  OBVIOUS
<1> QED
  BY <1>1, <1>2, <1>3, <1>4, WriteLands

(* A command that finds no segment for an address is about one that does   *)
(* not exist, or in the upper half.                                        *)
LEMMA NoneFound ==
    ASSUME RInv, LaidOut, NEW a \in 0 .. (AddrSpace - 1), 0 \in NumeroSegment(a)
    PROVE  a \notin DOMAIN Bytes \/ a >= Half
<1> SUFFICES ASSUME a \in DOMAIN Bytes, a < Half
             PROVE  FALSE
  BY ConstantTypes
<1> QED
  BY CommandReads

(* The commands and the instructions, one by one: set mem byte,            *)
LEMMA SetByteLands ==
    ASSUME RInv, LaidOut, ~wild, SetByte
    PROVE  Bytewise!BNext
<1>1. PICK a \in Addresses, v \in ByteArgs : \E n \in NumeroSegment(a) :
          IF n = 0 \/ v > ByteRange THEN Refused("set", a, <<v>>)
          ELSE Writes("set", a, <<v>>, n, CommandPos(n, a), <<ToByte(v)>>)
  BY DEF SetByte
<1>2. PICK n \in NumeroSegment(a) :
          IF n = 0 \/ v > ByteRange THEN Refused("set", a, <<v>>)
          ELSE Writes("set", a, <<v>>, n, CommandPos(n, a), <<ToByte(v)>>)
  BY <1>1
<1>3. a \in 0 .. (AddrSpace - 1) /\ v \in Int
  BY ArgumentsAssumption
<1>4. CASE v > ByteRange
  <2>1. /\ Quiet /\ done'.op = "set" /\ done'.arg = <<v>> /\ done'.ok = FALSE
    BY <1>2, <1>4, RefusedQuiet
  <2>2. Bytewise!MayRefuse(done')
    BY <1>4, <2>1 DEF Bytewise!MayRefuse
  <2> QED
    BY <2>1, <2>2, RefuseLands
<1>5. CASE n = 0
  <2>1. /\ Quiet /\ done'.op = "set" /\ done'.a = a /\ done'.arg = <<v>>
    BY <1>2, <1>5, RefusedQuiet
  <2>2. Reach(done') = {a}
    BY <1>3, <2>1 DEF Reach, Bytewise!Extent
  <2>3. a \notin DOMAIN Bytes \/ a >= Half
    BY <1>3, <1>5, NoneFound
  <2>4. ~InReach(done') \/ \E x \in Reach(done') : x >= Half
    BY <2>2, <2>3 DEF InReach
  <2> QED
    BY <2>1, <2>4, BeyondLands DEF Bytewise!Misaligned, Bytewise!Commands
<1>6. CASE n # 0 /\ ~ (v > ByteRange)
  <2>1. Writes("set", a, <<v>>, n, CommandPos(n, a), <<ToByte(v)>>)
    BY <1>2, <1>6
  <2>2. ToByte(v) \in Byte /\ ToByte(v) = v % ByteRange
    BY <1>3, SizesAssumption DEF ToByte, Byte
  <2>3. <<ToByte(v)>> \in Seq(Byte) /\ Len(<<ToByte(v)>>) = 1 /\ Len(<<v>>) = 1
    BY <2>2
  <2>4. \A j \in 1 .. Len(<<ToByte(v)>>) : <<ToByte(v)>>[j] = <<v>>[j] % ByteRange
    BY <2>2, <2>3
  <2>5. Len(<<ToByte(v)>>) = Len(<<v>>) /\ Len(<<ToByte(v)>>) >= 1
    BY <2>3
  <2> QED
    BY <1>3, <1>6, <2>1, <2>3, <2>4, <2>5, CommandWrites
<1> QED
  BY <1>4, <1>5, <1>6

(* A word of the arguments.                                                *)
LEMMA WordFacts ==
    ASSUME NEW w \in Words
    PROVE  w \in Seq(Byte) /\ Len(w) = 4 /\ \A j \in 1 .. 4 : w[j] = w[j] % ByteRange
<1>1. w \in [1 .. 4 -> Byte] /\ ByteRange \in Nat \ {0}
  BY ArgumentsAssumption, SizesAssumption
<1>2. w \in Seq(Byte) /\ Len(w) = 4
  <2>1. w \in Seq(Byte)
    BY <1>1, SeqDef
  <2>2. DOMAIN w = 1 .. 4
    BY <1>1
  <2> QED
    BY <2>1, <2>2, LenProperties
<1>3. \A j \in 1 .. 4 : w[j] % ByteRange = w[j]
  BY <1>1, SmallMod DEF Byte
<1> QED
  BY <1>2, <1>3

(* set mem word,                                                           *)
LEMMA SetWordLands ==
    ASSUME RInv, LaidOut, ~wild, SetWord
    PROVE  Bytewise!BNext
<1>1. PICK a \in Addresses, w \in Words : \E n \in NumeroSegment(a) :
          IF n = 0 THEN Refused("set", a, w)
          ELSE Writes("set", a, w, n, CommandPos(n, a), w)
  BY DEF SetWord
<1>2. PICK n \in NumeroSegment(a) :
          IF n = 0 THEN Refused("set", a, w)
          ELSE Writes("set", a, w, n, CommandPos(n, a), w)
  BY <1>1
<1>3. a \in 0 .. (AddrSpace - 1) /\ w \in Seq(Byte) /\ Len(w) = 4
  BY ArgumentsAssumption, WordFacts
<1>4. CASE n = 0
  <2>1. Quiet /\ done'.op = "set" /\ done'.a = a /\ done'.arg = w
    BY <1>2, <1>4, RefusedQuiet
  <2>2. a \in Reach(done')
    <3>1. Reach(done') = a .. (a + 4 - 1)
      BY <1>3, <2>1 DEF Reach, Bytewise!Extent
    <3> QED
      BY <1>3, <3>1
  <2>3. a \notin DOMAIN Bytes \/ a >= Half
    BY <1>3, <1>4, NoneFound
  <2>4. ~InReach(done') \/ \E x \in Reach(done') : x >= Half
    BY <2>2, <2>3 DEF InReach
  <2> QED
    BY <2>1, <2>4, BeyondLands DEF Bytewise!Misaligned, Bytewise!Commands
<1>5. CASE n # 0
  BY <1>2, <1>3, <1>5, WordFacts, CommandWrites
<1> QED
  BY <1>4, <1>5

(* assert compares the bytes that are there: it lands in Test when they    *)
(* are read where they are.                                                *)
LEMMA AssertLands ==
    ASSUME RInv, LaidOut, ~wild, NEW a \in 0 .. (AddrSpace - 1), NEW n \in NumeroSegment(a),
           NEW arg, NEW len \in Nat \ {0}, Len(arg) = len, NEW bytes,
           bytes = Read(n, IF n = 0 THEN 0 ELSE CommandPos(n, a), len),
           Reads("assert", a, arg, bytes, Compare(arg, bytes))
    PROVE  Bytewise!BNext
<1>1. /\ Quiet \/ wild'
      /\ ~Stray(bytes) => Quiet
      /\ done'.op = "assert" /\ done'.a = a /\ done'.arg = arg
      /\ done'.ok \in Compare(arg, bytes)
  BY ReadsQuiet
<1>2. Reach(done') = a .. (a + len - 1)
  BY <1>1 DEF Reach, Bytewise!Extent
<1>3. CASE InReach(done') /\ a < Half
  <2>1. a \in DOMAIN Bytes /\ a .. (a + len - 1) \subseteq DOMAIN Bytes
    BY <1>2, <1>3 DEF InReach
  <2>2. n # 0 /\ Read(n, CommandPos(n, a), len) = BytesFrom(a, len) /\ ~Stray(BytesFrom(a, len))
    BY <1>3, <2>1, CommandReads
  <2>3. bytes = BytesFrom(a, len) /\ ~Stray(bytes)
    BY <2>2
  <2>4. done'.ok = (arg = bytes)
    BY <1>1, <2>3 DEF Compare
  <2> QED
    BY <1>1, <1>3, <2>3, <2>4, TestLands
<1>4. CASE ~InReach(done') \/ ~ (a < Half)
  <2>1. ~InReach(done') \/ \E x \in Reach(done') : x >= Half
    <3>1. a \in Reach(done')
      BY <1>2
    <3> QED
      BY <1>4, <3>1, ConstantTypes
  <2> QED
    BY <1>1, <2>1, BeyondLands DEF Bytewise!Misaligned, Bytewise!Commands
<1> QED
  BY <1>3, <1>4

(* assert byte,                                                            *)
LEMMA AssertByteLands ==
    ASSUME RInv, LaidOut, ~wild, AssertByte
    PROVE  Bytewise!BNext
<1>1. PICK a \in Addresses, v \in ByteArgs : \E n \in NumeroSegment(a) :
        LET bytes == Read(n, IF n = 0 THEN 0 ELSE CommandPos(n, a), 1)
        IN  IF v > ByteRange THEN Refused("assert", a, <<v>>)
            ELSE Reads("assert", a, <<v>>, bytes, Compare(<<v>>, bytes))
  BY DEF AssertByte
<1>2. PICK n \in NumeroSegment(a) :
        LET bytes == Read(n, IF n = 0 THEN 0 ELSE CommandPos(n, a), 1)
        IN  IF v > ByteRange THEN Refused("assert", a, <<v>>)
            ELSE Reads("assert", a, <<v>>, bytes, Compare(<<v>>, bytes))
  BY <1>1
<1>3. a \in 0 .. (AddrSpace - 1) /\ <<v>> \in Seq(Int) /\ Len(<<v>>) = 1 /\ v \in Int
  BY ArgumentsAssumption
<1>4. CASE v > ByteRange
  <2>1. /\ Quiet /\ done'.op = "assert" /\ done'.a = a /\ done'.arg = <<v>>
        /\ done'.ok = FALSE
    BY <1>2, <1>4, RefusedQuiet
  <2>2. Reach(done') = {a}
    BY <1>3, <2>1 DEF Reach, Bytewise!Extent
  <2>3. CASE a \in DOMAIN Bytes
    <3>1. Bytes[a] \in Byte
      BY <2>3, BytesAt DEF BytesMeet
    <3>2. Bytes[a] # v
      BY <1>3, <1>4, <3>1, SizesAssumption DEF Byte
    <3>3. BytesFrom(a, 1)[1] = Bytes[a]
      BY <1>3 DEF BytesFrom
    <3>4. <<v>> # BytesFrom(a, Len(<<v>>))
      BY <1>3, <3>2, <3>3
    <3> QED
      BY <2>1, <2>2, <2>3, <3>4, TestLands DEF InReach
  <2>4. CASE a \notin DOMAIN Bytes
    <3>1. ~InReach(done')
      BY <2>2, <2>4 DEF InReach
    <3> QED
      BY <2>1, <3>1, BeyondLands DEF Bytewise!Misaligned
  <2> QED
    BY <2>3, <2>4
<1>5. CASE ~ (v > ByteRange)
  <2> DEFINE bytes == Read(n, IF n = 0 THEN 0 ELSE CommandPos(n, a), 1)
  <2>1. Reads("assert", a, <<v>>, bytes, Compare(<<v>>, bytes))
    BY <1>2, <1>5
  <2>2. bytes = Read(n, IF n = 0 THEN 0 ELSE CommandPos(n, a), 1) /\ 1 \in Nat \ {0}
    OBVIOUS
  <2> HIDE DEF bytes
  <2> QED
    BY <1>3, <2>1, <2>2, AssertLands
<1> QED
  BY <1>4, <1>5

(* assert word,                                                            *)
LEMMA AssertWordLands ==
    ASSUME RInv, LaidOut, ~wild, AssertWord
    PROVE  Bytewise!BNext
<1>1. PICK a \in Addresses, w \in Words : \E n \in NumeroSegment(a) :
        LET bytes == Read(n, IF n = 0 THEN 0 ELSE CommandPos(n, a), 4)
        IN  Reads("assert", a, w, bytes, Compare(w, bytes))
  BY DEF AssertWord
<1>2. a \in 0 .. (AddrSpace - 1) /\ Len(w) = 4
  BY WordFacts, ArgumentsAssumption
<1>3. PICK n \in NumeroSegment(a) :
        LET bytes == Read(n, IF n = 0 THEN 0 ELSE CommandPos(n, a), 4)
        IN  Reads("assert", a, w, bytes, Compare(w, bytes))
  BY <1>1
<1> DEFINE bytes == Read(n, IF n = 0 THEN 0 ELSE CommandPos(n, a), 4)
<1>4. Reads("assert", a, w, bytes, Compare(w, bytes))
  BY <1>3
<1>5. bytes = Read(n, IF n = 0 THEN 0 ELSE CommandPos(n, a), 4) /\ 4 \in Nat \ {0}
  OBVIOUS
<1> HIDE DEF bytes
<1> QED
  BY <1>2, <1>4, <1>5, AssertLands

-----------------------------------------------------------------------------
(* disp mem,                                                               *)
LEMMA DispLands ==
    ASSUME RInv, LaidOut, ~wild, DispMem
    PROVE  Bytewise!BNext
<1>1. PICK a \in Addresses, b \in Addresses : \E n \in NumeroSegment(a), m \in NumeroSegment(b) :
        IF n = 0 \/ m # n \/ Signed(a) > Signed(b) THEN Refused("disp", a, <<b>>)
        ELSE IF Signed(b) = Half - 1 THEN Lost("disp", a, <<b>>)
        ELSE Reads("disp", a, <<b>>,
                   Read(n, CommandPos(n, a), Signed(b) - Signed(a) + 1), {TRUE})
  BY DEF DispMem
<1>2. PICK n \in NumeroSegment(a), m \in NumeroSegment(b) :
        IF n = 0 \/ m # n \/ Signed(a) > Signed(b) THEN Refused("disp", a, <<b>>)
        ELSE IF Signed(b) = Half - 1 THEN Lost("disp", a, <<b>>)
        ELSE Reads("disp", a, <<b>>,
                   Read(n, CommandPos(n, a), Signed(b) - Signed(a) + 1), {TRUE})
  BY <1>1
<1>3. a \in 0 .. (AddrSpace - 1) /\ b \in 0 .. (AddrSpace - 1) /\ a \in Int /\ b \in Int
  BY ArgumentsAssumption
<1> DEFINE len == Signed(b) - Signed(a) + 1
           bytes == Read(n, CommandPos(n, a), len)
           refused == n = 0 \/ m # n \/ Signed(a) > Signed(b)
           endless == ~refused /\ Signed(b) = Half - 1
<1>4. /\ done'.op = "disp" /\ done'.a = a /\ done'.arg = <<b>>
      /\ refused => Quiet /\ done'.ok = FALSE
      /\ endless => wild'
      /\ ~refused /\ ~endless => /\ Quiet \/ wild'
                                 /\ ~Stray(bytes) => Quiet
                                 /\ done'.bytes = bytes
  <2>1. CASE refused
    BY <1>2, <2>1, RefusedQuiet
  <2>2. CASE endless
    BY <1>2, <2>2 DEF Lost, Answer
  <2>3. CASE ~refused /\ ~endless
    <3>1. Reads("disp", a, <<b>>, bytes, {TRUE})
      BY <1>2, <2>3
    <3> HIDE DEF bytes
    <3> QED
      BY <2>3, <3>1, ReadsQuiet
  <2> QED
    BY <2>1, <2>2, <2>3
<1> HIDE DEF bytes, refused, endless
<1>5. \A x : Bytewise!Signed(x) = Signed(x)
  BY DEF Bytewise!Signed, Signed, Bytewise!Half, Half
<1>6. /\ Reach(done') = {x \in 0 .. (AddrSpace - 1) : Signed(a) <= Signed(x) /\ Signed(x) <= Signed(b)}
      /\ ~Bytewise!Misaligned(done')
  BY <1>4, <1>5 DEF Reach, Bytewise!Extent, Bytewise!Misaligned
<1>7. CASE Signed(a) > Signed(b)
  <2>1. refused
    BY <1>7 DEF refused
  <2>2. Bytewise!MayRefuse(done')
    BY <1>4, <1>5, <1>7 DEF Bytewise!MayRefuse
  <2> QED
    BY <1>4, <2>1, <2>2, RefuseLands
<1>8. CASE ~ (Signed(a) > Signed(b)) /\ InReach(done') /\ \A x \in Reach(done') : ~ (x >= Half)
  <2>1. a \in Reach(done') /\ b \in Reach(done')
    BY <1>3, <1>6, <1>8, ConstantTypes DEF Signed
  <2>2. a < Half /\ b < Half /\ Signed(a) = a /\ Signed(b) = b /\ a <= b
    BY <1>3, <1>8, <2>1, ConstantTypes DEF Signed
  <2>3. a \in DOMAIN Bytes /\ len \in Nat /\ len = b - a + 1 /\ a + len - 1 = b
    BY <1>3, <1>8, <2>1, <2>2 DEF InReach
  <2>4. a .. (a + len - 1) \subseteq Reach(done')
    <3>1. \A x \in a .. b : x \in 0 .. (AddrSpace - 1) /\ Signed(x) = x
      BY <1>3, <2>2, ConstantTypes DEF Signed
    <3> QED
      BY <1>3, <1>6, <2>2, <2>3, <3>1
  <2>5. a .. (a + len - 1) \subseteq DOMAIN Bytes
    BY <1>8, <2>4 DEF InReach
  <2>6. /\ n \in 1 .. Len(seg) /\ n # 0 /\ a \in Span(seg[n])
        /\ a .. (a + len - 1) \subseteq Span(seg[n])
        /\ bytes = BytesFrom(a, len) /\ ~Stray(bytes)
    <3> HIDE DEF len
    <3> QED
      BY <1>3, <2>2, <2>3, <2>5, CommandReads DEF bytes
  <2>7. b \in Span(seg[n])
    BY <1>3, <2>2, <2>3, <2>6
  <2>8. NumeroSegment(b) = {n} /\ n # Len(seg)
    BY <2>2, <2>6, <2>7, LowFound
  <2>9. b # Half - 1
    BY <1>3, <2>6, <2>7, <2>8, LaidFacts, ConstantTypes DEF Span
  <2>10. ~refused /\ ~endless
    BY <1>3, <1>8, <2>2, <2>6, <2>8, <2>9 DEF refused, endless
  <2> HIDE DEF len
  <2> QED
    BY <1>4, <1>6, <1>8, <2>3, <2>6, <2>10, GetLands
<1>9. CASE ~ (Signed(a) > Signed(b)) /\ ~ (InReach(done') /\ \A x \in Reach(done') : ~ (x >= Half))
  <2>1. ~InReach(done') \/ \E x \in Reach(done') : x >= Half
    BY <1>9
  <2>2. Quiet \/ wild'
    BY <1>4
  <2> QED
    BY <1>4, <1>6, <2>1, <2>2, BeyondLands DEF Bytewise!Commands
<1> QED
  BY <1>7, <1>8, <1>9

-----------------------------------------------------------------------------
(* disasm reads one segment: it is enough that the first word it shows is  *)
(* in the segment of its address when it exists at all.                    *)
LEMMA DisassembleLands ==
    ASSUME RInv, LaidOut, ~wild, NEW a \in 0 .. (AddrSpace - 1), NEW n \in NumeroSegment(a),
           NEW arg, NEW last \in Int, Disassemble(a, arg, n, last),
           last < Half => \A first \in DOMAIN Bytes :
               a < Half /\ n \in 1 .. Len(seg) /\ a \in Span(seg[n]) /\ a <= first /\ first <= last
                   => first \in Span(seg[n])
    PROVE  Bytewise!BNext
<1> DEFINE s == Signed(a)
           first == s + ((-s) % 4)
           len == IF last < first THEN 0 ELSE 4 * ((last - first) \div 4 + 1)
           bytes == Read(IF last < Half THEN n ELSE 0, first - Start64(seg[n]) + 1, len)
<1>1. Reads("disasm", a, arg, bytes, {TRUE})
  BY DEF Disassemble
<1>2. /\ a \in Int /\ s \in Int /\ first \in Int /\ s <= first
      /\ a < Half => s = a
  <2>1. a \in Int /\ s \in Int /\ (a < Half => s = a)
    BY ConstantTypes DEF Signed
  <2> HIDE DEF s
  <2> QED
    BY <2>1
<1>3. len \in Nat /\ len % 4 = 0 /\ (len # 0 => first <= last /\ last <= first + len - 1)
  <2> HIDE DEF first
  <2>1. CASE last < first
    BY <2>1
  <2>2. CASE ~ (last < first)
    <3>1. last - first \in Nat
      BY <1>2, <2>2
    <3>2. (last - first) \div 4 \in Nat
      BY <3>1
    <3> DEFINE q == (last - first) \div 4 + 1
    <3>3. q \in Nat
      BY <3>2
    <3> HIDE DEF q
    <3>4. 4 * q \in Nat /\ (4 * q) % 4 = 0
      BY <3>3
    <3>5. last <= first + 4 * q - 1
      BY <1>2, <2>2 DEF q
    <3> QED
      BY <1>2, <2>2, <3>4, <3>5 DEF q
  <2> QED
    BY <2>1, <2>2
<1>4. a < Half => first = a + ((-a) % 4)
  BY <1>2
<1> HIDE DEF s, first, len
<1>5. Len(bytes) = len
  BY <1>3 DEF Read
<1> HIDE DEF bytes
<1>6. /\ Quiet \/ wild'
      /\ ~Stray(bytes) => Quiet
      /\ done'.op = "disasm" /\ done'.a = a /\ done'.arg = arg /\ done'.bytes = bytes
      /\ done'.ok = TRUE
  <2>1. /\ Quiet \/ wild'
        /\ ~Stray(bytes) => Quiet
        /\ done'.op = "disasm" /\ done'.a = a /\ done'.arg = arg /\ done'.bytes = bytes
        /\ done'.ok \in {TRUE}
    BY <1>1, ReadsQuiet
  <2> QED
    BY <2>1
<1>7. /\ a \in Reach(done')
      /\ a < Half => /\ Bytewise!FirstWord(done') = first
                     /\ Reach(done') = {a} \cup (first .. (first + len - 1))
  <2>1. Reach(done') = {a} \cup (Bytewise!FirstWord(done') .. (Bytewise!FirstWord(done') + len - 1))
    BY <1>5, <1>6 DEF Reach, Bytewise!Extent
  <2>2. a < Half => Bytewise!FirstWord(done') = first
    BY <1>4, <1>6 DEF Bytewise!FirstWord
  <2> QED
    BY <2>1, <2>2
<1>8. CASE InReach(done') /\ a < Half /\ (last < Half \/ len = 0)
  <2>1. a \in DOMAIN Bytes /\ first .. (first + len - 1) \subseteq DOMAIN Bytes
    BY <1>7, <1>8 DEF InReach
  <2>2. n \in 1 .. Len(seg) /\ a \in Span(seg[n])
    BY <1>8, <2>1, CommandReads
  <2>3. bytes = BytesFrom(first, len) /\ ~Stray(bytes)
    <3>1. CASE len = 0
      <4>1. 1 .. len = {}
        BY <3>1
      <4> QED
        BY <4>1 DEF bytes, Read, BytesFrom, Stray
    <3>2. CASE len # 0
      <4>1. first \in first .. (first + len - 1)
        BY <1>2, <1>3, <3>2
      <4>2. first \in DOMAIN Bytes /\ first <= last
        BY <1>3, <2>1, <3>2, <4>1
      <4>3. last < Half /\ a <= first
        BY <1>2, <1>8, <3>2
      <4>4. first \in Span(seg[n])
        BY <1>8, <2>2, <4>2, <4>3
      <4>5. first + len - 1 \in Int
        BY <1>2, <1>3
      <4>6. first .. (first + len - 1) \subseteq Span(seg[n])
        BY <1>2, <2>1, <2>2, <4>4, <4>5, RunInSegment
      <4>7. first - Start64(seg[n]) + 1 = first - seg[n].start + 1
        BY <1>8, <2>2, <4>4, LowFound DEF CommandPos
      <4>8. len \in Int
        BY <1>3
      <4>9. Read(n, first - seg[n].start + 1, len) = BytesFrom(first, len) /\ ~Stray(BytesFrom(first, len))
        BY <1>2, <2>2, <4>6, <4>8, ReadInside
      <4> QED
        BY <4>3, <4>7, <4>9 DEF bytes
    <3> QED
      BY <3>1, <3>2
  <2> QED
    BY <1>3, <1>5, <1>6, <1>7, <1>8, <2>3, ListLands
<1>9. CASE ~ (InReach(done') /\ a < Half /\ (last < Half \/ len = 0))
  <2>1. ~InReach(done') \/ \E x \in Reach(done') : x >= Half
    <3>1. CASE ~ (a < Half)
      BY <1>2, <1>7, <3>1, ConstantTypes
    <3>2. CASE a < Half /\ ~ (last < Half \/ len = 0)
      <4>1. first + len - 1 \in first .. (first + len - 1) /\ first + len - 1 >= Half
        BY <1>2, <1>3, <3>2, ConstantTypes
      <4> QED
        BY <1>7, <3>2, <4>1
    <3> QED
      BY <1>9, <3>1, <3>2
  <2> QED
    BY <1>6, <2>1, BeyondLands DEF Bytewise!Misaligned, Bytewise!Commands
<1> QED
  BY <1>8, <1>9

(* disasm of a range that is refused,                                      *)
LEMMA DisasmRefusedLands ==
    ASSUME RInv, LaidOut, ~wild, NEW a, NEW arg, Refused("disasm", a, arg)
    PROVE  Bytewise!BNext
<1>1. Quiet /\ done'.op = "disasm" /\ done'.ok = FALSE
  BY RefusedQuiet
<1>2. Bytewise!MayRefuse(done')
  BY <1>1 DEF Bytewise!MayRefuse
<1> QED
  BY <1>1, <1>2, RefuseLands

(* of one that is listed,                                                  *)
LEMMA DisasmRangeLands ==
    ASSUME RInv, LaidOut, ~wild, DisasmRange
    PROVE  Bytewise!BNext
<1>1. PICK a \in Addresses, b \in Addresses : \E n \in NumeroSegment(a), m \in NumeroSegment(b) :
        IF n # 1 \/ m # 1 THEN Refused("disasm", a, <<b>>)
        ELSE Disassemble(a, <<b>>, 1, LastOfRange(a, b))
  BY DEF DisasmRange
<1>2. PICK n \in NumeroSegment(a), m \in NumeroSegment(b) :
        IF n # 1 \/ m # 1 THEN Refused("disasm", a, <<b>>)
        ELSE Disassemble(a, <<b>>, 1, LastOfRange(a, b))
  BY <1>1
<1>3. a \in 0 .. (AddrSpace - 1) /\ b \in 0 .. (AddrSpace - 1) /\ a \in Int /\ b \in Int
  BY ArgumentsAssumption
<1>4. CASE n # 1 \/ m # 1
  BY <1>2, <1>4, DisasmRefusedLands
<1>5. CASE n = 1 /\ m = 1
  <2> DEFINE last == LastOfRange(a, b)
  <2>1. 1 \in 1 .. Len(seg) /\ Size(seg[1]) \in Nat
    BY LaidFacts
  <2>2. last \in Int /\ (last < Half => last <= b)
    BY <1>3, <2>1, ConstantTypes DEF LastOfRange, Signed
  <2>3. Disassemble(a, <<b>>, 1, last) /\ 1 \in NumeroSegment(a)
    BY <1>2, <1>5
  <2> HIDE DEF last
  <2>4. ASSUME last < Half, NEW first \in DOMAIN Bytes, a < Half, a \in Span(seg[1]),
               a <= first, first <= last
        PROVE  first \in Span(seg[1])
    <3>1. 1 # Len(seg)
      BY <2>1, <2>4, LowFound
    <3>2. 2 \in 1 .. Len(seg) /\ b < seg[2].start
      <4>1. 1 \in NumeroSegment(b) /\ 1 # 0
        BY <1>5
      <4>2. b < seg[1 + 1].start
        BY <1>3, <3>1, <4>1, NumeroFrom
      <4>3. Len(seg) \in Nat \ {0}
        BY LaidFacts
      <4>4. \A k \in Nat \ {0} : 1 # k => 2 \in 1 .. k
        OBVIOUS
      <4> QED
        BY <3>1, <4>2, <4>3, <4>4
    <3>3. PICK j \in 1 .. Len(seg) : first \in Span(seg[j])
      BY BytesAt DEF BytesMeet
    <3>4. /\ j = 1 \/ j = 2 \/ 2 < j
          /\ seg[2].start \in Nat /\ Size(seg[2]) \in Nat /\ seg[j].start \in Nat
          /\ 2 < j => seg[2].start + Size(seg[2]) < seg[j].start
      BY <3>2, LaidFacts
    <3>5. first \in Int /\ seg[j].start <= first
      BY <3>3, <3>4, LaidFacts DEF Span
    <3>6. j = 1
      BY <1>3, <2>2, <2>4, <3>2, <3>4, <3>5
    <3> QED
      BY <3>3, <3>6
  <2>5. last < Half => \A first \in DOMAIN Bytes :
            a < Half /\ 1 \in 1 .. Len(seg) /\ a \in Span(seg[1]) /\ a <= first /\ first <= last
                => first \in Span(seg[1])
    BY <2>4
  <2> QED
    BY <1>3, <2>2, <2>3, <2>5, DisassembleLands
<1> QED
  BY <1>4, <1>5

(* of a length,                                                            *)
LEMMA DisasmPlusLands ==
    ASSUME RInv, LaidOut, ~wild, DisasmPlus
    PROVE  Bytewise!BNext
<1>1. PICK a \in Addresses, inc \in Increments : \E n \in NumeroSegment(a) :
        IF n = 0 THEN Refused("disasm", a, <<inc>>)
        ELSE \/ Disassemble(a, <<inc>>, n, LastOfPlus(n, a, inc))
             \/ Lost("disasm", a, <<inc>>)
  BY DEF DisasmPlus
<1>2. PICK n \in NumeroSegment(a) :
        IF n = 0 THEN Refused("disasm", a, <<inc>>)
        ELSE \/ Disassemble(a, <<inc>>, n, LastOfPlus(n, a, inc))
             \/ Lost("disasm", a, <<inc>>)
  BY <1>1
<1>3. a \in 0 .. (AddrSpace - 1) /\ a \in Int /\ inc \in Int
  BY ArgumentsAssumption, ConstantTypes
<1>4. CASE n = 0
  BY <1>2, <1>4, DisasmRefusedLands
<1>5. CASE n # 0 /\ Lost("disasm", a, <<inc>>)
  BY <1>5, DieLands DEF Lost, Answer
<1>6. CASE n # 0 /\ Disassemble(a, <<inc>>, n, LastOfPlus(n, a, inc))
  <2> DEFINE st == seg[n].start
             sz == Size(seg[n])
             last == LastOfPlus(n, a, inc)
  <2>1. n \in 1 .. Len(seg) /\ st \in Nat /\ sz \in Nat
    BY <1>3, <1>6, NumeroFrom, LaidFacts
  <2>2. last \in Int /\ (a < Half /\ a <= st + sz => last <= st + sz)
    <3> DEFINE sum == Wrap(a + (inc - (inc % 4)))
               room == st + sz - a
    <3>1. sum \in Int /\ Wrap(room) \in Int
      BY <1>3, <2>1, ConstantTypes DEF Wrap
    <3>2. Signed(sum) \in Int /\ Signed(a) \in Int /\ (a < Half => Signed(a) = a)
      <4> HIDE DEF sum
      <4> QED
        BY <1>3, <3>1, ConstantTypes DEF Signed
    <3>3. a <= st + sz => Wrap(room) = room
      <4> HIDE DEF st, sz
      <4>1. st + sz < AddrSpace
        BY <2>1, LaidFacts DEF st, sz
      <4> QED
        BY <1>3, <2>1, <4>1, ConstantTypes, WrapSmall
    <3>4. last = IF Signed(sum) - 1 > Signed(a) + Wrap(room) THEN Signed(a) + Wrap(room)
                 ELSE Signed(sum) - 1
      BY DEF LastOfPlus
    <3> HIDE DEF sum, st, sz, last
    <3>5. last \in Int /\ last <= Signed(a) + Wrap(room)
      <4> HIDE DEF room
      <4> QED
        BY <3>1, <3>2, <3>4
    <3> QED
      BY <1>3, <2>1, <3>2, <3>3, <3>5
  <2>3. ASSUME NEW first \in DOMAIN Bytes, a < Half, a \in Span(seg[n]), a <= first, first <= last
        PROVE  first \in Span(seg[n])
    <3>1. PICK j \in 1 .. Len(seg) : first \in Span(seg[j])
      BY BytesAt DEF BytesMeet
    <3>2. first \in Int
      BY <3>1, LaidFacts DEF Span
    <3>3. first # st + sz
      BY <2>1, <3>1, <3>2, OneSegment
    <3>4. st <= a /\ a <= st + sz
      BY <2>1, <2>3 DEF Span
    <3>5. st <= first /\ first <= st + sz - 1
      <4> HIDE DEF st, sz, last
      <4> QED
        BY <1>3, <2>1, <2>2, <2>3, <3>2, <3>3, <3>4
    <3> QED
      BY <2>1, <3>2, <3>5 DEF Span
  <2> HIDE DEF st, sz, last
  <2>4. Disassemble(a, <<inc>>, n, last)
    BY <1>6 DEF last
  <2>5. last < Half => \A first \in DOMAIN Bytes :
            a < Half /\ n \in 1 .. Len(seg) /\ a \in Span(seg[n]) /\ a <= first /\ first <= last
                => first \in Span(seg[n])
    BY <2>3
  <2> QED
    BY <1>3, <2>2, <2>4, <2>5, DisassembleLands
<1> QED
  BY <1>2, <1>4, <1>5, <1>6

-----------------------------------------------------------------------------
(* The instructions find every address that exists.                        *)
LEMMA LoadLands ==
    ASSUME RInv, LaidOut, ~wild, NEW op \in {"LB", "LW"}, NEW a \in 0 .. (AddrSpace - 1),
           op = "LW" => a % 4 = 0, NEW len \in Nat, len = (IF op = "LB" THEN 1 ELSE 4),
           Load(op, a, len)
    PROVE  Bytewise!BNext
<1> DEFINE n == LoadmemSegment(a)
           bytes == IF n = 0 THEN [j \in 1 .. len |-> 0] ELSE Read(n, CpuPos(n, a), len)
<1>1. Reads(op, a, <<>>, bytes, {TRUE})
  BY DEF Load
<1> HIDE DEF bytes
<1>2. /\ Quiet \/ wild'
      /\ ~Stray(bytes) => Quiet
      /\ done'.op = op /\ done'.a = a /\ done'.bytes = bytes
  BY <1>1, ReadsQuiet
<1>3. a \in Int /\ a + len - 1 \in Int /\ a \in a .. (a + len - 1)
  OBVIOUS
<1>4. Reach(done') = a .. (a + len - 1) /\ ~Bytewise!Misaligned(done')
  <2>1. CASE op = "LB"
    BY <1>2, <1>3, <2>1 DEF Reach, Bytewise!Extent, Bytewise!Misaligned
  <2>2. CASE op = "LW"
    BY <1>2, <1>3, <2>2 DEF Reach, Bytewise!Extent, Bytewise!Misaligned
  <2> QED
    BY <2>1, <2>2
<1>5. CASE InReach(done')
  <2>1. a .. (a + len - 1) \subseteq DOMAIN Bytes /\ a \in DOMAIN Bytes
    BY <1>3, <1>4, <1>5 DEF InReach
  <2>2. PICK i \in 1 .. Len(seg) : a \in Span(seg[i])
    BY <2>1, BytesAt DEF BytesMeet
  <2>3. n = i /\ i # 0
    BY <2>2, LoadmemOfSpan, LaidFacts DEF RInv
  <2>4. a .. (a + len - 1) \subseteq Span(seg[i])
    BY <1>3, <2>1, <2>2, RunInSegment
  <2>5. len \in Int
    OBVIOUS
  <2>6. Read(i, a - seg[i].start + 1, len) = BytesFrom(a, len) /\ ~Stray(BytesFrom(a, len))
    BY <1>3, <2>4, <2>5, ReadInside
  <2>7. bytes = BytesFrom(a, len)
    BY <2>3, <2>6 DEF bytes, CpuPos
  <2>8. done'.bytes = BytesFrom(done'.a, IF done'.op = "LB" THEN 1
                                         ELSE IF done'.op = "LW" THEN 4
                                         ELSE done'.arg[1] - done'.a + 1)
    BY <1>2, <2>7
  <2> QED
    BY <1>2, <1>4, <1>5, <2>6, <2>7, <2>8, GetLands
<1>6. CASE ~InReach(done')
  BY <1>2, <1>4, <1>6, BeyondLands
<1> QED
  BY <1>5, <1>6

(* a store,                                                                *)
LEMMA StoreLands ==
    ASSUME RInv, LaidOut, ~wild, NEW op \in {"SB", "SW"}, NEW a \in 0 .. (AddrSpace - 1),
           op = "SW" => a % 4 = 0, NEW bytes \in Seq(Byte), Len(bytes) >= 1,
           \A j \in 1 .. Len(bytes) : bytes[j] = bytes[j] % ByteRange,
           Store(op, a, bytes)
    PROVE  Bytewise!BNext
<1> DEFINE n == LoadmemSegment(a)
<1>1. n \in 0 .. Len(seg) /\ Len(seg) \in Nat
  BY LoadmemSegmentRange, LaidFacts DEF RInv, MInv
<1>2. \A i \in 1 .. Len(seg) : a \in Span(seg[i]) => n = i
  BY LoadmemOfSpan DEF RInv
<1>3. CASE n = 0
  <2>1. Quiet /\ done'.op = op /\ done'.a = a /\ done'.arg = bytes
    BY <1>3, RefusedQuiet DEF Store
  <2>2. ~Bytewise!Misaligned(done') /\ a \in Reach(done')
    BY <2>1 DEF Reach, Bytewise!Extent, Bytewise!Misaligned
  <2>3. a \notin DOMAIN Bytes
    <3> SUFFICES ASSUME a \in DOMAIN Bytes
                 PROVE  FALSE
      OBVIOUS
    <3>1. PICK i \in 1 .. Len(seg) : a \in Span(seg[i])
      BY BytesAt DEF BytesMeet
    <3> QED
      BY <1>1, <1>2, <1>3, <3>1
  <2>4. ~InReach(done')
    BY <2>2, <2>3 DEF InReach
  <2> QED
    BY <2>1, <2>2, <2>4, BeyondLands
<1>4. CASE n # 0
  <2>1. n \in 1 .. Len(seg) /\ seg[n].start \in Nat
    BY <1>1, <1>4, LaidFacts
  <2> HIDE DEF n
  <2>2. Writes(op, a, bytes, n, CpuPos(n, a), bytes)
    BY <1>4 DEF Store, n
  <2>3. CpuPos(n, a) = a - seg[n].start + 1 /\ CpuPos(n, a) \in Int
    BY <2>1 DEF CpuPos
  <2>4. op \in {"set", "SB", "SW"} /\ op # "set"
    OBVIOUS
  <2> QED
    BY <1>2, <2>1, <2>2, <2>3, <2>4, WriteLands
<1> QED
  BY <1>3, <1>4

(* a store or a load off a boundary,                                       *)
LEMMA MisalignedLands ==
    ASSUME RInv, LaidOut, ~wild, NEW op \in {"LW", "SW"}, NEW a \in 0 .. (AddrSpace - 1),
           a % 4 # 0, NEW arg, Refused(op, a, arg)
    PROVE  Bytewise!BNext
<1>1. Quiet /\ done'.op = op /\ done'.a = a /\ done'.ok = FALSE
  BY RefusedQuiet
<1>2. Bytewise!MayRefuse(done')
  BY <1>1 DEF Bytewise!MayRefuse, Bytewise!Misaligned
<1> QED
  BY <1>1, <1>2, RefuseLands

(* any instruction.                                                        *)
LEMMA InstructionLands ==
    ASSUME RInv, LaidOut, ~wild, Instruction
    PROVE  Bytewise!BNext
<1>1. \A a \in Addresses : a \in 0 .. (AddrSpace - 1)
  BY ArgumentsAssumption
<1>2. CASE LoadByte
  <2>1. PICK a \in Addresses : Load("LB", a, 1)
    BY <1>2 DEF LoadByte
  <2> QED
    BY <1>1, <2>1, LoadLands
<1>3. CASE LoadWord
  <2>1. PICK a \in Addresses : IF a % 4 # 0 THEN Refused("LW", a, <<>>) ELSE Load("LW", a, 4)
    BY <1>3 DEF LoadWord
  <2>2. CASE a % 4 # 0
    BY <1>1, <2>1, <2>2, MisalignedLands
  <2>3. CASE ~ (a % 4 # 0)
    BY <1>1, <2>1, <2>3, LoadLands
  <2> QED
    BY <2>2, <2>3
<1>4. CASE StoreByte
  <2>1. PICK a \in Addresses, b \in Byte : Store("SB", a, <<b>>)
    BY <1>4 DEF StoreByte
  <2>2. <<b>> \in Seq(Byte) /\ Len(<<b>>) = 1
    OBVIOUS
  <2>3. b % ByteRange = b
    BY SizesAssumption, SmallMod DEF Byte
  <2>4. \A j \in 1 .. Len(<<b>>) : <<b>>[j] = <<b>>[j] % ByteRange
    BY <2>2, <2>3
  <2>5. Len(<<b>>) >= 1
    BY <2>2
  <2> QED
    BY <1>1, <2>1, <2>2, <2>4, <2>5, StoreLands
<1>5. CASE StoreWord
  <2>1. PICK a \in Addresses, w \in Words :
            IF a % 4 # 0 THEN Refused("SW", a, w) ELSE Store("SW", a, w)
    BY <1>5 DEF StoreWord
  <2>2. w \in Seq(Byte) /\ Len(w) >= 1 /\ \A j \in 1 .. Len(w) : w[j] = w[j] % ByteRange
    BY WordFacts
  <2>3. CASE a % 4 # 0
    BY <1>1, <2>1, <2>3, MisalignedLands
  <2>4. CASE ~ (a % 4 # 0)
    BY <1>1, <2>1, <2>2, <2>4, StoreLands
  <2> QED
    BY <2>3, <2>4
<1> QED
  BY <1>2, <1>3, <1>4, <1>5 DEF Instruction

-----------------------------------------------------------------------------
(* The virtual memory implements the byte store, whatever the sizes of the *)
(* address space, pages, sections and files, and wherever load was asked   *)
(* to start (mem.c, commande.c:1220, asm.c:387-467).                       *)
THEOREM ByteStoreImplemented == MSpec => ImplementsByteStore
<1>1. MInit => Bytewise!BInit
  BY DEF MInit, LaidOut, Bytewise!BInit
<1>2. RInv /\ [MNext]_mvars => [Bytewise!BNext]_(Bytewise!bvars)
  <2> SUFFICES ASSUME RInv, [MNext]_mvars
               PROVE  Bytewise!BNext \/ UNCHANGED Bytewise!bvars
    OBVIOUS
  <2>1. CASE UNCHANGED mvars
    <3>1. UNCHANGED <<seg, phase, base, done, wild>>
      BY <2>1 DEF mvars
    <3>2. LaidOut' = LaidOut /\ Bytes' = Bytes
      BY <3>1 DEF LaidOut, Roomy, Bytes, Span, Size
    <3> QED
      BY <3>1, <3>2 DEF Bytewise!bvars
  <2>2. CASE StartLoad
    <3>1. done'.op = "load"
      BY <2>2 DEF StartLoad, Answer
    <3> QED
      BY <3>1 DEF Bytewise!BNext
  <2>3. CASE LoadSection \/ AttachStack
    <3>1. done'.op = "load"
      BY <2>3 DEF LoadSection, AttachStack, RInv, LoadAnswers
    <3> QED
      BY <3>1 DEF Bytewise!BNext
  <2>4. CASE (Command \/ Instruction) /\ ~LaidOut
    <3>1. SameLayout
      BY <2>4, CommandStep, InstructionStep DEF RInv, MInv
    <3>2. phase = "ready"
      BY <2>4 DEF Command, SetByte, SetWord, AssertByte, AssertWord, DispMem, DisasmRange,
          DisasmPlus, Instruction, LoadByte, LoadWord, StoreByte, StoreWord, Ready
    <3>3. Len(seg) \in 1 .. Len(seg)
      BY <3>2, SegmentFacts DEF RInv
    <3>4. ~LaidOut'
      BY <2>4, <3>1, <3>3 DEF SameLayout, LaidOut, Roomy
    <3> QED
      BY <2>4, <3>4 DEF Bytewise!BNext
  <2>5. CASE (Command \/ Instruction) /\ LaidOut
    <3>1. ~wild
      BY <2>5 DEF Command, SetByte, SetWord, AssertByte, AssertWord, DispMem, DisasmRange,
          DisasmPlus, Instruction, LoadByte, LoadWord, StoreByte, StoreWord, Ready
    <3>2. CASE Command
      BY <2>5, <3>1, <3>2, SetByteLands, SetWordLands, AssertByteLands, AssertWordLands,
         DispLands, DisasmRangeLands, DisasmPlusLands DEF Command
    <3>3. CASE Instruction
      BY <2>5, <3>1, <3>3, InstructionLands
    <3> QED
      BY <2>5, <3>2, <3>3
  <2> QED
    BY <2>1, <2>2, <2>3, <2>4, <2>5 DEF MNext
<1>3. MSpec => []RInv
  BY RInvInit, RInvStep, PTL DEF MSpec
<1> QED
  BY <1>1, <1>2, <1>3, PTL DEF MSpec, ImplementsByteStore, Bytewise!BSpec
=============================================================================
