------------------------------- MODULE Linker -------------------------------
(***************************************************************************)
(* What the MIPS ABI makes of an object file: the sections of a program,   *)
(* one after the other, with every relocation done.  The abstract          *)
(* specification of Loader.  Files are those of ObjectFile.                *)
(***************************************************************************)
EXTENDS Words, FiniteSetsExt, SequencesExt

CONSTANT Page

(* The number of the section that has this very name, 0 if none.           *)
SectionNamed(f, name) ==
    IF \E i \in DOMAIN f.sections : f.sections[i].name = name
    THEN CHOOSE i \in DOMAIN f.sections : f.sections[i].name = name
    ELSE 0
BodyOf(f, name) ==
    IF SectionNamed(f, name) = 0 THEN <<>> ELSE f.sections[SectionNamed(f, name)].body

(* Sections of the names in order, each on pages of its own with a gap.    *)
Room(f, name) ==
    IF SectionNamed(f, name) = 0 THEN 0
    ELSE LET size == 4 * Len(BodyOf(f, name)) + Page IN size - (size % Page)
Place(f, base, order, n) ==
    base + MapThenSumSet(LAMBDA m : Room(f, order[m]), 1 .. (n - 1))

(* The address a relocation entry is about: that of a section.             *)
SymbolAt(f, base, order, e) ==
    LET shndx == f.symbols[e.sym + 1].shndx
        n     == CHOOSE n \in DOMAIN order : order[n] = f.sections[shndx].name
    IN  Place(f, base, order, n)

(* The LO16 that completes entry n, a HI16: the next one of its symbol.    *)
Completes(es, n) == {m \in (n + 1) .. Len(es) : es[m].type = "LO16" /\ es[m].sym = es[n].sym}
Completion(es, n) == CHOOSE m \in Completes(es, n) : \A l \in Completes(es, n) : m <= l

TargetSize == 2^(WordBits - RegionBits - 2)
High(w) == w - (w % HalfSize)
Signed(h) == IF 2 * h >= HalfSize THEN h - HalfSize ELSE h
Within(p, a) == p - (p % (4 * TargetSize)) + a

(* The word of entry n, the n-th of es, at address p of the body it is in; *)
(* s is the address of its symbol.                                         *)
Link(es, n, body, p, s) ==
    LET w       == body[es[n].offset \div 4 + 1]
        lo      == body[es[Completion(es, n)].offset \div 4 + 1] % HalfSize
        addend  == (w % HalfSize) * HalfSize + Signed(lo)
        sum     == Unsigned(addend + s)
    IN  CASE es[n].type = "32"   -> Unsigned(w + s)
          [] es[n].type = "26"   ->
                w - (w % TargetSize)
                  + (((Within(p, 4 * (w % TargetSize)) + s) \div 4) % TargetSize)
          [] es[n].type = "HI16" ->
                High(w) + (((sum - Signed(sum % HalfSize)) \div HalfSize) % HalfSize)
          [] es[n].type = "LO16" -> High(w) + ((w + s) % HalfSize)

(* The section of a program that has a name, relocated.                    *)
Linked(f, base, order, k) ==
    LET name == order[k]
        es   == BodyOf(f, <<"rel">> \o name)
        body == BodyOf(f, name)
        p(n) == Place(f, base, order, k) + es[n].offset
        At(j) == {n \in DOMAIN es : es[n].offset = 4 * (j - 1)}
    IN  [j \in DOMAIN body |->
            IF At(j) = {} THEN body[j]
            ELSE LET n == CHOOSE n \in At(j) : TRUE
                 IN  Link(es, n, body, p(n), SymbolAt(f, base, order, es[n]))]
=============================================================================
