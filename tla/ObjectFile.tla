----------------------------- MODULE ObjectFile -----------------------------
(***************************************************************************)
(* What the ELF reader extracts from an object file.  A file is            *)
(*   [class    |-> 32 or 64,                                               *)
(*    shstrndx |-> the section with the names of sections, 0 for none,     *)
(*    sections |-> sequence of [name, bits, cut, body],                    *)
(*    symbols  |-> what .symtab holds: sequence of [name, type, shndx]]    *)
(* where a name is the sequence of its dotted parts, bits is FALSE for     *)
(* SHT_NOBITS, cut says that the file ends within the section, and a body  *)
(* is a sequence of words, or of relocation entries [offset, sym, type].   *)
(* Symbol number k is at k + 1.                                            *)
(***************************************************************************)
EXTENDS Integers, SequencesExt

(* The sections of a program, in the order load looks for them.            *)
SectionNames == << <<"text">>, <<"rodata">>, <<"data">>, <<"bss">> >>

(* The sections that strncmp takes for name: those it is a prefix of.      *)
Matches(f, name) == {i \in DOMAIN f.sections : IsPrefix(name, f.sections[i].name)}

(* The names of sections can be read.                                      *)
elf_extract_section_names(f) ==
    f.shstrndx # 0 /\ f.sections # <<>> /\ ~f.sections[f.shstrndx].cut

(* The first section that is taken for name, 0 for NULL.                   *)
elf_extract_scn_by_name(f, name) ==
    IF ~elf_extract_section_names(f) \/ Matches(f, name) = {} THEN 0
    ELSE LET i == CHOOSE i \in Matches(f, name) : \A j \in Matches(f, name) : i <= j
         IN  IF f.sections[i].cut THEN 0 ELSE i

elf_extract_symbol_table(f) ==
    IF elf_extract_scn_by_name(f, <<"symtab">>) = 0 THEN <<>> ELSE f.symbols

(* The type of a symbol: one that is not known gets that of the symbol     *)
(* before.                                                                 *)
KnownTypes == {"notype", "object", "function", "section", "file"}
TypeOf(f, k) ==
    LET known == {j \in 1 .. k : f.symbols[j].type \in KnownTypes}
    IN  IF known = {} THEN "any"
        ELSE f.symbols[CHOOSE j \in known : \A l \in known : l <= j].type

(* A section symbol without a name gets some text of .strtab, which holds  *)
(* no name of a section then.                                              *)
SomeText == <<"?">>
NameOf(f, k) ==
    IF TypeOf(f, k) = "section" /\ f.symbols[k].name = <<>> THEN SomeText
    ELSE f.symbols[k].name

(* The table of symbols; fresh is FALSE when it is the one that has been   *)
(* freed: the file is not of 32 bits, or lacks a table of strings.         *)
Table(fresh, syms) == [fresh |-> fresh, syms |-> syms]
new_sym32(f, k) == [name |-> NameOf(f, k), type |-> TypeOf(f, k)]
elf_load_symtab(f) ==
    LET raw == elf_extract_symbol_table(f)
    IN  IF f.class # 32 THEN Table(FALSE, <<>>)
        ELSE IF raw = <<>> THEN Table(TRUE, <<>>)
        ELSE IF \E s \in {"strtab", "shstrtab"} : elf_extract_scn_by_name(f, <<s>>) = 0
        THEN Table(FALSE, <<>>)
        ELSE Table(TRUE, [k \in DOMAIN raw |-> new_sym32(f, k)])

is_in_symbols(name, symtab) == \E k \in DOMAIN symtab.syms : symtab.syms[k].name = name

get_nsegments(symtab) ==
    Cardinality({i \in DOMAIN SectionNames : is_in_symbols(SectionNames[i], symtab)})

(* The relocation entries for the section called name.                     *)
EntriesFor(f, name) ==
    LET i == elf_extract_scn_by_name(f, <<"rel">> \o name)
    IN  IF i = 0 THEN <<>> ELSE f.sections[i].body
=============================================================================
