------------------------------ MODULE MCLoader ------------------------------
(***************************************************************************)
(* An instance of Loader for TLC: words of eight bits with halves of four, *)
(* pages of two words, and object files as the assembler writes them.      *)
(***************************************************************************)
EXTENDS Loader

Section(name, body) == [name |-> name, bits |-> TRUE, cut |-> FALSE, body |-> body]
Sym(name, type, shndx) == [name |-> name, type |-> type, shndx |-> shndx]
Rel(offset, sym, type) == [offset |-> offset, sym |-> sym, type |-> type]

(* relocation.o: five words of text, two of data, and what else it has.    *)
File(text, relText, relData, bss, extra, symbols) ==
    [class |-> 32, shstrndx |-> 7,
     sections |-> <<Section(<<"text">>, text), Section(<<"rel", "text">>, relText),
                    Section(<<"data">>, <<7, 4>>), Section(<<"rel", "data">>, relData),
                    [Section(<<"bss">>, bss) EXCEPT !.bits = FALSE],
                    Section(<<"reginfo">>, <<1>>), Section(<<"shstrtab">>, <<>>),
                    Section(<<"symtab">>, <<>>), Section(<<"strtab">>, <<>>)>> \o extra,
     symbols |-> <<Sym(<<>>, "notype", 0), Sym(<<"text">>, "section", 1),
                   Sym(<<"data">>, "section", 3), Sym(<<"bss">>, "section", 5),
                   Sym(<<"reginfo">>, "section", 6)>> \o symbols]
Main == <<Sym(<<"main">>, "function", 1)>>
RodataSym == <<Sym(<<"rodata">>, "section", 10)>>

(* A jump, and an address in two halves.                                   *)
Jump(a) == 96 + a
Hi(a) == 48 + a
Lo(a) == 160 + a
Text(a, hi, lo) == <<Jump(a), Hi(hi), Lo(lo), Lo(12), 5>>
ForText == <<Rel(0, 1, "26"), Rel(4, 2, "HI16"), Rel(8, 2, "LO16")>>
ForData == <<Rel(4, 2, "32")>>

(* What the text may be: near and far targets, small and large addends.    *)
Addends ==
    {File(Text(a, hi, lo), ForText, ForData, bss, <<>>, Main) :
        a \in {1, 4}, hi \in {0, 1}, lo \in {0, 4, 12}, bss \in {<<>>, <<0>>}}

(* What the entries may be: halves apart or in the other order, symbols of *)
(* other sections and of none, and a type that is not supported.           *)
EntryLists ==
    {<<Rel(4, 2, "HI16"), Rel(12, 2, "LO16")>>, <<Rel(8, 2, "LO16"), Rel(4, 2, "HI16")>>,
     <<Rel(4, 1, "32"), Rel(8, 3, "32")>>, <<Rel(16, 2, "HI16")>>, <<Rel(0, 4, "26")>>,
     <<Rel(0, 5, "26")>>, <<Rel(0, 5, "GPREL16")>>, <<Rel(4, 2, "LO16")>>, <<Rel(0, 2, "GPREL16")>>}
Relocations ==
    {File(Text(1, 0, 4), es, ForData, <<>>, <<>>, symbols) :
        es \in EntryLists, symbols \in {Main, <<Sym(<<"local">>, "tls", 1)>>}}

(* A .rodata, which comes last in a file and second in memory.             *)
Rodata(name) == <<Section(name, <<9>>)>>
ReadOnly ==
    {File(Text(1, 0, 4), es, ForData, <<>>, Rodata(<<"rodata">>), RodataSym) :
        es \in {ForText, <<Rel(0, 1, "26"), Rel(4, 5, "32")>>}}
        \cup {File(Text(1, 0, 4), ForText, ForData, <<>>, Rodata(<<"rodata", "str1">>), symbols) :
                symbols \in {Main, RodataSym, <<Sym(<<"rodata", "str1">>, "section", 10)>>}}

(* Sections with longer names first, without the ones of a program.        *)
Longer ==
    LET f == File(Text(1, 0, 4), ForText, ForData, <<>>, <<>>, Main)
    IN  {[f EXCEPT !.sections[i].name = Append(@, "hot")] : i \in {1, 2, 3}}

(* Files that end within a section, are not of 32 bits, or lack tables.    *)
Damaged ==
    LET f == CHOOSE f \in ReadOnly : f.sections[10].name = <<"rodata">>
    IN  {[f EXCEPT !.sections[i].cut = TRUE] : i \in {1, 2, 3, 7, 8, 9, 10}}
        \cup {[f EXCEPT !.class = 64], [f EXCEPT !.shstrndx = 0], [f EXCEPT !.symbols = <<>>],
              [f EXCEPT !.symbols = [k \in DOMAIN @ |-> [@[k] EXCEPT !.name = <<>>]]]}

MCFiles == Addends \cup Relocations \cup ReadOnly \cup Longer \cup Damaged
=============================================================================
