------------------------------ MODULE MCMemory ------------------------------
(***************************************************************************)
(* Instances of Memory for TLC: two sections, pages of eight bytes, bytes  *)
(* of one bit.                                                             *)
(***************************************************************************)
EXTENDS Memory

(* Empty, part of a page, one full page.                                   *)
MCContents == {<<>>, <<0, 0, 0, 0, 0>>, <<0, 0, 0, 0, 0, 0, 0, 0>>}

(* Rounded down to 8; and where the stack is.                              *)
MCLoadAddresses == {11, 104}

(* The first byte and the end of a section in each layout, an address in a *)
(* gap, one that is not aligned, INT_MAX and an address of the upper half  *)
(* in the gap before the stack, and the stack.                             *)
MCAddresses == {8, 12, 13, 16, 24, 63, 80, 104}
MCWords == {<<0, 1, 1, 1>>}
MCByteArgs == {-1, 0, 1, 2, 3}
MCIncrements == {6, 24}

(* No guard reads done, and TLC checks ImplementsByteStore on every step,  *)
(* so states that differ in done alone are explored once.                  *)
MCView == <<seg, phase, base, section, next, wild>>
=============================================================================
