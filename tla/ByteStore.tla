------------------------------ MODULE ByteStore ------------------------------
(***************************************************************************)
(* What the virtual memory promises, without segments: a function from     *)
(* the addresses that exist to bytes, which the debugger's commands and    *)
(* the program's instructions share.  While wild, nothing is promised.     *)
(***************************************************************************)
EXTENDS Integers, Sequences

CONSTANTS AddrSpace, ByteRange

Byte == 0 .. (ByteRange - 1)
Half == AddrSpace \div 2
Signed(a) == IF a >= Half THEN a - AddrSpace ELSE a
Commands == {"set", "assert", "disp", "disasm"}

VARIABLES
    store,      \* the bytes, a function from the addresses that exist
    done,       \* the last operation: [op, a, arg, bytes, ok]
    wild
bvars == <<store, done, wild>>

BInit == wild = TRUE

At(a, n) == [k \in 1 .. n |-> store[a + k - 1]]

(* The addresses an operation is about.  disasm shows whole words; the     *)
(* bounds of disp are ints, so the upper half comes before the lower.      *)
FirstWord(d) == d.a + ((-d.a) % 4)
Extent(d) ==
    CASE d.op = "LB" -> {d.a}
      [] d.op = "LW" -> d.a .. (d.a + 3)
      [] d.op = "disp" ->
            {x \in 0 .. (AddrSpace - 1) : Signed(d.a) <= Signed(x) /\ Signed(x) <= Signed(d.arg[1])}
      [] d.op = "disasm" -> {d.a} \cup (FirstWord(d) .. (FirstWord(d) + Len(d.bytes) - 1))
      [] OTHER -> d.a .. (d.a + Len(d.arg) - 1)
Exists(d) == Extent(d) \subseteq DOMAIN store

(* Instructions do not move a word across a word boundary, disp wants its  *)
(* bounds in order, set refuses what is too big and disasm may refuse what *)
(* is not .text.                                                           *)
Misaligned(d) == d.op \in {"LW", "SW"} /\ d.a % 4 # 0
MayRefuse(d) ==
    \/ Misaligned(d) \/ d.op = "disasm"
    \/ d.op = "disp" /\ Signed(d.a) > Signed(d.arg[1])
    \/ d.op = "set" /\ \E k \in DOMAIN d.arg : d.arg[k] > ByteRange
Refuse(d) == MayRefuse(d) /\ ~d.ok /\ UNCHANGED <<store, wild>>

Put(d) ==
    /\ d.op \in {"set", "SB", "SW"} /\ ~Misaligned(d) /\ Exists(d) /\ d.ok
    /\ store' = [x \in DOMAIN store |->
            IF x \in Extent(d) THEN d.arg[x - d.a + 1] % ByteRange ELSE store[x]]
    /\ UNCHANGED wild

Get(d) ==
    /\ d.op \in {"LB", "LW", "disp"} /\ ~Misaligned(d) /\ Exists(d)
    /\ d.bytes = At(d.a, IF d.op = "LB" THEN 1 ELSE IF d.op = "LW" THEN 4 ELSE d.arg[1] - d.a + 1)
    /\ UNCHANGED <<store, wild>>

List(d) ==
    /\ d.op = "disasm" /\ Exists(d) /\ d.ok
    /\ Len(d.bytes) % 4 = 0 /\ d.bytes = At(FirstWord(d), Len(d.bytes))
    /\ UNCHANGED <<store, wild>>

(* disasm may also end the process.                                        *)
Die(d) == d.op = "disasm" /\ wild'

(* assert compares with its argument as it was written.                    *)
Test(d) ==
    /\ d.op = "assert" /\ Exists(d)
    /\ d.ok = (d.arg = At(d.a, Len(d.arg)))
    /\ UNCHANGED <<store, wild>>

(* An access to an address that does not exist answers anything, and       *)
(* leaves the bytes that exist alone or the whole memory wild.  Commands   *)
(* do the same in the upper half, where the stack is.                      *)
Beyond(d) ==
    /\ d.op # "load" /\ ~Misaligned(d)
    /\ ~Exists(d) \/ (d.op \in Commands /\ \E a \in Extent(d) : a >= Half)
    /\ wild' \/ UNCHANGED <<store, wild>>

BNext ==
    \/ done'.op = "load"
    \/ wild /\ wild'
    \/ ~wild /\ (\/ Refuse(done') \/ Put(done') \/ Get(done') \/ List(done') \/ Die(done')
                 \/ Test(done') \/ Beyond(done'))

BSpec == BInit /\ [][BNext]_bvars
=============================================================================
