-------------------------------- MODULE Words --------------------------------
(***************************************************************************)
(* Machine words as int32_t holds them: integers from -Half to Half - 1,   *)
(* in two's complement, and the conversions and bit operations of C.       *)
(***************************************************************************)
EXTENDS Integers

CONSTANTS
    WordBits,   \* 32
    WordSize,   \* 2^32
    HalfBits,   \* width of an immediate: 16
    ByteBits,   \* 8
    RegionBits  \* bits of the pc that a J keeps: 4

Half == WordSize \div 2
SWord == -Half .. (Half - 1)
BitNumbers == 0 .. (WordBits - 1)
HalfSize == 2^HalfBits
SHalf == -(HalfSize \div 2) .. (HalfSize \div 2 - 1)
ByteSize == 2^ByteBits

(* Bit k, 0 the lowest, of an integer in two's complement.                 *)
Bit(x, k) == (x \div 2^k) % 2

ASSUME WidthsAssumption ==
    /\ WordSize \in Nat /\ WordSize >= 4 /\ WordSize % 2 = 0
    /\ WordBits \in Nat /\ HalfBits \in Nat /\ ByteBits \in Nat /\ RegionBits \in Nat
    /\ RegionBits < WordBits
    /\ \A k \in 0 .. WordBits : 2^k \in Nat \ {0}
    /\ 2^HalfBits \in Nat \ {0} /\ 2^HalfBits <= WordSize /\ 2^ByteBits \in Nat \ {0}

ASSUME PowersAssumption == 2^0 = 1 /\ \A k \in 0 .. (WordBits - 1) : 2^(k + 1) = 2 * 2^k

(* Every pattern of WordBits bits is a word.                               *)
ASSUME PatternsAssumption ==
    \A f \in [BitNumbers -> 0 .. 1] : \E z \in SWord : \A k \in BitNumbers : Bit(z, k) = f[k]

(* Conversions to uint32_t, to uint64_t and to int32_t.                    *)
Unsigned(x) == x % WordSize
Unsigned64(x) == x % (WordSize * WordSize)
ToInt(x) == ((x + Half) % WordSize) - Half

(* The bits from start to stop of a word, shifted down: never negative.    *)
getbits(u, start, stop) == (Unsigned(u) \div 2^start) % 2^(stop - start + 1)

WordOf(f) == CHOOSE z \in SWord : \A k \in BitNumbers : Bit(z, k) = f[k]
And(x, y) == WordOf([k \in BitNumbers |-> Bit(x, k) * Bit(y, k)])
Or(x, y) == WordOf([k \in BitNumbers |-> IF Bit(x, k) = 1 THEN 1 ELSE Bit(y, k)])
Xor(x, y) == WordOf([k \in BitNumbers |-> IF Bit(x, k) = Bit(y, k) THEN 0 ELSE 1])

(* Division of C, towards zero.                                            *)
Abs(x) == IF x < 0 THEN -x ELSE x
Quotient(x, y) ==
    IF (x < 0) = (y < 0) THEN Abs(x) \div Abs(y) ELSE -(Abs(x) \div Abs(y))
Remainder(x, y) == x - y * Quotient(x, y)
=============================================================================
