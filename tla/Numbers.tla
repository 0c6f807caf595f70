------------------------------- MODULE Numbers -------------------------------
(***************************************************************************)
(* Facts about numbers that the proofs share: what the CHOOSE of a first or*)
(* a last position finds in the loops of the program, and division with    *)
(* remainder, which words are reduced by.                                  *)
(***************************************************************************)
EXTENDS Integers, WellFoundedInduction, TLAPS

(* A nonempty set of positions has a least one: what makes the CHOOSE of a *)
(* first match (find_by_add, numero_segment) the one the loop stops at.    *)
LEMMA LeastPosition ==
    ASSUME NEW T \in SUBSET Nat, T # {}
    PROVE  \E m \in T : \A j \in T : ~ (j < m)
<1> DEFINE R == OpToRel(<, Nat)
<1>1. IsWellFoundedOn(R, Nat)
  BY NatLessThanWellFounded
<1>2. \A y, x \in Nat : y < x => <<y, x>> \in R
  BY DEF OpToRel
<1> HIDE DEF R
<1>3. PICK x \in T : \A y \in T : ~ (<<y, x>> \in R)
  BY <1>1, WFMin
<1> QED
  BY <1>2, <1>3

(* A nonempty set of positions of a sequence has a greatest one: what      *)
(* makes the CHOOSE of a last match (loadmem, storemem) the one the loop   *)
(* ends with.                                                              *)
LEMMA GreatestPosition ==
    ASSUME NEW N \in Nat, NEW T \in SUBSET (1 .. N), T # {}
    PROVE  \E m \in T : \A j \in T : j <= m
<1> DEFINE U == {k \in 0 .. N : N - k \in T}
<1>1. U \in SUBSET Nat
  OBVIOUS
<1>2. \A j \in T : N - j \in U
  OBVIOUS
<1>3. PICK u \in U : \A k \in U : ~ (k < u)
  BY <1>1, <1>2, LeastPosition
<1>4. \A j \in T : j <= N - u
  BY <1>2, <1>3
<1> QED
  BY <1>3, <1>4

-----------------------------------------------------------------------------
(* Division with remainder.                                                *)
LEMMA DivMod ==
    ASSUME NEW M \in Nat \ {0}, NEW x \in Int
    PROVE  /\ x \div M \in Int /\ x % M \in 0 .. (M - 1)
           /\ x = M * (x \div M) + (x % M)
OBVIOUS

(* The remainder is the only one in range.                                 *)
LEMMA ModUnique ==
    ASSUME NEW M \in Nat \ {0}, NEW q \in Int, NEW r \in 0 .. (M - 1)
    PROVE  (q * M + r) % M = r /\ (q * M + r) \div M = q
<1> DEFINE x == q * M + r
           d == x \div M
           m == x % M
<1>0. x \in Int
  OBVIOUS
<1>1. d \in Int /\ m \in 0 .. (M - 1) /\ x = M * d + m
  BY <1>0, DivMod
<1> HIDE DEF d, m
<1>2. M * (q - d) = m - r /\ m - r < M /\ r - m < M
  BY <1>1
<1>3. ASSUME NEW k \in Int, k >= 1 PROVE M * k >= M
  BY <1>3
<1>4. ASSUME NEW k \in Int, k <= -1 PROVE M * k <= -M
  BY <1>4
<1>5. q - d = 0
  BY <1>1, <1>2, <1>3, <1>4
<1>6. m = r /\ d = q
  BY <1>1, <1>2, <1>5
<1> QED BY <1>6 DEF d, m

(* What is in range is its own remainder.                                  *)
LEMMA SmallMod ==
    ASSUME NEW M \in Nat \ {0}, NEW r \in 0 .. (M - 1)
    PROVE  r % M = r /\ r \div M = 0
<1>1. (0 * M + r) % M = r /\ (0 * M + r) \div M = 0
  BY ModUnique
<1>2. 0 * M + r = r
  OBVIOUS
<1> QED BY <1>1, <1>2

(* A multiple added changes no remainder.                                  *)
LEMMA ModPlus ==
    ASSUME NEW M \in Nat \ {0}, NEW t \in Int, NEW k \in Int
    PROVE  (k * M + t) % M = t % M
<1> DEFINE d == t \div M
           m == t % M
<1>1. d \in Int /\ m \in 0 .. (M - 1) /\ t = M * d + m
  BY DivMod
<1> HIDE DEF d, m
<1>2. ((k + d) * M + m) % M = m
  BY <1>1, ModUnique
<1>3. k * M + t = (k + d) * M + m
  BY <1>1
<1> QED BY <1>2, <1>3 DEF m

(* A sum may be reduced at each term.                                      *)
LEMMA ModSum ==
    ASSUME NEW M \in Nat \ {0}, NEW x \in Int, NEW y \in Int
    PROVE  ((x % M) + y) % M = (x + y) % M
<1> DEFINE u == x \div M
           m == x % M
<1>1. u \in Int /\ m \in Int /\ x = M * u + m
  BY DivMod
<1> HIDE DEF u, m
<1>2. x + y = u * M + (m + y) /\ m + y \in Int
  BY <1>1
<1>3. (u * M + (m + y)) % M = (m + y) % M
  BY <1>1, <1>2, ModPlus
<1> QED BY <1>2, <1>3 DEF m
=============================================================================
