-------------------------- MODULE BreakpointsProofs --------------------------
(***************************************************************************)
(* Lemmas about the operations on the breakpoint list, for every list.     *)
(***************************************************************************)
EXTENDS Breakpoints, Numbers, SequenceTheorems

(* Rounding an address down (commande.c:1180) gives a word boundary.       *)
LEMMA AlignType ==
    ASSUME NEW a \in Nat
    PROVE  Align(a) \in Nat /\ Align(a) % 4 = 0 /\ Align(a) <= a
BY DEF Align

(* find_by_add (commande.c:1105) on a list that has the address: the       *)
(* position it stops at holds the address and no earlier one does.         *)
LEMMA FindByAddFirst ==
    ASSUME NEW S, NEW l \in Seq(S), NEW a, CheckBp(l, a)
    PROVE  /\ FindByAdd(l, a) \in 1 .. Len(l)
           /\ l[FindByAdd(l, a)] = a
           /\ \A j \in 1 .. (FindByAdd(l, a) - 1) : l[j] # a
<1> DEFINE T == {k \in 1 .. Len(l) : l[k] = a}
<1>1. Len(l) \in Nat /\ DOMAIN l = 1 .. Len(l)
  OBVIOUS
<1>2. T # {} /\ T \subseteq Nat
  BY <1>1 DEF CheckBp
<1>3. PICK m \in T : \A j \in T : ~ (j < m)
  BY <1>2, LeastPosition
<1>4. \A j \in 1 .. (m - 1) : j \in 1 .. Len(l) /\ j < m
  BY <1>1, <1>3
<1>5. m \in DOMAIN l /\ l[m] = a /\ \A j \in 1 .. (m - 1) : l[j] # a
  BY <1>1, <1>3, <1>4
<1> QED
  BY <1>1, <1>5 DEF FindByAdd

(* Unlinking one node: the nodes before it keep their place, the others    *)
(* move up by one.                                                         *)
LEMMA RemoveAtElements ==
    ASSUME NEW S, NEW l \in Seq(S), NEW k \in 1 .. Len(l)
    PROVE  /\ RemoveAt(l, k) \in Seq(S)
           /\ Len(RemoveAt(l, k)) = Len(l) - 1
           /\ \A i \in 1 .. (Len(l) - 1) :
                 RemoveAt(l, k)[i] = l[IF i < k THEN i ELSE i + 1]
<1> DEFINE p == SubSeq(l, 1, k - 1)
           q == SubSeq(l, k + 1, Len(l))
<1>1. Len(l) \in Nat /\ k \in Nat /\ \A i \in 1 .. Len(l) : l[i] \in S
  OBVIOUS
<1>2. p \in Seq(S) /\ Len(p) = k - 1 /\ \A i \in 1 .. (k - 1) : p[i] = l[i]
  <2>1. \A i \in 1 .. (k - 1) : l[i] \in S
    BY <1>1
  <2> QED
    BY <1>1, <2>1, SubSeqProperties
<1>3. /\ q \in Seq(S) /\ Len(q) = Len(l) - k
      /\ \A i \in 1 .. (Len(l) - k) : q[i] = l[k + i]
  <2>1. \A i \in (k + 1) .. Len(l) : l[i] \in S
    BY <1>1
  <2>2. /\ q \in Seq(S)
        /\ Len(q) = IF k + 1 <= Len(l) THEN Len(l) - (k + 1) + 1 ELSE 0
        /\ \A i \in 1 .. (Len(l) - (k + 1) + 1) : q[i] = l[(k + 1) + i - 1]
    BY <1>1, <2>1, SubSeqProperties
  <2> QED
    BY <1>1, <2>2
<1>4. /\ p \o q \in Seq(S)
      /\ Len(p \o q) = Len(p) + Len(q)
      /\ \A i \in 1 .. (Len(p) + Len(q)) :
            (p \o q)[i] = IF i <= Len(p) THEN p[i] ELSE q[i - Len(p)]
  BY <1>2, <1>3, ConcatProperties
<1>5. RemoveAt(l, k) = p \o q
  BY DEF RemoveAt
<1> HIDE DEF p, q
<1>6. Len(p) = k - 1 /\ Len(q) = Len(l) - k /\ Len(p) + Len(q) = Len(l) - 1
  BY <1>1, <1>2, <1>3
<1>7. ASSUME NEW i \in 1 .. (Len(l) - 1)
      PROVE  (p \o q)[i] = l[IF i < k THEN i ELSE i + 1]
  <2>1. i \in 1 .. (Len(p) + Len(q))
    BY <1>6
  <2>2. CASE i < k
    <3>1. (p \o q)[i] = p[i]
      BY <1>1, <1>4, <1>6, <2>1, <2>2
    <3>2. i \in 1 .. (k - 1)
      BY <1>1, <2>2
    <3> QED
      BY <1>2, <2>2, <3>1, <3>2
  <2>3. CASE ~ (i < k)
    <3>1. (p \o q)[i] = q[i - (k - 1)]
      BY <1>1, <1>4, <1>6, <2>1, <2>3
    <3>2. i - (k - 1) \in 1 .. (Len(l) - k) /\ k + (i - (k - 1)) = i + 1
      BY <1>1, <2>3
    <3> QED
      BY <1>3, <2>3, <3>1, <3>2
  <2> QED
    BY <2>2, <2>3
<1> QED
  BY <1>4, <1>5, <1>6, <1>7

(* ajouter_en_tete gives a list of addresses in .text.                     *)
LEMMA AjouterType ==
    ASSUME NEW S, NEW l \in Seq(S), NEW t \in Nat, NEW text \in SUBSET S
    PROVE  AjouterEnTete(l, t, text) \in Seq(S)
<1>1. CASE DejaDansListe(l, Align(t)) \/ Align(t) \notin text
  BY <1>1 DEF AjouterEnTete
<1>2. CASE ~ (DejaDansListe(l, Align(t)) \/ Align(t) \notin text)
  <2>1. <<Align(t)>> \in Seq(S)
    BY <1>2
  <2> QED
    BY <1>2, <2>1, ConcatProperties DEF AjouterEnTete
<1> QED
  BY <1>1, <1>2

(* The elements of a list with one node pushed in front.                   *)
LEMMA PushElements ==
    ASSUME NEW S, NEW l \in Seq(S), NEW a \in S
    PROVE  /\ Len(<<a>> \o l) = Len(l) + 1
           /\ (<<a>> \o l)[1] = a
           /\ \A k \in 2 .. (Len(l) + 1) : (<<a>> \o l)[k] = l[k - 1]
<1>1. <<a>> \in Seq(S) /\ Len(<<a>>) = 1 /\ <<a>>[1] = a
  OBVIOUS
<1> QED
  BY <1>1, ConcatProperties

(* break add keeps the nodes before the tail different: the nodes deja_    *)
(* dans_liste does compare are exactly those that stay before the tail.    *)
LEMMA AjouterFrontDistinct ==
    ASSUME NEW S, NEW l \in Seq(S), NEW t \in Nat, NEW text \in SUBSET S,
           FrontDistinct(l)
    PROVE  FrontDistinct(AjouterEnTete(l, t, text))
<1> DEFINE a == Align(t)
<1>1. CASE DejaDansListe(l, a) \/ a \notin text
  BY <1>1 DEF AjouterEnTete
<1>2. CASE ~ DejaDansListe(l, a) /\ a \in text
  <2> DEFINE n == <<a>> \o l
  <2>1. AjouterEnTete(l, t, text) = n
    BY <1>2 DEF AjouterEnTete
  <2>2. /\ Len(n) = Len(l) + 1 /\ n[1] = a
        /\ \A k \in 2 .. (Len(l) + 1) : n[k] = l[k - 1]
    BY <1>2, PushElements
  <2>3. \A k \in 1 .. (Len(l) - 1) : l[k] # a
    BY <1>2 DEF DejaDansListe
  <2>4. Len(l) \in Nat
    OBVIOUS
  <2> HIDE DEF n, a
  <2>5. ASSUME NEW j \in 1 .. Len(l), NEW k \in 1 .. Len(l), n[j] = n[k]
        PROVE  j = k
    <3>1. j # 1 => j - 1 \in 1 .. (Len(l) - 1) /\ n[j] = l[j - 1]
      BY <2>2, <2>4
    <3>2. k # 1 => k - 1 \in 1 .. (Len(l) - 1) /\ n[k] = l[k - 1]
      BY <2>2, <2>4
    <3>3. CASE j = 1 \/ k = 1
      BY <2>2, <2>3, <2>5, <3>1, <3>2, <3>3
    <3>4. CASE j # 1 /\ k # 1
      BY <2>4, <2>5, <3>1, <3>2, <3>4 DEF FrontDistinct
    <3> QED
      BY <3>3, <3>4
  <2> QED
    BY <2>1, <2>2, <2>4, <2>5 DEF FrontDistinct
<1> QED
  BY <1>1, <1>2

(* break del keeps the shape too, and the list a list.                     *)
LEMMA FreeType ==
    ASSUME NEW S, NEW l \in Seq(S), NEW a
    PROVE  FreeBp(l, a) \in Seq(S)
BY FindByAddFirst, RemoveAtElements DEF FreeBp

LEMMA FreeFrontDistinct ==
    ASSUME NEW S, NEW l \in Seq(S), NEW a, FrontDistinct(l)
    PROVE  FrontDistinct(FreeBp(l, a))
<1>1. CASE ~ CheckBp(l, a)
  BY <1>1 DEF FreeBp
<1>2. CASE CheckBp(l, a)
  <2> DEFINE f == FindByAdd(l, a)
             r == RemoveAt(l, f)
  <2>1. f \in 1 .. Len(l) /\ FreeBp(l, a) = r /\ Len(l) \in Nat
    BY <1>2, FindByAddFirst DEF FreeBp
  <2>2. /\ Len(r) = Len(l) - 1
        /\ \A i \in 1 .. (Len(l) - 1) : r[i] = l[IF i < f THEN i ELSE i + 1]
    BY <2>1, RemoveAtElements
  <2> HIDE DEF f, r
  <2>3. ASSUME NEW j \in 1 .. (Len(r) - 1), NEW k \in 1 .. (Len(r) - 1), r[j] = r[k]
        PROVE  j = k
    <3> DEFINE up(i) == IF i < f THEN i ELSE i + 1
    <3>1. up(j) \in 1 .. (Len(l) - 1) /\ up(k) \in 1 .. (Len(l) - 1)
      BY <2>1, <2>2
    <3>2. r[j] = l[up(j)] /\ r[k] = l[up(k)]
      BY <2>1, <2>2
    <3>3. up(j) = up(k)
      BY <2>3, <3>1, <3>2 DEF FrontDistinct
    <3> QED
      BY <2>1, <2>2, <3>3
  <2> QED
    BY <2>1, <2>3 DEF FrontDistinct
<1> QED
  BY <1>1, <1>2

(* Every address in the list stays on a word boundary.                     *)
LEMMA AjouterAligned ==
    ASSUME NEW S, NEW l \in Seq(S), NEW t \in Nat, NEW text \in SUBSET S,
           \A k \in DOMAIN l : l[k] % 4 = 0
    PROVE  LET n == AjouterEnTete(l, t, text) IN \A k \in DOMAIN n : n[k] % 4 = 0
<1> DEFINE a == Align(t)
<1>1. CASE DejaDansListe(l, a) \/ a \notin text
  BY <1>1 DEF AjouterEnTete
<1>2. CASE ~ DejaDansListe(l, a) /\ a \in text
  <2> DEFINE n == <<a>> \o l
  <2>1. AjouterEnTete(l, t, text) = n
    BY <1>2 DEF AjouterEnTete
  <2>2. n \in Seq(S) /\ a \in S
    <3>1. AjouterEnTete(l, t, text) \in Seq(S)
      BY AjouterType
    <3> QED
      BY <1>2, <2>1, <3>1
  <2>3. /\ Len(n) = Len(l) + 1 /\ n[1] = a
        /\ \A k \in 2 .. (Len(l) + 1) : n[k] = l[k - 1]
    BY <2>2, PushElements
  <2>4. a % 4 = 0
    BY AlignType
  <2>5. Len(l) \in Nat /\ DOMAIN l = 1 .. Len(l)
    OBVIOUS
  <2> HIDE DEF n, a
  <2>6. DOMAIN n = 1 .. (Len(l) + 1)
    BY <2>2, <2>3
  <2>7. ASSUME NEW k \in DOMAIN n PROVE n[k] % 4 = 0
    <3>1. CASE k = 1
      BY <2>3, <2>4, <3>1
    <3>2. CASE k # 1
      <4>1. k - 1 \in DOMAIN l /\ n[k] = l[k - 1]
        BY <2>3, <2>5, <2>6, <3>2
      <4> QED
        BY <4>1
    <3> QED
      BY <3>1, <3>2
  <2> QED
    BY <2>1, <2>7
<1> QED
  BY <1>1, <1>2

(* free_bp only takes away: what is left was there, and only nodes with    *)
(* the address given can be gone.                                          *)
LEMMA FreeElements ==
    ASSUME NEW S, NEW l \in Seq(S), NEW a
    PROVE  /\ ToSet(FreeBp(l, a)) \subseteq ToSet(l)
           /\ ToSet(l) \ {a} \subseteq ToSet(FreeBp(l, a))
<1>1. CASE ~ CheckBp(l, a)
  BY <1>1 DEF FreeBp
<1>2. CASE CheckBp(l, a)
  <2> DEFINE f == FindByAdd(l, a)
             r == RemoveAt(l, f)
  <2>1. f \in 1 .. Len(l) /\ FreeBp(l, a) = r /\ Len(l) \in Nat /\ l[f] = a
    BY <1>2, FindByAddFirst DEF FreeBp
  <2>2. /\ r \in Seq(S) /\ Len(r) = Len(l) - 1
        /\ \A i \in 1 .. (Len(l) - 1) : r[i] = l[IF i < f THEN i ELSE i + 1]
    BY <2>1, RemoveAtElements
  <2>3. DOMAIN l = 1 .. Len(l) /\ DOMAIN r = 1 .. (Len(l) - 1)
    <3>1. DOMAIN r = 1 .. Len(r)
      BY <2>2
    <3> QED
      BY <2>2, <3>1
  <2> HIDE DEF f, r
  <2>4. ASSUME NEW x \in ToSet(r) PROVE x \in ToSet(l)
    <3>1. PICK i \in 1 .. (Len(l) - 1) : x = r[i]
      BY <2>3 DEF ToSet
    <3>2. /\ (IF i < f THEN i ELSE i + 1) \in DOMAIN l
          /\ x = l[IF i < f THEN i ELSE i + 1]
      BY <2>1, <2>2, <2>3, <3>1
    <3> QED
      BY <3>2 DEF ToSet
  <2>5. ASSUME NEW x \in ToSet(l) \ {a} PROVE x \in ToSet(r)
    <3>1. PICK k \in 1 .. Len(l) : x = l[k]
      BY <2>3 DEF ToSet
    <3>2. k # f
      BY <2>1, <2>5, <3>1
    <3>3. CASE k < f
      BY <2>1, <2>2, <2>3, <3>1, <3>3 DEF ToSet
    <3>4. CASE k > f
      <4>1. k - 1 \in 1 .. (Len(l) - 1) /\ r[k - 1] = l[k]
        BY <2>1, <2>2, <3>4
      <4> QED
        BY <2>3, <3>1, <4>1 DEF ToSet
    <3> QED
      BY <2>1, <3>2, <3>3, <3>4
  <2> QED
    BY <2>1, <2>4, <2>5
<1> QED
  BY <1>1, <1>2

(* What step does to the list from end to end, when PC is on a word        *)
(* boundary: the breakpoint it pushes is the first one free_bp finds, so   *)
(* the user's list comes back.  When the address was there already,        *)
(* nothing is pushed and one of the user's breakpoints is lost.            *)
LEMMA PushThenFree ==
    ASSUME NEW S \in SUBSET Nat, NEW l \in Seq(S), NEW t \in S, t % 4 = 0,
           NEW text \in SUBSET S
    PROVE  LET r == FreeBp(AjouterEnTete(l, t, text), t)
           IN  /\ ToSet(r) \subseteq ToSet(l)
               /\ ToSet(l) \ {t} \subseteq ToSet(r)
<1>1. Align(t) = t
  BY DEF Align
<1>2. CASE DejaDansListe(l, t) \/ t \notin text
  BY <1>1, <1>2, FreeElements DEF AjouterEnTete
<1>3. CASE ~ DejaDansListe(l, t) /\ t \in text
  <2> DEFINE n == <<t>> \o l
             r == FreeBp(n, t)
  <2>1. AjouterEnTete(l, t, text) = n
    BY <1>1, <1>3 DEF AjouterEnTete
  <2>2. n \in Seq(S)
    BY <2>1, AjouterType
  <2>3. /\ Len(n) = Len(l) + 1 /\ n[1] = t
        /\ \A k \in 2 .. (Len(l) + 1) : n[k] = l[k - 1]
    BY PushElements
  <2>4. Len(l) \in Nat
    OBVIOUS
  <2> HIDE DEF n
  <2>5. 1 \in DOMAIN n /\ CheckBp(n, t)
    BY <2>2, <2>3, <2>4 DEF CheckBp
  <2>6. FindByAdd(n, t) = 1
    <3>1. /\ FindByAdd(n, t) \in 1 .. Len(n)
          /\ \A j \in 1 .. (FindByAdd(n, t) - 1) : n[j] # t
      BY <2>2, <2>5, FindByAddFirst
    <3> QED
      BY <2>3, <2>4, <3>1
  <2>7. r = RemoveAt(n, 1) /\ 1 \in 1 .. Len(n)
    BY <2>3, <2>4, <2>5, <2>6 DEF FreeBp
  <2>8. /\ r \in Seq(S) /\ Len(r) = Len(n) - 1
        /\ \A i \in 1 .. (Len(n) - 1) : r[i] = n[IF i < 1 THEN i ELSE i + 1]
    BY <2>2, <2>7, RemoveAtElements
  <2> HIDE DEF r
  <2>9. Len(r) = Len(l) /\ \A i \in 1 .. Len(r) : r[i] = l[i]
    BY <2>3, <2>4, <2>8
  <2>10. r = l
    BY <2>8, <2>9, SeqEqual
  <2> QED
    BY <2>1, <2>10 DEF r
<1> QED
  BY <1>1, <1>2, <1>3
=============================================================================
