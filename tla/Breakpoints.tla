---------------------------- MODULE Breakpoints ----------------------------
(***************************************************************************)
(* The breakpoint list of the emulator (commande.c, struct bp_t of         *)
(* emulMips.h).  The linked list is a sequence of addresses, head first:   *)
(* a new breakpoint is pushed at the head and the oldest one is the tail.  *)
(***************************************************************************)
EXTENDS Integers, SequencesExt

(* Both ajouter_en_tete and run round an address down to a word boundary.  *)
Align(a) == a - (a % 4)

(* Mutant: the loop stops one node earlier still.                          *)
DejaDansListe_StopsEarly(l, a) ==
    \/ Len(l) = 1 /\ l[1] = a
    \/ \E k \in 1 .. (Len(l) - 2) : l[k] = a

(* deja_dans_liste answers "present" (its 0).  A list of one node has that *)
(* node tested before the loop; the loop stops when suiv is NULL, so in a  *)
(* longer list the last node is never compared.                            *)
DejaDansListe(l, a) ==
    \/ Len(l) = 1 /\ l[1] = a
    \/ \E k \in 1 .. (Len(l) - 1) : l[k] = a

(* Mutant: the address is not aligned.                                     *)
AjouterEnTete_Unaligned(l, tok, text) ==
    IF DejaDansListe(l, tok) \/ tok \notin text THEN l ELSE <<tok>> \o l

(* ajouter_en_tete: align, leave the list alone when the address is found  *)
(* or lies outside .text (the set text), push it otherwise.                *)
AjouterEnTete(l, tok, text) ==
    LET a == Align(tok)
    IN  IF DejaDansListe(l, a) \/ a \notin text THEN l ELSE <<a>> \o l

(* find_by_add returns the node before the first match (a fresh sentinel   *)
(* when the head matches): here, the position of the match.                *)
FindByAdd(l, a) ==
    CHOOSE k \in DOMAIN l : l[k] = a /\ \A j \in 1 .. (k - 1) : l[j] # a

(* check_bp: does find_by_add find a node?                                 *)
CheckBp(l, a) == \E k \in DOMAIN l : l[k] = a

(* Mutant: the node find_by_add returned is freed, not its successor.      *)
FreeBp_FreesPredecessor(l, a) ==
    IF ~ CheckBp(l, a) THEN l
    ELSE RemoveAt(l, IF FindByAdd(l, a) = 1 THEN 1 ELSE FindByAdd(l, a) - 1)

(* free_bp unlinks the node find_by_add found.  The address is not aligned *)
(* here, unlike in ajouter_en_tete.                                        *)
FreeBp(l, a) == IF CheckBp(l, a) THEN RemoveAt(l, FindByAdd(l, a)) ELSE l

(* What every list built by these operations satisfies: the nodes before   *)
(* the tail are pairwise different, so an address occurs at most twice and *)
(* then one of the two is the oldest node.                                 *)
FrontDistinct(l) ==
    \A j, k \in 1 .. (Len(l) - 1) : l[j] = l[k] => j = k

(* What the comment of ajouter_en_tete promises.                           *)
AllDistinct(l) == \A j, k \in DOMAIN l : l[j] = l[k] => j = k
=============================================================================
