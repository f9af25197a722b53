--------------------------- MODULE MCCollections ---------------------------
(* Three collections of one organization, the last one archived, and one of *)
(* another; one copy in the first; the second attached to convention 1.     *)
EXTENDS Collections, TLC

CONSTANTS r1, r2, l1, l2

MCFirstOrgs == <<1, 1, 2, 1>>
MCFirstCopies == <<[col |-> 1, label |-> l1]>>
MCFirstJoins == <<[con |-> 1, col |-> 2]>>
Symmetric == Permutations(Requests)
=============================================================================
