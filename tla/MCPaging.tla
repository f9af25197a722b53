----------------------------- MODULE MCPaging ------------------------------
(* Four rows and four names, in any order and number; limits that are zero, *)
(* negative within the cap and beyond it, missing, above the cap, and such  *)
(* that pages end on and off a boundary.                                    *)
EXTENDS Paging, TLC

CONSTANTS g1, g2, g3, g4

MCNames == 1 .. 4
MCLimits == {-4, -1, 0, 1, 2, 9, All}

Symmetric == Permutations(Rows)
=============================================================================
