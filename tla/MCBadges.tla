------------------------------ MODULE MCBadges ------------------------------
(* Two assigned badges and two blank ones, and a person who may take over a *)
(* badge by a transfer.  The holder of a has won a copy.                    *)
EXTENDS Badges, TLC

CONSTANTS r1, r2, a, b, x, y, ann, bob, cat

MCFirstHolder == (a :> ann) @@ (b :> bob) @@ (x :> Blank) @@ (y :> Blank)

MCWinners == <<a>>

Symmetric == Permutations(Requests) \cup Permutations({x, y})
SymmetricRequests == Permutations(Requests)
=============================================================================
