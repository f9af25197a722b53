------------------------------ MODULE MCGames -------------------------------
(* One game, for all requests to meet, connected to item i, which has the   *)
(* edition that the game may be pinned to; j has not.                       *)
EXTENDS Games, TLC

CONSTANTS r1, r2, catan, i, j

MCFirstId == [x \in Games |-> i]
=============================================================================
