---------------------------- MODULE MCGameSync ----------------------------
(* g and h are two editions of one item, h pinned to its edition; u has no  *)
(* bggId until the rank dump, or somebody by hand, gives it one.  The dumps *)
(* have one to three entries for the name of u, or none, whose years and    *)
(* ranks decide differently.                                                *)
EXTENDS GameSync, TLC

CONSTANTS g, h, u, i, j, k, w1, w2

MCFirstId == [x \in Games |-> IF x = u THEN None ELSE i]
MCEditionOf == [x \in Games |-> IF x = h THEN i ELSE None]
MCYearPublished == [x \in Games |-> 1999]
MCByName == [x \in Games |-> IF x = u THEN k ELSE i]

Entry(id, year, rank) == [id |-> id, year |-> year, rank |-> rank]

MCEntries ==
    {<<>>,
     <<Entry(j, Unknown, Unknown)>>,
     <<Entry(k, Unknown, 2), Entry(j, 1999, 3)>>,
     <<Entry(k, 2005, Unknown), Entry(k, 2005, 7), Entry(j, Unknown, 4)>>,
     <<Entry(k, 1999, Unknown), Entry(j, 1999, 9), Entry(k, 2005, 1)>>}

MCDumps == {[x \in Games |-> IF x = u THEN e ELSE <<Entry(i, 1999, 1)>>] : e \in MCEntries}

Symmetric == Permutations(Workers)
=============================================================================
