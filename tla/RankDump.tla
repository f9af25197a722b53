------------------------------ MODULE RankDump ------------------------------
(***************************************************************************)
(* Which entry of BoardGameGeek's rank dump a game of the library is taken *)
(* for: the choice among the entries that bear its normalised name.  An    *)
(* entry is a record with an id, a year and a rank, in the order of the    *)
(* dump; a year or a rank that the dump does not give is Unknown.          *)
(***************************************************************************)
EXTENDS Integers, Sequences
LOCAL INSTANCE SequencesExt

Unknown == 0        \* parseInt(...) || null

\* The entries of the game's year, if it has one and there are any.
Pool(candidates, year) ==
    LET byYear == SelectSeq(candidates, LAMBDA c : c.year = year) IN
    IF year # Unknown /\ byYear # <<>> THEN byYear ELSE candidates

\* Mutation: an entry without a rank counts as the most popular one.
PreferredUnranked(best, c) == IF c.rank < best.rank THEN c ELSE best

\* The callback of pool.reduce.
Preferred(best, c) ==
    IF c.rank = Unknown THEN best
    ELSE IF best.rank = Unknown \/ c.rank < best.rank THEN c ELSE best

Chosen(candidates, year) ==
    LET pool == Pool(candidates, year) IN FoldLeft(Preferred, pool[1], pool)

-----------------------------------------------------------------------------
(* What the comment of backfillBggIdsFromRankDump promises, said without    *)
(* the order in which the entries are compared: no entry is a better match  *)
(* than the one that is taken.                                              *)

\* c is a better match than d for a game of the year.
Better(c, d, year) ==
    LET ofYear(e) == year # Unknown /\ e.year = year
        ranked(e) == e.rank # Unknown IN
    \/ ofYear(c) /\ ~ofYear(d)
    \/ /\ ofYear(c) = ofYear(d)
       /\ ranked(c)
       /\ ~ranked(d) \/ c.rank < d.rank

BestMatches(candidates, year) ==
    {candidates[n].id : n \in {m \in DOMAIN candidates :
        \A l \in DOMAIN candidates : ~Better(candidates[l], candidates[m], year)}}
=============================================================================
