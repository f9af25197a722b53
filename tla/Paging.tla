------------------------------- MODULE Paging -------------------------------
(***************************************************************************)
(* The paged listings: an organization's games with their copies, the      *)
(* games of a collection and the attendees of a convention.  All three     *)
(* answer a page with the rows of one query (skip, take, in the order of a *)
(* name) and the total of a second one.  The two run in one transaction,   *)
(* at READ COMMITTED, so each sees what is committed when it starts.       *)
(*                                                                         *)
(* A client, which is external, walks through a listing: it asks for a     *)
(* page, and for the next one while the answer says hasMore.  Other        *)
(* requests create, delete and rename rows at any time.                    *)
(***************************************************************************)
EXTENDS Integers, Sequences, FiniteSets

CONSTANTS
    Rows,           \* the games or attendees there may be
    Names,          \* what the listing is ordered by, as positive numbers
    Limits,         \* the limits a client asks for
    All,            \* a limit that is missing or not a number
    MaxLimit,       \* MAX_GAMES_LIMIT, MAX_COLLECTION_GAMES_LIMIT, MAX_ATTENDEE_LIMIT
    MaxWrites,      \* bound: the rows written in a behaviour
    MaxPages        \* bound: the pages a client asks for

ASSUME PagingAssumption ==
    /\ IsFiniteSet(Rows)
    /\ Names \subseteq Nat \ {0}
    /\ All \in Limits
    /\ Limits \subseteq Int \cup {All}
    /\ {MaxLimit, MaxPages} \subseteq Nat \ {0}
    /\ MaxWrites \in Nat

VARIABLES
    listing,        \* which of the listings the behaviour is about
    collection,     \* whether the collection of the listing exists
    name,           \* the name of every row; Gone if there is no such row
    walk,           \* the client, and the handler of its request
    got,            \* how often the client has been given each row
    stayed,         \* history: the rows that have kept their name during the walk
    left,           \* history: the names that a row has left during the walk
    came,           \* history: the names that a row has taken during the walk
    writes          \* the rows written so far

vars == <<listing, collection, name, walk, got, stayed, left, came, writes>>

Listings == {"games", "collection", "attendees"}

Gone == 0

Present == {r \in Rows : name[r] # Gone}

PCs == {"start", "collection", "list", "count", "done", "failed", "cut"}

\* page is currentPage; data the rows of the page being answered,
\* total the total of the last answer.
Walk == [pc : PCs, limit : Limits, page : Nat, data : Seq(Rows), total : Nat]

-----------------------------------------------------------------------------
\* Game.name is unique; the names of attendees are not.
Unique(names) ==
    listing = "attendees" \/ \A r, s \in Rows : names[r] = names[s] /\ names[r] # Gone => r = s

\* The rows, each once.
Arrangements ==
    {order \in [1 .. Cardinality(Present) -> Present] :
        \A m, n \in DOMAIN order : m # n => order[m] # order[n]}

\* The orders the database may return the rows in: ties are broken as it likes,
\* each time anew.
Orders ==
    {order \in Arrangements :
        \A m, n \in DOMAIN order : m < n => name[order[m]] <= name[order[n]]}

\* Mutation: a limit is not clamped.
PageSizeUnclamped(limit) == IF limit = All THEN MaxLimit ELSE limit

PageSize(limit) == IF limit = All \/ limit > MaxLimit THEN MaxLimit ELSE limit

Skip == (walk.page - 1) * PageSize(walk.limit)

\* skip and take of findMany.  A negative take is that many rows from the end.
Page(order) ==
    LET n == Len(order)
        take == PageSize(walk.limit)
        upTo == IF Skip + take < n THEN Skip + take ELSE n IN
    IF take >= 0 THEN SubSeq(order, Skip + 1, upTo)
    ELSE SubSeq(order, IF n + take < 0 THEN 1 ELSE n + take + 1, n)

\* Mutation: a full last page has a next one.
HasMoreLoosely(page, limit, total) == page * PageSize(limit) <= total

HasMore(page, limit, total) == page * PageSize(limit) < total

\* A limit below -MaxLimit asks for more rows than the cap allows, and is given them.
TypeOK ==
    /\ listing \in Listings
    /\ collection \in BOOLEAN
    /\ name \in [Rows -> Names \cup {Gone}]
    /\ walk \in Walk
    /\ walk.pc # "start" => walk.page \in 1 .. MaxPages
    /\ PageSize(walk.limit) >= 0 => Len(walk.data) <= MaxLimit
    /\ got \in [Rows -> 0 .. MaxPages]
    /\ stayed \subseteq Present
    /\ left \cup came \subseteq Names
    /\ writes \in 0 .. MaxWrites

-----------------------------------------------------------------------------
Init ==
    /\ listing \in Listings
    /\ collection = TRUE
    /\ name \in {names \in [Rows -> Names \cup {Gone}] : Unique(names)}
    /\ walk \in [pc : {"start"}, limit : Limits, page : {0}, data : {<<>>}, total : {0}]
    /\ got = [r \in Rows |-> 0]
    /\ stayed = Present
    /\ left = {}
    /\ came = {}
    /\ writes = 0

Begins == IF listing = "collection" THEN "collection" ELSE "list"

Nothing == UNCHANGED <<listing, collection, name, stayed, left, came, writes>>

\* The attendees' limit is converted to a number before it is tested, so that 0
\* counts as missing; those of the games are strings, and "0" a limit.
Requested(limit) == IF listing = "attendees" /\ limit = 0 THEN All ELSE limit

\* A page that is missing, below 1 or not a number is the first one.  Every later
\* request of the walk has the same limit.
AskFirst ==
    /\ walk.pc = "start"
    /\ walk' = [walk EXCEPT !.pc = Begins, !.page = 1, !.limit = Requested(@)]
    /\ UNCHANGED got
    /\ Nothing

\* The collection is read before its games.  The handler goes on without it and
\* fails when it has the games.
ReadCollection ==
    /\ walk.pc = "collection"
    /\ walk' = [walk EXCEPT !.pc = IF collection THEN "list" ELSE "failed"]
    /\ UNCHANGED got
    /\ Nothing

\* Mutation: the query has no orderBy.
FindManyUnordered ==
    /\ walk.pc = "list"
    /\ IF Skip < 0 THEN walk' = [walk EXCEPT !.pc = "failed"]
       ELSE \E order \in Arrangements :
                walk' = [walk EXCEPT !.pc = "count", !.data = Page(order)]
    /\ UNCHANGED got
    /\ Nothing

\* A negative skip is an error.
FindMany ==
    /\ walk.pc = "list"
    /\ \/ /\ Skip >= 0
          /\ \E order \in Orders :
                walk' = [walk EXCEPT !.pc = "count", !.data = Page(order)]
       \/ /\ Skip < 0
          /\ walk' = [walk EXCEPT !.pc = "failed"]
    /\ UNCHANGED got
    /\ Nothing

\* The client has its answer, and asks for the next page if there is more.
CountRows ==
    LET total == Cardinality(Present)
        answer == [walk EXCEPT !.total = total, !.data = <<>>] IN
    /\ walk.pc = "count"
    /\ got' = [r \in Rows |-> got[r] + Cardinality({n \in DOMAIN walk.data : walk.data[n] = r})]
    /\ walk' = IF ~HasMore(walk.page, walk.limit, total) THEN [answer EXCEPT !.pc = "done"]
               ELSE IF walk.page = MaxPages THEN [answer EXCEPT !.pc = "cut"]
               ELSE [answer EXCEPT !.pc = Begins, !.page = @ + 1]
    /\ Nothing

\* Any call may fail, and the client gives up.
Fail ==
    /\ walk.pc \in {"collection", "list", "count"}
    /\ walk' = [walk EXCEPT !.pc = "failed"]
    /\ UNCHANGED got
    /\ Nothing

-----------------------------------------------------------------------------
(* The other requests: single statements, as far as the listing sees them. *)

Walking == walk.pc \in {"collection", "list", "count"}

Taken(n) == IF n = Gone THEN {} ELSE {n}

\* Row r gets the name n, or goes.
Rename(r, n) ==
    LET names == [name EXCEPT ![r] = n] IN
    /\ Walking
    /\ writes < MaxWrites
    /\ name[r] # n
    /\ collection
    /\ Unique(names)
    /\ writes' = writes + 1
    /\ name' = names
    /\ stayed' = stayed \ {r}
    /\ left' = left \cup Taken(name[r])
    /\ came' = came \cup Taken(n)
    /\ UNCHANGED <<listing, collection, walk, got>>

CreateRow == \E r \in Rows \ Present, n \in Names : Rename(r, n)

DeleteRow == \E r \in Present : Rename(r, Gone)

RenameRow == \E r \in Present, n \in Names : Rename(r, n)

\* The deletion of a collection deletes its copies one by one (DeleteRow) and
\* then the collection, with the copies that it has been given since.
DeleteCollection ==
    /\ Walking
    /\ listing = "collection"
    /\ collection
    /\ writes < MaxWrites
    /\ writes' = writes + 1
    /\ collection' = FALSE
    /\ name' = [r \in Rows |-> Gone]
    /\ stayed' = {}
    /\ left' = left \cup {name[r] : r \in Present}
    /\ UNCHANGED <<listing, walk, got, came>>

Next ==
    \/ AskFirst \/ ReadCollection \/ FindMany \/ CountRows \/ Fail
    \/ CreateRow \/ DeleteRow \/ RenameRow \/ DeleteCollection

Spec == Init /\ [][Next]_vars

-----------------------------------------------------------------------------
(* Properties *)

\* Another row has had the same name during the walk.
Tied(r) == name[r] \in left \cup came \cup {name[s] : s \in Rows \ {r}}

(***************************************************************************)
(* A client that walks to the end is given every row that was there all    *)
(* the time, once.  A row is missed only when one listed before it, or     *)
(* with the same name, has gone or moved meanwhile, and is given twice     *)
(* only when one has come before it; or, of attendees, when two with the   *)
(* same name are ordered one way and then the other.                       *)
(***************************************************************************)
WalkCovers ==
    (walk.pc = "done" /\ PageSize(walk.limit) > 0) =>
        \A r \in stayed :
            \/ got[r] = 1
            \/ got[r] = 0 /\ \E n \in left : n < name[r]
            \/ got[r] > 1 /\ \E n \in came : n < name[r]
            \/ Tied(r)

(***************************************************************************)
(* hasMore can be relied upon: the page it promises is empty only when a   *)
(* row has gone or moved meanwhile, and a walk ends, after as many pages   *)
(* as there have been rows at most.                                        *)
(***************************************************************************)
HasMoreHonest ==
    PageSize(walk.limit) > 0 =>
        /\ (walk.pc = "count" /\ walk.page > 1 /\ walk.data = <<>>) => left # {}
        /\ walk.pc # "cut"

-----------------------------------------------------------------------------
\* 'The list and count run in a single transaction for a consistent snapshot':
\* the rows of a page are as many as the total that comes with them says.
ConsistentSnapshot ==
    [][walk.pc = "count" /\ walk'.pc \notin {"count", "failed"} /\ PageSize(walk.limit) > 0 =>
          Len(walk.data) = Cardinality({n \in 1 .. walk'.total :
                                n > Skip /\ n <= Skip + PageSize(walk.limit)})]_vars

\* The same, for a client that asks for pages of no games: hasMore is true for ever.
WalksEnd == walk.pc # "cut"
=============================================================================
