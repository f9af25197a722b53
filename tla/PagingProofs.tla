---------------------------- MODULE PagingProofs ----------------------------
(***************************************************************************)
(* Theorems about module Paging, for any rows and names, any limits and    *)
(* cap, and any number of writes and pages.                                *)
(***************************************************************************)
EXTENDS Paging, TLAPS, FiniteSetTheorems, SequenceTheorems

-----------------------------------------------------------------------------
(* The inductive invariant: what the client has been given so far lies on  *)
(* the pages answered, and what it has not been given lies behind them,    *)
(* unless a row has gone or come before it.                                *)

\* The rows listed before row r for sure.
Before(r) == {s \in Present : name[s] < name[r]}

Distinct(rows) == \A m, n \in DOMAIN rows : m # n => rows[m] # rows[n]

\* How often the client has row r when the request in flight is answered.
Given(r) == got[r] + Cardinality({n \in DOMAIN walk.data : walk.data[n] = r})

\* The pages whose rows have been read.
PagesRead == IF walk.pc \in {"collection", "list"} THEN walk.page - 1 ELSE walk.page

GoneBelow(r) == \E n \in left : n < name[r]

ComeBelow(r) == \E n \in came : n < name[r]

\* Where a row stands to the k rows read so far.
Placed(r, k) ==
    /\ Given(r) = 0 /\ ~GoneBelow(r) => Cardinality(Before(r)) >= k
    /\ Given(r) > 0 /\ ~ComeBelow(r) => Cardinality(Before(r)) < k
    /\ Given(r) > 1 => ComeBelow(r)

CoverInv ==
    /\ Walking /\ PageSize(walk.limit) > 0 =>
        \A r \in stayed : Tied(r) \/ Placed(r, PagesRead * PageSize(walk.limit))
    /\ WalkCovers

\* The page asked for is not behind the last row.
MoreInv ==
    PageSize(walk.limit) > 0 /\ walk.page > 1 /\ left = {} =>
        /\ walk.pc \in {"collection", "list"} => Skip < Cardinality(Present)
        /\ walk.pc = "count" => walk.data # <<>>

PageInv ==
    /\ TypeOK
    /\ walk.pc = "start" => walk.page = 0 /\ walk.data = <<>>
    /\ walk.pc \notin {"count", "failed"} => walk.data = <<>>
    /\ Distinct(walk.data)
    /\ \A r \in Rows : Given(r) <= PagesRead
    /\ MoreInv
    /\ CoverInv

-----------------------------------------------------------------------------
(* Rows, sizes and orders.                                                  *)

LEMMA PresentFinite ==
    /\ Present \subseteq Rows
    /\ IsFiniteSet(Present)
    /\ Cardinality(Present) \in Nat
    /\ Cardinality(Present) <= Cardinality(Rows)
    /\ Cardinality(Rows) \in Nat
<1>1. IsFiniteSet(Rows) /\ Present \subseteq Rows
  BY PagingAssumption DEF Present
<1>2. QED
  BY <1>1, FS_Subset, FS_CardinalityType

LEMMA NamesAreNumbers ==
    ASSUME TypeOK
    PROVE  \A r \in Rows : name[r] \in Nat /\ name[r] \in Names \cup {Gone}
<1>1. name \in [Rows -> Names \cup {Gone}]
  BY DEF TypeOK
<1>2. \A n \in Names : n \in Nat
  BY PagingAssumption
<1>3. Gone \in Nat
  BY DEF Gone
<1>4. QED
  BY <1>1, <1>2, <1>3

LEMMA BeforeFinite ==
    \A r \in Rows :
        /\ Before(r) \subseteq Present
        /\ IsFiniteSet(Before(r))
        /\ Cardinality(Before(r)) \in Nat
        /\ Cardinality(Before(r)) <= Cardinality(Present)
<1> TAKE r \in Rows
<1>1. Before(r) \subseteq Present
  BY DEF Before
<1>2. QED
  BY <1>1, PresentFinite, FS_Subset, FS_CardinalityType

\* The same of the next state.
Finite ==
    /\ Present \subseteq Rows /\ IsFiniteSet(Present) /\ Cardinality(Present) \in Nat
    /\ \A r \in Rows : IsFiniteSet(Before(r)) /\ Cardinality(Before(r)) \in Nat

LEMMA FiniteThen == Finite'
<1>1. Finite
  BY PresentFinite, BeforeFinite DEF Finite
<1>2. QED
  BY <1>1, PTL

\* A row is not listed before itself.
LEMMA BeforeIsProper ==
    ASSUME TypeOK, NEW r \in Present
    PROVE  Cardinality(Before(r)) < Cardinality(Present)
<1>1. name[r] \in Int
  BY NamesAreNumbers, PresentFinite
<1>2. r \notin Before(r)
  BY <1>1 DEF Before
<1>3. Cardinality(Before(r)) # Cardinality(Present)
  BY <1>2, BeforeFinite, PresentFinite, FS_Subset
<1>4. QED
  BY <1>3, BeforeFinite, PresentFinite

LEMMA SizeIsInteger ==
    ASSUME NEW limit \in Limits
    PROVE  PageSize(limit) \in Int /\ PageSize(limit) <= MaxLimit
<1>1. MaxLimit \in Int /\ (limit = All \/ limit \in Int)
  BY PagingAssumption
<1>2. QED
  BY <1>1 DEF PageSize

\* A row is in a sequence without repetitions once or not at all.
LEMMA Occurrences ==
    ASSUME NEW data \in Seq(Rows), NEW r, Distinct(data)
    PROVE  Cardinality({n \in DOMAIN data : data[n] = r}) =
                IF \E n \in DOMAIN data : data[n] = r THEN 1 ELSE 0
<1>1. CASE \E n \in DOMAIN data : data[n] = r
  <2>1. PICK n \in DOMAIN data : data[n] = r
    BY <1>1
  <2>2. {m \in DOMAIN data : data[m] = r} = {n}
    BY <2>1 DEF Distinct
  <2>3. QED
    BY <1>1, <2>2, FS_Singleton
<1>2. CASE ~ \E n \in DOMAIN data : data[n] = r
  <2>1. {m \in DOMAIN data : data[m] = r} = {}
    BY <1>2
  <2>2. QED
    BY <1>2, <2>1, FS_EmptySet
<1>3. QED
  BY <1>1, <1>2

\* An arrangement has every row, each once.
LEMMA ArrangementIsOnto ==
    ASSUME NEW order \in Arrangements
    PROVE  \A r \in Present : \E p \in 1 .. Cardinality(Present) : order[p] = r
<1> DEFINE N == Cardinality(Present)
<1>1. N \in Nat /\ IsFiniteSet(Present)
  BY PresentFinite
<1>2. order \in [1 .. N -> Present]
  BY DEF Arrangements
<1>3. \A m, n \in 1 .. N : m # n => order[m] # order[n]
  BY <1>2 DEF Arrangements
<1>4. order \in Injection(1 .. N, Present)
  BY <1>2, <1>3 DEF Injection, IsInjective
<1>5. Cardinality(1 .. N) = N
  BY <1>1, FS_Interval
<1>6. order \in Surjection(1 .. N, Present)
  BY <1>1, <1>4, <1>5, FS_Injection
<1>7. QED
  BY <1>6 DEF Surjection

\* A row whose name no other has is listed right after those before it.
LEMMA Position ==
    ASSUME TypeOK, NEW order \in Orders, NEW r \in Present,
           \A s \in Rows \ {r} : name[s] # name[r]
    PROVE  \E p \in 1 .. Cardinality(Present) :
                order[p] = r /\ Cardinality(Before(r)) = p - 1
<1> DEFINE N == Cardinality(Present)
<1>1. N \in Nat /\ order \in [1 .. N -> Present] /\ order \in Arrangements
  BY PresentFinite DEF Orders, Arrangements
<1>2. /\ \A m, n \in 1 .. N : m # n => order[m] # order[n]
      /\ \A m, n \in 1 .. N : m < n => name[order[m]] <= name[order[n]]
  BY <1>1 DEF Orders, Arrangements
<1>3. PICK p \in 1 .. N : order[p] = r
  BY <1>1, ArrangementIsOnto
<1>4. \A s \in Present : s \in Rows /\ name[s] \in Int
  BY NamesAreNumbers, PresentFinite
<1>5. \A i \in 1 .. N : order[i] \in Before(r) <=> i < p
  <2> TAKE i \in 1 .. N
  <2>1. order[i] \in Present /\ name[order[i]] \in Int /\ name[r] \in Int
    BY <1>1, <1>4
  <2>2. CASE i < p
    <3>1. name[order[i]] <= name[r] /\ order[i] # r
      BY <1>2, <1>3, <2>2
    <3>2. name[order[i]] # name[r]
      BY <1>4, <2>1, <3>1
    <3>3. QED
      BY <2>1, <2>2, <3>1, <3>2 DEF Before
  <2>3. CASE i = p
    BY <1>3, <2>1, <2>3 DEF Before
  <2>4. CASE i > p
    <3>1. name[r] <= name[order[i]]
      BY <1>2, <1>3, <2>4
    <3>2. QED
      BY <2>1, <2>4, <3>1 DEF Before
  <2>5. QED
    BY <1>3, <2>2, <2>3, <2>4
<1>6. Before(r) \subseteq Present
  BY DEF Before
<1> DEFINE first == [i \in 1 .. p - 1 |-> order[i]]
<1>7. first \in [1 .. p - 1 -> Before(r)]
  <2>1. \A i \in 1 .. p - 1 : i \in 1 .. N /\ i < p
    BY <1>1, <1>3
  <2>2. QED
    BY <1>5, <2>1
<1>8. \A i, j \in 1 .. p - 1 : first[i] = first[j] => i = j
  BY <1>1, <1>2, <1>3
<1>9. \A s \in Before(r) : \E i \in 1 .. p - 1 : first[i] = s
  <2> TAKE s \in Before(r)
  <2>1. PICK i \in 1 .. N : order[i] = s
    BY <1>1, <1>6, ArrangementIsOnto
  <2>2. i \in 1 .. p - 1
    BY <1>3, <1>5, <2>1
  <2>3. QED
    BY <2>1, <2>2
<1>10. first \in Bijection(1 .. p - 1, Before(r))
  BY <1>7, <1>8, <1>9 DEF Bijection, Injection, Surjection, IsInjective
<1>11. Cardinality(Before(r)) = Cardinality(1 .. p - 1) /\ IsFiniteSet(1 .. p - 1)
  BY <1>3, <1>10, FS_Interval, FS_Bijection DEF ExistsBijection
<1>12. Cardinality(1 .. p - 1) = p - 1
  BY <1>3, FS_Interval
<1>13. QED
  BY <1>3, <1>11, <1>12

-----------------------------------------------------------------------------
(* Pages.                                                                   *)

LEMMA WalkTypes ==
    ASSUME TypeOK
    PROVE  /\ walk.pc \in PCs /\ walk.limit \in Limits /\ walk.page \in Nat
           /\ walk.data \in Seq(Rows) /\ walk.total \in Nat
           /\ PageSize(walk.limit) \in Int /\ PageSize(walk.limit) <= MaxLimit
           /\ Skip \in Int
<1>1. /\ walk.pc \in PCs /\ walk.limit \in Limits /\ walk.page \in Nat
      /\ walk.data \in Seq(Rows) /\ walk.total \in Nat
  BY DEF TypeOK, Walk
<1>2. PageSize(walk.limit) \in Int /\ PageSize(walk.limit) <= MaxLimit
  BY <1>1, SizeIsInteger
<1>3. Skip \in Int
  BY <1>1, <1>2 DEF Skip
<1>4. QED
  BY <1>1, <1>2, <1>3

\* The rows listed from a to b, each once.
IsSlice(page, order, a, b) ==
    /\ page \in Seq(Rows)
    /\ Len(page) = IF a <= b THEN b - a + 1 ELSE 0
    /\ Distinct(page)
    /\ \A p \in DOMAIN order : (\E n \in DOMAIN page : page[n] = order[p]) <=> a <= p /\ p <= b

LEMMA Slice ==
    ASSUME NEW N \in Nat, NEW order \in [1 .. N -> Rows], Distinct(order),
           NEW a \in Int, NEW b \in Int, 1 <= a, b <= N
    PROVE  IsSlice(SubSeq(order, a, b), order, a, b)
<1> DEFINE page == SubSeq(order, a, b)
<1>1. \A i \in a .. b : order[i] \in Rows
  OBVIOUS
<1>2. /\ page \in Seq(Rows)
      /\ Len(page) = IF a <= b THEN b - a + 1 ELSE 0
      /\ \A i \in 1 .. b - a + 1 : page[i] = order[a + i - 1]
  BY <1>1, SubSeqProperties
<1>3. DOMAIN page = 1 .. Len(page)
  BY <1>2
<1>4. \A i \in DOMAIN page : i \in 1 .. b - a + 1 /\ a + i - 1 \in 1 .. N
  BY <1>2, <1>3
<1>5. Distinct(page)
  BY <1>2, <1>4 DEF Distinct
<1>6. ASSUME NEW p \in 1 .. N
      PROVE  (\E n \in DOMAIN page : page[n] = order[p]) <=> a <= p /\ p <= b
  <2>1. ASSUME NEW n \in DOMAIN page, page[n] = order[p] PROVE a <= p /\ p <= b
    <3>1. page[n] = order[a + n - 1]
      BY <1>2, <1>4
    <3>2. p = a + n - 1
      BY <1>4, <2>1, <3>1 DEF Distinct
    <3>3. QED
      BY <1>4, <3>2
  <2>2. ASSUME a <= p, p <= b PROVE \E n \in DOMAIN page : page[n] = order[p]
    <3>1. PICK n : n = p - a + 1
      OBVIOUS
    <3>2. n \in 1 .. b - a + 1 /\ n \in DOMAIN page /\ a + n - 1 = p
      BY <1>2, <1>3, <2>2, <3>1
    <3>3. QED
      BY <1>2, <3>2
  <2>3. QED
    BY <2>1, <2>2
<1>7. QED
  BY <1>2, <1>5, <1>6 DEF IsSlice

\* What a query answers: distinct rows, no more than the cap, and with a positive
\* limit the rows listed from Skip on.
LEMMA PageHolds ==
    ASSUME TypeOK, NEW order \in Orders, Skip >= 0, NEW page, page = Page(order)
    PROVE  /\ page \in Seq(Rows)
           /\ Distinct(page)
           /\ PageSize(walk.limit) >= 0 => Len(page) <= MaxLimit
           /\ PageSize(walk.limit) > 0 =>
                /\ Skip < Cardinality(Present) => page # <<>>
                /\ \A p \in 1 .. Cardinality(Present) :
                        (\E n \in DOMAIN page : page[n] = order[p]) <=>
                            Skip < p /\ p <= Skip + PageSize(walk.limit)
<1> DEFINE N == Cardinality(Present)
<1>1. N \in Nat /\ order \in [1 .. N -> Rows] /\ Len(order) = N
  BY PresentFinite DEF Orders, Arrangements
<1>2. Distinct(order)
  BY DEF Orders, Arrangements, Distinct
<1>3. PICK take \in Int : take = PageSize(walk.limit) /\ take <= MaxLimit
  BY WalkTypes
<1>4. PICK skip \in Nat : skip = Skip
  BY WalkTypes
<1>5. MaxLimit \in Nat
  BY PagingAssumption
<1>6. CASE take >= 0
  <2>1. PICK upTo \in Nat : upTo = IF skip + take < N THEN skip + take ELSE N
    BY <1>1, <1>6
  <2>2. page = SubSeq(order, skip + 1, upTo)
    BY <1>1, <1>3, <1>4, <1>6, <2>1 DEF Page
  <2>3. /\ page \in Seq(Rows)
        /\ Len(page) = IF skip + 1 <= upTo THEN upTo - (skip + 1) + 1 ELSE 0
        /\ Distinct(page)
        /\ \A p \in 1 .. N :
                (\E n \in DOMAIN page : page[n] = order[p]) <=> skip + 1 <= p /\ p <= upTo
    <3>1. PICK a \in Int : a = skip + 1
      BY <1>4
    <3>2. upTo \in Int /\ 1 <= a /\ upTo <= N
      BY <1>1, <1>4, <2>1, <3>1
    <3>3. IsSlice(page, order, a, upTo)
      BY <1>1, <1>2, <2>2, <3>1, <3>2, Slice
    <3>4. QED
      BY <1>1, <3>1, <3>3 DEF IsSlice
  <2>4. Len(page) <= take
    BY <1>1, <1>6, <2>1, <2>3
  <2>5. take > 0 /\ skip < N => page # <<>>
    BY <1>1, <2>1, <2>3
  <2>6. take > 0 => \A p \in 1 .. N :
            (\E n \in DOMAIN page : page[n] = order[p]) <=> skip < p /\ p <= skip + take
    BY <1>1, <2>1, <2>3
  <2>7. QED
    BY <1>3, <1>4, <1>5, <2>3, <2>4, <2>5, <2>6
<1>7. CASE take < 0
  <2>1. PICK from \in Int : from = IF N + take < 0 THEN 1 ELSE N + take + 1
    BY <1>1
  <2>2. page = SubSeq(order, from, N)
    <3>1. ~ PageSize(walk.limit) >= 0
      BY <1>3, <1>7
    <3>2. page = SubSeq(order, IF Len(order) + PageSize(walk.limit) < 0 THEN 1
                               ELSE Len(order) + PageSize(walk.limit) + 1, Len(order))
      BY <3>1, Zenon DEF Page
    <3>3. QED
      BY <1>1, <1>3, <2>1, <3>2
  <2>3. page \in Seq(Rows) /\ Distinct(page)
    <3>1. from \in Int /\ 1 <= from /\ N \in Int /\ N <= N
      BY <1>1, <1>3, <2>1
    <3>2. IsSlice(page, order, from, N)
      BY <1>1, <1>2, <2>2, <3>1, Slice
    <3>3. QED
      BY <3>2 DEF IsSlice
  <2>4. QED
    BY <1>3, <1>7, <2>3
<1>8. QED
  BY <1>3, <1>6, <1>7

-----------------------------------------------------------------------------
(* What has been given.                                                     *)

GivenOf(r) ==
    /\ got[r] \in Nat /\ Given(r) \in Nat
    /\ Given(r) = got[r] + (IF \E n \in DOMAIN walk.data : walk.data[n] = r THEN 1 ELSE 0)
    /\ walk.data = <<>> => Given(r) = got[r]

LEMMA GivenIs == TypeOK /\ Distinct(walk.data) => \A r \in Rows : GivenOf(r)
<1> SUFFICES ASSUME TypeOK, Distinct(walk.data), NEW r \in Rows PROVE GivenOf(r)
  OBVIOUS
<1>1. got[r] \in Nat
  BY PagingAssumption DEF TypeOK
<1>2. Cardinality({n \in DOMAIN walk.data : walk.data[n] = r}) =
            IF \E n \in DOMAIN walk.data : walk.data[n] = r THEN 1 ELSE 0
  BY WalkTypes, Occurrences
<1>3. PICK k \in Nat : k = Cardinality({n \in DOMAIN walk.data : walk.data[n] = r})
  BY <1>2
<1>4. Given(r) = got[r] + k
  BY <1>3 DEF Given
<1>5. walk.data = <<>> => ~ \E n \in DOMAIN walk.data : walk.data[n] = r
  BY WalkTypes
<1>6. QED
  BY <1>1, <1>2, <1>3, <1>4, <1>5 DEF GivenOf

\* The same of the next state.
GivenRight == Distinct(walk.data) => \A r \in Rows : GivenOf(r)

LEMMA GivenIsThen == TypeOK' => GivenRight'
<1>1. TypeOK => GivenRight
  BY GivenIs DEF GivenRight
<1>2. QED
  BY <1>1, PTL

\* The next pages begin where the one read ends.
LEMMA NextSkip ==
    ASSUME NEW page \in Nat, NEW size \in Int
    PROVE  /\ (page - 1) * size + size = page * size
           /\ (page + 1 - 1) * size = page * size
           /\ page * size \in Int
  OBVIOUS

LEMMA PagingInit == Init => PageInv
<1> SUFFICES ASSUME Init PROVE PageInv
  OBVIOUS
<1>1. /\ walk.pc = "start" /\ walk.limit \in Limits /\ walk.page = 0
      /\ walk.data = <<>> /\ walk.total = 0 /\ walk \in Walk
  <2>1. walk \in [pc : {"start"}, limit : Limits, page : {0}, data : {<<>>}, total : {0}]
    BY DEF Init
  <2>2. <<>> \in Seq(Rows) /\ 0 \in Nat /\ "start" \in PCs
    BY DEF PCs
  <2>3. QED
    BY <2>1, <2>2 DEF Walk
<1>2. TypeOK
  <2>1. MaxLimit \in Nat /\ MaxPages \in Nat /\ MaxWrites \in Nat
    BY PagingAssumption
  <2>2. Len(walk.data) = 0
    BY <1>1
  <2>3. got \in [Rows -> 0 .. MaxPages]
    BY <2>1 DEF Init
  <2>4. /\ listing \in Listings /\ collection \in BOOLEAN
        /\ name \in [Rows -> Names \cup {Gone}] /\ stayed \subseteq Present
        /\ left \cup came \subseteq Names /\ writes \in 0 .. MaxWrites
    BY <2>1 DEF Init
  <2>5. QED
    BY <1>1, <2>1, <2>2, <2>3, <2>4 DEF TypeOK
<1>3. Distinct(walk.data)
  BY <1>1 DEF Distinct
<1>4. \A r \in Rows : Given(r) <= PagesRead
  <2>1. \A r \in Rows : got[r] = 0 /\ Given(r) = got[r]
    BY <1>1, <1>2, <1>3, GivenIs DEF Init, GivenOf
  <2>2. QED
    BY <1>1, <2>1 DEF PagesRead
<1>5. MoreInv /\ CoverInv
  BY <1>1 DEF MoreInv, CoverInv, Walking, WalkCovers
<1>6. QED
  BY <1>1, <1>2, <1>3, <1>4, <1>5 DEF PageInv

-----------------------------------------------------------------------------
(* The steps of the handler.                                                *)

LEMMA AskFirstPages ==
    ASSUME PageInv, AskFirst
    PROVE  PageInv'
<1>1. TypeOK /\ walk.pc = "start" /\ walk.page = 0 /\ walk.data = <<>>
  BY DEF PageInv, AskFirst
<1>2. PICK w \in Walk : w = [walk EXCEPT !.pc = Begins, !.page = 1, !.limit = Requested(@)]
  BY <1>1, PagingAssumption DEF TypeOK, Walk, PCs, Begins, Requested
<1>3. /\ walk' = w /\ w.pc \in {"collection", "list"} /\ w.page = 1 /\ w.data = <<>>
      /\ got' = got /\ Nothing
  BY <1>1, <1>2 DEF AskFirst, TypeOK, Walk, Begins
<1>4. TypeOK'
  <2>1. 1 \in 1 .. MaxPages /\ Len(<<>>) <= MaxLimit
    BY PagingAssumption
  <2>2. (PageSize(walk.limit) >= 0 => Len(walk.data) <= MaxLimit)'
    BY <1>3, <2>1
  <2>3. (walk.pc # "start" => walk.page \in 1 .. MaxPages)'
    BY <1>3, <2>1
  <2>4. QED
    BY <1>1, <1>2, <1>3, <2>2, <2>3 DEF TypeOK, Nothing, Present
<1>5. Distinct(walk.data)'
  BY <1>3 DEF Distinct
<1>6. \A r \in Rows : Given(r)' = 0
  <2> TAKE r \in Rows
  <2>1. Given(r) = got[r] /\ Given(r) \in Nat /\ Given(r) <= PagesRead
    BY <1>1, GivenIs DEF PageInv, GivenOf
  <2>2. PagesRead = 0
    BY <1>1 DEF PagesRead
  <2>3. Given(r)' = got'[r]
    BY <1>3, <1>4, <1>5, GivenIsThen DEF GivenRight, GivenOf
  <2>4. QED
    BY <1>3, <2>1, <2>2, <2>3
<1>7. PagesRead' = 0
  BY <1>3 DEF PagesRead
<1>8. MoreInv'
  BY <1>3 DEF MoreInv
<1>9. CoverInv'
  <2>1. \A r \in stayed' : Placed(r, PagesRead * PageSize(walk.limit))'
    <3> TAKE r \in stayed'
    <3>1. r \in Rows
      BY <1>4, PresentFinite DEF TypeOK, Present
    <3>2. PagesRead' * PageSize(walk.limit)' = 0
      <4>1. PICK size \in Int : size = PageSize(w.limit)
        BY <1>2, SizeIsInteger DEF Walk
      <4>2. QED
        BY <1>3, <1>7, <4>1
    <3>3. Cardinality(Before(r)') >= 0
      BY <3>1, FiniteThen DEF Finite
    <3>4. QED
      BY <1>6, <3>1, <3>2, <3>3 DEF Placed
  <2>2. QED
    BY <1>3, <2>1 DEF CoverInv, WalkCovers
<1>10. QED
  BY <1>3, <1>4, <1>5, <1>6, <1>7, <1>8, <1>9 DEF PageInv

\* The handler goes on without the collection, or gives up.
LEMMA GoOnPages ==
    ASSUME PageInv, Walking, got' = got, Nothing,
           NEW pc \in {"list", "failed"}, pc = "list" => walk.pc = "collection",
           walk' = [walk EXCEPT !.pc = pc]
    PROVE  PageInv'
<1>1. TypeOK /\ walk.pc \in {"collection", "list", "count"} /\ Distinct(walk.data)
  BY DEF PageInv, Walking
<1>2. PICK w \in Walk : w = [walk EXCEPT !.pc = pc]
  BY <1>1 DEF TypeOK, Walk, PCs
<1>3. /\ walk' = w /\ w.pc = pc /\ w.page = walk.page /\ w.data = walk.data
      /\ w.limit = walk.limit
  BY <1>1, <1>2 DEF TypeOK, Walk
<1>4. TypeOK'
  BY <1>1, <1>2, <1>3 DEF TypeOK, Nothing, Present
<1>5. /\ Distinct(walk.data)' /\ Present' = Present /\ Skip' = Skip
      /\ \A r : Given(r)' = Given(r) /\ Before(r)' = Before(r)
  BY <1>1, <1>3 DEF Given, Before, Present, Nothing, Skip
<1>6. /\ PagesRead \in Int /\ PagesRead' \in Int /\ PagesRead <= PagesRead'
      /\ pc = "list" => PagesRead' = PagesRead
  BY <1>1, <1>3, WalkTypes DEF PagesRead
<1>7. \A r \in Rows : Given(r)' <= PagesRead'
  <2> TAKE r \in Rows
  <2>1. Given(r) \in Nat /\ Given(r) <= PagesRead
    BY <1>1, GivenIs DEF PageInv, GivenOf
  <2>2. QED
    BY <1>5, <1>6, <2>1
<1>8. walk'.pc \notin {"count", "failed"} => walk'.data = <<>>
  BY <1>3 DEF PageInv
<1>9. MoreInv'
  BY <1>3, <1>5 DEF PageInv, MoreInv, Nothing
<1>10. CoverInv'
  <2>1. CASE pc = "failed"
    BY <1>3, <2>1 DEF CoverInv, Walking, WalkCovers
  <2>2. CASE pc = "list"
    <3>1. ASSUME PageSize(walk.limit) > 0, NEW r \in stayed
          PROVE  Tied(r)' \/ Placed(r, PagesRead * PageSize(walk.limit))'
      <4>1. Tied(r) \/ Placed(r, PagesRead * PageSize(walk.limit))
        BY <3>1 DEF PageInv, CoverInv
      <4>2. Tied(r)' <=> Tied(r)
        BY DEF Tied, Nothing
      <4>3. PagesRead' * PageSize(walk.limit)' = PagesRead * PageSize(walk.limit)
        BY <1>3, <1>6, <2>2
      <4>4. QED
        BY <1>5, <4>1, <4>2, <4>3 DEF Placed, GoneBelow, ComeBelow, Nothing
    <3>2. QED
      BY <1>3, <2>2, <3>1 DEF CoverInv, WalkCovers, Nothing
  <2>3. QED
    BY <2>1, <2>2
<1>11. QED
  BY <1>3, <1>4, <1>5, <1>7, <1>8, <1>9, <1>10 DEF PageInv

LEMMA ReadCollectionPages == PageInv /\ ReadCollection => PageInv'
<1>1. ReadCollection => \E pc \in {"list", "failed"} : walk' = [walk EXCEPT !.pc = pc]
  BY DEF ReadCollection
<1>2. QED
  BY <1>1, GoOnPages DEF ReadCollection, Walking

LEMMA FailPages == PageInv /\ Fail => PageInv'
  BY GoOnPages DEF Fail, Walking

\* A page is read.  A row that is on it and that no other has tied with stands
\* between the pages read before and the next one.
LEMMA FindManyPages ==
    ASSUME PageInv, FindMany
    PROVE  PageInv'
<1>1. CASE Skip < 0 /\ walk' = [walk EXCEPT !.pc = "failed"]
  BY <1>1, GoOnPages DEF FindMany, Walking
<1>2. ASSUME Skip >= 0,
             NEW order \in Orders, walk' = [walk EXCEPT !.pc = "count", !.data = Page(order)]
      PROVE  PageInv'
  <2>1. TypeOK /\ walk.pc = "list" /\ walk.data = <<>> /\ got' = got /\ Nothing
    BY DEF PageInv, FindMany
  <2>2. PICK page : page = Page(order)
    OBVIOUS
  <2>3. /\ page \in Seq(Rows) /\ Distinct(page)
        /\ PageSize(walk.limit) >= 0 => Len(page) <= MaxLimit
        /\ PageSize(walk.limit) > 0 =>
                /\ Skip < Cardinality(Present) => page # <<>>
                /\ \A p \in 1 .. Cardinality(Present) :
                        (\E n \in DOMAIN page : page[n] = order[p]) <=>
                            Skip < p /\ p <= Skip + PageSize(walk.limit)
    BY <1>2, <2>1, <2>2, PageHolds
  <2>4. PICK w \in Walk : w = [walk EXCEPT !.pc = "count", !.data = page]
    BY <2>1, <2>3 DEF TypeOK, Walk, PCs
  <2>5. /\ walk' = w /\ w.pc = "count" /\ w.page = walk.page /\ w.data = page
        /\ w.limit = walk.limit
    BY <1>2, <2>1, <2>2, <2>4 DEF TypeOK, Walk
  <2>6. TypeOK'
    BY <2>1, <2>3, <2>4, <2>5 DEF TypeOK, Nothing, Present
  <2>7. /\ Distinct(walk.data)' /\ Present' = Present
        /\ \A r : Before(r)' = Before(r)
    BY <2>1, <2>3, <2>5 DEF Before, Present, Nothing
  <2>8. \A r \in Rows :
            /\ got[r] \in Nat /\ Given(r) = got[r]
            /\ Given(r)' = got[r] + (IF \E n \in DOMAIN page : page[n] = r THEN 1 ELSE 0)
    <3>1. Distinct(walk.data)
      BY DEF PageInv
    <3>2. QED
      BY <2>1, <2>5, <2>6, <2>7, <3>1, GivenIs, GivenIsThen DEF GivenOf, GivenRight
  <2>9. /\ walk.page \in Nat /\ PagesRead = walk.page - 1 /\ PagesRead' = walk.page
    BY <2>1, <2>5, WalkTypes DEF PagesRead
  <2>10. \A r \in Rows : Given(r)' <= PagesRead'
    <3> TAKE r \in Rows
    <3>1. got[r] <= walk.page - 1
      BY <2>8, <2>9 DEF PageInv
    <3>2. QED
      BY <2>8, <2>9, <3>1
  <2>11. MoreInv'
    BY <2>1, <2>3, <2>5 DEF PageInv, MoreInv, Nothing
  <2>12. CoverInv'
    <3>1. PICK size \in Int : size = PageSize(walk.limit)
      BY <2>1, WalkTypes
    <3>2. PICK skip \in Nat : skip = Skip
      BY <1>2, <2>1, WalkTypes
    <3>3. PagesRead * size = skip /\ PagesRead' * size = skip + size
      BY <2>9, <3>1, <3>2, NextSkip DEF Skip
    <3>4. ASSUME size > 0, NEW r \in stayed, ~Tied(r)
          PROVE  Placed(r, PagesRead * PageSize(walk.limit))'
      <4>1. Placed(r, skip)
        BY <2>1, <3>1, <3>3, <3>4 DEF PageInv, CoverInv, Walking
      <4>2. r \in Present /\ r \in Rows
        BY <2>1 DEF TypeOK, Present
      <4>3. \A s \in Rows \ {r} : name[s] # name[r]
        BY <3>4 DEF Tied
      <4>4. PICK p \in 1 .. Cardinality(Present) :
                order[p] = r /\ Cardinality(Before(r)) = p - 1
        BY <1>2, <2>1, <4>2, <4>3, Position
      <4>5. (\E n \in DOMAIN page : page[n] = r) <=> skip < p /\ p <= skip + size
        BY <2>3, <3>1, <3>2, <3>4, <4>4
      <4>6. PICK given \in Nat : given = Given(r)
        BY <2>8, <4>2
      <4>7. PICK then \in Nat : then = Given(r)'
        BY <2>8, <4>2
      <4>8. then = given + (IF skip < p /\ p <= skip + size THEN 1 ELSE 0)
        BY <2>8, <4>2, <4>5, <4>6, <4>7
      <4>9. /\ given = 0 /\ ~GoneBelow(r) => p - 1 >= skip
            /\ given > 0 /\ ~ComeBelow(r) => p - 1 < skip
            /\ given > 1 => ComeBelow(r)
        BY <4>1, <4>4, <4>6 DEF Placed
      <4>10. /\ then = 0 /\ ~GoneBelow(r) => p - 1 >= skip + size
             /\ then > 0 /\ ~ComeBelow(r) => p - 1 < skip + size
             /\ then > 1 => ComeBelow(r)
        BY <3>4, <4>8, <4>9
      <4>11. (GoneBelow(r)' <=> GoneBelow(r)) /\ (ComeBelow(r)' <=> ComeBelow(r))
        BY <2>1 DEF GoneBelow, ComeBelow, Nothing
      <4>12. PagesRead' * PageSize(walk.limit)' = skip + size
        BY <2>5, <3>1, <3>3
      <4>13. QED
        BY <2>7, <4>4, <4>7, <4>10, <4>11, <4>12 DEF Placed
    <3>5. \A r \in stayed' : r \in stayed /\ (Tied(r)' <=> Tied(r))
      BY <2>1 DEF Tied, Nothing
    <3>6. PageSize(walk.limit)' = size
      BY <2>5, <3>1
    <3>7. QED
      BY <2>5, <3>4, <3>5, <3>6 DEF CoverInv, WalkCovers
  <2>13. QED
    BY <2>5, <2>6, <2>7, <2>10, <2>11, <2>12 DEF PageInv
<1>3. QED
  BY <1>1, <1>2 DEF FindMany

\* The answer is given.  The next page is asked for when there is more behind the
\* pages read, and the walk ends when all the rows lie on them.
LEMMA CountRowsPages ==
    ASSUME PageInv, CountRows
    PROVE  PageInv'
<1>1. TypeOK /\ walk.pc = "count" /\ Nothing /\ Distinct(walk.data)
  BY DEF PageInv, CountRows
<1>2. PICK total \in Nat : total = Cardinality(Present)
  BY PresentFinite
<1>3. PICK size \in Int : size = PageSize(walk.limit)
  BY <1>1, WalkTypes
<1>4. walk.page \in 1 .. MaxPages /\ MaxPages \in Nat
  BY <1>1, PagingAssumption DEF TypeOK
<1>5. PICK w \in Walk :
        /\ walk' = w /\ w.limit = walk.limit /\ w.data = <<>> /\ w.total = total
        /\ \/ w.pc = "done" /\ w.page = walk.page /\ ~(walk.page * size < total)
           \/ w.pc = "cut" /\ w.page = walk.page /\ walk.page = MaxPages
           \/ /\ w.pc = Begins /\ w.page = walk.page + 1
              /\ walk.page < MaxPages /\ walk.page * size < total
  <2>1. PICK answer \in Walk : answer = [walk EXCEPT !.total = total, !.data = <<>>]
    <3>1. walk \in Walk /\ <<>> \in Seq(Rows)
      BY <1>1 DEF TypeOK
    <3>2. QED
      BY <1>2, <3>1 DEF Walk
  <2>2. /\ answer.limit = walk.limit /\ answer.data = <<>> /\ answer.total = total
        /\ answer.page = walk.page
    BY <1>1, <2>1 DEF TypeOK, Walk
  <2>3. walk' = IF ~HasMore(walk.page, walk.limit, total) THEN [answer EXCEPT !.pc = "done"]
                ELSE IF walk.page = MaxPages THEN [answer EXCEPT !.pc = "cut"]
                ELSE [answer EXCEPT !.pc = Begins, !.page = walk.page + 1]
    BY <1>2, <2>1, <2>2 DEF CountRows
  <2>4. HasMore(walk.page, walk.limit, total) <=> walk.page * size < total
    BY <1>3 DEF HasMore
  <2>5. CASE ~(walk.page * size < total)
    <3>1. PICK next \in Walk : next = [answer EXCEPT !.pc = "done"]
      BY <2>1 DEF Walk, PCs
    <3>2. /\ next.limit = walk.limit /\ next.data = <<>> /\ next.total = total
          /\ next.pc = "done" /\ next.page = walk.page
      BY <2>1, <2>2, <3>1 DEF Walk
    <3>3. walk' = next
      BY <2>3, <2>4, <2>5, <3>1
    <3>4. QED
      BY <2>5, <3>2, <3>3
  <2>6. CASE walk.page * size < total /\ walk.page = MaxPages
    <3>1. PICK next \in Walk : next = [answer EXCEPT !.pc = "cut"]
      BY <2>1 DEF Walk, PCs
    <3>2. /\ next.limit = walk.limit /\ next.data = <<>> /\ next.total = total
          /\ next.pc = "cut" /\ next.page = walk.page
      BY <2>1, <2>2, <3>1 DEF Walk
    <3>3. walk' = next
      BY <2>3, <2>4, <2>6, <3>1
    <3>4. QED
      BY <2>6, <3>2, <3>3
  <2>7. CASE walk.page * size < total /\ walk.page # MaxPages
    <3>1. Begins \in PCs /\ walk.page + 1 \in Nat /\ walk.page < MaxPages
      BY <1>4, <2>7 DEF Begins, PCs
    <3>2. PICK next \in Walk : next = [answer EXCEPT !.pc = Begins, !.page = walk.page + 1]
      BY <2>1, <3>1 DEF Walk
    <3>3. /\ next.limit = walk.limit /\ next.data = <<>> /\ next.total = total
          /\ next.pc = Begins /\ next.page = walk.page + 1
      BY <2>1, <2>2, <3>2 DEF Walk
    <3>4. walk' = next
      BY <2>3, <2>4, <2>7, <3>2
    <3>5. QED
      BY <2>7, <3>1, <3>3, <3>4
  <2>8. QED
    BY <2>5, <2>6, <2>7
<1>6. Begins \in {"collection", "list"}
  BY DEF Begins
<1>7. /\ \A r \in Rows : got'[r] = Given(r)
      /\ \A r \in Rows : Given(r) \in Nat /\ Given(r) <= walk.page
      /\ got' \in [Rows -> 0 .. MaxPages]
  <2>1. got' = [r \in Rows |-> Given(r)]
    BY DEF CountRows, Given
  <2>2. PagesRead = walk.page
    BY <1>1 DEF PagesRead
  <2>3. \A r \in Rows : Given(r) \in Nat /\ Given(r) <= walk.page
    BY <1>1, <2>2, GivenIs DEF PageInv, GivenOf
  <2>4. \A r \in Rows : Given(r) \in 0 .. MaxPages
    BY <1>4, <2>3
  <2>5. QED
    BY <2>1, <2>3, <2>4
<1>8. TypeOK'
  <2>1. Len(walk'.data) = 0 /\ MaxLimit \in Nat
    BY <1>5, PagingAssumption
  <2>2. walk'.page \in 1 .. MaxPages
    BY <1>4, <1>5
  <2>3. QED
    BY <1>1, <1>5, <1>7, <2>1, <2>2 DEF TypeOK, Nothing, Present
<1>9. /\ Distinct(walk.data)' /\ Present' = Present
      /\ \A r : Before(r)' = Before(r)
  BY <1>1, <1>5 DEF Distinct, Before, Present, Nothing
<1>10. \A r \in Rows : Given(r)' = Given(r)
  BY <1>5, <1>7, <1>8, <1>9, GivenIsThen DEF GivenOf, GivenRight
<1>11. PagesRead = walk.page /\ PagesRead' = walk.page
  BY <1>1, <1>4, <1>5, <1>6 DEF PagesRead
<1>12. MoreInv'
  <2>1. CASE w.pc = Begins /\ w.page = walk.page + 1 /\ walk.page * size < total
    <3>1. Skip' = walk.page * size
      BY <1>3, <1>4, <1>5, <2>1, NextSkip DEF Skip
    <3>2. QED
      BY <1>2, <1>5, <1>6, <1>9, <2>1, <3>1 DEF MoreInv
  <2>2. CASE w.pc \in {"done", "cut"}
    BY <1>5, <2>2 DEF MoreInv
  <2>3. QED
    BY <1>5, <2>1, <2>2
<1>13. ASSUME size > 0, NEW r \in stayed
       PROVE  Tied(r) \/ Placed(r, walk.page * size)
  BY <1>1, <1>3, <1>11, <1>13 DEF PageInv, CoverInv, Walking
<1>14. /\ \A r : Tied(r)' <=> Tied(r)
       /\ \A r : GoneBelow(r)' <=> GoneBelow(r)
       /\ \A r : ComeBelow(r)' <=> ComeBelow(r)
       /\ stayed' = stayed /\ stayed \subseteq Present /\ stayed \subseteq Rows
  BY <1>1 DEF Tied, GoneBelow, ComeBelow, Nothing, TypeOK, Present
<1>15. PageSize(walk.limit)' = size
  BY <1>3, <1>5
<1>16. CoverInv'
  <2>1. ASSUME size > 0, NEW r \in stayed
        PROVE  Tied(r)' \/ Placed(r, PagesRead * PageSize(walk.limit))'
    <3>1. Tied(r) \/ Placed(r, walk.page * size)
      BY <1>13, <2>1
    <3>2. (PagesRead * PageSize(walk.limit))' = walk.page * size
      BY <1>11, <1>15
    <3>3. QED
      BY <1>9, <1>10, <1>14, <3>1, <3>2 DEF Placed
  <2>2. ASSUME w.pc = "done", size > 0, NEW r \in stayed, ~Tied(r)
        PROVE  \/ got'[r] = 1
               \/ got'[r] = 0 /\ GoneBelow(r)
               \/ got'[r] > 1 /\ ComeBelow(r)
    <3>1. PICK k \in Int : k = walk.page * size
      BY <1>4, NextSkip
    <3>2. k >= total
      BY <1>2, <1>5, <2>2, <3>1, <1>6
    <3>3. PICK before \in Nat : before = Cardinality(Before(r)) /\ before < total
      BY <1>1, <1>2, <1>14, <2>2, BeforeFinite, BeforeIsProper
    <3>4. Placed(r, k)
      BY <1>13, <2>2, <3>1
    <3>5. PICK given \in Nat : given = Given(r) /\ given = got'[r]
      BY <1>7, <1>14, <2>2
    <3>6. QED
      BY <3>2, <3>3, <3>4, <3>5 DEF Placed
  <2>3. WalkCovers'
    BY <1>5, <1>14, <1>15, <2>2 DEF WalkCovers, GoneBelow, ComeBelow, CountRows, Nothing
  <2>4. QED
    BY <1>14, <1>15, <2>1, <2>3 DEF CoverInv
<1>17. \A r \in Rows : Given(r)' <= PagesRead'
  BY <1>7, <1>10, <1>11
<1>18. (walk.pc = "start")' = FALSE
  BY <1>5, <1>6
<1>19. QED
  BY <1>5, <1>8, <1>9, <1>12, <1>16, <1>17, <1>18 DEF PageInv

-----------------------------------------------------------------------------
(* The other requests.                                                      *)

\* A write moves the place of the rows that it leaves alone only by a row that
\* goes from before them, or comes there.
LEMMA RenamePages ==
    ASSUME PageInv, NEW q \in Rows, NEW n \in Names \cup {Gone}, Rename(q, n)
    PROVE  PageInv'
<1>1. /\ TypeOK /\ Walking /\ walk' = walk /\ got' = got
      /\ name' = [name EXCEPT ![q] = n] /\ stayed' = stayed \ {q}
      /\ left' = left \cup Taken(name[q]) /\ came' = came \cup Taken(n)
      /\ collection' = collection /\ listing' = listing
      /\ writes < MaxWrites /\ writes' = writes + 1
  BY DEF PageInv, Rename
<1>2. /\ name \in [Rows -> Names \cup {Gone}] /\ name' \in [Rows -> Names \cup {Gone}]
      /\ name'[q] = n /\ \A s \in Rows \ {q} : name'[s] = name[s]
  BY <1>1 DEF TypeOK
<1>3. TypeOK'
  <2>1. stayed' \subseteq Present'
    BY <1>1, <1>2 DEF TypeOK, Present
  <2>2. left' \cup came' \subseteq Names
    BY <1>1, <1>2 DEF TypeOK, Taken
  <2>3. writes' \in 0 .. MaxWrites
    BY <1>1, PagingAssumption DEF TypeOK
  <2>4. QED
    BY <1>1, <1>2, <2>1, <2>2, <2>3 DEF TypeOK
<1>4. /\ \A r : Given(r)' = Given(r)
      /\ PagesRead' = PagesRead /\ Skip' = Skip /\ PageSize(walk.limit)' = PageSize(walk.limit)
      /\ Distinct(walk.data)' = Distinct(walk.data)
  BY <1>1 DEF Given, PagesRead, Skip, PageSize, Distinct
<1>5. MoreInv'
  <2>1. ASSUME left' = {}
        PROVE  left = {} /\ Cardinality(Present) <= Cardinality(Present')
    <3>1. left = {} /\ name[q] = Gone
      BY <1>1, <2>1 DEF Taken
    <3>2. Present \subseteq Present'
      BY <1>2, <3>1 DEF Present
    <3>3. QED
      BY <3>1, <3>2, FiniteThen, FS_Subset DEF Finite
  <2>2. Cardinality(Present) \in Nat /\ Cardinality(Present') \in Nat /\ Skip \in Int
    BY <1>1, PresentFinite, FiniteThen, WalkTypes DEF Finite
  <2>3. QED
    BY <1>1, <1>4, <2>1, <2>2 DEF PageInv, MoreInv
<1>6. CoverInv'
  <2>1. PICK k \in Int : k = PagesRead * PageSize(walk.limit)
    BY <1>1, WalkTypes DEF PagesRead
  <2>2. ASSUME PageSize(walk.limit) > 0, NEW r \in stayed', ~Tied(r)'
        PROVE  Placed(r, PagesRead * PageSize(walk.limit))'
    <3>1. r \in stayed /\ r \in Rows /\ r # q /\ name'[r] = name[r]
      BY <1>1, <1>2 DEF TypeOK, Present
    <3>2. ~Tied(r)
      <4>1. ASSUME NEW s \in Rows \ {r}, name[s] = name[r] PROVE FALSE
        <5>1. CASE s = q
          <6>1. name[r] # Gone
            BY <1>1, <3>1 DEF TypeOK, Present
          <6>2. name[r] \in left'
            BY <1>1, <4>1, <5>1, <6>1 DEF Taken
          <6>3. QED
            BY <2>2, <3>1, <6>2 DEF Tied
        <5>2. CASE s # q
          BY <1>2, <2>2, <3>1, <4>1, <5>2 DEF Tied
        <5>3. QED
          BY <5>1, <5>2
      <4>2. name[r] \notin left \cup came
        BY <1>1, <2>2, <3>1 DEF Tied
      <4>3. QED
        BY <4>1, <4>2 DEF Tied
    <3>3. Placed(r, k)
      BY <1>1, <2>1, <2>2, <3>1, <3>2 DEF PageInv, CoverInv
    <3>4. PICK before \in Nat : before = Cardinality(Before(r))
      BY <3>1, BeforeFinite
    <3>5. PICK then \in Nat : then = Cardinality(Before(r)')
      BY <3>1, FiniteThen DEF Finite
    <3>6. /\ GoneBelow(r) => GoneBelow(r)'
          /\ ComeBelow(r) => ComeBelow(r)'
      BY <1>1, <3>1 DEF GoneBelow, ComeBelow
    <3>7. ~GoneBelow(r)' => before <= then
      <4> SUFFICES ASSUME ~GoneBelow(r)' PROVE before <= then
        OBVIOUS
      <4>1. q \notin Before(r)
        BY <1>1, <3>1 DEF Before, Present, GoneBelow, Taken
      <4>2. Before(r) \subseteq Before(r)'
        BY <1>2, <3>1, <4>1 DEF Before, Present
      <4>3. QED
        BY <3>1, <3>4, <3>5, <4>2, FiniteThen, FS_Subset DEF Finite
    <3>8. ~ComeBelow(r)' => then <= before
      <4> SUFFICES ASSUME ~ComeBelow(r)' PROVE then <= before
        OBVIOUS
      <4>1. q \notin Before(r)'
        BY <1>1, <1>2, <3>1 DEF Before, Present, ComeBelow, Taken
      <4>2. Before(r)' \subseteq Before(r)
        BY <1>2, <3>1, <4>1 DEF Before, Present
      <4>3. QED
        BY <3>1, <3>4, <3>5, <4>2, BeforeFinite, FS_Subset
    <3>9. PICK given : given = Given(r) /\ given = Given(r)'
      BY <1>4
    <3>10. /\ given = 0 /\ ~GoneBelow(r)' => then >= k
           /\ given > 0 /\ ~ComeBelow(r)' => then < k
           /\ given > 1 => ComeBelow(r)'
      <4>1. /\ given = 0 /\ ~GoneBelow(r) => before >= k
            /\ given > 0 /\ ~ComeBelow(r) => before < k
            /\ given > 1 => ComeBelow(r)
        BY <3>3, <3>4, <3>9 DEF Placed
      <4>2. QED
        BY <2>1, <3>4, <3>5, <3>6, <3>7, <3>8, <4>1
    <3>11. PagesRead' * PageSize(walk.limit)' = k
      BY <1>4, <2>1
    <3>12. QED
      BY <3>5, <3>9, <3>10, <3>11 DEF Placed
  <2>3. WalkCovers'
    BY <1>1 DEF WalkCovers, Walking
  <2>4. QED
    BY <1>4, <2>2, <2>3 DEF CoverInv
<1>7. QED
  BY <1>1, <1>3, <1>4, <1>5, <1>6 DEF PageInv, Walking

\* With the collection all its rows go, and none stays to be looked for.
LEMMA DeleteCollectionPages ==
    ASSUME PageInv, DeleteCollection
    PROVE  PageInv'
<1>1. /\ TypeOK /\ Walking /\ walk' = walk /\ got' = got
      /\ name' = [r \in Rows |-> Gone] /\ stayed' = {}
      /\ left' = left \cup {name[r] : r \in Present} /\ came' = came
      /\ collection' \in BOOLEAN /\ listing' = listing
      /\ writes < MaxWrites /\ writes' = writes + 1
  BY DEF PageInv, DeleteCollection
<1>2. TypeOK'
  <2>1. left' \cup came' \subseteq Names
    BY <1>1 DEF TypeOK, Present
  <2>2. writes' \in 0 .. MaxWrites
    BY <1>1, PagingAssumption DEF TypeOK
  <2>3. QED
    BY <1>1, <2>1, <2>2 DEF TypeOK
<1>3. /\ \A r : Given(r)' = Given(r)
      /\ PagesRead' = PagesRead /\ Skip' = Skip /\ PageSize(walk.limit)' = PageSize(walk.limit)
      /\ Distinct(walk.data)' = Distinct(walk.data)
  BY <1>1 DEF Given, PagesRead, Skip, PageSize, Distinct
<1>4. MoreInv'
  <2>1. ASSUME left' = {} PROVE left = {} /\ Cardinality(Present) = 0
    <3>1. left = {} /\ Present = {}
      BY <1>1, <2>1
    <3>2. QED
      BY <3>1, FS_EmptySet
  <2>2. PageSize(walk.limit) > 0 /\ walk.page > 1 => Skip > 0
    <3>1. PICK page \in Nat, size \in Int : page = walk.page /\ size = PageSize(walk.limit)
      BY <1>1, WalkTypes
    <3>2. page > 1 /\ size > 0 => (page - 1) * size > 0
      BY <3>1
    <3>3. QED
      BY <3>1, <3>2 DEF Skip
  <2>3. Skip \in Int
    BY <1>1, WalkTypes
  <2>4. ASSUME PageSize(walk.limit) > 0, walk.page > 1, left' = {}
        PROVE  walk.pc \notin {"collection", "list"} /\ (walk.pc = "count" => walk.data # <<>>)
    <3>1. /\ walk.pc \in {"collection", "list"} => Skip < Cardinality(Present)
          /\ walk.pc = "count" => walk.data # <<>>
      BY <2>1, <2>4 DEF PageInv, MoreInv
    <3>2. QED
      BY <2>1, <2>2, <2>3, <2>4, <3>1
  <2>5. QED
    BY <1>1, <1>3, <2>4 DEF MoreInv
<1>5. CoverInv'
  BY <1>1 DEF CoverInv, WalkCovers, Walking
<1>6. QED
  BY <1>1, <1>2, <1>3, <1>4, <1>5 DEF PageInv, Walking

LEMMA PagingNext == PageInv /\ [Next]_vars => PageInv'
<1> SUFFICES ASSUME PageInv, [Next]_vars PROVE PageInv'
  OBVIOUS
<1>1. CASE AskFirst \/ ReadCollection \/ FindMany \/ CountRows \/ Fail
  BY <1>1, AskFirstPages, ReadCollectionPages, FindManyPages, CountRowsPages, FailPages
<1>2. CASE CreateRow \/ DeleteRow \/ RenameRow
  <2>1. \E r \in Rows, n \in Names \cup {Gone} : Rename(r, n)
    BY <1>2 DEF CreateRow, DeleteRow, RenameRow, Present
  <2>2. QED
    BY <2>1, RenamePages
<1>3. CASE DeleteCollection
  BY <1>3, DeleteCollectionPages
<1>4. CASE UNCHANGED vars
  <2>1. /\ walk' = walk /\ got' = got /\ name' = name /\ stayed' = stayed /\ left' = left
        /\ came' = came /\ listing' = listing /\ collection' = collection /\ writes' = writes
    BY <1>4 DEF vars
  <2>2. TypeOK'
    BY <2>1 DEF PageInv, TypeOK, Present
  <2>3. /\ \A r : Given(r)' = Given(r) /\ Before(r)' = Before(r)
        /\ \A r : (Tied(r)' <=> Tied(r)) /\ (GoneBelow(r)' <=> GoneBelow(r))
        /\ \A r : ComeBelow(r)' <=> ComeBelow(r)
        /\ PagesRead' = PagesRead /\ Skip' = Skip /\ Present' = Present
        /\ Distinct(walk.data)' = Distinct(walk.data)
    BY <2>1 DEF Given, Before, Tied, GoneBelow, ComeBelow, PagesRead, Skip, Present, Distinct
  <2>4. MoreInv'
    BY <2>1, <2>3 DEF PageInv, MoreInv
  <2>5. CoverInv'
    BY <2>1, <2>3 DEF PageInv, CoverInv, Placed, WalkCovers, Walking
  <2>6. QED
    BY <2>1, <2>2, <2>3, <2>4, <2>5 DEF PageInv
<1>5. QED
  BY <1>1, <1>2, <1>3, <1>4 DEF Next

-----------------------------------------------------------------------------
(* The theorems.                                                            *)

\* Where every row stands to the pages read so far, while others write.
THEOREM PagesInvariance == Spec => []PageInv
<1>1. QED
  BY PagingInit, PagingNext, PTL DEF Spec

\* The client and the answers have their types, and no answer to a limit that is
\* not negative has more rows than the cap.
THEOREM PagingTypeCorrectness == Spec => []TypeOK
<1>1. PageInv => TypeOK
  BY DEF PageInv
<1>2. QED
  BY <1>1, PagesInvariance, PTL

\* A walk to the end gives every row that stayed once, unless one before it or of
\* the same name went, came or was renamed: for any rows, names and limits, and
\* however the database breaks ties.
THEOREM WalksCover == Spec => []WalkCovers
<1>1. PageInv => WalkCovers
  BY DEF PageInv, CoverInv
<1>2. QED
  BY <1>1, PagesInvariance, PTL

-----------------------------------------------------------------------------
(* When the bound on the pages does not cut a walk short.                   *)

\* The page after which a walk is cut has no row behind it, if there are no more
\* rows than pages.
LEMMA NeverCut ==
    ASSUME Cardinality(Rows) <= MaxPages, TypeOK, PageSize(walk.limit) > 0,
           walk.pc # "cut", [Next]_vars
    PROVE  walk'.pc # "cut"
<1> SUFFICES ASSUME walk'.pc = "cut" PROVE FALSE
  OBVIOUS
<1>1. walk \in Walk
  BY DEF TypeOK
<1>2. CountRows
  BY <1>1 DEF Next, vars, AskFirst, Begins, ReadCollection, FindMany, Fail, CreateRow, DeleteRow,
           RenameRow, Rename, DeleteCollection, Walk
<1>3. PICK total \in Nat : total = Cardinality(Present) /\ total <= MaxPages
  BY PresentFinite, PagingAssumption
<1>4. HasMore(walk.page, walk.limit, total) /\ walk.page = MaxPages
  BY <1>1, <1>2, <1>3 DEF CountRows, Begins, Walk
<1>5. PICK size \in Int : size = PageSize(walk.limit) /\ size > 0
  BY WalkTypes
<1>6. MaxPages * size < total /\ MaxPages \in Nat
  BY <1>4, <1>5, PagingAssumption DEF HasMore
<1>7. MaxPages * size >= MaxPages
  BY <1>5, <1>6
<1>8. QED
  BY <1>3, <1>5, <1>6, <1>7

\* hasMore promises a page that is there unless a row has gone or moved, and a
\* walk ends after as many pages as there may be rows.
THEOREM MoreIsThere ==
    ASSUME Cardinality(Rows) <= MaxPages
    PROVE  Spec => []HasMoreHonest
<1> DEFINE Uncut == PageSize(walk.limit) > 0 => walk.pc # "cut"
<1>1. Init => Uncut
  BY DEF Init
<1>2. TypeOK /\ Uncut /\ [Next]_vars => Uncut'
  <2> SUFFICES ASSUME TypeOK, Uncut, [Next]_vars PROVE Uncut'
    OBVIOUS
  <2>1. walk'.limit = walk.limit \/ AskFirst
    BY DEF TypeOK, Walk, Next, vars, ReadCollection, FindMany, CountRows, Fail, CreateRow,
           DeleteRow, RenameRow, Rename, DeleteCollection
  <2>2. CASE AskFirst
    BY <2>2 DEF AskFirst, Begins, TypeOK, Walk
  <2>3. QED
    BY <2>1, <2>2, NeverCut
<1>3. PageInv /\ Uncut => HasMoreHonest
  BY DEF PageInv, MoreInv, HasMoreHonest
<1>4. PageInv => TypeOK
  BY DEF PageInv
<1>5. QED
  BY <1>1, <1>2, <1>3, <1>4, PagesInvariance, PTL DEF Spec
=============================================================================
