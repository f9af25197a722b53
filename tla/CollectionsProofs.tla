------------------------- MODULE CollectionsProofs -------------------------
(***************************************************************************)
(* Theorems about module Collections, for any organizations, conventions   *)
(* and labels, any tables to start from and any number of requests.        *)
(***************************************************************************)
EXTENDS Collections, TLAPS

-----------------------------------------------------------------------------
(* The inductive invariant: the foreign keys, and what a request may still *)
(* rely on of what its guard has read.                                     *)

\* The foreign key of a copy; a row that is deleted keeps its number.
References ==
    \A i \in DOMAIN copies :
        /\ copies[i].col \in DOMAIN collections
        /\ ~copies[i].gone => ~collections[copies[i].col].gone

\* What the steps of a handler say of its route, and what its route names.
OnItsWay(req) ==
    /\ req.pc = "row" => req.op \in {"upload", "import"}
    /\ req.pc = "countConventions" => req.op \in {"deleteCollection", "deleteOfOrg"}
    /\ req.pc \in {"readCounts", "listCopies", "deleteCopies", "deleteRow"} =>
        req.op = "deleteCollection"
    /\ req.op \in {"updateCopy", "deleteCopy"} /\ req.pc # "idle" =>
        req.copy \in DOMAIN copies
    /\ req.op \in Creating \cup {"addCollection"} /\ req.pc # "idle" => req.org \in Orgs
    /\ req.op = "attach" /\ req.pc # "idle" => req.con \in Cons

\* A copy that a request will move or delete is in a collection that its guard
\* found not archived, or has been moved since.
Known(req, i) ==
    i \in DOMAIN copies /\ (i \in req.moved \/ copies[i].col \in req.cleared)

Cleared(req) ==
    /\ (req.op \in {"updateCopy", "deleteCopy"} /\ req.pc = "write") => Known(req, req.copy)
    /\ (req.op \in {"addCopy", "updateCopy"} /\ req.pc = "write") => req.col \in req.cleared
    /\ (req.op = "deleteCollection" /\ req.pc \in {"readCounts", "countConventions", "listCopies"}) =>
        req.col \in req.cleared
    /\ req.pc = "deleteCopies" => \A i \in req.left : Known(req, i)

\* A copy of organization o may be in collection c: it is one of its own, or a
\* route that names both has been used.
Fits(o, c) == collections[c].org = o \/ <<o, c>> \in strayed

\* A copy fits the collection that its guard has let it move to.
Agrees(req) ==
    (req.op = "updateCopy" /\ req.pc = "write") =>
        /\ req.copy \in DOMAIN copies
        /\ req.col \in DOMAIN collections
        /\ Fits(copies[req.copy].org, req.col)

Sound(req) == OnItsWay(req) /\ Cleared(req) /\ Agrees(req)

RowInv ==
    /\ References
    /\ HistoryIsKept
    /\ CopyInOneOrganization

(***************************************************************************)
(* The inductive invariant of collections: the rows of Collection and Copy *)
(* fit together, and so does what each request that is past its guard has  *)
(* been told.                                                              *)
(***************************************************************************)
CollectionInv ==
    /\ TypeOK
    /\ RowInv
    /\ \A r \in Requests : Sound(requests[r])

-----------------------------------------------------------------------------
(* How the tables change.                                                  *)

\* Rows keep their organization and their number, and what has strayed is known
\* from then on.
Grows ==
    /\ strayed \subseteq strayed'
    /\ strayed' \subseteq Orgs \X DOMAIN collections'
    /\ Len(collections) <= Len(collections')
    /\ Len(copies) <= Len(copies')
    /\ \A c \in DOMAIN collections : collections'[c].org = collections[c].org
    /\ \A i \in DOMAIN copies : copies'[i].org = copies[i].org

\* Every table has its rows' types and its numbers from 1 on.
LEMMA Tables ==
    ASSUME TypeOK
    PROVE  /\ DOMAIN collections = 1 .. Len(collections) /\ Len(collections) \in Nat
           /\ DOMAIN copies = 1 .. Len(copies) /\ Len(copies) \in Nat
           /\ \A c \in DOMAIN collections :
                /\ collections[c] \in Collection
                /\ collections[c].org \in Orgs
                /\ collections[c].archived \in BOOLEAN /\ collections[c].gone \in BOOLEAN
           /\ \A i \in DOMAIN copies :
                /\ copies[i] \in Copy
                /\ copies[i].org \in Orgs /\ copies[i].col \in Nat /\ copies[i].label \in Labels
                /\ copies[i].borrowed \in BOOLEAN /\ copies[i].gone \in BOOLEAN
           /\ \A r \in Requests : requests[r] \in Request
<1>1. /\ DOMAIN collections = 1 .. Len(collections) /\ Len(collections) \in Nat
      /\ DOMAIN copies = 1 .. Len(copies) /\ Len(copies) \in Nat
  BY DEF TypeOK
<1>2. ASSUME NEW c \in DOMAIN collections PROVE collections[c] \in Collection
  BY <1>1 DEF TypeOK
<1>3. ASSUME NEW i \in DOMAIN copies PROVE copies[i] \in Copy
  BY <1>1 DEF TypeOK
<1>4. \A r \in Requests : requests[r] \in Request
  BY DEF TypeOK
<1>5. QED
  BY <1>1, <1>2, <1>3, <1>4 DEF Collection, Copy

\* A request to which nothing happens is told of the copies that are moved.
Continues(req, after) ==
    LET now == {i \in DOMAIN copies : copies'[i].col # copies[i].col} IN
    \/ after = req /\ (now = {} \/ req.cleared = {})
    \/ after = [req EXCEPT !.moved = @ \cup now]

\* What a request has been told stays good enough whatever others write, since
\* copies that are moved under it are noted.
LEMMA SoundPersists ==
    ASSUME CollectionInv, collections' \in Seq(Collection), copies' \in Seq(Copy), Grows,
           NEW req \in Request, Sound(req), NEW after,
           Continues(req, after)
    PROVE  Sound(after)'
<1>1. /\ after.pc = req.pc /\ after.op = req.op /\ after.col = req.col /\ after.org = req.org
      /\ after.con = req.con /\ after.copy = req.copy /\ after.left = req.left /\ after.cleared = req.cleared
      /\ req.moved \subseteq after.moved
      /\ \A i \in DOMAIN copies : copies'[i].col = copies[i].col \/ i \in after.moved
            \/ req.cleared = {}
  BY DEF Request, Continues
<1>2. /\ \A c \in DOMAIN collections : c \in DOMAIN collections'
      /\ \A i \in DOMAIN copies : i \in DOMAIN copies'
      /\ \A c \in DOMAIN collections : collections'[c].org = collections[c].org
      /\ \A i \in DOMAIN copies : copies'[i].org = copies[i].org
  BY Tables DEF CollectionInv, TypeOK, Grows
<1>3. OnItsWay(after)'
  BY <1>1, <1>2 DEF Sound, OnItsWay
<1>4. \A i : Known(req, i) => Known(after, i)'
  BY <1>1, <1>2 DEF Known
<1>5. Cleared(after)'
  BY <1>1, <1>4 DEF Sound, Cleared
<1>6. Agrees(after)'
  BY <1>1, <1>2 DEF Sound, Agrees, Fits, Grows
<1>7. QED
  BY <1>3, <1>5, <1>6 DEF Sound

\* A step of one request, which goes on as q, preserves the invariant when q is
\* sound and the rows are.
LEMMA OneRequestStep ==
    ASSUME CollectionInv, Grows, RowInv',
           collections' \in Seq(Collection), copies' \in Seq(Copy), joins' \in Seq(Join),
           received' \in 0 .. MaxRequests, crashed' \in BOOLEAN,
           NEW r \in Requests, NEW q \in Request, Sound(q)',
           \/ Moving(r, q)
           \/ /\ requests' = [requests EXCEPT ![r] = q]
              /\ \A i \in DOMAIN copies : copies'[i].col = copies[i].col
    PROVE  CollectionInv'
<1>1. requests \in [Requests -> Request]
  BY DEF CollectionInv, TypeOK
<1>2. requests'[r] = q /\ \A s \in Requests \ {r} : Continues(requests[s], requests'[s])
  <2>1. CASE Moving(r, q)
    BY <2>1 DEF Moving, Continues
  <2>2. CASE /\ requests' = [requests EXCEPT ![r] = q]
             /\ \A i \in DOMAIN copies : copies'[i].col = copies[i].col
    BY <1>1, <2>2 DEF Continues
  <2>3. QED
    BY <2>1, <2>2
<1>3. TypeOK'
  <2>1. CASE Moving(r, q)
    <3>1. {i \in DOMAIN copies : copies'[i].col # copies[i].col} \subseteq Nat
      BY Tables DEF CollectionInv
    <3>2. PICK now \in SUBSET Nat :
                requests' = [s \in Requests |->
                    IF s = r THEN q
                    ELSE IF requests[s].cleared = {} THEN requests[s]
                    ELSE [requests[s] EXCEPT !.moved = @ \cup now]]
      BY <2>1, <3>1 DEF Moving
    <3>3. ASSUME NEW s \in Requests
          PROVE  [requests[s] EXCEPT !.moved = @ \cup now] \in Request
      BY <1>1 DEF Request
    <3>4. requests' \in [Requests -> Request]
      BY <1>1, <3>2, <3>3
    <3>5. QED
      BY <3>4 DEF TypeOK, Grows
  <2>2. CASE requests' = [requests EXCEPT ![r] = q]
    BY <1>1, <2>2 DEF TypeOK, Grows
  <2>3. QED
    BY <2>1, <2>2
<1>4. ASSUME NEW s \in Requests PROVE Sound(requests[s])'
  <2>1. PICK after : after = requests'[s]
    OBVIOUS
  <2>2. Sound(after)'
    <3>1. CASE s = r
      BY <1>2, <2>1, <3>1
    <3>2. CASE s # r
      <4>1. requests[s] \in Request /\ Sound(requests[s]) /\ Continues(requests[s], after)
        BY <1>1, <1>2, <2>1, <3>2 DEF CollectionInv
      <4>2. QED
        BY <1>3, <4>1, SoundPersists
    <3>3. QED
      BY <3>1, <3>2
  <2>3. QED
    BY <2>1, <2>2
<1>5. QED
  BY <1>3, <1>4 DEF CollectionInv

\* Nothing is asked of a request that has been answered.
LEMMA AnsweredSound ==
    ASSUME NEW req, req.pc = "idle"
    PROVE  Sound(req) /\ Sound(req)'
<1>1. OnItsWay(req) /\ OnItsWay(req)'
  BY DEF OnItsWay
<1>2. Cleared(req) /\ Cleared(req)'
  BY DEF Cleared
<1>3. Agrees(req) /\ Agrees(req)'
  BY DEF Agrees
<1>4. QED
  BY <1>1, <1>2, <1>3 DEF Sound

LEMMA IdleSound == Idle \in Request /\ Sound(Idle) /\ Sound(Idle)'
<1>1. Idle \in Request
  BY DEF Idle, Request, PCs
<1>2. PICK q : q = Idle
  OBVIOUS
<1>3. q.pc = "idle"
  BY <1>2 DEF Idle
<1>4. Sound(q) /\ Sound(q)'
  BY <1>3, AnsweredSound
<1>5. QED
  BY <1>1, <1>2, <1>4

\* A step that writes no row.
LEMMA SameTables ==
    ASSUME CollectionInv, UNCHANGED tables, UNCHANGED strayed
    PROVE  /\ Grows /\ RowInv'
           /\ collections' \in Seq(Collection) /\ copies' \in Seq(Copy) /\ joins' \in Seq(Join)
           /\ \A i \in DOMAIN copies : copies'[i].col = copies[i].col
<1>1. collections' = collections /\ copies' = copies /\ joins' = joins
  BY DEF tables
<1>2. Len(collections) \in Nat /\ Len(copies) \in Nat
  BY Tables DEF CollectionInv
<1>3. QED
  BY <1>1, <1>2 DEF CollectionInv, TypeOK, Grows, RowInv, References, HistoryIsKept,
     CopyInOneOrganization, Present, Exists

LEMMA ReadStep ==
    ASSUME CollectionInv, UNCHANGED tables, UNCHANGED strayed,
           received' \in 0 .. MaxRequests, crashed' \in BOOLEAN, NEW r \in Requests,
           NEW q \in Request, Sound(q)',
           requests' = [requests EXCEPT ![r] = q]
    PROVE  CollectionInv'
  BY SameTables, OneRequestStep

LEMMA AnswerStep ==
    ASSUME CollectionInv, Grows, RowInv',
           collections' \in Seq(Collection), copies' \in Seq(Copy), joins' \in Seq(Join),
           \A i \in DOMAIN copies : copies'[i].col = copies[i].col,
           Keep, NEW r \in Requests, Answer(r)
    PROVE  CollectionInv'
<1>1. received' \in 0 .. MaxRequests /\ crashed' \in BOOLEAN
  BY DEF CollectionInv, TypeOK, Keep
<1>2. QED
  BY <1>1, IdleSound, OneRequestStep DEF Answer

-----------------------------------------------------------------------------
(* Writes of one row.                                                      *)

\* A copy is written over: its organization stays, and the row refers to a
\* collection that is there.
LEMMA CopyWrite ==
    ASSUME CollectionInv, collections' = collections, strayed' = strayed,
           NEW i \in DOMAIN copies, NEW row \in Copy,
           copies' = [copies EXCEPT ![i] = row],
           row.org = copies[i].org, row.col \in DOMAIN collections,
           ~row.gone => ~collections[row.col].gone,
           row.borrowed => ~row.gone,
           ~row.gone => Fits(row.org, row.col)
    PROVE  copies' \in Seq(Copy) /\ Grows /\ RowInv'
<1>1. /\ copies \in Seq(Copy) /\ Len(copies) \in Nat /\ Len(collections) \in Nat
      /\ DOMAIN copies = 1 .. Len(copies)
  BY Tables DEF CollectionInv, TypeOK
<1>2. copies' \in Seq(Copy) /\ Len(copies') = Len(copies) /\ DOMAIN copies' = DOMAIN copies
  BY <1>1
<1>3. \A k \in DOMAIN copies : copies'[k] = IF k = i THEN row ELSE copies[k]
  BY <1>1
<1>4. Grows
  BY <1>1, <1>2, <1>3 DEF Grows, CollectionInv, TypeOK
<1>5. References'
  BY <1>2, <1>3 DEF References, CollectionInv, RowInv
<1>6. HistoryIsKept'
  BY <1>2, <1>3 DEF HistoryIsKept, Exists, CollectionInv, RowInv
<1>7. CopyInOneOrganization'
  BY <1>2, <1>3 DEF CopyInOneOrganization, Present, CollectionInv, RowInv, Fits
<1>8. QED
  BY <1>2, <1>4, <1>5, <1>6, <1>7 DEF RowInv

\* A collection is written over: its organization stays, and it is deleted only
\* when no copy refers to it.
LEMMA CollectionWrite ==
    ASSUME CollectionInv, copies' = copies, strayed' = strayed,
           NEW c \in DOMAIN collections, NEW row \in Collection,
           collections' = [collections EXCEPT ![c] = row],
           row.org = collections[c].org,
           row.gone => collections[c].gone \/ CopiesOf(c) = {}
    PROVE  collections' \in Seq(Collection) /\ Grows /\ RowInv'
<1>1. /\ collections \in Seq(Collection) /\ Len(copies) \in Nat /\ Len(collections) \in Nat
      /\ DOMAIN collections = 1 .. Len(collections)
  BY Tables DEF CollectionInv, TypeOK
<1>2. /\ collections' \in Seq(Collection) /\ Len(collections') = Len(collections)
      /\ DOMAIN collections' = DOMAIN collections
  BY <1>1
<1>3. \A k \in DOMAIN collections : collections'[k] = IF k = c THEN row ELSE collections[k]
  BY <1>1
<1>4. Grows
  BY <1>1, <1>2, <1>3 DEF Grows, CollectionInv, TypeOK
<1>5. References'
  BY <1>2, <1>3 DEF References, CollectionInv, RowInv, CopiesOf, Present
<1>6. HistoryIsKept'
  BY <1>2, <1>5 DEF References, HistoryIsKept, Exists, CollectionInv, RowInv
<1>7. CopyInOneOrganization'
  BY <1>3 DEF CopyInOneOrganization, Present, CollectionInv, RowInv, References
<1>8. QED
  BY <1>2, <1>4, <1>5, <1>6, <1>7 DEF RowInv

\* A collection is created.
LEMMA CreateWrite ==
    ASSUME CollectionInv, copies' = copies, strayed' = strayed, NEW o \in Orgs, Create(o)
    PROVE  /\ collections' \in Seq(Collection) /\ Grows /\ RowInv'
           /\ Len(collections') \in DOMAIN collections'
           /\ collections'[Len(collections')].org = o
<1>1. /\ collections \in Seq(Collection) /\ Len(copies) \in Nat /\ Len(collections) \in Nat
      /\ DOMAIN collections = 1 .. Len(collections)
  BY Tables DEF CollectionInv, TypeOK
<1>2. PICK row \in Collection :
        /\ row.org = o
        /\ collections' = Append(collections, row)
  BY DEF Create, Collection
<1>3. /\ collections' \in Seq(Collection) /\ Len(collections') = Len(collections) + 1
      /\ DOMAIN collections' = 1 .. Len(collections) + 1
      /\ collections'[Len(collections) + 1] = row
      /\ \A k \in DOMAIN collections : collections'[k] = collections[k]
  BY <1>1, <1>2
<1>4. \A k \in DOMAIN collections : k \in DOMAIN collections'
  BY <1>1, <1>3
<1>5. Grows
  BY <1>1, <1>3, <1>4 DEF Grows, CollectionInv, TypeOK
<1>6. References'
  BY <1>3, <1>4 DEF References, CollectionInv, RowInv
<1>7. HistoryIsKept'
  BY <1>3, <1>4 DEF HistoryIsKept, Exists, CollectionInv, RowInv
<1>8. CopyInOneOrganization'
  BY <1>3 DEF CopyInOneOrganization, Present, CollectionInv, RowInv, References
<1>9. QED
  BY <1>1, <1>2, <1>3, <1>5, <1>6, <1>7, <1>8 DEF RowInv

\* A copy is put into a collection of its organization: a copy that has its
\* label is moved there, and keeps everything else.
LEMMA UpsertWrite ==
    ASSUME CollectionInv, collections' = collections,
           NEW o \in Orgs, NEW c, NEW label, Upsert(o, c, label)
    PROVE  copies' \in Seq(Copy) /\ Grows /\ RowInv'
<1>1. /\ copies \in Seq(Copy) /\ Len(copies) \in Nat /\ Len(collections) \in Nat
      /\ DOMAIN copies = 1 .. Len(copies)
      /\ c \in DOMAIN collections /\ c \in Nat /\ ~collections[c].gone /\ label \in Labels
      /\ strayed \subseteq strayed' /\ strayed' \subseteq Orgs \X DOMAIN collections
      /\ collections[c].org = o \/ <<o, c>> \in strayed'
  BY Tables DEF CollectionInv, TypeOK, Upsert, Exists
<1>2. PICK found : found = {i \in DOMAIN copies :
            Present(i) /\ copies[i].org = o /\ copies[i].label = label}
  OBVIOUS
<1>3. CASE found = {}
  <2>1. PICK row \in Copy :
            /\ row.org = o /\ row.col = c /\ ~row.borrowed /\ ~row.gone
            /\ copies' = Append(copies, row)
    BY <1>1, <1>2, <1>3 DEF Upsert, Copy
  <2>2. /\ copies' \in Seq(Copy) /\ Len(copies') = Len(copies) + 1
        /\ DOMAIN copies' = 1 .. Len(copies) + 1
        /\ \A k \in DOMAIN copies' :
              \/ k \in DOMAIN copies /\ copies'[k] = copies[k]
              \/ copies'[k] = row
        /\ \A k \in DOMAIN copies : copies'[k] = copies[k]
    BY <1>1, <2>1
  <2>3. Grows
    BY <1>1, <2>2 DEF Grows
  <2>4. References'
    BY <1>1, <2>1, <2>2 DEF References, CollectionInv, RowInv
  <2>5. HistoryIsKept'
    BY <1>1, <2>1, <2>2 DEF HistoryIsKept, Exists, CollectionInv, RowInv
  <2>6. CopyInOneOrganization'
    BY <1>1, <2>1, <2>2 DEF CopyInOneOrganization, Present, CollectionInv, RowInv
  <2>7. QED
    BY <2>2, <2>3, <2>4, <2>5, <2>6 DEF RowInv
<1>4. CASE found # {}
  <2>1. copies' = [i \in DOMAIN copies |->
                IF i \in found THEN [copies[i] EXCEPT !.col = c] ELSE copies[i]]
    BY <1>2, <1>4 DEF Upsert
  <2>2. ASSUME NEW i \in DOMAIN copies
        PROVE  /\ copies'[i] \in Copy
               /\ copies'[i].org = copies[i].org /\ copies'[i].borrowed = copies[i].borrowed
               /\ copies'[i].gone = copies[i].gone
               /\ \/ copies'[i].col = c /\ (~copies[i].gone /\ copies[i].org = o)
                  \/ copies'[i].col = copies[i].col
    BY <1>1, <1>2, <2>1, Tables DEF CollectionInv, Copy, Present
  <2>3. DOMAIN copies' = DOMAIN copies /\ copies' \in Seq(Copy) /\ Len(copies') = Len(copies)
    BY <1>1, <2>1, <2>2
  <2>4. Grows
    BY <1>1, <2>2, <2>3 DEF Grows
  <2>5. References'
    BY <1>1, <2>2, <2>3 DEF References, CollectionInv, RowInv
  <2>6. HistoryIsKept'
    BY <1>1, <2>2, <2>3 DEF HistoryIsKept, Exists, CollectionInv, RowInv
  <2>7. CopyInOneOrganization'
    BY <1>1, <2>2, <2>3 DEF CopyInOneOrganization, Present, CollectionInv, RowInv
  <2>8. QED
    BY <2>3, <2>4, <2>5, <2>6, <2>7 DEF RowInv
<1>5. QED
  BY <1>3, <1>4

-----------------------------------------------------------------------------
(* One lemma for each action.                                              *)

\* A request as it arrives.
Callable(req) ==
    /\ req \in Request
    /\ req.pc = IF req.op \in Guarded THEN "guard" ELSE "write"
    /\ req.op \in {"updateCopy", "deleteCopy"} => req.copy \in DOMAIN copies
    /\ req.op \in Creating \cup {"addCollection"} => req.org \in Orgs
    /\ req.op = "attach" => req.con \in Cons

LEMMA CallIsCallable ==
    ASSUME NEW op \in Ops, NEW org \in Orgs \cup {None}, NEW col \in Nat,
           NEW con \in Cons \cup {None}, NEW copy \in Nat, NEW rows \in Seq(CsvRows),
           op \in {"updateCopy", "deleteCopy"} => copy \in DOMAIN copies,
           op \in Creating \cup {"addCollection"} => org \in Orgs,
           op = "attach" => con \in Cons
    PROVE  Callable(Call(op, org, col, con, copy, rows))
<1>1. PICK pc \in PCs : pc = IF op \in Guarded THEN "guard" ELSE "write"
  BY DEF PCs
<1>2. PICK q : q = Call(op, org, col, con, copy, rows)
  OBVIOUS
<1>3. q = [Idle EXCEPT !.op = op, !.pc = pc, !.org = org, !.col = col, !.con = con,
                       !.copy = copy, !.rows = rows]
  BY <1>1, <1>2 DEF Call
<1>4. Idle \in Request
  BY IdleSound
<1>5. q \in Request /\ q.op = op /\ q.pc = pc /\ q.col = col /\ q.copy = copy
      /\ q.org = org /\ q.con = con
  BY <1>1, <1>3, <1>4 DEF Request, CsvRows
<1>6. QED
  BY <1>1, <1>2, <1>5 DEF Callable

LEMMA CallsAreCallable ==
    ASSUME CollectionInv, NEW req \in Calls
    PROVE  Callable(req)
<1>1. /\ \A c \in DOMAIN collections : c \in Nat
      /\ \A i \in DOMAIN copies : i \in Nat
  BY Tables DEF CollectionInv
<1>2. <<>> \in Seq(CsvRows) /\ Sent(1) \subseteq Seq(CsvRows) /\ Sent(2) \subseteq Seq(CsvRows)
  <2>1. ASSUME NEW n \in Nat, NEW rows \in [1 .. n -> CsvRows] PROVE rows \in Seq(CsvRows)
    OBVIOUS
  <2>2. <<>> \in Seq(CsvRows)
    OBVIOUS
  <2>3. Sent(1) \subseteq Seq(CsvRows) /\ Sent(2) \subseteq Seq(CsvRows)
    BY <2>1, Zenon DEF Sent
  <2>4. QED
    BY <2>2, <2>3
<1>3. CASE \/ \E op \in {"addCopy", "addCopyOfOrg"}, o \in Orgs, c \in DOMAIN collections,
                 rows \in Sent(1) : req = Call(op, o, c, None, 0, rows)
           \/ \E o \in Orgs, c \in DOMAIN collections :
                req = Call("deleteOfOrg", o, c, None, 0, <<>>)
           \/ \E o \in Orgs, c \in DOMAIN collections, rows \in Sent(2) :
                req = Call("upload", o, c, None, 0, rows)
           \/ \E o \in Orgs, rows \in Sent(2) :
                req = Call("import", o, 0, None, 0, rows)
  BY <1>1, <1>2, <1>3, CallIsCallable DEF Ops, Guarded, OfOrganization, Creating
<1>4. CASE \/ \E i \in DOMAIN copies, c \in DOMAIN collections :
                req = Call("updateCopy", None, c, None, i, <<>>)
           \/ \E i \in DOMAIN copies : req = Call("deleteCopy", None, 0, None, i, <<>>)
  BY <1>1, <1>2, <1>4, CallIsCallable DEF Ops, Guarded, OfOrganization, Creating
<1>5. CASE \/ \E op \in {"archive", "deleteCollection"}, c \in DOMAIN collections :
                req = Call(op, None, c, None, 0, <<>>)
           \/ \E o \in Orgs, n \in Cons \cup {None} :
                req = Call("addCollection", o, 0, n, 0, <<>>)
           \/ \E op \in {"attach", "detach"}, c \in DOMAIN collections, n \in Cons :
                req = Call(op, None, c, n, 0, <<>>)
  BY <1>1, <1>2, <1>5, CallIsCallable DEF Ops, Guarded, OfOrganization, Creating
<1>6. QED
  BY <1>3, <1>4, <1>5 DEF Calls

LEMMA ReceiveInv ==
    ASSUME CollectionInv, NEW r \in Requests, Receive(r)
    PROVE  CollectionInv'
<1>1. PICK req \in Calls :
        /\ received < MaxRequests
        /\ received' = received + 1
        /\ requests' = [requests EXCEPT ![r] = req]
        /\ UNCHANGED <<tables, crashed, strayed>>
  BY DEF Receive
<1>2. Callable(req)
  BY CallsAreCallable
<1>3. collections' = collections /\ copies' = copies
  BY <1>1 DEF tables
<1>4. OnItsWay(req)'
  BY <1>2, <1>3 DEF OnItsWay, Callable
<1>5. Cleared(req)'
  BY <1>2 DEF Cleared, Callable, Guarded
<1>6. Agrees(req)'
  BY <1>2 DEF Agrees, Callable, Guarded
<1>7. /\ received' \in 0 .. MaxRequests /\ crashed' \in BOOLEAN
      /\ UNCHANGED tables /\ UNCHANGED strayed
  BY <1>1, CollectionsAssumption DEF CollectionInv, TypeOK
<1>8. QED
  BY <1>1, <1>2, <1>4, <1>5, <1>6, <1>7, ReadStep DEF Callable, Sound

LEMMA GuardInv ==
    ASSUME CollectionInv, NEW r \in Requests, Guard(r)
    PROVE  CollectionInv'
<1>1. PICK req : req = requests[r]
  OBVIOUS
<1>2. /\ req \in Request /\ Sound(req) /\ req.pc = "guard"
      /\ requests \in [Requests -> Request]
      /\ UNCHANGED tables /\ UNCHANGED strayed /\ Keep
      /\ received' \in 0 .. MaxRequests /\ crashed' \in BOOLEAN
  BY <1>1 DEF CollectionInv, TypeOK, Guard, Keep
<1>3. CASE Answer(r)
  BY <1>2, <1>3, SameTables, AnswerStep
<1>4. ASSUME MayWrite(req), NEW pc, pc = Starts(req.op),
             requests' = [requests EXCEPT
                ![r].pc = pc,
                ![r].cleared = {c \in Checked(req) : ~collections[c].archived}]
      PROVE  CollectionInv'
  <2>1. pc = IF req.op = "deleteCollection" THEN "readCounts"
             ELSE IF req.op = "deleteOfOrg" THEN "countConventions" ELSE "write"
    BY <1>4 DEF Starts
  <2>2. PICK q : q = [req EXCEPT !.pc = pc, !.cleared = Checked(req)]
    OBVIOUS
  <2>3. \A c \in Checked(req) : c \in DOMAIN collections /\ ~collections[c].gone
                                /\ ~collections[c].archived
    BY <1>4 DEF MayWrite, Exists
  <2>4. requests' = [requests EXCEPT ![r] = q]
    <3>1. {c \in Checked(req) : ~collections[c].archived} = Checked(req)
      BY <2>3
    <3>2. QED
      BY <1>1, <1>2, <1>4, <2>1, <2>2, <3>1
  <2>5. Checked(req) \subseteq Nat
    BY <2>3, Tables DEF CollectionInv
  <2>6. /\ q \in Request /\ q.pc = pc /\ q.op = req.op /\ q.col = req.col /\ q.org = req.org
        /\ q.con = req.con /\ q.copy = req.copy /\ q.cleared = Checked(req)
    BY <1>2, <2>1, <2>2, <2>5 DEF Request, PCs
  <2>7. collections' = collections /\ copies' = copies
    BY <1>2 DEF tables
  <2>8. req.op \in {"updateCopy", "deleteCopy"} =>
            /\ req.copy \in DOMAIN copies /\ req.copy # 0
            /\ copies[req.copy].col \in Checked(req)
    <3>1. req.op \in {"updateCopy", "deleteCopy"} => req.copy \in DOMAIN copies /\ req.copy # 0
      BY <1>2, Tables DEF Sound, OnItsWay, CollectionInv
    <3>2. req.op \in {"updateCopy", "deleteCopy"} => copies[req.copy].col \in Checked(req)
      BY DEF Checked, OfOrganization
    <3>3. QED
      BY <3>1, <3>2
  <2>9. req.op \in {"addCopy", "updateCopy", "deleteCollection"} => req.col \in Checked(req)
    BY DEF Checked, OfOrganization
  <2>10. OnItsWay(q)'
    BY <1>2, <2>1, <2>6, <2>7 DEF Sound, OnItsWay
  <2>11. Cleared(q)'
    BY <1>2, <2>1, <2>6, <2>7, <2>8, <2>9 DEF Cleared, Known
  <2>12. Agrees(q)'
    <3>1. req.op = "updateCopy" => Fits(copies[req.copy].org, req.col)
      BY <1>4, <2>8 DEF MayWrite, CollectionInv, RowInv, CopyInOneOrganization, Fits
    <3>2. (req.op = "updateCopy") => req.col \in DOMAIN collections
      BY <2>3, <2>9
    <3>3. strayed' = strayed
      BY <1>2
    <3>4. QED
      BY <2>6, <2>7, <2>8, <3>1, <3>2, <3>3 DEF Agrees, Fits
  <2>13. QED
    BY <1>2, <2>4, <2>6, <2>10, <2>11, <2>12, ReadStep DEF Sound
<1>5. QED
  BY <1>1, <1>3, <1>4 DEF Guard

LEMMA AddCopyInv ==
    ASSUME CollectionInv, NEW r \in Requests, AddCopy(r)
    PROVE  CollectionInv'
<1>1. PICK req : req = requests[r]
  OBVIOUS
<1>2. /\ Sound(req) /\ req.op \in Creating /\ req.pc = "write"
      /\ Upsert(req.org, req.col, req.rows[1]) \/ (copies' = copies /\ strayed' = strayed)
      /\ Moving(r, Idle) /\ collections' = collections /\ joins' = joins
      /\ received' \in 0 .. MaxRequests /\ crashed' \in BOOLEAN
      /\ collections' \in Seq(Collection) /\ joins' \in Seq(Join)
  BY <1>1 DEF CollectionInv, TypeOK, AddCopy, Creating
<1>3. req.org \in Orgs
  BY <1>2 DEF Sound, OnItsWay
<1>4. copies' \in Seq(Copy) /\ Grows /\ RowInv'
  BY <1>2, <1>3, UpsertWrite, SameTables DEF tables
<1>5. QED
  BY <1>2, <1>4, IdleSound, OneRequestStep

LEMMA StartRowsInv ==
    ASSUME CollectionInv, NEW r \in Requests, StartRows(r)
    PROVE  CollectionInv'
<1>1. PICK req : req = requests[r]
  OBVIOUS
<1>2. /\ req \in Request /\ Sound(req) /\ req.pc = "write"
      /\ requests \in [Requests -> Request]
      /\ copies' = copies /\ joins' = joins /\ Keep /\ strayed' = strayed
      /\ received' \in 0 .. MaxRequests /\ crashed' \in BOOLEAN
      /\ copies' \in Seq(Copy) /\ joins' \in Seq(Join)
  BY <1>1 DEF CollectionInv, TypeOK, StartRows, Keep
<1>3. CASE req.op = "upload" /\ Go(r, "row") /\ UNCHANGED collections
  <2>1. PICK q : q = [req EXCEPT !.pc = "row"]
    OBVIOUS
  <2>2. /\ q \in Request /\ q.pc = "row" /\ q.op = req.op /\ q.col = req.col /\ q.org = req.org
        /\ q.con = req.con /\ q.copy = req.copy
        /\ requests' = [requests EXCEPT ![r] = q]
    BY <1>1, <1>2, <1>3, <2>1 DEF Request, PCs, Go
  <2>3. OnItsWay(q)'
    BY <1>2, <1>3, <2>2 DEF Sound, OnItsWay, Creating
  <2>4. Cleared(q)'
    BY <2>2 DEF Cleared
  <2>5. Agrees(q)'
    BY <2>2 DEF Agrees
  <2>6. QED
    BY <1>2, <1>3, <2>2, <2>3, <2>4, <2>5, ReadStep DEF Sound, tables
<1>4. CASE /\ req.op = "import"
           /\ Create(req.org)
           /\ requests' = [requests EXCEPT ![r].pc = "row", ![r].col = Len(collections')]
  <2>1. PICK n : n = Len(collections')
    OBVIOUS
  <2>2. PICK q : q = [req EXCEPT !.pc = "row", !.col = n]
    OBVIOUS
  <2>3. req.org \in Orgs
    BY <1>2, <1>4 DEF Sound, OnItsWay, Creating
  <2>4. /\ collections' \in Seq(Collection) /\ Grows /\ RowInv'
        /\ n \in DOMAIN collections'
    BY <1>2, <1>4, <2>1, <2>3, CreateWrite
  <2>5. n \in Nat
    BY <2>1, <2>4
  <2>6. /\ q \in Request /\ q.pc = "row" /\ q.op = req.op /\ q.col = n /\ q.org = req.org
        /\ requests' = [requests EXCEPT ![r] = q]
    BY <1>1, <1>2, <1>4, <2>1, <2>2, <2>5 DEF Request, PCs
  <2>7. OnItsWay(q)'
    BY <1>4, <2>3, <2>6 DEF OnItsWay
  <2>8. Cleared(q)'
    BY <2>6 DEF Cleared
  <2>9. Agrees(q)'
    BY <2>6 DEF Agrees
  <2>10. QED
    BY <1>2, <2>4, <2>6, <2>7, <2>8, <2>9, OneRequestStep DEF Sound
<1>5. CASE Answer(r) /\ UNCHANGED collections
  BY <1>2, <1>5, SameTables, AnswerStep DEF tables
<1>6. QED
  BY <1>1, <1>3, <1>4, <1>5 DEF StartRows

\* When the process ends, nobody is answered.
LEMMA CrashInv ==
    ASSUME CollectionInv, UNCHANGED tables, UNCHANGED strayed,
           received' = received, crashed' = TRUE,
           requests' = [s \in Requests |-> Idle]
    PROVE  CollectionInv'
<1>1. TypeOK'
  BY IdleSound, SameTables DEF CollectionInv, TypeOK, Grows
<1>2. ASSUME NEW s \in Requests PROVE Sound(requests[s])'
  <2>1. PICK q : q = Idle
    OBVIOUS
  <2>2. requests'[s] = q /\ Sound(q)'
    BY <2>1, IdleSound
  <2>3. QED
    BY <2>2
<1>3. QED
  BY <1>1, <1>2, SameTables DEF CollectionInv

LEMMA UploadRowInv ==
    ASSUME CollectionInv, NEW r \in Requests, UploadRow(r)
    PROVE  CollectionInv'
<1>1. PICK req : req = requests[r]
  OBVIOUS
<1>2. /\ req \in Request /\ Sound(req) /\ req.pc = "row"
      /\ requests \in [Requests -> Request]
      /\ collections' = collections /\ joins' = joins /\ received' = received
      /\ received' \in 0 .. MaxRequests
      /\ collections' \in Seq(Collection) /\ joins' \in Seq(Join)
  BY <1>1 DEF CollectionInv, TypeOK, UploadRow
<1>3. CASE Answer(r) /\ UNCHANGED <<copies, crashed, strayed>>
  BY <1>2, <1>3, SameTables, AnswerStep DEF tables, Keep
<1>4. CASE /\ req.rows # <<>>
           /\ Upsert(req.org, req.col, Head(req.rows))
           /\ Moving(r, [req EXCEPT !.rows = Tail(@)])
           /\ UNCHANGED crashed
  <2>1. PICK q : q = [req EXCEPT !.rows = Tail(@)]
    OBVIOUS
  <2>2. Tail(req.rows) \in Seq(Labels \cup {BadLabel})
    BY <1>2, <1>4 DEF Request
  <2>3. /\ q \in Request /\ q.pc = "row" /\ q.op = req.op /\ q.col = req.col /\ q.org = req.org
    BY <1>2, <2>1, <2>2 DEF Request
  <2>4. req.op \in {"upload", "import"} /\ req.org \in Orgs
    BY <1>2 DEF Sound, OnItsWay, Creating
  <2>5. copies' \in Seq(Copy) /\ Grows /\ RowInv'
    BY <1>2, <1>4, <2>4, UpsertWrite
  <2>6. OnItsWay(q)'
    BY <2>3, <2>4 DEF OnItsWay
  <2>7. Cleared(q)'
    BY <2>3 DEF Cleared
  <2>8. Agrees(q)'
    BY <2>3 DEF Agrees
  <2>9. crashed' \in BOOLEAN
    BY <1>4 DEF CollectionInv, TypeOK
  <2>10. Moving(r, q)
    BY <1>4, <2>1
  <2>11. QED
    BY <1>2, <2>3, <2>5, <2>6, <2>7, <2>8, <2>9, <2>10, OneRequestStep DEF Sound
<1>5. CASE crashed' = TRUE /\ requests' = [s \in Requests |-> Idle]
           /\ UNCHANGED <<copies, strayed>>
  BY <1>2, <1>5, CrashInv DEF tables
<1>6. QED
  BY <1>1, <1>3, <1>4, <1>5 DEF UploadRow

LEMMA UpdateCopyInv ==
    ASSUME CollectionInv, NEW r \in Requests, UpdateCopy(r)
    PROVE  CollectionInv'
<1>1. PICK req : req = requests[r]
  OBVIOUS
<1>2. /\ req \in Request /\ Sound(req) /\ req.op = "updateCopy" /\ req.pc = "write"
      /\ Moving(r, Idle) /\ collections' = collections /\ joins' = joins
      /\ received' \in 0 .. MaxRequests /\ crashed' \in BOOLEAN /\ strayed' = strayed
      /\ collections' \in Seq(Collection) /\ joins' \in Seq(Join)
  BY <1>1 DEF CollectionInv, TypeOK, UpdateCopy, Keep
<1>3. CASE /\ Present(req.copy)
           /\ Exists(req.col)
           /\ copies' = [copies EXCEPT ![req.copy].col = req.col]
  <2>1. PICK i : i = req.copy /\ i \in DOMAIN copies /\ ~copies[i].gone
    BY <1>3 DEF Present
  <2>2. PICK row : row = [copies[i] EXCEPT !.col = req.col]
    OBVIOUS
  <2>3. /\ row \in Copy /\ row.org = copies[i].org /\ row.col = req.col
        /\ row.gone = copies[i].gone
    BY <1>2, <2>1, <2>2, Tables DEF CollectionInv, Copy, Request
  <2>4. copies' = [copies EXCEPT ![i] = row]
    BY <1>3, <2>1, <2>2
  <2>5. Fits(row.org, row.col)
    BY <1>2, <2>1, <2>3 DEF Sound, Agrees
  <2>6. ~row.gone /\ row.col \in DOMAIN collections /\ ~collections[row.col].gone
    BY <1>3, <2>1, <2>3 DEF Exists
  <2>7. copies' \in Seq(Copy) /\ Grows /\ RowInv'
    BY <1>2, <2>1, <2>3, <2>4, <2>5, <2>6, CopyWrite
  <2>8. QED
    BY <1>2, <2>7, IdleSound, OneRequestStep
<1>4. CASE UNCHANGED copies
  BY <1>2, <1>4, SameTables, IdleSound, OneRequestStep DEF tables
<1>5. QED
  BY <1>1, <1>3, <1>4 DEF UpdateCopy

\* A copy that nobody has borrowed is deleted.
LEMMA DeleteWrite ==
    ASSUME CollectionInv, collections' = collections, strayed' = strayed,
           NEW i, Present(i), ~copies[i].borrowed,
           copies' = [copies EXCEPT ![i].gone = TRUE]
    PROVE  /\ copies' \in Seq(Copy) /\ Grows /\ RowInv'
           /\ \A k \in DOMAIN copies : copies'[k].col = copies[k].col
<1>1. i \in DOMAIN copies /\ ~copies[i].gone /\ copies[i] \in Copy
      /\ copies[i].col \in DOMAIN collections
  BY Tables DEF Present, CollectionInv, RowInv, References
<1>2. PICK row : row = [copies[i] EXCEPT !.gone = TRUE]
  OBVIOUS
<1>3. /\ row \in Copy /\ row.org = copies[i].org /\ row.col = copies[i].col
      /\ row.gone /\ ~row.borrowed
  BY <1>1, <1>2 DEF Copy
<1>4. copies' = [copies EXCEPT ![i] = row]
  BY <1>2
<1>5. copies' \in Seq(Copy) /\ Grows /\ RowInv'
  BY <1>1, <1>3, <1>4, CopyWrite
<1>6. \A k \in DOMAIN copies : copies'[k].col = copies[k].col
  BY <1>1, <1>3, <1>4
<1>7. QED
  BY <1>5, <1>6

LEMMA DeleteCopyInv ==
    ASSUME CollectionInv, NEW r \in Requests, DeleteCopy(r)
    PROVE  CollectionInv'
<1>1. /\ Answer(r) /\ collections' = collections /\ joins' = joins /\ Keep /\ strayed' = strayed
      /\ collections' \in Seq(Collection) /\ joins' \in Seq(Join)
  BY DEF CollectionInv, TypeOK, DeleteCopy, Keep
<1>2. CASE /\ Present(requests[r].copy)
           /\ ~copies[requests[r].copy].borrowed
           /\ copies' = [copies EXCEPT ![requests[r].copy].gone = TRUE]
  BY <1>1, <1>2, DeleteWrite, AnswerStep
<1>3. CASE UNCHANGED copies
  BY <1>1, <1>3, SameTables, AnswerStep DEF tables
<1>4. QED
  BY <1>2, <1>3 DEF DeleteCopy

LEMMA BorrowInv ==
    ASSUME CollectionInv, Borrow
    PROVE  CollectionInv'
<1>1. PICK i \in DOMAIN copies :
        /\ Present(i)
        /\ copies' = [copies EXCEPT ![i].borrowed = TRUE]
  BY DEF Borrow
<1>2. /\ collections' = collections /\ requests' = requests /\ strayed' = strayed
      /\ collections' \in Seq(Collection) /\ joins' \in Seq(Join)
      /\ requests' \in [Requests -> Request]
      /\ received' \in 0 .. MaxRequests /\ crashed' \in BOOLEAN
  BY DEF CollectionInv, TypeOK, Borrow, Keep
<1>3. PICK row : row = [copies[i] EXCEPT !.borrowed = TRUE]
  OBVIOUS
<1>4. /\ row \in Copy /\ row.org = copies[i].org /\ row.col = copies[i].col /\ ~row.gone
  BY <1>1, <1>3, Tables DEF CollectionInv, Copy, Present
<1>5. copies' = [copies EXCEPT ![i] = row]
  BY <1>1, <1>3
<1>6. /\ row.col \in DOMAIN collections /\ ~collections[row.col].gone
      /\ Fits(row.org, row.col)
  BY <1>1, <1>4 DEF CollectionInv, RowInv, References, CopyInOneOrganization, Present, Fits
<1>7. copies' \in Seq(Copy) /\ Grows /\ RowInv'
  BY <1>2, <1>4, <1>5, <1>6, CopyWrite
<1>8. \A k \in DOMAIN copies : copies'[k].col = copies[k].col
  BY <1>4, <1>5
<1>9. ASSUME NEW s \in Requests PROVE Sound(requests[s])'
  <2>1. PICK after : after = requests'[s]
    OBVIOUS
  <2>2. Continues(requests[s], after) /\ requests[s] \in Request /\ Sound(requests[s])
    BY <1>2, <1>8, <2>1 DEF Continues, CollectionInv, TypeOK
  <2>3. QED
    BY <1>2, <1>7, <2>1, <2>2, SoundPersists
<1>10. QED
  BY <1>2, <1>7, <1>9 DEF CollectionInv, TypeOK, Grows

LEMMA ArchiveInv ==
    ASSUME CollectionInv, NEW r \in Requests, Archive(r)
    PROVE  CollectionInv'
<1>1. PICK c : c = requests[r].col
  OBVIOUS
<1>2. /\ Answer(r) /\ copies' = copies /\ joins' = joins /\ Keep /\ strayed' = strayed
      /\ copies' \in Seq(Copy) /\ joins' \in Seq(Join)
  BY DEF CollectionInv, TypeOK, Archive, Keep
<1>3. CASE Exists(c)
  <2>1. PICK row : row = [collections[c] EXCEPT !.archived = TRUE]
    OBVIOUS
  <2>2. row \in Collection /\ row.org = collections[c].org /\ row.gone = collections[c].gone
    BY <1>3, <2>1, Tables DEF CollectionInv, Collection, Exists
  <2>3. collections' = [collections EXCEPT ![c] = row]
    BY <1>1, <1>3, <2>1 DEF Archive
  <2>4. QED
    BY <1>2, <1>3, <2>2, <2>3, CollectionWrite, AnswerStep DEF Exists
<1>4. CASE ~Exists(c)
  BY <1>1, <1>2, <1>4, SameTables, AnswerStep DEF Archive, tables
<1>5. QED
  BY <1>3, <1>4

\* The steps of a deletion that only read.
LEMMA DeletionReadsInv ==
    ASSUME CollectionInv, NEW r \in Requests,
           ReadCounts(r) \/ CountConventions(r) \/ ListCopies(r)
    PROVE  CollectionInv'
<1>1. PICK req : req = requests[r]
  OBVIOUS
<1>2. /\ req \in Request /\ Sound(req) /\ UNCHANGED tables /\ UNCHANGED strayed /\ Keep
      /\ req.pc \in {"readCounts", "countConventions", "listCopies"}
      /\ requests \in [Requests -> Request]
      /\ received' \in 0 .. MaxRequests /\ crashed' \in BOOLEAN
  BY <1>1 DEF CollectionInv, TypeOK, ReadCounts, CountConventions, ListCopies, Keep
<1>3. copies' = copies /\ collections' = collections
  BY <1>2 DEF tables
<1>4. ASSUME req.op # "deleteOfOrg"
      PROVE  req.op = "deleteCollection" /\ req.col \in req.cleared
  BY <1>2, <1>4 DEF Sound, OnItsWay, Cleared
<1>5. CASE Answer(r)
  BY <1>2, <1>5, SameTables, AnswerStep
<1>6. ASSUME NEW pc \in {"countConventions", "listCopies"}, Go(r, pc), req.op # "deleteOfOrg"
      PROVE  CollectionInv'
  <2>1. PICK q : q = [req EXCEPT !.pc = pc]
    OBVIOUS
  <2>2. /\ q \in Request /\ q.pc = pc /\ q.op = req.op /\ q.col = req.col
        /\ q.cleared = req.cleared
        /\ requests' = [requests EXCEPT ![r] = q]
    BY <1>1, <1>2, <1>6, <2>1 DEF Request, PCs, Go
  <2>3. OnItsWay(q)' /\ Cleared(q)' /\ Agrees(q)'
    BY <1>4, <1>6, <2>2 DEF OnItsWay, Cleared, Agrees, Creating
  <2>4. QED
    BY <1>2, <2>2, <2>3, ReadStep DEF Sound
<1>7. CASE ListCopies(r)
  <2>1. req.op = "deleteCollection"
    BY <1>1, <1>2, <1>7 DEF Sound, OnItsWay, ListCopies
  <2>2. PICK q : q = [req EXCEPT !.pc = "deleteCopies", !.left = CopiesOf(req.col)]
    OBVIOUS
  <2>3. CopiesOf(req.col) \subseteq Nat
    BY Tables DEF CopiesOf, CollectionInv
  <2>4. /\ q \in Request /\ q.pc = "deleteCopies" /\ q.op = req.op /\ q.left = CopiesOf(req.col)
        /\ q.cleared = req.cleared
        /\ requests' = [requests EXCEPT ![r] = q]
    BY <1>1, <1>2, <1>7, <2>2, <2>3 DEF Request, PCs, ListCopies
  <2>5. Cleared(q)'
    BY <1>3, <1>4, <2>1, <2>4 DEF Cleared, Known, CopiesOf
  <2>6. OnItsWay(q)' /\ Agrees(q)'
    BY <2>1, <2>4 DEF OnItsWay, Agrees, Creating
  <2>7. QED
    BY <1>2, <2>4, <2>5, <2>6, ReadStep DEF Sound
<1>8. CASE ReadCounts(r)
  <2>1. req.op # "deleteOfOrg"
    BY <1>1, <1>2, <1>8 DEF Sound, OnItsWay, ReadCounts
  <2>2. QED
    BY <1>5, <1>6, <1>8, <2>1 DEF ReadCounts
<1>9. QED
  BY <1>1, <1>5, <1>6, <1>7, <1>8 DEF CountConventions

LEMMA DeleteCopiesInv ==
    ASSUME CollectionInv, NEW r \in Requests, DeleteCopies(r)
    PROVE  CollectionInv'
<1>1. PICK req : req = requests[r]
  OBVIOUS
<1>2. /\ req \in Request /\ Sound(req) /\ req.pc = "deleteCopies"
      /\ requests \in [Requests -> Request]
      /\ collections' = collections /\ joins' = joins /\ Keep /\ strayed' = strayed
      /\ received' \in 0 .. MaxRequests /\ crashed' \in BOOLEAN
      /\ collections' \in Seq(Collection) /\ joins' \in Seq(Join)
  BY <1>1 DEF CollectionInv, TypeOK, DeleteCopies, Keep
<1>3. req.op = "deleteCollection"
  BY <1>2 DEF Sound, OnItsWay
<1>4. CASE Go(r, "deleteRow") /\ UNCHANGED copies
  <2>1. PICK q : q = [req EXCEPT !.pc = "deleteRow"]
    OBVIOUS
  <2>2. /\ q \in Request /\ q.pc = "deleteRow" /\ q.op = req.op
        /\ requests' = [requests EXCEPT ![r] = q]
    BY <1>1, <1>2, <1>4, <2>1 DEF Request, PCs, Go
  <2>3. OnItsWay(q)' /\ Cleared(q)' /\ Agrees(q)'
    BY <1>3, <2>2 DEF OnItsWay, Cleared, Agrees, Creating
  <2>4. QED
    BY <1>2, <1>4, <2>2, <2>3, ReadStep DEF Sound, tables
<1>5. ASSUME NEW i \in req.left, Present(i), ~copies[i].borrowed,
             copies' = [copies EXCEPT ![i].gone = TRUE],
             requests' = [requests EXCEPT ![r].left = @ \ {i}]
      PROVE  CollectionInv'
  <2>1. PICK q : q = [req EXCEPT !.left = @ \ {i}]
    OBVIOUS
  <2>2. /\ q \in Request /\ q.pc = "deleteCopies" /\ q.op = req.op /\ q.left \subseteq req.left
        /\ q.cleared = req.cleared /\ q.moved = req.moved
        /\ requests' = [requests EXCEPT ![r] = q]
    BY <1>1, <1>2, <1>5, <2>1 DEF Request
  <2>3. /\ copies' \in Seq(Copy) /\ Grows /\ RowInv'
        /\ \A k \in DOMAIN copies : copies'[k].col = copies[k].col
    BY <1>2, <1>5, DeleteWrite
  <2>4. DOMAIN copies' = DOMAIN copies
    BY <1>5
  <2>5. Cleared(q)'
    BY <1>2, <2>2, <2>3, <2>4 DEF Sound, Cleared, Known
  <2>6. OnItsWay(q)' /\ Agrees(q)'
    BY <1>2, <1>3, <2>2, <2>4 DEF OnItsWay, Agrees, Creating
  <2>7. QED
    BY <1>2, <2>2, <2>3, <2>5, <2>6, OneRequestStep DEF Sound
<1>6. CASE Answer(r) /\ UNCHANGED copies
  BY <1>2, <1>6, SameTables, AnswerStep DEF tables
<1>7. QED
  BY <1>1, <1>4, <1>5, <1>6 DEF DeleteCopies

LEMMA DeleteRowInv ==
    ASSUME CollectionInv, NEW r \in Requests, DeleteRow(r)
    PROVE  CollectionInv'
<1>1. PICK c : c = requests[r].col
  OBVIOUS
<1>2. /\ Answer(r) /\ copies' = copies /\ joins' = joins /\ Keep /\ strayed' = strayed
      /\ copies' \in Seq(Copy) /\ joins' \in Seq(Join)
      /\ collections' = IF Referenced(c) THEN collections
                        ELSE [collections EXCEPT ![c].gone = TRUE]
  BY <1>1 DEF CollectionInv, TypeOK, DeleteRow, Keep
<1>3. CASE ~Referenced(c) /\ c \in DOMAIN collections
  <2>1. PICK row : row = [collections[c] EXCEPT !.gone = TRUE]
    OBVIOUS
  <2>2. row \in Collection /\ row.org = collections[c].org
    BY <1>3, <2>1, Tables DEF CollectionInv, Collection
  <2>3. collections' = [collections EXCEPT ![c] = row]
    BY <1>2, <1>3, <2>1
  <2>4. CopiesOf(c) = {}
    BY <1>3 DEF Referenced
  <2>5. QED
    BY <1>2, <1>3, <2>2, <2>3, <2>4, CollectionWrite, AnswerStep
<1>4. CASE Referenced(c) \/ c \notin DOMAIN collections
  <2>1. collections' = collections
    BY <1>2, <1>4 DEF CollectionInv, TypeOK
  <2>2. QED
    BY <1>2, <2>1, SameTables, AnswerStep DEF tables
<1>5. QED
  BY <1>3, <1>4

LEMMA AddCollectionInv ==
    ASSUME CollectionInv, NEW r \in Requests, AddCollection(r)
    PROVE  CollectionInv'
<1>1. PICK req : req = requests[r]
  OBVIOUS
<1>2. /\ Sound(req) /\ req.op = "addCollection" /\ req.pc = "write"
      /\ Answer(r) /\ copies' = copies /\ Keep /\ strayed' = strayed /\ copies' \in Seq(Copy)
      /\ collections \in Seq(Collection) /\ joins \in Seq(Join)
  BY <1>1 DEF CollectionInv, TypeOK, AddCollection, Keep
<1>3. CASE UNCHANGED <<collections, joins>>
  BY <1>2, <1>3, SameTables, AnswerStep DEF tables
<1>4. CASE /\ Create(req.org)
           /\ \/ req.con = None /\ UNCHANGED joins
              \/ /\ req.con \in DOMAIN joins
                 /\ joins' = [joins EXCEPT ![req.con].col = Len(collections')]
  <2>1. req.org \in Orgs
    BY <1>2 DEF Sound, OnItsWay
  <2>2. collections' \in Seq(Collection) /\ Grows /\ RowInv'
    BY <1>2, <1>4, <2>1, CreateWrite
  <2>3. joins' \in Seq(Join)
    <3>1. CASE joins' = joins
      BY <1>2, <3>1
    <3>2. CASE /\ req.con \in DOMAIN joins
               /\ joins' = [joins EXCEPT ![req.con].col = Len(collections')]
      <4>1. Len(collections') \in Nat /\ joins[req.con] \in Join
        BY <1>2, <2>2, <3>2
      <4>2. PICK row : row = [joins[req.con] EXCEPT !.col = Len(collections')]
        OBVIOUS
      <4>3. row \in Join /\ joins' = [joins EXCEPT ![req.con] = row]
        BY <3>2, <4>1, <4>2 DEF Join
      <4>4. QED
        BY <1>2, <3>2, <4>3
    <3>3. QED
      BY <1>4, <3>1, <3>2
  <2>4. QED
    BY <1>2, <2>2, <2>3, AnswerStep
<1>5. QED
  BY <1>1, <1>3, <1>4 DEF AddCollection

LEMMA JoinInv ==
    ASSUME CollectionInv, NEW r \in Requests, AttachCollection(r) \/ DetachCollection(r)
    PROVE  CollectionInv'
<1>1. PICK req : req = requests[r]
  OBVIOUS
<1>2. /\ req \in Request /\ Sound(req) /\ req.pc = "write" /\ Answer(r) /\ Keep /\ strayed' = strayed
      /\ collections' = collections /\ copies' = copies /\ joins \in Seq(Join)
      /\ collections' \in Seq(Collection) /\ copies' \in Seq(Copy)
  BY <1>1 DEF CollectionInv, TypeOK, AttachCollection, DetachCollection, Keep
<1>3. Grows /\ RowInv' /\ \A i \in DOMAIN copies : copies'[i].col = copies[i].col
  <2>1. Len(collections) \in Nat /\ Len(copies) \in Nat
    BY Tables DEF CollectionInv
  <2>2. Grows
    BY <1>2, <2>1 DEF Grows, CollectionInv, TypeOK
  <2>3. QED
    BY <1>2, <2>2 DEF CollectionInv, RowInv, References, HistoryIsKept,
       CopyInOneOrganization, Present, Exists
<1>4. CASE AttachCollection(r)
  <2>1. [con |-> req.con, col |-> req.col] \in Join
    BY <1>1, <1>2, <1>4 DEF AttachCollection, Sound, OnItsWay, Request, Join
  <2>2. joins' \in Seq(Join)
    BY <1>1, <1>2, <1>4, <2>1 DEF AttachCollection
  <2>3. QED
    BY <1>2, <1>3, <2>2, AnswerStep
<1>5. CASE DetachCollection(r)
  <2>1. ASSUME NEW j \in DOMAIN joins PROVE joins'[j] \in Join
    <3>1. joins[j] \in Join /\ joins'[j] \in {joins[j], [joins[j] EXCEPT !.col = 0]}
      BY <1>2, <1>5 DEF DetachCollection
    <3>2. QED
      BY <3>1 DEF Join
  <2>2. joins' \in Seq(Join)
    BY <1>2, <1>5, <2>1 DEF DetachCollection
  <2>3. QED
    BY <1>2, <1>3, <2>2, AnswerStep
<1>6. QED
  BY <1>4, <1>5

-----------------------------------------------------------------------------
(* The theorems.                                                           *)

LEMMA InitInv == Init => CollectionInv
<1> SUFFICES ASSUME Init PROVE CollectionInv
  OBVIOUS
<1>1. /\ DOMAIN FirstOrgs = 1 .. Len(FirstOrgs) /\ Len(FirstOrgs) \in Nat
      /\ DOMAIN FirstCopies = 1 .. Len(FirstCopies) /\ Len(FirstCopies) \in Nat
      /\ DOMAIN FirstJoins = 1 .. Len(FirstJoins) /\ Len(FirstJoins) \in Nat
      /\ \A c \in DOMAIN FirstOrgs : FirstOrgs[c] \in Orgs /\ c \in Nat
      /\ \A i \in DOMAIN FirstCopies :
            FirstCopies[i].col \in DOMAIN FirstOrgs /\ FirstCopies[i].label \in Labels
      /\ \A j \in DOMAIN FirstJoins : FirstJoins[j] \in Join
  <2>1. PICK C : C = DOMAIN FirstOrgs
    OBVIOUS
  <2>2. /\ FirstOrgs \in Seq(Orgs)
        /\ FirstCopies \in Seq([col : C, label : Labels])
        /\ FirstJoins \in Seq([con : Cons, col : C])
    BY <2>1, CollectionsAssumption
  <2>3. /\ C = 1 .. Len(FirstOrgs) /\ Len(FirstOrgs) \in Nat
        /\ DOMAIN FirstCopies = 1 .. Len(FirstCopies) /\ Len(FirstCopies) \in Nat
        /\ DOMAIN FirstJoins = 1 .. Len(FirstJoins) /\ Len(FirstJoins) \in Nat
    BY <2>1, <2>2
  <2>4. \A c \in C : FirstOrgs[c] \in Orgs /\ c \in Nat
    BY <2>2, <2>3
  <2>5. \A i \in DOMAIN FirstCopies : FirstCopies[i] \in [col : C, label : Labels]
    <3>1. PICK S : S = [col : C, label : Labels]
      OBVIOUS
    <3>2. FirstCopies \in Seq(S)
      BY <2>2, <3>1
    <3>3. \A k \in DOMAIN FirstCopies : FirstCopies[k] \in S
      BY <3>2
    <3>4. QED
      BY <3>1, <3>3
  <2>6. \A j \in DOMAIN FirstJoins : FirstJoins[j] \in [con : Cons, col : C]
    <3>1. PICK S : S = [con : Cons, col : C]
      OBVIOUS
    <3>2. FirstJoins \in Seq(S)
      BY <2>2, <3>1
    <3>3. \A k \in DOMAIN FirstJoins : FirstJoins[k] \in S
      BY <3>2
    <3>4. QED
      BY <3>1, <3>3
  <2>7. \A j \in DOMAIN FirstJoins : FirstJoins[j] \in Join
    BY <2>4, <2>6 DEF Join
  <2>8. QED
    BY <2>1, <2>3, <2>4, <2>5, <2>7
<1>2. /\ DOMAIN collections = DOMAIN FirstOrgs
      /\ \A c \in DOMAIN collections :
            /\ collections[c] \in Collection
            /\ collections[c].org = FirstOrgs[c] /\ ~collections[c].gone
  BY <1>1 DEF Init, Collection
<1>3. /\ DOMAIN copies = DOMAIN FirstCopies
      /\ \A i \in DOMAIN copies :
            /\ copies[i] \in Copy
            /\ copies[i].col = FirstCopies[i].col /\ copies[i].org = FirstOrgs[FirstCopies[i].col]
            /\ ~copies[i].borrowed
  BY <1>1 DEF Init, Copy
<1>4. collections \in Seq(Collection) /\ copies \in Seq(Copy)
  BY <1>1, <1>2, <1>3 DEF Init
<1>5. joins \in Seq(Join)
  <2>1. FirstJoins \in [1 .. Len(FirstJoins) -> Join]
    BY <1>1, CollectionsAssumption
  <2>2. QED
    BY <1>1, <2>1 DEF Init
<1>6. TypeOK
  <2>1. received \in 0 .. MaxRequests
    <3>1. MaxRequests \in Nat
      BY CollectionsAssumption
    <3>2. received = 0
      BY Zenon DEF Init
    <3>3. QED
      BY <3>1, <3>2
  <2>2. crashed \in BOOLEAN
    BY Zenon DEF Init
  <2>3. requests \in [Requests -> Request]
    BY IdleSound DEF Init
  <2>4. strayed \subseteq Orgs \X DOMAIN collections
    BY Zenon DEF Init
  <2>5. QED
    BY <1>4, <1>5, <2>1, <2>2, <2>3, <2>4 DEF TypeOK
<1>7. RowInv
  BY <1>1, <1>2, <1>3 DEF RowInv, References, HistoryIsKept, CopyInOneOrganization
<1>8. ASSUME NEW r \in Requests PROVE Sound(requests[r])
  <2>1. requests[r] = Idle
    BY DEF Init
  <2>2. QED
    BY <2>1, IdleSound
<1>9. QED
  BY <1>6, <1>7, <1>8 DEF CollectionInv

LEMMA StutterInv == CollectionInv /\ UNCHANGED vars => CollectionInv'
<1> SUFFICES ASSUME CollectionInv, UNCHANGED vars PROVE CollectionInv'
  OBVIOUS
<1>1. /\ UNCHANGED tables /\ requests' = requests /\ received' = received
      /\ crashed' = crashed /\ strayed' = strayed
  BY DEF vars
<1>2. TypeOK'
  BY <1>1 DEF CollectionInv, TypeOK, tables
<1>3. ASSUME NEW s \in Requests PROVE Sound(requests[s])'
  <2>1. PICK after : after = requests'[s]
    OBVIOUS
  <2>2. Continues(requests[s], after) /\ requests[s] \in Request /\ Sound(requests[s])
    BY <1>1, <2>1, SameTables DEF Continues, CollectionInv, TypeOK
  <2>3. QED
    BY <1>1, <2>1, <2>2, SameTables, SoundPersists
<1>4. QED
  BY <1>1, <1>2, <1>3, SameTables DEF CollectionInv

LEMMA NextInv == CollectionInv /\ [Next]_vars => CollectionInv'
<1> SUFFICES ASSUME CollectionInv, [Next]_vars PROVE CollectionInv'
  OBVIOUS
<1>1. ASSUME NEW r \in Requests, Receive(r) PROVE CollectionInv'
  BY <1>1, ReceiveInv
<1>2. ASSUME NEW r \in Requests, Step(r) PROVE CollectionInv'
  BY <1>2, GuardInv, AddCopyInv, StartRowsInv, UploadRowInv, UpdateCopyInv, DeleteCopyInv,
     ArchiveInv, DeletionReadsInv, DeleteCopiesInv, DeleteRowInv, AddCollectionInv, JoinInv
     DEF Step
<1>3. CASE Borrow
  BY <1>3, BorrowInv
<1>4. CASE UNCHANGED vars
  BY <1>4, StutterInv
<1>5. QED
  BY <1>1, <1>2, <1>3, <1>4 DEF Next, Quiet

(***************************************************************************)
(* The inductive invariant holds in every reachable state.                 *)
(***************************************************************************)
THEOREM CollectionInvariance == Spec => []CollectionInv
  BY InitInv, NextInv, PTL DEF Spec

(***************************************************************************)
(* The tables of collections, copies and joins and every request stay of   *)
(* their types.                                                            *)
(***************************************************************************)
THEOREM CollectionTypeCorrectness == Spec => []TypeOK
<1>1. CollectionInv => TypeOK
  BY DEF CollectionInv
<1>2. QED
  BY <1>1, CollectionInvariance, PTL

(***************************************************************************)
(* A copy that is there is in a collection that is there: deletions and    *)
(* moves never leave a copy without its collection.                        *)
(***************************************************************************)
THEOREM ReferencesKept == Spec => []References
<1>1. CollectionInv => References
  BY DEF CollectionInv, RowInv
<1>2. QED
  BY <1>1, CollectionInvariance, PTL

(***************************************************************************)
(* A borrowed copy and its collection are never deleted, however loans,    *)
(* moves and deletions interleave.                                         *)
(***************************************************************************)
THEOREM BorrowedCopiesStay == Spec => []HistoryIsKept
<1>1. CollectionInv => HistoryIsKept
  BY DEF CollectionInv, RowInv
<1>2. QED
  BY <1>1, CollectionInvariance, PTL

(***************************************************************************)
(* Copies stay in collections of their organization, whatever happens      *)
(* between guards and handlers, unless a route that names an organization  *)
(* and a collection of another one has stored a copy there.                *)
(***************************************************************************)
THEOREM OneOrganizationPerCopy == Spec => []CopyInOneOrganization
<1>1. CollectionInv => CopyInOneOrganization
  BY DEF CollectionInv, RowInv
<1>2. QED
  BY <1>1, CollectionInvariance, PTL

\* Request r takes part in the step and knows copy i, or puts copies in.
Accounts(r, i) ==
    /\ requests'[r] # requests[r]
    /\ \/ Known(requests[r], i)
       \/ requests[r].op \in Creating

\* A request that has been answered is not what it was.
LEMMA AnswerIsSeen ==
    ASSUME CollectionInv, NEW r \in Requests, requests[r].pc # "idle",
           Moving(r, Idle) \/ Answer(r)
    PROVE  requests'[r] # requests[r]
<1>1. requests'[r] = Idle
  BY DEF Moving, Answer, CollectionInv, TypeOK
<1>2. Idle.pc = "idle"
  BY DEF Idle
<1>3. QED
  BY <1>1, <1>2

\* Nor is one that has stored a row.
LEMMA RowIsSeen ==
    ASSUME CollectionInv, NEW r \in Requests, UploadRow(r), copies' # copies
    PROVE  requests'[r] # requests[r] /\ requests[r].op \in {"upload", "import"}
<1>1. PICK req : req = requests[r]
  OBVIOUS
<1>2. /\ req \in Request /\ req.pc = "row" /\ Sound(req) /\ req.rows # <<>>
      /\ Moving(r, [req EXCEPT !.rows = Tail(@)])
  BY <1>1 DEF UploadRow, CollectionInv, TypeOK
<1>3. requests'[r].rows = Tail(req.rows)
  BY <1>2 DEF Moving, Request
<1>4. Tail(req.rows) # req.rows
  BY <1>2 DEF Request
<1>5. req.op \in {"upload", "import"}
  BY <1>2 DEF Sound, OnItsWay
<1>6. QED
  BY <1>1, <1>3, <1>4, <1>5

\* A step that takes a copy away is one of a request that accounts for it.
LEMMA MovesAreKnown ==
    ASSUME CollectionInv, [Next]_vars, NEW i, NEW c, Leaves(i, c)
    PROVE  \E r \in Requests : Accounts(r, i)
<1>1. /\ requests \in [Requests -> Request] /\ copies' # copies
      /\ i \in DOMAIN copies /\ ~copies[i].gone
      /\ copies'[i].col # copies[i].col \/ copies'[i].gone
      /\ copies \in Seq(Copy)
  BY DEF CollectionInv, TypeOK, Leaves, Present
<1>2. ASSUME NEW r \in Requests, AddCopy(r) PROVE Accounts(r, i)
  BY <1>2, AnswerIsSeen DEF AddCopy, Accounts, Creating
<1>3. ASSUME NEW r \in Requests, UploadRow(r) PROVE Accounts(r, i)
  BY <1>1, <1>3, RowIsSeen DEF Accounts, Creating
<1>4. ASSUME NEW r \in Requests, UpdateCopy(r) \/ DeleteCopy(r) PROVE Accounts(r, i)
  <2>1. i = requests[r].copy
    BY <1>1, <1>4 DEF UpdateCopy, DeleteCopy
  <2>2. Known(requests[r], i)
    BY <1>4, <2>1 DEF UpdateCopy, DeleteCopy, CollectionInv, Sound, Cleared
  <2>3. QED
    BY <1>4, <2>2, AnswerIsSeen DEF UpdateCopy, DeleteCopy, Accounts
<1>5. ASSUME NEW r \in Requests, DeleteCopies(r) PROVE Accounts(r, i)
  <2>1. PICK k \in requests[r].left :
            /\ copies' = [copies EXCEPT ![k].gone = TRUE]
            /\ requests' = [requests EXCEPT ![r].left = @ \ {k}]
    BY <1>1, <1>5 DEF DeleteCopies
  <2>2. i = k
    BY <1>1, <2>1
  <2>3. Known(requests[r], i)
    BY <1>5, <2>2 DEF DeleteCopies, CollectionInv, Sound, Cleared
  <2>4. requests'[r].left # requests[r].left
    BY <1>1, <2>1 DEF Request
  <2>5. QED
    BY <2>3, <2>4 DEF Accounts
<1>6. ASSUME NEW r \in Requests, Receive(r) PROVE FALSE
  BY <1>1, <1>6 DEF Receive, tables
<1>7. ASSUME NEW r \in Requests,
             \/ Guard(r) \/ StartRows(r) \/ Archive(r) \/ ReadCounts(r) \/ CountConventions(r)
             \/ ListCopies(r) \/ DeleteRow(r) \/ AddCollection(r) \/ AttachCollection(r)
             \/ DetachCollection(r)
      PROVE  FALSE
  BY <1>1, <1>7 DEF Guard, StartRows, Archive, ReadCounts, CountConventions, ListCopies,
     DeleteRow, AddCollection, AttachCollection, DetachCollection, tables
<1>8. CASE Borrow
  <2>1. PICK k \in DOMAIN copies : copies' = [copies EXCEPT ![k].borrowed = TRUE]
    BY <1>8 DEF Borrow
  <2>2. PICK row : row = [copies[k] EXCEPT !.borrowed = TRUE]
    OBVIOUS
  <2>3. row.col = copies[k].col /\ row.gone = copies[k].gone
    BY <2>1, <2>2, Tables DEF CollectionInv, Copy
  <2>4. copies'[i] = IF i = k THEN row ELSE copies[i]
    BY <1>1, <2>1, <2>2
  <2>5. QED
    BY <1>1, <2>3, <2>4
<1>9. CASE UNCHANGED vars
  BY <1>1, <1>9 DEF vars, tables
<1>10. QED
  BY <1>2, <1>3, <1>4, <1>5, <1>6, <1>7, <1>8, <1>9 DEF Next, Step, Quiet

\* What a step puts into a collection: a request whose guard has read it, or one
\* whose guard reads another.
Admits(r, c) ==
    /\ requests'[r] # requests[r]
    /\ \/ c \in requests[r].cleared
       \/ requests[r].op \in {"upload", "import", "addCopyOfOrg"}

\* A copy comes only into the collection of the upsert.
LEMMA UpsertEnters ==
    ASSUME CollectionInv, NEW o, NEW col, NEW label, Upsert(o, col, label),
           NEW i \in 1 .. Len(copies'), NEW c, Enters(i, c)
    PROVE  c = col
<1>1. /\ copies \in Seq(Copy) /\ Len(copies) \in Nat /\ DOMAIN copies = 1 .. Len(copies)
      /\ col \in Nat
  BY Tables DEF CollectionInv, TypeOK, Upsert, Exists
<1>2. PICK found : found = {k \in DOMAIN copies :
            Present(k) /\ copies[k].org = o /\ copies[k].label = label}
  OBVIOUS
<1>3. CASE found = {}
  <2>1. PICK row : row.col = col /\ copies' = Append(copies, row)
    BY <1>2, <1>3 DEF Upsert
  <2>2. (i \in DOMAIN copies /\ copies'[i] = copies[i]) \/ copies'[i] = row
    BY <1>1, <2>1
  <2>3. QED
    BY <2>1, <2>2 DEF Enters
<1>4. CASE found # {}
  <2>1. copies' = [k \in DOMAIN copies |->
                IF k \in found THEN [copies[k] EXCEPT !.col = col] ELSE copies[k]]
    BY <1>2, <1>4 DEF Upsert
  <2>2. i \in DOMAIN copies
    BY <1>1, <2>1
  <2>3. copies[i] \in Copy
    BY <2>2, Tables DEF CollectionInv
  <2>4. copies'[i].col \in {col, copies[i].col}
    BY <1>2, <2>1, <2>2, <2>3 DEF Copy
  <2>5. QED
    BY <2>2, <2>4 DEF Enters
<1>5. QED
  BY <1>3, <1>4

\* A step that brings a copy is one of a request that may put it there.
LEMMA ComersAreAdmitted ==
    ASSUME CollectionInv, [Next]_vars, NEW i \in 1 .. Len(copies'), NEW c, Enters(i, c)
    PROVE  \E r \in Requests : Admits(r, c)
<1>1. /\ requests \in [Requests -> Request] /\ copies' # copies
      /\ copies \in Seq(Copy) /\ DOMAIN copies = 1 .. Len(copies)
  BY DEF CollectionInv, TypeOK, Enters
<1>2. ASSUME NEW r \in Requests, AddCopy(r) PROVE Admits(r, c)
  <2>1. Upsert(requests[r].org, requests[r].col, requests[r].rows[1])
    BY <1>1, <1>2 DEF AddCopy
  <2>2. c = requests[r].col
    BY <2>1, UpsertEnters
  <2>3. requests[r].op = "addCopy" => c \in requests[r].cleared
    BY <1>2, <2>2 DEF AddCopy, CollectionInv, Sound, Cleared
  <2>4. QED
    BY <1>2, <2>3, AnswerIsSeen DEF AddCopy, Admits
<1>3. ASSUME NEW r \in Requests, UploadRow(r) PROVE Admits(r, c)
  BY <1>1, <1>3, RowIsSeen DEF Admits
\* A copy that keeps its row, but for its collection.
<1>4. ASSUME NEW k \in DOMAIN copies, NEW row, copies' = [copies EXCEPT ![k] = row]
      PROVE  i = k /\ row.col = c /\ copies[k].col # c
  <2>1. i \in DOMAIN copies
    BY <1>1, <1>4
  <2>2. QED
    BY <1>4, <2>1 DEF Enters
<1>5. ASSUME NEW r \in Requests, UpdateCopy(r) PROVE Admits(r, c)
  <2>1. PICK k \in DOMAIN copies : copies' = [copies EXCEPT ![k].col = requests[r].col]
    BY <1>1, <1>5 DEF UpdateCopy, Present
  <2>2. PICK row : row = [copies[k] EXCEPT !.col = requests[r].col]
    OBVIOUS
  <2>3. row.col = requests[r].col
    BY <2>1, <2>2, Tables DEF CollectionInv, Copy
  <2>4. c = requests[r].col
    BY <1>4, <2>1, <2>2, <2>3
  <2>5. c \in requests[r].cleared
    BY <1>5, <2>4 DEF UpdateCopy, CollectionInv, Sound, Cleared
  <2>6. QED
    BY <1>5, <2>5, AnswerIsSeen DEF UpdateCopy, Admits
<1>6. ASSUME NEW r \in Requests, DeleteCopy(r) \/ DeleteCopies(r) PROVE FALSE
  <2>1. PICK k : Present(k) /\ copies' = [copies EXCEPT ![k].gone = TRUE]
    BY <1>1, <1>6 DEF DeleteCopy, DeleteCopies
  <2>2. PICK row : row = [copies[k] EXCEPT !.gone = TRUE]
    OBVIOUS
  <2>3. k \in DOMAIN copies /\ row.col = copies[k].col
    BY <2>1, <2>2, Tables DEF CollectionInv, Copy, Present
  <2>4. QED
    BY <1>4, <2>1, <2>2, <2>3
<1>7. ASSUME NEW r \in Requests, Receive(r) PROVE FALSE
  BY <1>1, <1>7 DEF Receive, tables
<1>8. ASSUME NEW r \in Requests,
             \/ Guard(r) \/ StartRows(r) \/ Archive(r) \/ ReadCounts(r) \/ CountConventions(r)
             \/ ListCopies(r) \/ DeleteRow(r) \/ AddCollection(r) \/ AttachCollection(r)
             \/ DetachCollection(r)
      PROVE  FALSE
  BY <1>1, <1>8 DEF Guard, StartRows, Archive, ReadCounts, CountConventions, ListCopies,
     DeleteRow, AddCollection, AttachCollection, DetachCollection, tables
<1>9. CASE Borrow
  <2>1. PICK k \in DOMAIN copies : copies' = [copies EXCEPT ![k].borrowed = TRUE]
    BY <1>9 DEF Borrow
  <2>2. PICK row : row = [copies[k] EXCEPT !.borrowed = TRUE]
    OBVIOUS
  <2>3. row.col = copies[k].col
    BY <2>1, <2>2, Tables DEF CollectionInv, Copy
  <2>4. QED
    BY <1>4, <2>1, <2>2, <2>3
<1>10. CASE UNCHANGED vars
  BY <1>1, <1>10 DEF vars, tables
<1>11. QED
  BY <1>2, <1>3, <1>5, <1>6, <1>7, <1>8, <1>9, <1>10 DEF Next, Step, Quiet

\* ArchivedAfterTheGuard, of one step.
ArchivedAfterTheGuardStep ==
    \A i \in 1 .. Len(copies'), c \in 1 .. Len(collections) :
        (collections[c].archived /\ (Leaves(i, c) \/ Enters(i, c))) =>
            \E r \in Requests :
                /\ requests'[r] # requests[r]
                /\ \/ c \in requests[r].cleared
                   \/ Leaves(i, c) /\ i \in requests[r].moved
                   \/ Leaves(i, c) /\ requests[r].op \in Creating
                   \/ Enters(i, c) /\ requests[r].op \in {"upload", "import", "addCopyOfOrg"}

(***************************************************************************)
(* With any number of requests at once, a copy comes into an archived      *)
(* collection or out of it only by a request whose guard has read that     *)
(* collection before, or by one whose guard is not about it.               *)
(***************************************************************************)
THEOREM ArchivedOnlyAfterTheGuard == Spec => ArchivedAfterTheGuard
<1>1. ASSUME CollectionInv, [Next]_vars PROVE ArchivedAfterTheGuardStep
  <2>1. SUFFICES ASSUME NEW i \in 1 .. Len(copies'), NEW c \in 1 .. Len(collections),
                        Leaves(i, c) \/ Enters(i, c)
                 PROVE  \E r \in Requests :
                            /\ requests'[r] # requests[r]
                            /\ \/ c \in requests[r].cleared
                               \/ Leaves(i, c) /\ i \in requests[r].moved
                               \/ Leaves(i, c) /\ requests[r].op \in Creating
                               \/ /\ Enters(i, c)
                                  /\ requests[r].op \in {"upload", "import", "addCopyOfOrg"}
    BY DEF ArchivedAfterTheGuardStep
  <2>2. CASE Leaves(i, c)
    <3>1. PICK r \in Requests : Accounts(r, i)
      BY <1>1, <2>2, MovesAreKnown
    <3>2. copies[i].col = c
      BY <2>2 DEF Leaves
    <3>3. QED
      BY <2>2, <3>1, <3>2 DEF Accounts, Known
  <2>3. CASE Enters(i, c)
    <3>1. PICK r \in Requests : Admits(r, c)
      BY <1>1, <2>3, ComersAreAdmitted
    <3>2. QED
      BY <2>3, <3>1 DEF Admits
  <2>4. QED
    BY <2>1, <2>2, <2>3
<1>2. CollectionInv /\ [Next]_vars => ArchivedAfterTheGuardStep
  BY <1>1
<1>3. ArchivedAfterTheGuard <=> [][ArchivedAfterTheGuardStep]_vars
  BY DEF ArchivedAfterTheGuard, ArchivedAfterTheGuardStep
<1>4. QED
  BY <1>2, <1>3, CollectionInvariance, PTL DEF Spec
=============================================================================
