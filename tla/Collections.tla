---------------------------- MODULE Collections ----------------------------
(***************************************************************************)
(* Collections, their copies and the conventions they are attached to: the *)
(* handlers of CollectionService, CopyService and ConventionService that   *)
(* write them, each behind the guard of its route.  A guard reads what it  *)
(* tests in a query of its own, before the handler's queries; only the     *)
(* foreign keys and unique constraints hold between the two.               *)
(***************************************************************************)
EXTENDS Integers, Sequences, FiniteSets

CONSTANTS
    Requests,       \* the handlers that can be in flight together
    Orgs,           \* the ids of organizations, numbered as rows are
    Cons,           \* the ids of conventions, numbered so too
    Labels,         \* barcode labels
    BadLabel,       \* a CSV row that cannot be created
    None,           \* no organization, convention or operation
    FirstOrgs,      \* the organizations of the collections there are
    FirstArchived,  \* those of them that are archived
    FirstCopies,    \* the collection and label of the copies there are
    FirstJoins,     \* the rows of ConventionCollections there are
    MaxRequests,    \* bound: the requests that arrive in a behaviour
    MaxCols,        \* bound: the rows of Collection
    MaxCopies       \* bound: the rows of Copy

ASSUME CollectionsAssumption ==
    /\ FirstOrgs \in Seq(Orgs)
    /\ FirstCopies \in Seq([col : DOMAIN FirstOrgs, label : Labels])
    /\ FirstJoins \in Seq([con : Cons, col : DOMAIN FirstOrgs])
    /\ None \notin Orgs \cup Cons
    /\ BadLabel \notin Labels
    /\ Orgs \cup Cons \subseteq Nat
    /\ {MaxRequests, MaxCols, MaxCopies} \subseteq Nat

VARIABLES
    collections,    \* the Collection table by id; gone when deleted
    copies,         \* the Copy table by id; gone when deleted
    joins,          \* ConventionCollections by id; col is 0 when deleted
    requests,
    received,
    crashed,        \* an unhandled rejection has ended the process
    strayed         \* history: an organization and a collection of another one,
                    \* for which a route that names both has stored a copy

tables == <<collections, copies, joins>>

vars == <<tables, requests, received, crashed, strayed>>

-----------------------------------------------------------------------------
Collection == [org : Orgs, archived : BOOLEAN, gone : BOOLEAN]

\* borrowed: some CheckOut refers to the copy.
Copy == [org : Orgs, col : Nat, label : Labels, borrowed : BOOLEAN, gone : BOOLEAN]

Join == [con : Cons, col : Nat]

\* The routes of the organization's controller, organization/:id/col/:colId.
OfOrganization == {"addCopyOfOrg", "deleteOfOrg"}

\* Routes behind CollectionWriteGuard or CopyGuard.
Guarded == {"addCopy", "updateCopy", "deleteCopy", "archive", "deleteCollection",
            "attach", "detach"} \cup OfOrganization

Ops == Guarded \cup {"upload", "import", "addCollection"}

\* What stores copies by an upsert.
Creating == {"addCopy", "addCopyOfOrg", "upload", "import"}

PCs == {"idle", "guard", "write", "row", "readCounts", "countConventions",
        "listCopies", "deleteCopies", "deleteRow"}

\* cleared and moved are history: the collections a guard has found not archived,
\* and the copies that other requests have moved since.
Request ==
    [pc : PCs, op : Ops \cup {None}, org : Orgs \cup {None}, col : Nat,
     con : Cons \cup {None}, copy : Nat, rows : Seq(Labels \cup {BadLabel}),
     left : SUBSET Nat, cleared : SUBSET Nat, moved : SUBSET Nat]

Idle == [pc |-> "idle", op |-> None, org |-> None, col |-> 0, con |-> None, copy |-> 0,
         rows |-> <<>>, left |-> {}, cleared |-> {}, moved |-> {}]

TypeOK ==
    /\ collections \in Seq(Collection)
    /\ copies \in Seq(Copy)
    /\ joins \in Seq(Join)
    /\ requests \in [Requests -> Request]
    /\ received \in 0 .. MaxRequests
    /\ crashed \in BOOLEAN
    /\ strayed \subseteq Orgs \X DOMAIN collections

Exists(c) == c \in DOMAIN collections /\ ~collections[c].gone

Present(i) == i \in DOMAIN copies /\ ~copies[i].gone

CopiesOf(c) == {i \in DOMAIN copies : Present(i) /\ copies[i].col = c}

Attached(c) == \E j \in DOMAIN joins : joins[j].col = c

\* What the foreign keys refuse to delete.
Referenced(c) == CopiesOf(c) # {} \/ Attached(c)

Go(r, pc) == requests' = [requests EXCEPT ![r].pc = pc]

Answer(r) == requests' = [requests EXCEPT ![r] = Idle]

\* Request r goes on as req and may have moved copies, under requests that are
\* past their guard.
Moving(r, req) ==
    LET now == {i \in DOMAIN copies : copies'[i].col # copies[i].col} IN
    requests' = [s \in Requests |->
        IF s = r THEN req
        ELSE IF requests[s].cleared = {} THEN requests[s]
        ELSE [requests[s] EXCEPT !.moved = @ \cup now]]

Keep == UNCHANGED <<received, crashed, strayed>>

-----------------------------------------------------------------------------
Init ==
    /\ collections = [c \in DOMAIN FirstOrgs |->
            [org |-> FirstOrgs[c], archived |-> c \in FirstArchived, gone |-> FALSE]]
    /\ copies = [i \in DOMAIN FirstCopies |->
            [org |-> FirstOrgs[FirstCopies[i].col], col |-> FirstCopies[i].col,
             label |-> FirstCopies[i].label, borrowed |-> FALSE, gone |-> FALSE]]
    /\ joins = FirstJoins
    /\ requests = [r \in Requests |-> Idle]
    /\ received = 0
    /\ crashed = FALSE
    /\ strayed = {}

CsvRows == Labels \cup {BadLabel}

\* What is sent as n rows, one each for a copy.
Sent(n) == [1 .. n -> CsvRows]

Call(op, org, col, con, copy, rows) ==
    [Idle EXCEPT !.op = op, !.pc = IF op \in Guarded THEN "guard" ELSE "write",
                 !.org = org, !.col = col, !.con = con, !.copy = copy, !.rows = rows]

\* What can be asked of the tables as they are.
Calls ==
    LET cols == DOMAIN collections IN
    {Call(op, o, c, None, 0, rows) :
        op \in {"addCopy", "addCopyOfOrg"}, o \in Orgs, c \in cols, rows \in Sent(1)}
    \cup {Call("deleteOfOrg", o, c, None, 0, <<>>) : o \in Orgs, c \in cols}
    \cup {Call("upload", o, c, None, 0, rows) : o \in Orgs, c \in cols, rows \in Sent(2)}
    \cup {Call("import", o, 0, None, 0, rows) : o \in Orgs, rows \in Sent(2)}
    \cup {Call("updateCopy", None, c, None, i, <<>>) : i \in DOMAIN copies, c \in cols}
    \cup {Call("deleteCopy", None, 0, None, i, <<>>) : i \in DOMAIN copies}
    \cup {Call(op, None, c, None, 0, <<>>) : op \in {"archive", "deleteCollection"}, c \in cols}
    \cup {Call("addCollection", o, 0, n, 0, <<>>) : o \in Orgs, n \in Cons \cup {None}}
    \cup {Call(op, None, c, n, 0, <<>>) : op \in {"attach", "detach"}, c \in cols, n \in Cons}

Receive(r) ==
    /\ requests[r] = Idle
    /\ received < MaxRequests
    /\ received' = received + 1
    /\ \E req \in Calls : requests' = [requests EXCEPT ![r] = req]
    /\ UNCHANGED <<tables, crashed, strayed>>

\* The collections that CollectionWriteGuard and CopyGuard read.  The former takes
\* params.id for a collection's: on the organization's routes it reads the one that
\* is numbered like the organization, whatever colId is.
Checked(req) ==
    CASE req.op = "updateCopy" -> {copies[req.copy].col, req.col}
      [] req.op = "deleteCopy" -> {copies[req.copy].col}
      [] req.op \in OfOrganization -> {req.org}
      [] OTHER -> {req.col}

\* Mutation: a copy can be moved to a collection of another organization.
MayWriteAcross(req) ==
    /\ req.copy # 0 => Present(req.copy)
    /\ \A c \in Checked(req) : Exists(c) /\ ~collections[c].archived

\* Mutation: an archived collection can be written to.
MayWriteArchived(req) ==
    /\ req.copy # 0 => Present(req.copy)
    /\ \A c \in Checked(req) : Exists(c)
    /\ req.op = "updateCopy" =>
        (req.col = copies[req.copy].col \/ collections[req.col].org = copies[req.copy].org)

\* No collection that a guard reads is archived, and a copy does not move to
\* another organization's.
MayWrite(req) ==
    /\ req.copy # 0 => Present(req.copy)
    /\ \A c \in Checked(req) : Exists(c) /\ ~collections[c].archived
    /\ req.op = "updateCopy" =>
        (req.col = copies[req.copy].col \/ collections[req.col].org = copies[req.copy].org)

\* Where a handler starts: the organization's route to a deletion does not look
\* at the counts.
Starts(op) ==
    CASE op = "deleteCollection" -> "readCounts"
      [] op = "deleteOfOrg" -> "countConventions"
      [] OTHER -> "write"

Guard(r) ==
    LET req == requests[r] IN
    /\ req.pc = "guard"
    /\ \/ ~MayWrite(req) /\ Answer(r)
       \/ /\ MayWrite(req)
          /\ requests' = [requests EXCEPT
                ![r].pc = Starts(req.op),
                ![r].cleared = {c \in Checked(req) : ~collections[c].archived}]
    /\ UNCHANGED tables
    /\ Keep

-----------------------------------------------------------------------------
(* Copies *)

\* Mutation: a row that cannot be parsed is stored as it is.
UpsertUnparsed(o, c, label) ==
    /\ Exists(c)
    /\ Len(copies) < MaxCopies
    /\ copies' = Append(copies, [org |-> o, col |-> c, label |-> label,
                                 borrowed |-> FALSE, gone |-> FALSE])
    /\ UNCHANGED strayed

\* CopyService.createCopy: an upsert on the organization and the label, which
\* moves a copy that has the label to the collection of the request.
Upsert(o, c, label) ==
    LET found == {i \in DOMAIN copies : Present(i) /\ copies[i].org = o /\ copies[i].label = label}
        taken == {i \in CopiesOf(c) : copies[i].label = label} IN
    /\ Exists(c)
    /\ label \in Labels
    /\ taken \subseteq found
    /\ IF found = {} THEN
            /\ Len(copies) < MaxCopies
            /\ copies' = Append(copies, [org |-> o, col |-> c, label |-> label,
                                         borrowed |-> FALSE, gone |-> FALSE])
       ELSE copies' = [i \in DOMAIN copies |->
                IF i \in found THEN [copies[i] EXCEPT !.col = c] ELSE copies[i]]
    /\ strayed' = IF collections[c].org = o THEN strayed ELSE strayed \cup {<<o, c>>}

AddCopy(r) ==
    LET req == requests[r] IN
    /\ req.op \in {"addCopy", "addCopyOfOrg"}
    /\ req.pc = "write"
    /\ Upsert(req.org, req.col, req.rows[1]) \/ UNCHANGED <<copies, strayed>>
    /\ Moving(r, Idle)
    /\ UNCHANGED <<collections, joins, received, crashed>>

\* Fails when the organization has a collection of that name.
Create(o) ==
    /\ Len(collections) < MaxCols
    /\ collections' = Append(collections, [org |-> o, archived |-> FALSE, gone |-> FALSE])

\* An import creates its collection first, and keeps it whatever follows.
StartRows(r) ==
    LET req == requests[r] IN
    /\ req.pc = "write"
    /\ \/ /\ req.op = "upload"
          /\ Go(r, "row")
          /\ UNCHANGED collections
       \/ /\ req.op = "import"
          /\ Create(req.org)
          /\ requests' = [requests EXCEPT ![r].pc = "row", ![r].col = Len(collections')]
       \/ /\ req.op = "import"
          /\ Answer(r)
          /\ UNCHANGED collections
    /\ UNCHANGED <<copies, joins>>
    /\ Keep

\* After a row that fails, the game of no copy is looked up, outside of any
\* try: the callback rejects, nobody handles it, and the process ends.
UploadRow(r) ==
    LET req == requests[r] IN
    /\ req.pc = "row"
    /\ \/ /\ req.rows = <<>>
          /\ Answer(r)
          /\ UNCHANGED <<copies, crashed, strayed>>
       \/ /\ req.rows # <<>>
          /\ Upsert(req.org, req.col, Head(req.rows))
          /\ Moving(r, [req EXCEPT !.rows = Tail(@)])
          /\ UNCHANGED crashed
       \/ /\ req.rows # <<>>
          /\ crashed' = TRUE
          /\ requests' = [s \in Requests |-> Idle]
          /\ UNCHANGED <<copies, strayed>>
    /\ UNCHANGED <<collections, joins, received>>

UpdateCopy(r) ==
    LET req == requests[r] IN
    /\ req.op = "updateCopy"
    /\ req.pc = "write"
    /\ \/ /\ Present(req.copy)
          /\ Exists(req.col)
          /\ \A i \in CopiesOf(req.col) \ {req.copy} : copies[i].label # copies[req.copy].label
          /\ copies' = [copies EXCEPT ![req.copy].col = req.col]
       \/ UNCHANGED copies
    /\ Moving(r, Idle)
    /\ UNCHANGED <<collections, joins>>
    /\ Keep

\* Mutation: the check-outs of the copy are deleted with it.
DeleteCopyCascading(r) ==
    LET req == requests[r] IN
    /\ req.op = "deleteCopy"
    /\ req.pc = "write"
    /\ Present(req.copy)
    /\ copies' = [copies EXCEPT ![req.copy].gone = TRUE]
    /\ Answer(r)
    /\ UNCHANGED <<collections, joins>>
    /\ Keep

DeleteCopy(r) ==
    LET req == requests[r] IN
    /\ req.op = "deleteCopy"
    /\ req.pc = "write"
    /\ \/ /\ Present(req.copy)
          /\ ~copies[req.copy].borrowed
          /\ copies' = [copies EXCEPT ![req.copy].gone = TRUE]
       \/ UNCHANGED copies
    /\ Answer(r)
    /\ UNCHANGED <<collections, joins>>
    /\ Keep

\* The first check-out of a copy, from then on part of its history.
Borrow ==
    /\ \E i \in DOMAIN copies :
        /\ Present(i) /\ ~copies[i].borrowed
        /\ copies' = [copies EXCEPT ![i].borrowed = TRUE]
    /\ UNCHANGED <<collections, joins, requests>>
    /\ Keep

-----------------------------------------------------------------------------
(* Collections *)

Archive(r) ==
    LET req == requests[r] IN
    /\ req.op = "archive"
    /\ req.pc = "write"
    /\ collections' = IF Exists(req.col)
                      THEN [collections EXCEPT ![req.col].archived = TRUE] ELSE collections
    /\ Answer(r)
    /\ UNCHANGED <<copies, joins>>
    /\ Keep

\* The controller refuses a collection with copies or conventions; the service
\* then asks about conventions again and deletes the copies it finds.
ReadCounts(r) ==
    /\ requests[r].pc = "readCounts"
    /\ IF ~Exists(requests[r].col) \/ Referenced(requests[r].col) THEN Answer(r)
       ELSE Go(r, "countConventions")
    /\ UNCHANGED tables
    /\ Keep

\* The count takes the id as it is given: from the organization's route, which
\* does not convert colId, it is a string, with which the query is an error.
CountConventions(r) ==
    /\ requests[r].pc = "countConventions"
    /\ IF requests[r].op = "deleteOfOrg" \/ Attached(requests[r].col) THEN Answer(r)
       ELSE Go(r, "listCopies")
    /\ UNCHANGED tables
    /\ Keep

ListCopies(r) ==
    /\ requests[r].pc = "listCopies"
    /\ requests' = [requests EXCEPT ![r].pc = "deleteCopies",
                                    ![r].left = CopiesOf(requests[r].col)]
    /\ UNCHANGED tables
    /\ Keep

DeleteCopies(r) ==
    LET req == requests[r] IN
    /\ req.pc = "deleteCopies"
    /\ \/ /\ req.left = {}
          /\ Go(r, "deleteRow")
          /\ UNCHANGED copies
       \/ \E i \in req.left :
            IF Present(i) /\ ~copies[i].borrowed
            THEN /\ copies' = [copies EXCEPT ![i].gone = TRUE]
                 /\ requests' = [requests EXCEPT ![r].left = @ \ {i}]
            ELSE Answer(r) /\ UNCHANGED copies
    /\ UNCHANGED <<collections, joins>>
    /\ Keep

DeleteRow(r) ==
    LET c == requests[r].col IN
    /\ requests[r].pc = "deleteRow"
    /\ collections' = IF Referenced(c) THEN collections
                      ELSE [collections EXCEPT ![c].gone = TRUE]
    /\ Answer(r)
    /\ UNCHANGED <<copies, joins>>
    /\ Keep

\* createCollection connects the ConventionCollections row whose id is that of
\* the convention, and fails when there is none.
AddCollection(r) ==
    LET req == requests[r] IN
    /\ req.op = "addCollection"
    /\ req.pc = "write"
    /\ \/ /\ Create(req.org)
          /\ \/ req.con = None /\ UNCHANGED joins
             \/ /\ req.con \in DOMAIN joins
                /\ joins[req.con].col # 0
                /\ joins' = [joins EXCEPT ![req.con].col = Len(collections')]
       \/ UNCHANGED <<collections, joins>>
    /\ Answer(r)
    /\ UNCHANGED copies
    /\ Keep

AttachCollection(r) ==
    LET req == requests[r]
        join == [con |-> req.con, col |-> req.col] IN
    /\ req.op = "attach"
    /\ req.pc = "write"
    /\ joins' = IF Exists(req.col) /\ \A j \in DOMAIN joins : joins[j] # join
                THEN Append(joins, join) ELSE joins
    /\ Answer(r)
    /\ UNCHANGED <<collections, copies>>
    /\ Keep

DetachCollection(r) ==
    LET req == requests[r] IN
    /\ req.op = "detach"
    /\ req.pc = "write"
    /\ joins' = [j \in DOMAIN joins |->
            IF joins[j] = [con |-> req.con, col |-> req.col]
            THEN [joins[j] EXCEPT !.col = 0] ELSE joins[j]]
    /\ Answer(r)
    /\ UNCHANGED <<collections, copies>>
    /\ Keep

-----------------------------------------------------------------------------
Step(r) ==
    \/ Guard(r) \/ AddCopy(r) \/ StartRows(r) \/ UploadRow(r) \/ UpdateCopy(r)
    \/ DeleteCopy(r) \/ Archive(r) \/ ReadCounts(r) \/ CountConventions(r)
    \/ ListCopies(r) \/ DeleteCopies(r) \/ DeleteRow(r) \/ AddCollection(r)
    \/ AttachCollection(r) \/ DetachCollection(r)

Quiet ==
    /\ received = MaxRequests
    /\ \A r \in Requests : requests[r] = Idle
    /\ UNCHANGED vars

Next == (\E r \in Requests : Receive(r) \/ Step(r)) \/ Borrow \/ Quiet

Spec == Init /\ [][Next]_vars

-----------------------------------------------------------------------------
(***************************************************************************)
(* A copy belongs to the organization of its collection, whatever moves,   *)
(* archives and deletions happen between a guard and its handler; unless a *)
(* route that names both an organization and a collection of another one   *)
(* has stored a copy there, which nothing but that route can do.           *)
(***************************************************************************)
CopyInOneOrganization ==
    \A i \in DOMAIN copies :
        Present(i) =>
            \/ collections[copies[i].col].org = copies[i].org
            \/ <<copies[i].org, copies[i].col>> \in strayed

Leaves(i, c) ==
    /\ i \in DOMAIN copies /\ Present(i) /\ copies[i].col = c
    /\ copies'[i].gone \/ copies'[i].col # c

Enters(i, c) ==
    /\ copies'[i].col = c
    /\ i \in DOMAIN copies => copies[i].col # c

(***************************************************************************)
(* A copy is moved into an archived collection, or moved or deleted from   *)
(* one, only by a request whose guard has read that collection before it   *)
(* was archived; or before another request moved the copy there.  The      *)
(* exceptions: no guard is about the collection that an upsert takes a     *)
(* copy from, and none about the one it stores it in when the route is an  *)
(* upload's, an import's or the organization's, whose guard reads the      *)
(* collection numbered like the organization.                              *)
(***************************************************************************)
ArchivedAfterTheGuard ==
    [][\A i \in 1 .. Len(copies'), c \in 1 .. Len(collections) :
          (collections[c].archived /\ (Leaves(i, c) \/ Enters(i, c))) =>
              \E r \in Requests :
                  /\ requests'[r] # requests[r]
                  /\ \/ c \in requests[r].cleared
                     \/ Leaves(i, c) /\ i \in requests[r].moved
                     \/ Leaves(i, c) /\ requests[r].op \in Creating
                     \/ Enters(i, c) /\ requests[r].op \in {"upload", "import", "addCopyOfOrg"}]_vars

(***************************************************************************)
(* A copy that has been borrowed is never deleted, nor is a collection     *)
(* with such a copy, also when the loan starts in the middle of a deletion *)
(* (schema.prisma: 'Restrict prevents deleting a copy with checkout        *)
(* history').                                                              *)
(***************************************************************************)
HistoryIsKept ==
    \A i \in DOMAIN copies :
        copies[i].borrowed => ~copies[i].gone /\ Exists(copies[i].col)

-----------------------------------------------------------------------------
(* CollectionWriteGuard 'rejects if the collection is `archived` [...].      *)
(* Resolves `params.colId`' (AUTHORIZATION.md): what it lets pass is for a   *)
(* collection that is not.                                                  *)
ArchivedIsRejected ==
    [][\A r \in Requests :
          (requests[r].pc = "guard" /\ requests'[r].pc \in {"write", "countConventions"}
              /\ requests[r].op \in {"addCopy", "archive", "attach", "detach"} \cup OfOrganization) =>
                  ~collections[requests[r].col].archived]_vars

(* 'Collection still has copies and cannot be deleted.'                     *)
DeletionKeepsCopies ==
    [][\A i \in 1 .. Len(copies), r \in Requests :
          (copies'[i] # copies[i] /\ requests'[r] # requests[r]) =>
              requests[r].op # "deleteCollection"]_vars

(* 'continuing to create remaining copies'                                  *)
UploadContinues == ~crashed

(* 'Join table linking a Convention to the Collections of game copies       *)
(* available at it': only a detachment takes a collection away from one.    *)
AttachedUntilDetached ==
    [][\A j \in 1 .. Len(joins) :
          joins'[j] # joins[j] => joins'[j].col = 0]_vars
=============================================================================
