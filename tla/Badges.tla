------------------------------- MODULE Badges -------------------------------
(***************************************************************************)
(* AttendeeService: the replacement of a lost badge, the one interactive   *)
(* transaction of the system, with the other writers of the Attendee table *)
(* (transferBadge, the Tabletop.Events sync) and the requests that record  *)
(* a check-out or a player for an attendee they have read before.          *)
(*                                                                         *)
(* PostgreSQL runs it at READ COMMITTED: a statement reads the committed   *)
(* rows and the transaction's own; an update waits for the row's lock and  *)
(* then writes over whatever was committed meanwhile.  Inserting a row     *)
(* that references an attendee does not wait, since the replacement        *)
(* changes no key column of the attendee.                                  *)
(***************************************************************************)
EXTENDS Integers, Sequences, FiniteSets

CONSTANTS
    Requests,       \* the handlers that can be in flight together
    Badges,         \* the rows of Attendee
    People,
    Blank,          \* the badgeName of an unassigned badge
    NoOne,          \* a column that is null; also a badge number with no row
    FirstHolder,    \* who is registered on each badge, or Blank
    Winners,        \* for each copy that has been won, the badge of the winner
    Synced,         \* the badges the Tabletop.Events sync rewrites
    MaxRequests,    \* bound: the requests that arrive in a behaviour
    MaxRecords      \* bound: the rows that reference an attendee

ASSUME BadgesAssumption ==
    /\ FirstHolder \in [Badges -> People \cup {Blank}]
    /\ Winners \in Seq(Badges)
    /\ Synced \subseteq Badges
    /\ NoOne \notin Badges \cup People
    /\ Blank \notin People
    /\ MaxRequests \in Nat
    /\ MaxRecords \in Nat

VARIABLES
    badges,         \* the committed Attendee rows
    records,        \* the committed CheckOut, Copy (with a winner) and Player rows
    requests,       \* the local state of every handler
    received,       \* the requests received so far
    present,        \* history: the people who should be on a badge
    contested,      \* history: two writers of a badge have overlapped
    resynced        \* history: a sync has changed who is on a badge

vars == <<badges, records, requests, received, present, contested, resynced>>

-----------------------------------------------------------------------------
Name == [who : People \cup {Blank}, marks : Nat]

\* email stands for all contact columns, user for userId.
Badge == [name : Name, email : People \cup {NoOne}, user : People \cup {NoOne},
          lost : BOOLEAN]

Kinds == {"checkOut", "copy", "player"}

\* of and raced are history: the name the badge bore when the row's request
\* read it, and whether a replacement of that badge overlapped the request.
Record == [kind : Kinds, badge : Badges, of : Name, raced : BOOLEAN]

PCs == {"idle", "readOld", "readNew", "updateOld", "updateNew", "moveCheckOuts",
        "moveCopies", "movePlayers", "commit", "insert"}

NoBadge == [name |-> [who |-> Blank, marks |-> 0], email |-> NoOne, user |-> NoOne,
            lost |-> FALSE]

\* old is the transaction's copy of the lost badge; writes and moved are its
\* uncommitted updates, and the badges in writes are locked.
Idle == [pc |-> "idle", from |-> NoOne, to |-> NoOne, old |-> NoBadge,
         writes |-> <<>>, moved |-> {}, raced |-> FALSE]

TypeOK ==
    /\ badges \in [Badges -> Badge]
    /\ records \in Seq(Record)
    /\ \A r \in Requests :
        /\ requests[r].pc \in PCs
        /\ requests[r].old \in Badge
        /\ DOMAIN requests[r].writes \subseteq Badges
        /\ requests[r].moved \subseteq DOMAIN records
    /\ present \subseteq People
    /\ contested \in BOOLEAN
    /\ resynced \in BOOLEAN

Registered(b) ==
    LET p == FirstHolder[b] IN
    [NoBadge EXCEPT !.name.who = p, !.email = IF p = Blank THEN NoOne ELSE p]

Involved(r) == {requests[r].from, requests[r].to}

Replacing(r) == requests[r].pc \notin {"idle", "insert"}

Locked(b, r) == \E s \in Requests \ {r} : b \in DOMAIN requests[s].writes

\* The row as the transaction sees it: its own update, or the committed row.
Current(r, b) ==
    IF b \in DOMAIN requests[r].writes THEN requests[r].writes[b] ELSE badges[b]

\* The transaction updates a row.
Write(req, b, row) ==
    [c \in DOMAIN req.writes \cup {b} |-> IF c = b THEN row ELSE req.writes[c]]

Contest(bs) == contested' = (contested \/ \E r \in Requests : Replacing(r) /\ Involved(r) \cap bs # {})

-----------------------------------------------------------------------------
Init ==
    /\ badges = [b \in Badges |-> [Registered(b) EXCEPT !.user = Registered(b).email]]
    /\ records = [i \in DOMAIN Winners |->
            [kind |-> "copy", badge |-> Winners[i], of |-> Registered(Winners[i]).name,
             raced |-> FALSE]]
    /\ requests = [r \in Requests |-> Idle]
    /\ received = 0
    /\ present = {p \in People : \E b \in Badges : FirstHolder[b] = p}
    /\ contested = FALSE
    /\ resynced = FALSE

Arrive == received < MaxRequests /\ received' = received + 1

\* The transaction goes on with its next statement, or ends and takes its
\* locks and uncommitted updates with it.
Continue(r, req) == requests' = [requests EXCEPT ![r] = req]

Finish(r) == Continue(r, Idle)

-----------------------------------------------------------------------------
(* Replacement *)

ReceiveReplace(r) ==
    \E from, to \in Badges \cup {NoOne} :
        /\ requests[r] = Idle
        /\ Arrive
        /\ requests' =
            [s \in Requests |->
                IF s = r THEN [Idle EXCEPT !.pc = "readOld", !.from = from, !.to = to]
                ELSE [requests[s] EXCEPT !.raced =
                        @ \/ (requests[s].pc = "insert" /\ requests[s].from = from)]]
        /\ Contest({from, to} \ {NoOne})
        /\ UNCHANGED <<badges, records, present, resynced>>

ReadOld(r) ==
    LET req == requests[r] IN
    /\ req.pc = "readOld"
    /\ Continue(r, [req EXCEPT !.pc = "readNew",
                               !.old = IF req.from \in Badges THEN badges[req.from] ELSE @])
    /\ UNCHANGED <<badges, records, received, present, contested, resynced>>

\* A badge that was itself marked as lost while blank still begins with the
\* blank name.
Unassigned(badge) == badge.name.who = Blank

\* Mutation: that the lost badge was found is not tested.
ReadNewUnfound(r) ==
    LET req == requests[r] IN
    /\ req.pc = "readNew"
    /\ IF req.to \in Badges /\ Unassigned(badges[req.to])
       THEN Continue(r, [req EXCEPT !.pc = "updateOld"])
       ELSE Finish(r)
    /\ UNCHANGED <<badges, records, received, present, contested, resynced>>

\* Mutation: that the new badge is unassigned is not tested.
ReadNewAssigned(r) ==
    LET req == requests[r] IN
    /\ req.pc = "readNew"
    /\ IF req.from \in Badges /\ req.to \in Badges
       THEN Continue(r, [req EXCEPT !.pc = "updateOld"])
       ELSE Finish(r)
    /\ UNCHANGED <<badges, records, received, present, contested, resynced>>

ReadNew(r) ==
    LET req == requests[r] IN
    /\ req.pc = "readNew"
    /\ IF req.from \in Badges /\ req.to \in Badges /\ Unassigned(badges[req.to])
       THEN Continue(r, [req EXCEPT !.pc = "updateOld"])
       ELSE Finish(r)
    /\ UNCHANGED <<badges, records, received, present, contested, resynced>>

\* Mutation: the identity is not cleared on the lost badge.
MarkLostOnly(old) ==
    [old EXCEPT !.name.marks = @ + 1, !.lost = TRUE]

MarkLost(old) ==
    [name |-> [old.name EXCEPT !.marks = @ + 1], email |-> NoOne, user |-> NoOne,
     lost |-> TRUE]

\* Mutation: the update is not part of the transaction.
UpdateOldAtOnce(r) ==
    LET req == requests[r] IN
    /\ req.pc = "updateOld"
    /\ ~Locked(req.from, r)
    /\ badges' = [badges EXCEPT ![req.from] = MarkLost(req.old)]
    /\ Continue(r, [req EXCEPT !.pc = "updateNew"])
    /\ UNCHANGED <<records, received, present, contested, resynced>>

UpdateOld(r) ==
    LET req == requests[r] IN
    /\ req.pc = "updateOld"
    /\ ~Locked(req.from, r)
    /\ Continue(r, [req EXCEPT !.pc = "updateNew",
                               !.writes = Write(req, req.from, MarkLost(req.old))])
    /\ UNCHANGED <<badges, records, received, present, contested, resynced>>

\* Mutation: the whole row is copied, with its mark.
UpdateNewWhole(r) ==
    LET req == requests[r] IN
    /\ req.pc = "updateNew"
    /\ ~Locked(req.to, r)
    /\ Continue(r, [req EXCEPT !.pc = "moveCheckOuts",
                               !.writes = Write(req, req.to, req.old)])
    /\ UNCHANGED <<badges, records, received, present, contested, resynced>>

UpdateNew(r) ==
    LET req == requests[r]
        new == [req.old EXCEPT !.lost = Current(r, req.to).lost] IN
    /\ req.pc = "updateNew"
    /\ ~Locked(req.to, r)
    /\ Continue(r, [req EXCEPT !.pc = "moveCheckOuts",
                               !.writes = Write(req, req.to, new)])
    /\ UNCHANGED <<badges, records, received, present, contested, resynced>>

\* An updateMany takes the rows that are there when it runs.
Move(r, pc, kind, next) ==
    LET req == requests[r] IN
    /\ req.pc = pc
    /\ Continue(r, [req EXCEPT !.pc = next,
                               !.moved = @ \cup {i \in DOMAIN records :
                                                    /\ records[i].kind = kind
                                                    /\ records[i].badge = req.from}])
    /\ UNCHANGED <<badges, records, received, present, contested, resynced>>

MoveCheckOuts(r) == Move(r, "moveCheckOuts", "checkOut", "moveCopies")
MoveCopies(r) == Move(r, "moveCopies", "copy", "movePlayers")
\* Mutation: the last update moves check-outs again instead of players.
MovePlayersTwice(r) == Move(r, "movePlayers", "checkOut", "commit")

MovePlayers(r) == Move(r, "movePlayers", "player", "commit")

Commit(r) ==
    LET req == requests[r] IN
    /\ req.pc = "commit"
    /\ badges' = [b \in Badges |-> Current(r, b)]
    /\ records' = [i \in DOMAIN records |->
            IF i \in req.moved THEN [records[i] EXCEPT !.badge = req.to] ELSE records[i]]
    /\ Finish(r)
    /\ UNCHANGED <<received, present, contested, resynced>>

\* A statement fails, the transaction times out after Prisma's five seconds,
\* or PostgreSQL picks it as the victim of a deadlock.
Abort(r) ==
    /\ requests[r].pc # "idle"
    /\ Finish(r)
    /\ UNCHANGED <<badges, records, received, present, contested, resynced>>

-----------------------------------------------------------------------------
(* The other writers *)

\* Mutation: the account of the former holder stays connected.
TransferConnected(r) ==
    \E b \in Badges, p \in People \ present :
        LET name == [who |-> p, marks |-> 0] IN
        /\ requests[r] = Idle
        /\ Arrive
        /\ ~Locked(b, r)
        /\ badges' = [badges EXCEPT ![b].name = name, ![b].email = p]
        /\ records' = [i \in DOMAIN records |->
                IF records[i].badge = b THEN [records[i] EXCEPT !.of = name] ELSE records[i]]
        /\ present' = (present \ {badges[b].email}) \cup {p}
        /\ Contest({b})
        /\ UNCHANGED <<requests, resynced>>

\* transferBadge is one update: it waits for the lock and writes at once.  The
\* records of the badge are then the new holder's, somebody without a badge.
Transfer(r) ==
    \E b \in Badges, p \in People \ present :
        LET name == [who |-> p, marks |-> 0] IN
        /\ requests[r] = Idle
        /\ Arrive
        /\ ~Locked(b, r)
        /\ \A c \in Badges : badges[c].email # p
        /\ badges' = [badges EXCEPT ![b].name = name, ![b].email = p, ![b].user = NoOne]
        /\ records' = [i \in DOMAIN records |->
                IF records[i].badge = b THEN [records[i] EXCEPT !.of = name] ELSE records[i]]
        /\ present' = (present \ {badges[b].email}) \cup {p}
        /\ requests' = [s \in Requests |->
                [requests[s] EXCEPT !.raced =
                    @ \/ (requests[s].pc = "insert" /\ requests[s].from = b)]]
        /\ Contest({b})
        /\ UNCHANGED resynced

\* syncAttendee upserts the registration of the ticket system over the row.
Sync(b) ==
    /\ b \in Synced
    /\ \A r \in Requests : b \notin DOMAIN requests[r].writes
    /\ badges' = [badges EXCEPT ![b].name = Registered(b).name,
                                ![b].email = Registered(b).email]
    /\ resynced' = (resynced \/ badges' # badges)
    /\ Contest({b})
    /\ UNCHANGED <<records, requests, received, present>>

\* A check-out, or the page on which players are entered, reads the attendee
\* of a badge; the badge may be one that was reported lost.
ReadAttendee(r) ==
    \E b \in Badges :
        /\ requests[r] = Idle
        /\ Arrive
        /\ Continue(r, [Idle EXCEPT !.pc = "insert", !.from = b, !.old = badges[b],
                            !.raced = \E s \in Requests : Replacing(s) /\ requests[s].from = b])
        /\ UNCHANGED <<badges, records, present, contested, resynced>>

InsertRecord(r) ==
    LET req == requests[r] IN
    /\ req.pc = "insert"
    /\ Len(records) < MaxRecords
    /\ \E kind \in {"checkOut", "player"} :
        records' = Append(records, [kind |-> kind, badge |-> req.from,
                                    of |-> req.old.name, raced |-> req.raced])
    /\ Finish(r)
    /\ UNCHANGED <<badges, received, present, contested, resynced>>

-----------------------------------------------------------------------------
Receive(r) == ReceiveReplace(r) \/ Transfer(r) \/ ReadAttendee(r)

Step(r) ==
    \/ ReadOld(r) \/ ReadNew(r) \/ UpdateOld(r) \/ UpdateNew(r)
    \/ MoveCheckOuts(r) \/ MoveCopies(r) \/ MovePlayers(r) \/ Commit(r)
    \/ InsertRecord(r)

Quiet ==
    /\ received = MaxRequests
    /\ \A r \in Requests : requests[r] = Idle
    /\ UNCHANGED vars

Next ==
    \/ \E r \in Requests : Receive(r) \/ Step(r) \/ Abort(r)
    \/ \E b \in Badges : Sync(b)
    \/ Quiet

Spec == Init /\ [][Next]_vars

-----------------------------------------------------------------------------
Disputed == contested \/ resynced

(***************************************************************************)
(* Unless two writers of a badge overlapped or a sync put somebody on one, *)
(* everyone who should have a badge is on exactly one, through any chain   *)
(* of replacements (of badges already lost too), transfers and             *)
(* transactions that end halfway; nobody else is on any ('so the person    *)
(* isn't split across two records').                                       *)
(***************************************************************************)
HeldOnce ==
    ~Disputed =>
        \A p \in People :
            Cardinality({b \in Badges : badges[b].email = p}) = IF p \in present THEN 1 ELSE 0

(***************************************************************************)
(* A badge is never linked to the account of anyone but its holder,        *)
(* however replacements and transfers interleave; only a sync that changes *)
(* the holder leaves the account behind.                                   *)
(***************************************************************************)
AccountOfHolder ==
    ~resynced => \A b \in Badges : badges[b].user \in {NoOne, badges[b].email}

(***************************************************************************)
(* A badge reported lost stays marked as lost: no later replacement,       *)
(* transfer or sync puts it back, overlapping or not.                      *)
(***************************************************************************)
LostForGood == [][\A b \in Badges : badges[b].lost => badges'[b].lost]_vars

-----------------------------------------------------------------------------
(***************************************************************************)
(* 'Badge replacement can only be done to unassigned badges.': no overlap  *)
(* is excepted.                                                            *)
(***************************************************************************)
OnlyUnassignedReplaced ==
    [][\A r \in Requests : Commit(r) => Unassigned(badges[requests[r].to])]_vars

(***************************************************************************)
(* 'Identity now lives on the replacement badge; clear it here so the      *)
(* person isn't split across two records.'                                 *)
(***************************************************************************)
IdentityOnOneRecord ==
    \A b, c \in Badges : (badges[b].email = badges[c].email /\ b # c) => badges[b].email = NoOne

-----------------------------------------------------------------------------
(* Refinement: until writers overlap or a sync disputes who holds a badge,  *)
(* the tables are the book of module BadgeBook.                             *)

EntryOf(b) == [name |-> badges[b].name, email |-> badges[b].email, user |-> badges[b].user]

\* Nothing is promised of a row whose request overlapped a replacement.
Settled == {i \in DOMAIN records : ~records[i].raced}

BookOfTable == [b \in Badges |-> EntryOf(b)]

RecordsOfTable == [i \in Settled |-> records[i].badge]

Book == INSTANCE BadgeBook WITH
            book <- BookOfTable, records <- RecordsOfTable, disputed <- Disputed

(***************************************************************************)
(* A replacement moves its holder and all of its records in one step or,   *)
(* if it ends before its commit, not at all, whatever check-outs, failures *)
(* and replacements of other badges happen between its statements.         *)
(***************************************************************************)
ImplementsBook == Book!Spec
=============================================================================
